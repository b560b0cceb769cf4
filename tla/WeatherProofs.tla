---------------------------- MODULE WeatherProofs ----------------------------
(***************************************************************************)
(* Proofs about Weather, for answers in any number of pieces, any sizes of     *)
(* buffer and piece, and any number of requests.                              *)
(***************************************************************************)
EXTENDS Weather, TLAPS

(***************************************************************************)
(* The text ends in the buffer: no piece reaches as far as PieceLimit, so      *)
(* that the NULs from there on are those of the memset.                       *)
(***************************************************************************)
RestIsZero ==
  /\ DOMAIN buffer = Offsets
  /\ \A k \in Offsets : k >= PieceLimit => buffer[k] = 0

LEMMA ZeroedRest == ASSUME buffer = Zeroed PROVE RestIsZero
  BY DEF RestIsZero, Zeroed

(* The number of pieces taken stays a number of pieces of the answer.          *)
HandedOfAnswer == answer \in Answers /\ handed \in 0 .. Len(answer.pieces)

LEMMA PiecesHaveLength == \A a \in Answers : Len(a.pieces) \in Nat
  BY WeatherAssumption

LEMMA HandedStep == HandedOfAnswer /\ [Next]_vars => HandedOfAnswer'
<1> SUFFICES ASSUME HandedOfAnswer, [Next]_vars
             PROVE  HandedOfAnswer'
  OBVIOUS
<1>1. CASE Request \/ NoHandle
  BY <1>1, PiecesHaveLength DEF Request, NoHandle, HandedOfAnswer
<1>2. CASE Piece
  <2>1. handed # Len(answer.pieces) /\ handed' = handed + 1 /\ answer' = answer
    BY <1>2 DEF Piece, AllHanded
  <2> QED
    BY <2>1, PiecesHaveLength DEF HandedOfAnswer
<1>3. CASE ~(Request \/ NoHandle \/ Piece)
  BY <1>3 DEF Next, PerformFails, PerformEnds, ParseFails, ParseSucceeds, ParseFaults,
              vars, HandedOfAnswer
<1> QED
  BY <1>1, <1>2, <1>3

LEMMA NextPieceType ==
  ASSUME HandedOfAnswer, ~AllHanded
  PROVE  NextPiece \in Nat \ {0}
<1>1. answer.pieces \in Seq(Nat \ {0})
  BY WeatherAssumption DEF HandedOfAnswer
<1>2. handed + 1 \in 1 .. Len(answer.pieces)
  BY <1>1 DEF AllHanded, HandedOfAnswer
<1> QED
  BY <1>1, <1>2 DEF NextPiece

LEMMA RestIsZeroStep == RestIsZero /\ HandedOfAnswer /\ [Next]_vars => RestIsZero'
<1> SUFFICES ASSUME RestIsZero, HandedOfAnswer, [Next]_vars
             PROVE  RestIsZero'
  OBVIOUS
<1>1. CASE Request \/ NoHandle
  BY <1>1 DEF Request, NoHandle, RestIsZero, Zeroed
<1>2. CASE Piece
  <2>1. NextPiece \in Nat
    BY <1>2, NextPieceType DEF Piece
  <2> DEFINE n == NextPiece
             new(k) == offset + k + 1
  <2>2. n \in Nat /\ n <= PieceLimit /\ PieceLimit \in Nat
    BY <1>2, <2>1, WeatherAssumption DEF Piece
  <2>3. buffer' = [k \in Offsets |-> IF k < n THEN new(k) ELSE buffer[k]]
    BY <1>2 DEF Piece
  <2>4. Offsets \subseteq Int
    BY WeatherAssumption DEF Offsets
  <2> HIDE DEF n, new
  <2> QED
    BY <2>2, <2>3, <2>4 DEF RestIsZero
<1>3. CASE ~(Request \/ NoHandle \/ Piece)
  <2>1. buffer' = buffer
    BY <1>3 DEF Next, PerformFails, PerformEnds, ParseFails, ParseSucceeds, ParseFaults,
                vars
  <2> QED
    BY <2>1 DEF RestIsZero
<1> QED
  BY <1>1, <1>2, <1>3

(* Whatever the pieces, the parser is given a string that ends in the buffer.   *)
THEOREM TextIsTerminatedCorrect == Spec => []TextIsTerminated
<1>1. Init => RestIsZero /\ HandedOfAnswer
  BY PiecesHaveLength DEF Init, RestIsZero, Zeroed, HandedOfAnswer
<1>2. RestIsZero /\ HandedOfAnswer /\ [Next]_vars => RestIsZero' /\ HandedOfAnswer'
  BY RestIsZeroStep, HandedStep
<1>3. RestIsZero => TextIsTerminated
  <2>1. BufferSize - 1 \in Offsets /\ BufferSize - 1 >= PieceLimit
    BY WeatherAssumption DEF Offsets
  <2> QED
    BY <2>1 DEF RestIsZero, TextIsTerminated
<1> QED
  BY <1>1, <1>2, <1>3, PTL DEF Spec

(***************************************************************************)
(* Day records.                                                             *)
(***************************************************************************)
NoRecordsYet ==
  /\ answer \in Answers
  /\ filled \in Nat
  /\ pc \in {"perform", "parse"} => filled = 0

LEMMA DaysReadBounded ==
  ASSUME answer \in Answers
  PROVE  DaysRead(WEATHER_DAY_MAX) \in 0 .. WEATHER_DAY_MAX
  BY WeatherAssumption DEF DaysRead

(* The records are zero after every failure and while a request is under way.   *)
THEOREM RecordsOfSuccessOnlyCorrect == Spec => []RecordsOfSuccessOnly
<1>1. Init => NoRecordsYet /\ RecordsOfSuccessOnly
  BY DEF Init, NoRecordsYet, RecordsOfSuccessOnly
<1>2. NoRecordsYet /\ RecordsOfSuccessOnly /\ [Next]_vars
        => NoRecordsYet' /\ RecordsOfSuccessOnly'
  <2> SUFFICES ASSUME NoRecordsYet, RecordsOfSuccessOnly, [Next]_vars
               PROVE  NoRecordsYet' /\ RecordsOfSuccessOnly'
    OBVIOUS
  <2>1. CASE Request \/ NoHandle
    BY <2>1 DEF Request, NoHandle, NoRecordsYet, RecordsOfSuccessOnly
  <2>2. CASE Piece \/ PerformFails \/ PerformEnds \/ ParseFails
    BY <2>2 DEF Piece, PerformFails, PerformEnds, ParseFails, NoRecordsYet,
                RecordsOfSuccessOnly
  <2>3. CASE ParseSucceeds
    <3>1. DaysRead(WEATHER_DAY_MAX) \in 0 .. WEATHER_DAY_MAX
      BY DaysReadBounded DEF NoRecordsYet
    <3> QED
      BY <2>3, <3>1, WeatherAssumption
         DEF ParseSucceeds, NoRecordsYet, RecordsOfSuccessOnly
  <2>4. CASE ParseFaults \/ UNCHANGED vars
    BY <2>4 DEF ParseFaults, vars, NoRecordsYet, RecordsOfSuccessOnly
  <2> QED
    BY <2>1, <2>2, <2>3, <2>4 DEF Next
<1> QED
  BY <1>1, <1>2, PTL DEF Spec

(***************************************************************************)
(* Types.                                                                   *)
(***************************************************************************)

(* Only a request takes a handle, and the one under way has not given it back.   *)
HandlesInv ==
  /\ pc \in {"idle", "perform", "parse", "dead"}
  /\ requests \in 0 .. MaxRequests
  /\ handles \in 0 .. requests
  /\ pc = "perform" => handles > 0

BytesInv ==
  /\ offset \in Nat
  /\ buffer \in [Offsets -> Nat]

RecordsInv ==
  /\ filled \in 0 .. WEATHER_DAY_MAX
  /\ announced \in {0, WEATHER_DAY_MAX}
  /\ ret \in {-3, -2, 0}

LEMMA HandlesStep == HandlesInv /\ [Next]_vars => HandlesInv'
<1> SUFFICES ASSUME HandlesInv, [Next]_vars PROVE HandlesInv'
  OBVIOUS
<1> USE WeatherAssumption DEF HandlesInv
<1>1. CASE Request
  BY <1>1 DEF Request
<1>2. CASE NoHandle
  BY <1>2 DEF NoHandle
<1>3. CASE PerformEnds
  BY <1>3 DEF PerformEnds
<1>4. CASE Piece \/ PerformFails
  BY <1>4 DEF Piece, PerformFails
<1>5. CASE ParseFails \/ ParseSucceeds \/ ParseFaults
  BY <1>5 DEF ParseFails, ParseSucceeds, ParseFaults
<1>6. CASE UNCHANGED vars
  BY <1>6 DEF vars
<1> QED
  BY <1>1, <1>2, <1>3, <1>4, <1>5, <1>6 DEF Next

LEMMA BytesStep == BytesInv /\ HandedOfAnswer /\ [Next]_vars => BytesInv'
<1> SUFFICES ASSUME BytesInv, HandedOfAnswer, [Next]_vars PROVE BytesInv'
  OBVIOUS
<1>1. Offsets \subseteq Nat
  BY WeatherAssumption DEF Offsets
<1>2. CASE Request \/ NoHandle
  BY <1>2 DEF Request, NoHandle, Zeroed, BytesInv
<1>3. CASE Piece
  <2> DEFINE n == NextPiece
  <2>1. n \in Nat
    BY <1>3, NextPieceType DEF Piece
  <2>2. /\ buffer' = [k \in Offsets |-> IF k < n THEN offset + k + 1 ELSE buffer[k]]
        /\ offset' = offset + n
    BY <1>3 DEF Piece
  <2> HIDE DEF n
  <2> QED
    BY <1>1, <2>1, <2>2 DEF BytesInv
<1>4. CASE ~(Request \/ NoHandle \/ Piece)
  <2>1. UNCHANGED <<buffer, offset>>
    BY <1>4 DEF Next, PerformFails, PerformEnds, ParseFails, ParseSucceeds, ParseFaults,
                vars
  <2> QED
    BY <2>1 DEF BytesInv
<1> QED
  BY <1>2, <1>3, <1>4

LEMMA RecordsStep == RecordsInv /\ HandedOfAnswer /\ [Next]_vars => RecordsInv'
<1> SUFFICES ASSUME RecordsInv, HandedOfAnswer, [Next]_vars PROVE RecordsInv'
  OBVIOUS
<1>1. DaysRead(WEATHER_DAY_MAX) \in 0 .. WEATHER_DAY_MAX /\ WEATHER_DAY_MAX \in Nat
  BY DaysReadBounded, WeatherAssumption DEF HandedOfAnswer
<1>2. CASE Request \/ NoHandle
  BY <1>1, <1>2 DEF Request, NoHandle, RecordsInv
<1>3. CASE Piece \/ PerformFails \/ PerformEnds
  BY <1>3 DEF Piece, PerformFails, PerformEnds, RecordsInv
<1>4. CASE ParseFails \/ ParseFaults \/ UNCHANGED vars
  BY <1>4 DEF ParseFails, ParseFaults, vars, RecordsInv
<1>5. CASE ParseSucceeds
  BY <1>1, <1>5 DEF ParseSucceeds, RecordsInv
<1> QED
  BY <1>2, <1>3, <1>4, <1>5 DEF Next

(* Every variable keeps its type: no more handles than requests are open, no     *)
(* more records filled than the caller has.                                   *)
THEOREM TypeCorrect == Spec => []TypeOK
<1> DEFINE Types == HandlesInv /\ BytesInv /\ RecordsInv /\ HandedOfAnswer
<1>1. Init => Types
  BY PiecesHaveLength, WeatherAssumption
     DEF Init, Zeroed, HandlesInv, BytesInv, RecordsInv, HandedOfAnswer
<1>2. Types /\ [Next]_vars => Types'
  BY HandlesStep, BytesStep, RecordsStep, HandedStep
<1>3. Types => TypeOK
  BY WeatherAssumption DEF HandlesInv, BytesInv, RecordsInv, HandedOfAnswer, TypeOK
<1> QED
  BY <1>1, <1>2, <1>3, PTL DEF Spec

(***************************************************************************)
(* An answer in one piece: before it the buffer is zero and nothing was handed   *)
(* over, behind it the buffer is the answer.                                  *)
(***************************************************************************)
OnePieceInv ==
  Len(answer.pieces) = 1 =>
    /\ pc = "perform" /\ handed = 0 => buffer = Zeroed /\ offset = 0
    /\ pc \in {"perform", "parse"} /\ handed = 1 => WholeAnswer
    /\ pc = "parse" => handed = 1

LEMMA OnePieceStep == OnePieceInv /\ HandedOfAnswer /\ [Next]_vars => OnePieceInv'
<1> SUFFICES ASSUME OnePieceInv, HandedOfAnswer, [Next]_vars PROVE OnePieceInv'
  OBVIOUS
<1>1. CASE Request \/ NoHandle
  BY <1>1 DEF Request, NoHandle, OnePieceInv
<1>2. CASE Piece
  <2> SUFFICES ASSUME Len(answer.pieces) = 1
               PROVE  pc' = "perform" /\ handed' = 1 /\ WholeAnswer'
    BY <1>2 DEF Piece, OnePieceInv
  <2>1. pc = "perform" /\ handed = 0
    BY <1>2 DEF Piece, AllHanded, HandedOfAnswer
  <2>2. buffer = Zeroed /\ offset = 0
    BY <2>1 DEF OnePieceInv
  <2> DEFINE n == NextPiece
  <2>3. n \in Nat
    BY <1>2, NextPieceType DEF Piece
  <2>4. /\ buffer' = [k \in Offsets |-> IF k < n THEN offset + k + 1 ELSE buffer[k]]
        /\ offset' = offset + n /\ handed' = handed + 1 /\ pc' = pc
    BY <1>2 DEF Piece
  <2>5. Offsets \subseteq Nat
    BY WeatherAssumption DEF Offsets
  <2> HIDE DEF n
  <2>6. offset' = n
    BY <2>2, <2>3, <2>4
  <2>7. ASSUME NEW k \in Offsets PROVE buffer'[k] = IF k < n THEN k + 1 ELSE 0
    BY <2>2, <2>3, <2>4, <2>5 DEF Zeroed
  <2> QED
    BY <2>1, <2>4, <2>6, <2>7 DEF WholeAnswer, Offsets
<1>3. CASE PerformFails
  BY <1>3 DEF PerformFails, OnePieceInv
<1>4. CASE PerformEnds
  <2>1. WholeAnswer' = WholeAnswer
    BY <1>4 DEF PerformEnds, WholeAnswer, Offsets
  <2> QED
    BY <1>4, <2>1 DEF PerformEnds, AllHanded, OnePieceInv
<1>5. CASE ParseFails \/ ParseSucceeds \/ ParseFaults
  BY <1>5 DEF ParseFails, ParseSucceeds, ParseFaults, OnePieceInv
<1>6. CASE UNCHANGED vars
  <2>1. WholeAnswer' = WholeAnswer
    BY <1>6 DEF vars, WholeAnswer, Offsets
  <2> QED
    BY <1>6, <2>1 DEF vars, OnePieceInv
<1> QED
  BY <1>1, <1>2, <1>3, <1>4, <1>5, <1>6 DEF Next

(* An answer that comes in one piece of legal size succeeds and its days are       *)
(* stored, whatever the requests before it left in the buffer.                 *)
THEOREM OnePieceUnderstoodCorrect == Spec => OnePieceUnderstood
<1>1. Init => OnePieceInv /\ HandedOfAnswer
  BY PiecesHaveLength DEF Init, OnePieceInv, HandedOfAnswer
<1>2. OnePieceInv /\ HandedOfAnswer /\ [Next]_vars => OnePieceInv' /\ HandedOfAnswer'
  BY OnePieceStep, HandedStep
<1>3. OnePieceInv /\ [Next]_vars
        => [(/\ pc = "parse" /\ answer.kind = "ok" /\ Len(answer.pieces) = 1)
            => ret' = 0 /\ filled' = DaysRead(WEATHER_DAY_MAX)]_vars
  <2> SUFFICES ASSUME OnePieceInv, Next, pc = "parse", answer.kind = "ok",
                      Len(answer.pieces) = 1
               PROVE  ret' = 0 /\ filled' = DaysRead(WEATHER_DAY_MAX)
    OBVIOUS
  <2>1. WholeAnswer
    BY DEF OnePieceInv
  <2>2. ParseSucceeds
    BY <2>1 DEF Next, Request, NoHandle, Piece, PerformFails, PerformEnds, ParseFails,
                ParseFaults
  <2> QED
    BY <2>2 DEF ParseSucceeds
<1> QED
  BY <1>1, <1>2, <1>3, PTL DEF Spec, OnePieceUnderstood
==============================================================================
