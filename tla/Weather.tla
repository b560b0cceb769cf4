------------------------------ MODULE Weather ------------------------------
(***************************************************************************)
(* weather/weather.c and get_data_byurl of common/common.c: one request for  *)
(* the weather after the other, as handle_client_msg makes them in the       *)
(* server thread. libcurl hands the answer over in pieces of a length of its *)
(* own choosing; get_weather_cb puts each into the caller's buffer; the      *)
(* parser sees the buffer as a string. The bytes of an answer are numbered   *)
(* from 1, 0 is the NUL the buffer is filled with before a request.          *)
(***************************************************************************)
EXTENDS Integers, Sequences

CONSTANTS
  PieceLimit,       \* 4096, in units
  BufferSize,       \* 14096, in units
  WEATHER_DAY_MAX,
  Answers,          \* what the service may answer
  MaxRequests       \* bound

(* pieces: lengths of the pieces, in the order they are handed over; days:   *)
(* elements of the "daily" array; kind: what the text is to the parser.      *)
(* "numeric" is an answer with a number where the parser expects a string.   *)
Kinds == {"ok", "notjson", "refused", "nodaily", "numeric"}

ASSUME WeatherAssumption ==
  /\ PieceLimit \in Nat \ {0} /\ BufferSize \in Nat /\ PieceLimit < BufferSize
  /\ WEATHER_DAY_MAX \in Nat
  /\ Answers \subseteq [pieces: Seq(Nat \ {0}), days: Nat, kind: Kinds]
  /\ MaxRequests \in Nat

VARIABLES
  pc,         \* "idle", "perform", "parse" or "dead"
  answer,     \* the answer to the present request
  handed,     \* pieces of it that get_weather_cb has taken
  offset,     \* bytes in these pieces
  buffer,     \* weather_json
  handles,    \* curl handles not cleaned up
  filled,     \* day records of the caller that hold data
  announced,  \* the number of days told to the device, 0 for none
  ret,        \* what get_weather_ex returned last
  requests    \* requests made

vars == <<pc, answer, handed, offset, buffer, handles, filled, announced, ret, requests>>

Offsets == 0 .. BufferSize - 1
Zeroed  == [k \in Offsets |-> 0]

Init ==
  /\ pc = "idle"
  /\ answer \in Answers
  /\ handed = 0
  /\ offset = 0
  /\ buffer = Zeroed
  /\ handles = 0
  /\ filled = 0
  /\ announced = 0
  /\ ret = 0
  /\ requests = 0
------------------------------------------------------------------------------
(* get_weather_ex up to curl_easy_perform; the first form forgets to clear   *)
(* the buffer.                                                              *)
RequestIntoUsedBuffer ==
  /\ pc = "idle" /\ requests < MaxRequests
  /\ requests' = requests + 1
  /\ answer' \in Answers
  /\ handed' = 0 /\ offset' = 0
  /\ handles' = handles + 1
  /\ filled' = 0
  /\ announced' = 0
  /\ pc' = "perform"
  /\ UNCHANGED <<buffer, ret>>

Request ==
  /\ pc = "idle" /\ requests < MaxRequests
  /\ requests' = requests + 1
  /\ answer' \in Answers
  /\ handed' = 0 /\ offset' = 0
  /\ buffer' = Zeroed
  /\ handles' = handles + 1
  /\ filled' = 0
  /\ announced' = 0
  /\ pc' = "perform"
  /\ UNCHANGED ret

(* curl_easy_init returns NULL.                                            *)
NoHandle ==
  /\ pc = "idle" /\ requests < MaxRequests
  /\ requests' = requests + 1
  /\ answer' \in Answers
  /\ handed' = 0 /\ offset' = 0
  /\ buffer' = Zeroed
  /\ filled' = 0
  /\ announced' = 0
  /\ ret' = -2
  /\ UNCHANGED <<pc, handles>>

AllHanded == handed = Len(answer.pieces)
NextPiece == answer.pieces[handed + 1]

(* get_weather_cb takes a piece: every one goes to the start of the buffer.  *)
PieceBehindTheLast ==
  /\ pc = "perform" /\ ~AllHanded
  /\ NextPiece <= PieceLimit
  /\ buffer' = [k \in Offsets |->
                 IF k >= offset /\ k < offset + NextPiece THEN k + 1 ELSE buffer[k]]
  /\ handed' = handed + 1 /\ offset' = offset + NextPiece
  /\ UNCHANGED <<pc, answer, handles, filled, announced, ret, requests>>

Piece ==
  /\ pc = "perform" /\ ~AllHanded
  /\ NextPiece <= PieceLimit
  /\ buffer' = [k \in Offsets |->
                 IF k < NextPiece THEN offset + k + 1 ELSE buffer[k]]
  /\ handed' = handed + 1 /\ offset' = offset + NextPiece
  /\ UNCHANGED <<pc, answer, handles, filled, announced, ret, requests>>

(* curl_easy_perform fails: the callback refuses a piece that is too big, or *)
(* the network fails. The handle is not cleaned up.                         *)
PerformFails ==
  /\ pc = "perform"
  /\ pc' = "idle"
  /\ ret' = -2
  /\ UNCHANGED <<answer, handed, offset, buffer, handles, filled, announced, requests>>

PerformEnds ==
  /\ pc = "perform" /\ AllHanded
  /\ handles' = handles - 1
  /\ pc' = "parse"
  /\ UNCHANGED <<answer, handed, offset, buffer, filled, announced, ret, requests>>
------------------------------------------------------------------------------
(* The parser sees the whole answer, of offset bytes by then, and nothing     *)
(* else.                                                                    *)
WholeAnswer == \A k \in Offsets : buffer[k] = IF k < offset THEN k + 1 ELSE 0

(* parse_7day_weather_json reads at most weathersize elements of "daily".   *)
DaysReadOneMore(weathersize) ==
  IF answer.days <= weathersize THEN answer.days ELSE weathersize + 1

DaysRead(weathersize) ==
  IF answer.days <= weathersize THEN answer.days ELSE weathersize

(* A text that begins inside the answer has no "code" at its outermost       *)
(* level, and the parser rejects it like a refusal of the service. The first *)
(* form looks at "code" after it has stored the days.                        *)
ParseFailsAfterStoring ==
  /\ pc = "parse"
  /\ ~WholeAnswer \/ answer.kind \in {"notjson", "refused", "nodaily"}
  /\ filled' = DaysRead(WEATHER_DAY_MAX)
  /\ pc' = "idle"
  /\ ret' = -3
  /\ UNCHANGED <<answer, handed, offset, buffer, handles, announced, requests>>

ParseFails ==
  /\ pc = "parse"
  /\ ~WholeAnswer \/ answer.kind \in {"notjson", "refused", "nodaily"}
  /\ pc' = "idle"
  /\ ret' = -3
  /\ UNCHANGED <<answer, handed, offset, buffer, handles, filled, announced, requests>>

(* handle_client_msg then announces seven days.                             *)
ParseSucceeds ==
  /\ pc = "parse"
  /\ WholeAnswer
  /\ \/ answer.kind = "ok"
     \/ answer.kind = "numeric" /\ DaysRead(WEATHER_DAY_MAX) = 0
  /\ filled' = DaysRead(WEATHER_DAY_MAX)
  /\ announced' = WEATHER_DAY_MAX
  /\ pc' = "idle"
  /\ ret' = 0
  /\ UNCHANGED <<answer, handed, offset, buffer, handles, requests>>

(* atoi of the string an item of type number does not have: SIGSEGV.        *)
ParseFaults ==
  /\ pc = "parse"
  /\ WholeAnswer
  /\ answer.kind = "numeric" /\ DaysRead(WEATHER_DAY_MAX) > 0
  /\ pc' = "dead"
  /\ UNCHANGED <<answer, handed, offset, buffer, handles, filled, announced, ret, requests>>

Next == \/ Request \/ NoHandle
        \/ Piece \/ PerformFails \/ PerformEnds
        \/ ParseFails \/ ParseSucceeds \/ ParseFaults

Spec == Init /\ [][Next]_vars
------------------------------------------------------------------------------
TypeOK ==
  /\ pc \in {"idle", "perform", "parse", "dead"}
  /\ answer \in Answers
  /\ handed \in 0 .. Len(answer.pieces)
  /\ offset \in Nat
  /\ buffer \in [Offsets -> Nat]
  /\ handles \in 0 .. MaxRequests
  /\ filled \in 0 .. WEATHER_DAY_MAX
  /\ announced \in {0, WEATHER_DAY_MAX}
  /\ ret \in {-3, -2, 0}
  /\ requests \in 0 .. MaxRequests

(* The parser is given a string that ends inside the buffer, whatever pieces *)
(* the answer comes in: the limit of a piece, smaller than the buffer, is    *)
(* all that guards it.                                                      *)
TextIsTerminated == pc = "parse" => \E k \in Offsets : buffer[k] = 0

(* An answer that comes in one piece of legal size is understood, whatever   *)
(* the requests before it left behind.                                      *)
OnePieceUnderstood ==
  [][(/\ pc = "parse" /\ answer.kind = "ok" /\ Len(answer.pieces) = 1)
     => ret' = 0 /\ filled' = DaysRead(WEATHER_DAY_MAX)]_vars

(* Day records are stored only for a request that succeeds: the caller's      *)
(* array is all zero after any failure.                                     *)
RecordsOfSuccessOnly == filled > 0 => ret = 0 /\ announced > 0
------------------------------------------------------------------------------
(* What comments of the code say and the code does not do.                  *)

(* "Fetch the data of a url, return the json data" (common.c:43): after a     *)
(* request that succeeded the buffer holds the answer.                      *)
AnswerIsWhole == pc = "parse" => WholeAnswer

(* "Clean up libcurl" (common.c:86): no handle outlives its request.         *)
HandlesReleased == pc = "idle" => handles = 0

(* "-2 JSON parsing failed" (weather.c:99): an answer the parser cannot use   *)
(* is reported; it does not end the server.                                 *)
BadAnswerReported == pc # "dead"

(* "weather message, number of days" (client.h:93): the device is told how   *)
(* many records hold a day.                                                 *)
AnnouncedDaysFilled == announced > 0 => announced = filled
==============================================================================
