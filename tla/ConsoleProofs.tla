---------------------------- MODULE ConsoleProofs ----------------------------
(***************************************************************************)
(* Proofs about Console, for an array of any length, any words and lines, and  *)
(* any order of commands and completions.                                    *)
(***************************************************************************)
EXTENDS Console, FiniteSetTheorems, TLAPS

(***************************************************************************)
(* The array of arguments.                                                  *)
(***************************************************************************)

(* An entry below argc was written by this line, one for each of its words as   *)
(* far as the array reaches.                                                *)
LEMMA ArgsOfLine ==
  ASSUME NEW words \in Seq(Words)
  PROVE  /\ Argc(words) \in Nat /\ Argc(words) <= Len(words)
         /\ Len(words) <= MAX_ARGS => Argc(words) = Len(words)
         /\ \A i \in 0 .. Argc(words) - 1 : Args(words)[i] = words[i + 1]
  BY ConsoleAssumption DEF Argc, Args, Slots

(* What a handler takes from an entry on is what was typed from there on.       *)
LEMMA TextOfLine ==
  ASSUME NEW words \in Seq(Words), Len(words) <= MAX_ARGS,
         NEW first \in Nat, first <= Len(words)
  PROVE  Text(Argc(words), Args(words), first) = SubSeq(words, first + 1, Len(words))
<1> DEFINE argc == Argc(words)
           a    == Args(words)
<1>1. argc = Len(words) /\ \A i \in 0 .. Len(words) - 1 : a[i] = words[i + 1]
  BY ArgsOfLine
<1> HIDE DEF argc, a
<1>2. Text(argc, a, first) = [i \in 1 .. Len(words) - first |-> words[first + i]]
  <2>1. ASSUME NEW i \in 1 .. Len(words) - first PROVE a[first + i - 1] = words[first + i]
    <3>1. first + i - 1 \in 0 .. Len(words) - 1
      OBVIOUS
    <3>2. a[first + i - 1] = words[(first + i - 1) + 1]
      BY <1>1, <3>1
    <3> QED
      BY <3>2
  <2> QED
    BY <1>1, <2>1 DEF Text
<1>3. SubSeq(words, first + 1, Len(words))
        = [i \in 1 .. Len(words) - first |-> words[first + i]]
  OBVIOUS
<1> QED
  BY <1>2, <1>3 DEF argc, a

LEMMA LinesAreWords ==
  ASSUME NEW words \in Lines
  PROVE  words \in Seq(Words)
  BY ConsoleAssumption

(* A memo carries the descriptor and the words of its own line.                *)
THEOREM MemoAsTypedCorrect == Spec => []MemoAsTyped
<1>1. Init => MemoAsTyped
  BY DEF Init, NoCall, MemoAsTyped
<1>2. ASSUME MemoAsTyped, NEW words \in Lines, Execute(words)
      PROVE  MemoAsTyped'
  <2> SUFFICES ASSUME call'.op = "send_memo", Len(words) <= MAX_ARGS
               PROVE  /\ call'.fd = Number[words[3]]
                      /\ call'.text = SubSeq(words, 4, Len(words))
    BY <1>2 DEF MemoAsTyped, Execute
  <2>1. Memo(Argc(words), Args(words))
    BY <1>2 DEF Execute, File, NoCall
  <2>2. /\ Argc(words) >= 4
        /\ call' = [op |-> "send_memo", fd |-> Number[Args(words)[2]],
                    text |-> Text(Argc(words), Args(words), 3)]
    BY <2>1 DEF Memo
  <2>3. Args(words)[2] = words[3] /\ 3 <= Len(words)
    BY <2>2, LinesAreWords, ArgsOfLine
  <2>4. Text(Argc(words), Args(words), 3) = SubSeq(words, 4, Len(words))
    BY <2>3, LinesAreWords, TextOfLine
  <2> QED
    BY <2>2, <2>3, <2>4
<1>3. MemoAsTyped /\ [Next]_vars => MemoAsTyped'
  <2>1. ASSUME NEW req, Tab(req) PROVE MemoAsTyped'
    BY <2>1 DEF Tab, NoCall, MemoAsTyped
  <2>2. ASSUME MemoAsTyped, Generate \/ UNCHANGED vars PROVE MemoAsTyped'
    BY <2>2 DEF Generate, vars, MemoAsTyped
  <2> QED
    BY <1>2, <2>1, <2>2 DEF Next
<1> QED
  BY <1>1, <1>3, PTL DEF Spec

(* A file command uses the descriptor and the path of its own line, however      *)
(* short the line is and whatever the array held before.                      *)
THEOREM FileAsTypedCorrect == Spec => []FileAsTyped
<1>1. Init => FileAsTyped
  BY DEF Init, NoCall, FileAsTyped
<1>2. ASSUME NEW words \in Lines, Execute(words)
      PROVE  FileAsTyped'
  <2> SUFFICES ASSUME call'.op = "send_file"
               PROVE  /\ Len(words) >= 3
                      /\ call'.fd = Number[words[2]] /\ call'.text = <<words[3]>>
    BY <1>2 DEF FileAsTyped, Execute
  <2>1. File(Argc(words), Args(words))
    BY <1>2 DEF Execute, Memo, NoCall
  <2>2. /\ Argc(words) >= 3
        /\ call' = [op |-> "send_file", fd |-> Number[Args(words)[1]],
                    text |-> <<Args(words)[2]>>]
    BY <2>1 DEF File
  <2>3. /\ Args(words)[1] = words[2] /\ Args(words)[2] = words[3]
        /\ 3 <= Len(words)
    BY <2>2, LinesAreWords, ArgsOfLine
  <2> QED
    BY <2>2, <2>3
<1>3. FileAsTyped /\ [Next]_vars => FileAsTyped'
  <2>1. ASSUME NEW req, Tab(req) PROVE FileAsTyped'
    BY <2>1 DEF Tab, NoCall, FileAsTyped
  <2>2. ASSUME FileAsTyped, Generate \/ UNCHANGED vars PROVE FileAsTyped'
    BY <2>2 DEF Generate, vars, FileAsTyped
  <2> QED
    BY <1>2, <2>1, <2>2 DEF Next
<1> QED
  BY <1>1, <1>3, PTL DEF Spec

(***************************************************************************)
(* The completion.                                                          *)
(***************************************************************************)

Params == {"help", "send", "clients", "server"}

(* After its first call the generator of parameters works on the list of the     *)
(* command on the line, and so far has given only entries of it.               *)
ParamMatches ==
  /\ Generator(request) = "param" =>
       /\ matches \in Seq(Params)
       /\ pc = "matching" => state = 0 \/ param_list = ParamList(request)
       /\ \A i \in DOMAIN matches :
            \E j \in DOMAIN ParamList(request) : matches[i] = ParamList(request)[j]
  /\ state \in Nat

LEMMA ListsAreKnown ==
  ASSUME Generator(request) = "param", NEW j \in DOMAIN ParamList(request)
  PROVE  ParamList(request)[j] \in KnownParams[request.before[1]]
  BY DEF Generator, ParamList, MemoParams, StatusParams, KnownParams

LEMMA ListsAreParams ==
  ASSUME NEW j \in DOMAIN ParamList(request)
  PROVE  ParamList(request)[j] \in Params
<1>1. MemoParams \in Seq(Params) /\ StatusParams \in Seq(Params)
  BY DEF MemoParams, StatusParams, Params
<1>2. ParamList(request) \in Seq(Params)
  BY <1>1 DEF ParamList
<1> QED
  BY <1>2

LEMMA ParamMatchesKept == ParamMatches /\ [Next]_vars => ParamMatches'
<1> SUFFICES ASSUME ParamMatches, [Next]_vars PROVE ParamMatches'
  OBVIOUS
<1>1. ASSUME NEW words \in Lines, Execute(words) PROVE ParamMatches'
  <2>1. request' = NoRequest /\ state' = state
    BY <1>1 DEF Execute
  <2>2. Generator(NoRequest) = "none"
    BY DEF Generator, NoRequest
  <2> QED
    BY <2>1, <2>2 DEF ParamMatches
<1>2. ASSUME NEW req, Tab(req) PROVE ParamMatches'
  BY <1>2 DEF Tab, ParamMatches
<1>3. CASE Generate
  <2> DEFINE g    == Generator(request)
             list == List(g)
  <2>1. request' = request /\ pc = "matching"
    BY <1>3 DEF Generate
  <2>2. g = "param" => list = ParamList(request) /\ param_list' = list
    BY <1>3, <2>1 DEF Generate, List, ParamMatches
  <2>3. g \in {"command", "param", "none"}
    BY DEF Generator
  <2>4. CASE UNCHANGED <<matches, state>>
    BY <2>1, <2>2, <2>4 DEF ParamMatches
  <2>5. ASSUME NEW i \in Fitting(list, Index(g)), matches' = Append(matches, list[i]),
               state' = state + 1
        PROVE  ParamMatches'
    <3> SUFFICES ASSUME g = "param" PROVE ParamMatches'
      BY <2>1, <2>5 DEF ParamMatches
    <3>1. i \in DOMAIN ParamList(request) /\ list = ParamList(request)
      BY <2>2, <2>5 DEF Fitting
    <3>2. ParamList(request)[i] \in Params
      BY <3>1, ListsAreParams
    <3>3. matches \in Seq(Params) /\ state \in Nat
      BY DEF ParamMatches
    <3> DEFINE params == ParamList(request)
    <3>4. \A k \in DOMAIN matches : \E j \in DOMAIN params : matches[k] = params[j]
      BY DEF ParamMatches
    <3>5. ParamList(request)' = params /\ matches' = Append(matches, params[i])
      BY <2>1, <2>5, <3>1
    <3>6. param_list' = params
      BY <2>2, <3>1
    <3> HIDE DEF params
    <3>7. /\ matches' \in Seq(Params)
          /\ \A k \in DOMAIN matches' : \E j \in DOMAIN params : matches'[k] = params[j]
      BY <3>1, <3>2, <3>3, <3>4, <3>5 DEF params
    <3> QED
      BY <2>5, <3>3, <3>5, <3>6, <3>7 DEF ParamMatches
  <2> QED
    BY <1>3, <2>4, <2>5 DEF Generate
<1>4. CASE UNCHANGED vars
  BY <1>4 DEF vars, ParamMatches
<1> QED
  BY <1>1, <1>2, <1>3, <1>4 DEF Next

(* Whatever TAB offers behind "memo" or "status" is a parameter that the handler *)
(* of the command compares with, after any series of completions.              *)
THEOREM OffersAreKnownCorrect == Spec => []OffersAreKnown
<1>1. Init => ParamMatches
  <2>1. Generator(NoRequest) = "none"
    BY DEF Generator, NoRequest
  <2> QED
    BY <2>1 DEF Init, ParamMatches
<1>2. ParamMatches => OffersAreKnown
  <2> SUFFICES ASSUME ParamMatches, Generator(request) = "param", NEW i \in DOMAIN matches
               PROVE  matches[i] \in KnownParams[request.before[1]]
    BY DEF OffersAreKnown
  <2>1. PICK j \in DOMAIN ParamList(request) : matches[i] = ParamList(request)[j]
    BY DEF ParamMatches
  <2> QED
    BY <2>1, ListsAreKnown
<1> QED
  BY <1>1, <1>2, ParamMatchesKept, PTL DEF Spec

(***************************************************************************)
(* Types: the entries of the array are words or were never written.            *)
(***************************************************************************)
Commands  == {"command", "param"}
ArgsType == args \in [Slots -> Words \cup {Unset}]

(* The entries below argc, and where they come from.                           *)
LEMMA ArgcOfLine ==
  ASSUME NEW words \in Seq(Words)
  PROVE  /\ Argc(words) \in Nat /\ Argc(words) <= Len(words) /\ Argc(words) <= MAX_ARGS
         /\ \A i \in 0 .. Argc(words) - 1 :
              i \in Slots /\ Args(words)[i] = words[i + 1] /\ words[i + 1] \in Words
  BY ConsoleAssumption DEF Argc, Args, Slots

LEMMA ArgsStep ==
  ASSUME ArgsType, NEW words \in Seq(Words)
  PROVE  Args(words) \in [Slots -> Words \cup {Unset}]
<1>1. ASSUME NEW i \in Slots
      PROVE  (IF i < Argc(words) THEN words[i + 1] ELSE args[i]) \in Words \cup {Unset}
  <2>1. CASE i < Argc(words)
    <3>1. i \in 0 .. Argc(words) - 1
      BY <2>1, ArgcOfLine, ConsoleAssumption DEF Slots
    <3> QED
      BY <2>1, <3>1, ArgcOfLine
  <2>2. CASE ~(i < Argc(words))
    BY <2>2 DEF ArgsType
  <2> QED
    BY <2>1, <2>2
<1> QED
  BY <1>1 DEF Args

(* A handler takes its words from the part of the array that this line wrote.   *)
LEMMA TextType ==
  ASSUME NEW words \in Seq(Words), NEW first \in Nat, first <= Argc(words)
  PROVE  Text(Argc(words), Args(words), first) \in Seq(Words \cup {Unset})
<1> DEFINE argc == Argc(words)
           a    == Args(words)
<1>1. argc \in Nat /\ \A i \in 0 .. argc - 1 : a[i] \in Words
  BY ArgcOfLine
<1> HIDE DEF argc, a
<1>2. argc - first \in Nat
  BY <1>1 DEF argc
<1>3. ASSUME NEW i \in 1 .. argc - first PROVE a[first + i - 1] \in Words
  <2>1. first + i - 1 \in 0 .. argc - 1
    BY <1>1
  <2> QED
    BY <1>1, <2>1
<1>4. Text(argc, a, first) = [i \in 1 .. argc - first |-> a[first + i - 1]]
  BY DEF Text
<1>5. Text(argc, a, first) \in [1 .. argc - first -> Words \cup {Unset}]
  BY <1>3, <1>4
<1> QED
  BY <1>2, <1>5 DEF argc, a

Ops == {"none", "send_memo", "send_file", "connected_client", "users", "exit"}

CallType == call.op \in Ops /\ call.fd \in Int /\ call.text \in Seq(Words \cup {Unset})

LEMMA ExecuteCall ==
  ASSUME NEW words \in Lines, Execute(words)
  PROVE  CallType' /\ pc' \in {"prompt", "dead"}
<1>1. words \in Seq(Words) /\ Number \in [Words -> Int]
  BY ConsoleAssumption
<1>2. /\ Argc(words) \in Nat
      /\ \A i \in 0 .. Argc(words) - 1 : Args(words)[i] \in Words
  BY <1>1, ArgcOfLine
<1>3. CASE Memo(Argc(words), Args(words))
  <2>1. Argc(words) >= 4 /\ Text(Argc(words), Args(words), 3) \in Seq(Words \cup {Unset})
    BY <1>1, <1>2, <1>3, TextType DEF Memo
  <2>2. Number[Args(words)[2]] \in Int
    BY <1>1, <1>2, <2>1
  <2>3. /\ call' = [op |-> "send_memo", fd |-> Number[Args(words)[2]],
                    text |-> Text(Argc(words), Args(words), 3)]
        /\ pc' \in {"prompt", "dead"}
    BY <1>3 DEF Memo
  <2> QED
    BY <2>1, <2>2, <2>3 DEF CallType, Ops
<1>4. CASE File(Argc(words), Args(words)) /\ pc' = "prompt"
  <2>1. Argc(words) >= 3
    BY <1>4 DEF File
  <2>2. Number[Args(words)[1]] \in Int /\ Args(words)[2] \in Words
    BY <1>1, <1>2, <2>1
  <2>3. call' = [op |-> "send_file", fd |-> Number[Args(words)[1]], text |-> <<Args(words)[2]>>]
    BY <1>4 DEF File
  <2>4. <<Args(words)[2]>> \in Seq(Words \cup {Unset})
    BY <2>2
  <2> QED
    BY <1>4, <2>2, <2>3, <2>4 DEF CallType, Ops
<1>5. CASE /\ \E op \in Ops : call' = [NoCall EXCEPT !.op = op]
           /\ pc' = "prompt"
  BY <1>5 DEF CallType, NoCall
<1>6. NoCall = [NoCall EXCEPT !.op = "none"]
  BY DEF NoCall
<1> DEFINE a == Args(words)
<1> HIDE DEF a
<1>7. \/ Memo(Argc(words), Args(words))
      \/ File(Argc(words), Args(words)) /\ pc' = "prompt"
      \/ call' = [NoCall EXCEPT !.op = "connected_client"] /\ pc' = "prompt"
      \/ a[0] \in {"users", "exit"} /\ call' = [NoCall EXCEPT !.op = a[0]] /\ pc' = "prompt"
      \/ call' = NoCall /\ pc' = "prompt"
  BY DEF Execute, a
<1> QED
  BY <1>3, <1>4, <1>5, <1>6, <1>7 DEF Ops

(***************************************************************************)
(* The completion: between two calls the matches are the candidates that fit    *)
(* up to the place the next call starts from.                                *)
(***************************************************************************)

(* The n-th element of a set of numbers: how many there are up to it.           *)
LEMMA RankNext ==
  ASSUME NEW F, F \subseteq Nat, IsFiniteSet(F), NEW from \in Nat, NEW i \in F,
         i > from, \A j \in F : j > from => i <= j
  PROVE  Cardinality({j \in F : j <= i}) = Cardinality({j \in F : j <= from}) + 1
<1>1. {j \in F : j <= i} = {j \in F : j <= from} \cup {i}
  <2>1. ASSUME NEW j \in F PROVE j <= i <=> j <= from \/ j = i
    <3>1. i \in Nat /\ j \in Nat
      OBVIOUS
    <3> QED
      BY <3>1
  <2> QED
    BY <2>1
<1>2. i \notin {j \in F : j <= from}
  OBVIOUS
<1>3. IsFiniteSet({j \in F : j <= from})
  BY FS_Subset
<1> QED
  BY <1>1, <1>2, <1>3, FS_AddElement

LEMMA RankInside ==
  ASSUME NEW F, F \subseteq Nat, IsFiniteSet(F), NEW from \in Nat, NEW i \in F, i <= from
  PROVE  Cardinality({j \in F : j <= i}) \in 1 .. Cardinality({j \in F : j <= from})
<1>1. {j \in F : j <= i} \subseteq {j \in F : j <= from}
  <2>1. ASSUME NEW j \in F, j <= i PROVE j <= from
    <3>1. i \in Nat /\ j \in Nat
      OBVIOUS
    <3> QED
      BY <2>1, <3>1
  <2> QED
    BY <2>1
<1>2. IsFiniteSet({j \in F : j <= i}) /\ IsFiniteSet({j \in F : j <= from})
  BY FS_Subset
<1>3. {i} \subseteq {j \in F : j <= i}
  <2>1. i \in Nat
    OBVIOUS
  <2> QED
    BY <2>1
<1>4. Cardinality({i}) = 1
  BY FS_Singleton
<1>5. Cardinality({i}) <= Cardinality({j \in F : j <= i})
  BY <1>2, <1>3, FS_Subset
<1>6. Cardinality({j \in F : j <= i}) <= Cardinality({j \in F : j <= from})
  BY <1>1, <1>2, FS_Subset
<1>7. Cardinality({j \in F : j <= i}) \in Nat /\ Cardinality({j \in F : j <= from}) \in Nat
  BY <1>2, FS_CardinalityType
<1> QED
  BY <1>4, <1>5, <1>6, <1>7

LEMMA CandidatesType ==
  ASSUME Generator(request) # "none"
  PROVE  /\ Generator(request) \in Commands
         /\ Candidates \in Seq(Keywords)
         /\ Len(Candidates) \in 0 .. Len(commands)
         /\ Len(commands) = 9
<1>1. commands \in Seq(Keywords) /\ Len(commands) = 9
  BY DEF commands, Keywords, ToSet
<1>2. MemoParams \in Seq(Keywords) /\ Len(MemoParams) = 2
  BY DEF MemoParams, Keywords, ToSet
<1>3. StatusParams \in Seq(Keywords) /\ Len(StatusParams) = 2
  BY DEF StatusParams, Keywords, ToSet
<1>4. Generator(request) \in Commands
  BY DEF Generator, Commands
<1>5. CASE Generator(request) = "command"
  BY <1>1, <1>4, <1>5 DEF Candidates
<1>6. CASE Generator(request) = "param"
  <2>1. Candidates = ParamList(request)
    BY <1>6 DEF Candidates
  <2>2. ParamList(request) \in {MemoParams, StatusParams}
    BY DEF ParamList
  <2> QED
    BY <1>1, <1>2, <1>3, <1>4, <2>1, <2>2
<1> QED
  BY <1>4, <1>5, <1>6 DEF Commands

LEMMA FitsFinite ==
  ASSUME Generator(request) # "none"
  PROVE  /\ Fits \subseteq 1 .. Len(Candidates) /\ IsFiniteSet(Fits)
         /\ Cardinality(Fits) \in 0 .. Len(Candidates)
<1>1. Candidates \in Seq(Keywords)
  BY CandidatesType
<1>2. Len(Candidates) \in Nat /\ Fits \subseteq 1 .. Len(Candidates)
  BY <1>1 DEF Fits
<1>3. IsFiniteSet(1 .. Len(Candidates)) /\ Cardinality(1 .. Len(Candidates)) = Len(Candidates)
  <2> DEFINE n == Len(Candidates)
  <2>1. n \in Nat
    BY <1>2
  <2> HIDE DEF n
  <2>2. IsFiniteSet(1 .. n) /\ Cardinality(1 .. n) = n
    BY <2>1, FS_Interval
  <2> QED
    BY <2>2 DEF n
<1>4. IsFiniteSet(Fits) /\ Cardinality(Fits) <= Len(Candidates)
  BY <1>2, <1>3, FS_Subset
<1> QED
  BY <1>2, <1>4, FS_CardinalityType

OfferedUpTo(n) ==
  /\ Len(matches) = Cardinality(FitsUpTo(n))
  /\ \A i \in FitsUpTo(n) : matches[Cardinality(FitsUpTo(i))] = Candidates[i]

(* What holds when readline is about to call the generator.                    *)
Underway ==
  /\ Generator(request) # "none"
  /\ List(Generator(request)) = Candidates
  /\ Index(Generator(request)) \in 0 .. Len(Candidates)
  /\ Len(matches) = state
  /\ OfferedUpTo(Index(Generator(request)))

StaticType ==
  /\ state \in 0 .. Len(commands)
  /\ static \in [Commands -> 0 .. Len(commands)]
  /\ matches \in Seq(Keywords)

OfferInv ==
  /\ StaticType
  /\ pc = "matching" => Underway
  /\ EveryMatchOffered

(* TAB starts from the top of the table, whatever the static variables hold.    *)
Fresh == Generator(request) # "none" /\ state = 0 /\ matches = << >>

LEMMA FreshIsUnderway == Fresh => Underway
<1> SUFFICES ASSUME Fresh PROVE Underway
  OBVIOUS
<1>1. Generator(request) \in Commands /\ Len(Candidates) \in Nat
  BY CandidatesType DEF Fresh
<1>2. List(Generator(request)) = Candidates
  <2>1. CASE Generator(request) = "command"
    BY <2>1 DEF List, Candidates
  <2>2. CASE Generator(request) = "param"
    BY <2>2 DEF Fresh, List, Candidates
  <2> QED
    BY <1>1, <2>1, <2>2 DEF Commands
<1>3. Index(Generator(request)) = 0
  BY DEF Fresh, Index
<1>4. Fits \subseteq 1 .. Len(Candidates)
  BY FitsFinite DEF Fresh
<1>5. FitsUpTo(0) = {}
  <2>1. ASSUME NEW j \in Fits PROVE ~(j <= 0)
    <3>1. j \in 1 .. Len(Candidates)
      BY <1>4
    <3> QED
      BY <1>1, <3>1
  <2> QED
    BY <2>1 DEF FitsUpTo
<1>6. Cardinality(FitsUpTo(0)) = 0
  BY <1>5, FS_EmptySet
<1>7. Len(matches) = 0
  BY DEF Fresh
<1>8. OfferedUpTo(0)
  BY <1>5, <1>6, <1>7 DEF OfferedUpTo
<1> QED
  BY <1>1, <1>2, <1>3, <1>7, <1>8 DEF Underway, Fresh

LEMMA FreshIsUnderwayNext == Fresh' => Underway'
  BY FreshIsUnderway, PTL

LEMMA OfferInit == Init => OfferInv
<1> SUFFICES ASSUME Init PROVE OfferInv
  OBVIOUS
<1>1. Generator(request) = "none"
  BY DEF Init, Generator, NoRequest
<1>2. Len(commands) = 9
  BY DEF commands
<1>3. StaticType
  BY <1>2 DEF Init, StaticType, Commands
<1> QED
  BY <1>1, <1>3 DEF Init, OfferInv, EveryMatchOffered

LEMMA OfferExecute ==
  ASSUME OfferInv, NEW words \in Lines, Execute(words)
  PROVE  OfferInv'
<1>1. /\ request' = NoRequest /\ matches' = << >>
      /\ state' = state /\ static' = static
  BY DEF Execute
<1>2. pc' # "matching"
  BY ExecuteCall
<1>3. Generator(request)' = "none"
  BY <1>1 DEF Generator, NoRequest
<1>4. Len(commands)' = Len(commands)
  BY DEF commands
<1>5. StaticType'
  BY <1>1, <1>4 DEF OfferInv, StaticType, Keywords, commands, MemoParams, StatusParams
<1> QED
  BY <1>2, <1>3, <1>5 DEF OfferInv, EveryMatchOffered

LEMMA OfferTab ==
  ASSUME OfferInv, NEW req, Tab(req)
  PROVE  OfferInv'
<1>1. /\ request' = req /\ Generator(req) # "none" /\ matches' = << >> /\ state' = 0
      /\ static' = static /\ pc' = "matching"
  BY DEF Tab
<1>2. Fresh'
  BY <1>1 DEF Fresh
<1>3. StaticType'
  BY <1>1 DEF OfferInv, StaticType, Keywords, commands, MemoParams, StatusParams
<1> QED
  BY <1>1, <1>2, <1>3, FreshIsUnderwayNext DEF OfferInv, EveryMatchOffered

(* A call that gives a candidate: it is the next one that fits.                 *)
LEMMA OfferOne ==
  ASSUME OfferInv, pc = "matching", request' = request, pc' = pc,
         NEW i \in Fitting(List(Generator(request)), Index(Generator(request))),
         \A j \in Fitting(List(Generator(request)), Index(Generator(request))) : i <= j,
         static' = [static EXCEPT ![Generator(request)] = i],
         matches' = Append(matches, List(Generator(request))[i]),
         state' = state + 1,
         param_list' = IF Generator(request) = "param" THEN List(Generator(request))
                       ELSE param_list
  PROVE  OfferInv'
<1> DEFINE g     == Generator(request)
           from  == Index(g)
           found == Candidates[i]
<1>1. Underway /\ StaticType
  BY DEF OfferInv
<1>2. /\ g \in Commands /\ Candidates \in Seq(Keywords)
      /\ Len(Candidates) \in 0 .. Len(commands) /\ Len(commands) = 9
  BY <1>1, CandidatesType DEF Underway
<1>3. /\ Fits \subseteq 1 .. Len(Candidates) /\ IsFiniteSet(Fits)
      /\ Cardinality(Fits) \in 0 .. Len(Candidates)
  BY <1>1, FitsFinite DEF Underway
<1>4. List(g) = Candidates /\ from \in 0 .. Len(Candidates) /\ Len(matches) = state
      /\ OfferedUpTo(from)
  BY <1>1 DEF Underway
<1>5. i \in Fits /\ i > from /\ \A j \in Fits : j > from => i <= j
  BY <1>4 DEF Fitting, Fits
<1>6. i \in 1 .. Len(Candidates) /\ found \in Keywords
  BY <1>2, <1>3, <1>5
<1>7. from \in Nat /\ Fits \subseteq Nat
  BY <1>2, <1>3, <1>4
<1>8. Generator(request)' = g /\ Candidates' = Candidates /\ Fits' = Fits
  BY DEF Generator, Candidates, ParamList, Fits, MemoParams, StatusParams, commands
<1>9. \A n : FitsUpTo(n)' = FitsUpTo(n)
  BY <1>8 DEF FitsUpTo
<1>10. matches' = Append(matches, found) /\ matches \in Seq(Keywords)
  BY <1>1, <1>4 DEF StaticType
<1>11. state' # 0 /\ static'[g] = i
  BY <1>1, <1>2 DEF StaticType
<1>12. List(Generator(request))' = Candidates'
  <2>1. CASE g = "command"
    BY <2>1, <1>8 DEF List, Candidates, commands
  <2>2. CASE g = "param"
    BY <2>2, <1>4, <1>8, <1>11 DEF List
  <2> QED
    BY <1>2, <2>1, <2>2 DEF Commands
<1>13. Index(Generator(request))' = i
  BY <1>8, <1>11 DEF Index
<1> HIDE DEF g, from, found
<1>14. /\ matches' \in Seq(Keywords) /\ Len(matches') = Len(matches) + 1
       /\ \A n \in 1 .. Len(matches) : matches'[n] = matches[n]
       /\ matches'[Len(matches) + 1] = found
  BY <1>6, <1>10
<1>15. Cardinality(FitsUpTo(i)) = Cardinality(FitsUpTo(from)) + 1
  BY <1>3, <1>5, <1>7, RankNext DEF FitsUpTo
<1>16. Len(matches') = Cardinality(FitsUpTo(i))
  BY <1>4, <1>14, <1>15 DEF OfferedUpTo
<1>17. ASSUME NEW j \in FitsUpTo(i)
       PROVE  matches'[Cardinality(FitsUpTo(j))] = Candidates[j]
  <2>1. CASE j = i
    BY <2>1, <1>4, <1>14, <1>15 DEF OfferedUpTo, found
  <2>2. CASE j # i
    <3>1. j \in FitsUpTo(from) /\ j \in Fits /\ j <= from
      <4>1. j \in Nat /\ i \in Nat /\ j \in Fits /\ j <= i
        BY <1>5, <1>7 DEF FitsUpTo
      <4> QED
        BY <2>2, <4>1, <1>5, <1>7 DEF FitsUpTo
    <3>2. Cardinality(FitsUpTo(j)) \in 1 .. Cardinality(FitsUpTo(from))
      BY <3>1, <1>3, <1>7, RankInside DEF FitsUpTo
    <3>3. matches[Cardinality(FitsUpTo(j))] = Candidates[j]
      BY <3>1, <1>4 DEF OfferedUpTo
    <3> QED
      BY <3>2, <3>3, <1>4, <1>14 DEF OfferedUpTo
  <2> QED
    BY <2>1, <2>2
<1>18. OfferedUpTo(i)'
  BY <1>8, <1>9, <1>16, <1>17 DEF OfferedUpTo
<1>19. Len(matches') = state'
  BY <1>4, <1>14
<1>20. Underway'
  <2>1. Generator(request)' # "none" /\ i \in 0 .. Len(Candidates')
    BY <1>1, <1>2, <1>6, <1>8 DEF Underway, g
  <2> QED
    BY <2>1, <1>8, <1>12, <1>13, <1>18, <1>19 DEF Underway
<1>21. StaticType'
  <2>1. FitsUpTo(i) \subseteq Fits
    BY DEF FitsUpTo
  <2>2. Cardinality(FitsUpTo(i)) <= Cardinality(Fits) /\ Cardinality(FitsUpTo(i)) \in Nat
    BY <2>1, <1>3, FS_Subset, FS_CardinalityType
  <2>3. state' \in 0 .. Len(commands)
    <3> DEFINE n == Len(commands)
               c == Len(Candidates)
               f == Cardinality(Fits)
               u == Cardinality(FitsUpTo(i))
    <3>1. n = 9 /\ c \in 0 .. n /\ f \in 0 .. c /\ u \in Nat /\ u <= f /\ state' = u
      BY <2>2, <1>2, <1>3, <1>16, <1>19
    <3> HIDE DEF n, c, f, u
    <3> QED
      BY <3>1 DEF n
  <2>4. static' \in [Commands -> 0 .. Len(commands)]
    <3> DEFINE n == Len(commands)
    <3>1. static \in [Commands -> 0 .. n] /\ g \in Commands
      BY <1>1, <1>2 DEF StaticType
    <3>2. i \in 0 .. n
      <4> DEFINE c == Len(Candidates)
      <4>1. n = 9 /\ c \in 0 .. n /\ i \in 1 .. c
        BY <1>2, <1>6
      <4> HIDE DEF n, c
      <4> QED
        BY <4>1
    <3>3. static' = [static EXCEPT ![g] = i]
      BY DEF g
    <3> HIDE DEF n
    <3>4. static' \in [Commands -> 0 .. n]
      BY <3>1, <3>2, <3>3
    <3> QED
      BY <3>4 DEF n
  <2> QED
    BY <2>3, <2>4, <1>14 DEF StaticType, Keywords, commands, MemoParams, StatusParams
<1> QED
  BY <1>20, <1>21 DEF OfferInv, EveryMatchOffered

(* The call that gives NULL: nothing fits any more.                            *)
LEMMA OfferEnd ==
  ASSUME OfferInv, pc = "matching", request' = request, pc' = "prompt",
         Fitting(List(Generator(request)), Index(Generator(request))) = {},
         static' = [static EXCEPT ![Generator(request)] = Len(List(Generator(request)))],
         matches' = matches, state' = state
  PROVE  OfferInv'
<1> DEFINE g    == Generator(request)
           from == Index(g)
<1>1. Underway /\ StaticType
  BY DEF OfferInv
<1>2. /\ g \in Commands /\ Candidates \in Seq(Keywords)
      /\ Len(Candidates) \in 0 .. Len(commands) /\ Len(commands) = 9
  BY <1>1, CandidatesType DEF Underway
<1>3. Fits \subseteq 1 .. Len(Candidates)
  BY <1>1, FitsFinite DEF Underway
<1>4. List(g) = Candidates /\ from \in 0 .. Len(Candidates) /\ OfferedUpTo(from)
  BY <1>1 DEF Underway
<1>5. ASSUME NEW i \in Fits PROVE i <= from
  <2>1. ~(i > from)
    BY <1>4, <1>5 DEF Fitting, Fits
  <2>2. i \in Nat /\ from \in Nat
    BY <1>2, <1>3, <1>4, <1>5
  <2> QED
    BY <2>1, <2>2
<1>6. FitsUpTo(from) = Fits
  BY <1>5 DEF FitsUpTo
<1>7. Candidates' = Candidates /\ Fits' = Fits /\ Generator(request)' = g
  BY DEF Generator, Candidates, ParamList, Fits, MemoParams, StatusParams, commands
<1>8. \A n : FitsUpTo(n)' = FitsUpTo(n)
  BY <1>7 DEF FitsUpTo
<1>9. EveryMatchOffered'
  <2>1. /\ Len(matches) = Cardinality(Fits)
        /\ \A i \in Fits : matches[Cardinality(FitsUpTo(i))] = Candidates[i]
    BY <1>4, <1>6 DEF OfferedUpTo
  <2> QED
    BY <2>1, <1>7, <1>8 DEF EveryMatchOffered
<1>10. StaticType'
  <2> DEFINE n == Len(commands)
             c == Len(Candidates)
  <2>1. c \in 0 .. n /\ static \in [Commands -> 0 .. n] /\ g \in Commands
    BY <1>1, <1>2 DEF StaticType
  <2>2. static' = [static EXCEPT ![g] = c]
    BY <1>4 DEF g
  <2> HIDE DEF n, c, g
  <2>3. static' \in [Commands -> 0 .. n]
    BY <2>1, <2>2
  <2> QED
    BY <2>3, <1>1 DEF n, StaticType, Keywords, commands, MemoParams, StatusParams
<1> QED
  BY <1>9, <1>10 DEF OfferInv

LEMMA OfferGenerate ==
  ASSUME OfferInv, Generate
  PROVE  OfferInv'
<1> DEFINE list == List(Generator(request))
           next == Fitting(list, Index(Generator(request)))
<1>1. pc = "matching" /\ request' = request
  BY DEF Generate
<1>2. CASE \E i \in next : /\ \A j \in next : i <= j
                           /\ static' = [static EXCEPT ![Generator(request)] = i]
                           /\ matches' = Append(matches, list[i])
                           /\ state' = state + 1
                           /\ UNCHANGED pc
  <2>1. param_list' = IF Generator(request) = "param" THEN list ELSE param_list
    BY DEF Generate
  <2> QED
    BY <1>1, <1>2, <2>1, OfferOne
<1>3. CASE /\ next = {}
           /\ static' = [static EXCEPT ![Generator(request)] = Len(list)]
           /\ pc' = "prompt"
           /\ UNCHANGED <<matches, state>>
  BY <1>1, <1>3, OfferEnd
<1> QED
  BY <1>2, <1>3 DEF Generate

LEMMA OfferInvInvariant == Spec => []OfferInv
<1>1. ASSUME OfferInv, [Next]_vars PROVE OfferInv'
  <2>1. CASE UNCHANGED vars
    <3>1. UNCHANGED <<pc, request, state, static, param_list, matches>>
      BY <2>1 DEF vars
    <3>2. /\ Generator(request)' = Generator(request) /\ Candidates' = Candidates
          /\ Fits' = Fits /\ commands' = commands /\ Keywords' = Keywords
      BY <3>1 DEF Generator, Candidates, Fits, ParamList, Keywords, commands, MemoParams,
                  StatusParams
    <3>3. \A n : FitsUpTo(n)' = FitsUpTo(n)
      BY <3>2 DEF FitsUpTo
    <3>4. /\ Index(Generator(request))' = Index(Generator(request))
          /\ List(Generator(request))' = List(Generator(request))
      BY <3>1 DEF Index, List, commands, ParamList, MemoParams, StatusParams, Generator
    <3>5. StaticType'
      BY <1>1, <3>1, <3>2 DEF OfferInv, StaticType, Commands
    <3>6. EveryMatchOffered'
      BY <1>1, <3>1, <3>2, <3>3 DEF OfferInv, EveryMatchOffered
    <3>7. ASSUME pc = "matching" PROVE Underway'
      <4>1. Underway
        BY <1>1, <3>7 DEF OfferInv
      <4> DEFINE place == Index(Generator(request))
      <4>2. OfferedUpTo(place)'
        BY <4>1, <3>1, <3>2, <3>3, <3>4 DEF Underway, OfferedUpTo
      <4> QED
        BY <4>1, <4>2, <3>1, <3>2, <3>4 DEF Underway
    <3> QED
      BY <3>1, <3>5, <3>6, <3>7 DEF OfferInv
  <2> QED
    BY <1>1, <2>1, OfferExecute, OfferTab, OfferGenerate DEF Next
<1> QED
  BY <1>1, OfferInit, PTL DEF Spec

(* The completion offers every candidate that fits, once, in the order of the      *)
(* table, after any series of commands and completions.                        *)
THEOREM EveryMatchOfferedCorrect == Spec => []EveryMatchOffered
<1>1. OfferInv => EveryMatchOffered
  BY DEF OfferInv
<1> QED
  BY <1>1, OfferInvInvariant, PTL

(***************************************************************************)
(* Type correctness.                                                        *)
(***************************************************************************)
LineType ==
  /\ pc \in {"prompt", "matching", "dead"}
  /\ line \in Lines \cup {<< >>}
  /\ ArgsType
  /\ CallType
  /\ exitflag \in BOOLEAN
  /\ request \in Requests \cup {NoRequest}

LEMMA LineInit == Init => LineType
<1> SUFFICES ASSUME Init PROVE LineType
  OBVIOUS
<1>1. call = NoCall /\ NoCall.text = << >> /\ NoCall.fd = 0 /\ NoCall.op = "none"
  BY DEF Init, NoCall
<1>2. CallType
  BY <1>1 DEF CallType, Ops
<1>3. ArgsType
  BY DEF Init, ArgsType
<1> QED
  BY <1>2, <1>3 DEF Init, LineType

LEMMA LineStep == LineType /\ [Next]_vars => LineType'
<1> SUFFICES ASSUME LineType, [Next]_vars PROVE LineType'
  OBVIOUS
<1>1. ASSUME NEW words \in Lines, Execute(words) PROVE LineType'
  <2>1. ArgsType'
    BY <1>1, ArgsStep, LinesAreWords DEF Execute, ArgsType, LineType, Slots
  <2>2. CallType' /\ pc' \in {"prompt", "dead"}
    BY <1>1, ExecuteCall
  <2>3. /\ line' = words /\ request' = NoRequest
        /\ exitflag' = (Args(words)[0] = "exit")
    BY <1>1 DEF Execute
  <2>4. exitflag' \in BOOLEAN
    BY <2>3
  <2> QED
    BY <2>1, <2>2, <2>3, <2>4 DEF LineType, Requests, NoRequest
<1>2. ASSUME NEW req \in Requests, Tab(req) PROVE LineType'
  <2>1. /\ request' = req /\ pc' = "matching" /\ line' = << >> /\ call' = NoCall
        /\ UNCHANGED <<args, exitflag>>
    BY <1>2 DEF Tab
  <2>2. NoCall.text = << >> /\ NoCall.fd = 0 /\ NoCall.op = "none"
    BY DEF NoCall
  <2>3. CallType'
    BY <2>1, <2>2 DEF CallType, Ops
  <2>4. ArgsType'
    BY <2>1 DEF LineType, ArgsType, Slots
  <2>5. request' \in Requests
    BY <2>1
  <2>6. Requests' = Requests /\ NoRequest' = NoRequest
    BY DEF Requests, NoRequest
  <2> QED
    BY <2>1, <2>3, <2>4, <2>5, <2>6 DEF LineType
<1>3. CASE Generate
  <2>1. /\ UNCHANGED <<line, args, call, exitflag, request>>
        /\ pc' \in {pc, "prompt"}
    BY <1>3 DEF Generate
  <2> QED
    BY <2>1 DEF LineType, ArgsType, CallType, Ops, Requests, NoRequest, Slots
<1>4. CASE UNCHANGED vars
  BY <1>4 DEF vars, LineType, ArgsType, CallType, Ops, Requests, NoRequest, Slots
<1> QED
  BY <1>1, <1>2, <1>3, <1>4 DEF Next

(* Every variable keeps its type; an entry of the array is a word or was never    *)
(* written, and the generators' indices stay inside their tables.              *)
THEOREM TypeCorrect == Spec => []TypeOK
<1>1. LineType /\ OfferInv => TypeOK
  BY DEF LineType, OfferInv, ArgsType, CallType, Ops, StaticType, Commands, TypeOK
<1> QED
  BY <1>1, LineInit, LineStep, OfferInvInvariant, PTL DEF Spec
==============================================================================
