------------------------------ MODULE Console ------------------------------
(***************************************************************************)
(* command/command.c: a line of the operator is split into an array on the   *)
(* stack and handed to the handler of its first word; the TAB key runs a      *)
(* generator, which keeps its position in static variables, until it returns  *)
(* NULL. A line is a sequence of words; of a word the code sees whether it is *)
(* one of its own, how long it is, what atoi makes of it, and what it begins  *)
(* with. Wire takes the calls from here, Lifecycle the command exit.         *)
(***************************************************************************)
EXTENDS Integers, Sequences, FiniteSets, SequencesExt

CONSTANTS
  MAX_ARGS,      \* entries of args
  RawMsgSize,    \* bytes of raw_msg
  Words,         \* words an operator types
  Size,          \* the length of a word
  Number,        \* what atoi makes of a word, 0 for one that is not a number
  Begins,        \* pairs of a fragment and a word that begins with it
  Fragments,     \* what may stand in front of the cursor at TAB
  Lines,         \* the lines an operator may type
  Unset          \* an entry of args that was never written

ASSUME ConsoleAssumption ==
  /\ MAX_ARGS \in Nat \ {0} /\ RawMsgSize \in Nat
  /\ Size \in [Words -> Nat \ {0}]
  /\ Number \in [Words -> Int]
  /\ Lines \subseteq Seq(Words)
  /\ Unset \notin Words

VARIABLES
  pc,          \* "prompt", "matching" or "dead"
  line,        \* the line just executed
  args,        \* execute_command's array, with what older calls left in it
  call,        \* the operation it has called
  exitflag,
  request,     \* what TAB was just pressed on
  state,       \* the generator's second argument
  static,      \* index of command_generator and of param_generator
  param_list,  \* static too
  matches      \* the candidates so far

vars == <<pc, line, args, call, exitflag, request, state, static, param_list, matches>>

Slots == 0 .. MAX_ARGS - 1

commands == <<"help", "exit", "status", "memo", "csupdate", "defsysfile",
              "sendfile", "bgimage", "users">>

MemoParams   == <<"help", "send">>
StatusParams == <<"clients", "server">>

Keywords == ToSet(commands) \cup ToSet(MemoParams) \cup ToSet(StatusParams)

FileCommands == {"csupdate", "defsysfile", "sendfile", "bgimage"}

NoCall == [op |-> "none", fd |-> 0, text |-> << >>]

(* before: the words in front of the one at the cursor; blank: the line       *)
(* begins with a blank.                                                     *)
Requests == [blank : BOOLEAN,
             before : {<< >>} \cup {<<w>> : w \in Words},
             fragment : Fragments]

NoRequest == [blank |-> TRUE, before |-> << >>, fragment |-> ""]

Init ==
  /\ pc = "prompt"
  /\ line = << >>
  /\ args = [i \in Slots |-> Unset]
  /\ call = NoCall
  /\ exitflag = FALSE
  /\ request = NoRequest
  /\ state = 0
  /\ static = [command |-> 0, param |-> 0]
  /\ param_list = << >>
  /\ matches = << >>
------------------------------------------------------------------------------
(* The loop over strtok: words behind the last entry of args are dropped, and *)
(* entries behind the last word keep what they held.                        *)
Argc(words) == IF Len(words) < MAX_ARGS THEN Len(words) ELSE MAX_ARGS

ArgsUnbounded(words) ==
  [i \in Slots \cup 0 .. Len(words) - 1 |->
     IF i < Len(words) THEN words[i + 1] ELSE args[i]]

Args(words) == [i \in Slots |-> IF i < Argc(words) THEN words[i + 1] ELSE args[i]]

(* What a handler is given: argc and the array.                             *)
Text(argc, a, first) == [i \in 1 .. argc - first |-> a[first + i - 1]]

TextSize(text) == FoldLeft(LAMBDA n, w : n + Size[w], Len(text) - 1, text)

(* handle_memo, where it gets to send_memo. A text that does not fit in       *)
(* raw_msg runs over what lies behind it: the process may not survive.       *)
MemoFromDescriptor(argc, a) ==
  /\ argc >= 4
  /\ call' = [op |-> "send_memo", fd |-> Number[a[2]], text |-> Text(argc, a, 2)]
  /\ pc' = "prompt"

Memo(argc, a) ==
  /\ argc >= 4
  /\ call' = [op |-> "send_memo", fd |-> Number[a[2]], text |-> Text(argc, a, 3)]
  /\ pc' \in {"prompt"} \cup
       (IF TextSize(Text(argc, a, 3)) >= RawMsgSize THEN {"dead"} ELSE {})

(* The four handlers of files, where they get to send_file.                  *)
FileOnAnyArgs(argc, a) ==
  /\ argc >= 2
  /\ call' = [op |-> "send_file", fd |-> Number[a[1]], text |-> <<a[2]>>]

File(argc, a) ==
  /\ argc >= 3
  /\ call' = [op |-> "send_file", fd |-> Number[a[1]], text |-> <<a[2]>>]

(* Handlers that stop at their usage text or at an unknown parameter, and     *)
(* words that name no command.                                              *)
Idle(argc, a) ==
  CASE a[0] = "memo"   -> argc < 4 \/ a[1] # "send"
    [] a[0] = "status" -> argc < 2 \/ a[1] # "clients"
    [] a[0] \in FileCommands -> argc < 3
    [] OTHER -> a[0] \notin {"exit", "users"}

(* execute_command.                                                        *)
Execute(words) ==
  LET argc == Argc(words)
      a    == Args(words)
  IN /\ pc = "prompt" /\ ~exitflag /\ words # << >>
     /\ line' = words
     /\ args' = a
     /\ exitflag' = (a[0] = "exit")
     /\ \/ /\ a[0] = "memo" /\ argc >= 2 /\ a[1] = "send"
           /\ Memo(argc, a)
        \/ /\ a[0] \in FileCommands
           /\ File(argc, a)
           /\ pc' = "prompt"
        \/ /\ a[0] = "status" /\ argc >= 2 /\ a[1] = "clients"
           /\ call' = [NoCall EXCEPT !.op = "connected_client"]
           /\ pc' = "prompt"
        \/ /\ a[0] \in {"users", "exit"}
           /\ call' = [NoCall EXCEPT !.op = a[0]]
           /\ pc' = "prompt"
        \/ /\ Idle(argc, a)
           /\ call' = NoCall
           /\ pc' = "prompt"
     /\ request' = NoRequest /\ matches' = << >>
     /\ UNCHANGED <<state, static, param_list>>
------------------------------------------------------------------------------
(* command_completion: which generator it runs, if any. When it runs none,    *)
(* readline completes file names.                                           *)
Generator(req) ==
  IF ~req.blank /\ req.before = << >> THEN "command"
  ELSE IF ~req.blank /\ req.before[1] \in {"memo", "status"} THEN "param"
  ELSE "none"

Tab(req) ==
  /\ pc = "prompt" /\ ~exitflag
  /\ Generator(req) # "none"
  /\ request' = req
  /\ matches' = << >>
  /\ state' = 0
  /\ pc' = "matching"
  /\ line' = << >> /\ call' = NoCall
  /\ UNCHANGED <<args, exitflag, static, param_list>>

ParamList(req) == IF req.before[1] = "memo" THEN MemoParams ELSE StatusParams

(* A call of command_generator or param_generator. Only the call with state 0 *)
(* sets index, len and param_list; the others go on where the last one ended. *)
IndexKept(g) == static[g]

Index(g) == IF state = 0 THEN 0 ELSE static[g]

ListKept(g) == IF g = "command" THEN commands
               ELSE IF param_list = << >> THEN ParamList(request) ELSE param_list

List(g) == IF g = "command" THEN commands
           ELSE IF state = 0 THEN ParamList(request) ELSE param_list

Fitting(list, from) ==
  {i \in DOMAIN list : i > from /\ <<request.fragment, list[i]>> \in Begins}

Generate ==
  LET g    == Generator(request)
      list == List(g)
      next == Fitting(list, Index(g))
  IN /\ pc = "matching"
     /\ param_list' = IF g = "param" THEN list ELSE param_list
     /\ \/ \E i \in next :
             /\ \A j \in next : i <= j
             /\ static' = [static EXCEPT ![g] = i]
             /\ matches' = Append(matches, list[i])
             /\ state' = state + 1
             /\ UNCHANGED pc
        \/ /\ next = {}
           /\ static' = [static EXCEPT ![g] = Len(list)]
           /\ pc' = "prompt"
           /\ UNCHANGED <<matches, state>>
     /\ UNCHANGED <<line, args, call, exitflag, request>>
------------------------------------------------------------------------------
Next == \/ \E words \in Lines : Execute(words)
        \/ \E req \in Requests : Tab(req)
        \/ Generate

Spec == Init /\ [][Next]_vars
------------------------------------------------------------------------------
TypeOK ==
  /\ pc \in {"prompt", "matching", "dead"}
  /\ line \in Lines \cup {<< >>}
  /\ args \in [Slots -> Words \cup {Unset}]
  /\ call.op \in {"none", "send_memo", "send_file", "connected_client", "users", "exit"}
  /\ call.fd \in Int /\ call.text \in Seq(Words \cup {Unset})
  /\ exitflag \in BOOLEAN
  /\ request \in Requests \cup {NoRequest}
  /\ state \in 0 .. Len(commands)
  /\ static \in [{"command", "param"} -> 0 .. Len(commands)]
  /\ matches \in Seq(Keywords)

(* A memo goes to the descriptor that was typed and consists of the words     *)
(* typed behind it, no more and no fewer, whatever longer line was typed      *)
(* before: as long as the line has no more words than args has entries.       *)
MemoAsTyped ==
  call.op = "send_memo" /\ Len(line) <= MAX_ARGS =>
    /\ call.fd = Number[line[3]]
    /\ call.text = SubSeq(line, 4, Len(line))

(* A file command never works with a descriptor or a path that an earlier     *)
(* line left in the array.                                                  *)
FileAsTyped ==
  call.op = "send_file" =>
    /\ Len(line) >= 3
    /\ call.fd = Number[line[2]] /\ call.text = <<line[3]>>

Candidates ==
  CASE Generator(request) = "command" -> commands
    [] Generator(request) = "param" -> ParamList(request)

Fits == {i \in DOMAIN Candidates : <<request.fragment, Candidates[i]>> \in Begins}

FitsUpTo(i) == {j \in Fits : j <= i}

(* When a generator is through, readline has been given every candidate that  *)
(* begins with the fragment, once and in the order of the table, whatever the *)
(* completions before left in the static variables: the n-th match is the n-th *)
(* candidate that fits, and there is no other.                              *)
EveryMatchOffered ==
  pc = "prompt" /\ Generator(request) # "none" =>
    /\ Len(matches) = Cardinality(Fits)
    /\ \A i \in Fits : matches[Cardinality(FitsUpTo(i))] = Candidates[i]

(* What the completion offers behind "memo" or "status" is a parameter that    *)
(* the handler of the command knows: the tables of the generator and the       *)
(* comparisons of the handlers agree.                                       *)
KnownParams == [memo |-> {"help", "send"}, status |-> {"clients", "server"}]

OffersAreKnown ==
  Generator(request) = "param" =>
    \A i \in DOMAIN matches : matches[i] \in KnownParams[request.before[1]]
------------------------------------------------------------------------------
(* What comments of the code say and the code does not do.                  *)

(* "Process the message, supporting strings with blanks" (command.c:104): a    *)
(* memo is the whole rest of the line.                                       *)
MemoIsRestOfLine ==
  call.op = "send_memo" => call.text = SubSeq(line, 4, Len(line))
=============================================================================
