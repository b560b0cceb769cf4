---------------------------- MODULE UsersDbProofs ----------------------------
(***************************************************************************)
(* Proofs about UsersDb: for any number of processes, any texts, and fields    *)
(* of any size, with or without the characters that end a literal of SQL, and  *)
(* processes that start, die and end at any time.                            *)
(***************************************************************************)
EXTENDS UsersDb, SequenceTheorems, TLAPS

(***************************************************************************)
(* Types.                                                                   *)
(***************************************************************************)

(* A field is a string of the same characters that leaves room for the NUL.   *)
LEMMA FieldFits == \A s \in Strings : /\ Field(s) \in Strings
                                      /\ Len(Field(s)) < USER_NAME_SIZE
<1> SUFFICES ASSUME NEW s \in Strings
             PROVE  Field(s) \in Strings /\ Len(Field(s)) < USER_NAME_SIZE
  OBVIOUS
<1>1. CASE Len(s) < USER_NAME_SIZE
  BY <1>1 DEF Field
<1>2. CASE ~(Len(s) < USER_NAME_SIZE)
  <2> DEFINE n == USER_NAME_SIZE - 1
  <2>1. USER_NAME_SIZE \in Nat \ {0}
    BY FieldSizeAssumption
  <2>2. s \in Seq(Chars) /\ Len(s) \in Nat
    BY LenProperties DEF Strings
  <2>3. n \in Nat /\ n <= Len(s)
    BY <1>2, <2>1, <2>2
  <2>4. \A i \in 1 .. n : s[i] \in Chars
    BY <2>2, <2>3, LenProperties
  <2>5. SubSeq(s, 1, n) \in Seq(Chars) /\ Len(SubSeq(s, 1, n)) = n
    BY <2>3, <2>4, SubSeqProperties
  <2>6. Field(s) = SubSeq(s, 1, n)
    BY <1>2 DEF Field
  <2> HIDE DEF n
  <2>7. Field(s) \in Strings /\ Len(Field(s)) = n
    BY <2>5, <2>6 DEF Strings
  <2> QED
    BY <2>1, <2>7 DEF n
<1> QED
  BY <1>1, <1>2

(* What users_add is called with: strings that fit, which an accepted text     *)
(* announced, or empty ones.                                                *)
LEMMA DeserializeFits ==
  \A doc \in MessageDocs :
    /\ Deserialize(doc).username \in Strings
    /\ Deserialize(doc).passwd \in Strings
    /\ Deserialize(doc).target \in Strings
    /\ Len(Deserialize(doc).username) < USER_NAME_SIZE
<1> SUFFICES ASSUME NEW doc \in MessageDocs
             PROVE  /\ Deserialize(doc).username \in Strings
                    /\ Deserialize(doc).passwd \in Strings
                    /\ Deserialize(doc).target \in Strings
                    /\ Len(Deserialize(doc).username) < USER_NAME_SIZE
  OBVIOUS
<1>1. doc.username \in Strings /\ doc.passwd \in Strings /\ doc.target \in Strings
  BY UsersDbAssumption DEF Docs
<1>2. << >> \in Strings /\ Len(<< >>) < USER_NAME_SIZE
  BY EmptySeq, FieldSizeAssumption DEF Strings
<1> QED
  BY <1>1, <1>2, FieldFits DEF Deserialize, Target

LEMMA AnnouncedByAccepted ==
  \A doc \in MessageDocs :
    \/ Deserialize(doc).username = << >>
    \/ /\ DeserializeRet(doc) >= 0
       /\ Field(doc.username) = Deserialize(doc).username
  BY UsersDbAssumption
     DEF Deserialize, DeserializeRet, AnalysisInfoRet, Docs, EMT_CLIENTMSG_INFO,
         EMT_CLIENTMSG_CHEAT, EMT_CLIENTMSG_SUCCESS

(* The parts of TypeOK.                                                     *)
CallType == [Procs -> [step : {"none", "select", "insert"},
                       name : Strings, password : Strings]]

CallsFit == \A p \in Procs : Len(call[p].name) < USER_NAME_SIZE

LEMMA TypeParts ==
  TypeOK <=> /\ users \in Seq(Rows)
             /\ rewritten \in BOOLEAN /\ overlapped \in BOOLEAN
             /\ stage \in [Procs -> Stages]
             /\ port \in Procs \cup {NoProc}
             /\ handle \in [Procs -> Handles]
             /\ call \in CallType
             /\ CallsFit
  BY DEF TypeOK, CallType, CallsFit

LEMMA NoCallType == /\ NoCall \in [step : {"none", "select", "insert"},
                                   name : Strings, password : Strings]
                    /\ Len(NoCall.name) < USER_NAME_SIZE
<1>1. << >> \in Strings /\ Len(<< >>) < USER_NAME_SIZE
  BY EmptySeq, FieldSizeAssumption DEF Strings
<1> QED
  BY <1>1 DEF NoCall

LEMMA InitType == Init => TypeOK
<1> SUFFICES ASSUME Init PROVE TypeOK
  OBVIOUS
<1>1. users \in Seq(Rows)
  BY EmptySeq DEF Init
<1>2. call \in CallType /\ CallsFit
  BY NoCallType DEF Init, CallType, CallsFit
<1>3. stage \in [Procs -> Stages] /\ handle \in [Procs -> Handles]
  BY DEF Init, Stages, Handles
<1> QED
  BY <1>1, <1>2, <1>3, TypeParts DEF Init

(* Steps on the processes that touch neither a call nor the table.            *)
LEMMA ProcessType ==
  ASSUME TypeOK, NEW p \in Procs,
         Start(p) \/ OpenDb(p) \/ CreateTable(p) \/ ListFails(p)
           \/ ExitCommand(p) \/ ThreadEnds(p)
  PROVE  TypeOK'
<1>1. stage' \in [Procs -> Stages]
  BY DEF TypeOK, Start, OpenDb, CreateTable, ListFails, ExitCommand, ThreadEnds, Stages
<1>2. handle' \in [Procs -> Handles]
  BY DEF TypeOK, Start, OpenDb, CreateTable, ListFails, ExitCommand, ThreadEnds, Handles
<1>3. port' \in Procs \cup {NoProc}
  BY DEF TypeOK, Start, OpenDb, CreateTable, ListFails, ExitCommand, ThreadEnds
<1>4. UNCHANGED <<users, rewritten, call>>
  BY DEF Start, OpenDb, CreateTable, ListFails, ExitCommand, ThreadEnds, accounts
<1>5. overlapped' \in BOOLEAN
  BY DEF TypeOK, Start, OpenDb, CreateTable, ListFails, ExitCommand, ThreadEnds
<1> QED
  BY <1>1, <1>2, <1>3, <1>4, <1>5 DEF TypeOK

LEMMA DieType ==
  ASSUME TypeOK, NEW p \in Procs, Die(p)
  PROVE  TypeOK'
<1>1. call' \in CallType /\ CallsFit'
  BY NoCallType, TypeParts DEF Die, CallType, CallsFit
<1>2. /\ stage' \in [Procs -> Stages] /\ handle' \in [Procs -> Handles]
      /\ port' \in Procs \cup {NoProc}
  BY DEF TypeOK, Die, Stages, Handles
<1> QED
  BY <1>1, <1>2 DEF TypeOK, Die, accounts, CallType, CallsFit

LEMMA AnnounceType ==
  ASSUME TypeOK, NEW p \in Procs, NEW doc \in MessageDocs, Announce(p, doc)
  PROVE  TypeOK'
<1> DEFINE c == [step |-> "select", name |-> Deserialize(doc).username,
                 password |-> Deserialize(doc).passwd]
<1>1. /\ c \in [step : {"none", "select", "insert"}, name : Strings, password : Strings]
      /\ Len(c.name) < USER_NAME_SIZE
  BY DeserializeFits
<1>2. call' = [call EXCEPT ![p] = c]
  BY DEF Announce
<1> HIDE DEF c
<1>3. call' \in CallType /\ CallsFit'
  BY <1>1, <1>2, TypeParts DEF CallType, CallsFit
<1> QED
  BY <1>3 DEF TypeOK, Announce, accounts, CallType, CallsFit

(* The statements keep the table a table.                                     *)
LEMMA StatementType ==
  ASSUME users \in Seq(Rows), rewritten \in BOOLEAN,
         NEW name \in Strings, NEW password \in Strings,
         \/ \E ran \in BOOLEAN : SelectName(name, ran)
         \/ \E ret \in {-3, 0} : InsertRow(name, password, ret)
         \/ UNCHANGED accounts
  PROVE  users' \in Seq(Rows) /\ rewritten' \in BOOLEAN
<1> DEFINE row == [name |-> name, password |-> password]
<1>1. /\ users' = users \/ users' \in Tables \/ users' = Append(users, row)
      /\ rewritten' = rewritten \/ rewritten' = TRUE
  BY DEF SelectName, InsertRow, Rewrite, accounts
<1>2. row \in Rows
  BY DEF Rows
<1> HIDE DEF row
<1>3. CASE users' = users
  BY <1>1, <1>3
<1>4. CASE users' \in Tables
  BY <1>1, <1>4, TablesAssumption
<1>5. CASE users' = Append(users, row)
  <2>1. Append(users, row) \in Seq(Rows)
    BY <1>2, AppendProperties
  <2> QED
    BY <1>1, <1>5, <2>1
<1> QED
  BY <1>1, <1>3, <1>4, <1>5

LEMMA SelectType ==
  ASSUME TypeOK, NEW p \in Procs, Select(p)
  PROVE  TypeOK'
<1> DEFINE c == [step |-> "insert", name |-> call[p].name, password |-> call[p].password]
<1>1. /\ c \in [step : {"none", "select", "insert"}, name : Strings, password : Strings]
      /\ Len(c.name) < USER_NAME_SIZE
  BY DEF TypeOK
<1>2. call' = [call EXCEPT ![p] = NoCall] \/ call' = [call EXCEPT ![p] = c]
  BY DEF Select, TypeOK
<1> HIDE DEF c
<1>3. call' \in CallType /\ CallsFit'
  <2>1. CASE call' = [call EXCEPT ![p] = NoCall]
    BY <2>1, NoCallType, TypeParts DEF CallType, CallsFit
  <2>2. CASE call' = [call EXCEPT ![p] = c]
    BY <1>1, <2>2, TypeParts DEF CallType, CallsFit
  <2> QED
    BY <1>2, <2>1, <2>2
<1>4. users' \in Seq(Rows) /\ rewritten' \in BOOLEAN
  BY StatementType DEF TypeOK, Select
<1> QED
  BY <1>3, <1>4 DEF TypeOK, Select, CallType, CallsFit

LEMMA InsertType ==
  ASSUME TypeOK, NEW p \in Procs, Insert(p)
  PROVE  TypeOK'
<1>1. call' \in CallType /\ CallsFit'
  BY NoCallType, TypeParts DEF Insert, CallType, CallsFit
<1>2. users' \in Seq(Rows) /\ rewritten' \in BOOLEAN
  BY StatementType DEF TypeOK, Insert
<1> QED
  BY <1>1, <1>2 DEF TypeOK, Insert, CallType, CallsFit

LEMMA LookUpType ==
  ASSUME TypeOK, NEW p \in Procs, NEW doc \in MessageDocs, LookUp(p, doc)
  PROVE  TypeOK'
<1>1. Deserialize(doc).target \in Strings
  BY DeserializeFits
<1>2. users' \in Seq(Rows) /\ rewritten' \in BOOLEAN
  BY <1>1, StatementType DEF TypeOK, LookUp
<1> QED
  BY <1>2 DEF TypeOK, LookUp

LEMMA NextType == TypeOK /\ [Next]_vars => TypeOK'
<1> SUFFICES ASSUME TypeOK, [Next]_vars PROVE TypeOK'
  OBVIOUS
<1>1. CASE UNCHANGED vars
  BY <1>1 DEF TypeOK, vars, accounts
<1>2. ASSUME NEW p \in Procs,
             \/ Start(p) \/ OpenDb(p) \/ CreateTable(p) \/ ThreadStep(p)
             \/ ListFails(p) \/ ExitCommand(p) \/ ThreadEnds(p) \/ Die(p)
      PROVE  TypeOK'
  BY <1>2, ProcessType, DieType, AnnounceType, SelectType, InsertType,
     LookUpType
     DEF ThreadStep
<1> QED
  BY <1>1, <1>2 DEF Next

(* Every variable of UsersDb keeps its type, and no name that users_add works   *)
(* on is longer than the field it was cut to.                                *)
THEOREM TypeCorrect == Spec => []TypeOK
  BY InitType, NextType, PTL DEF Spec

(***************************************************************************)
(* The handle. A thread is created behind CREATE TABLE, which needs an open    *)
(* database.                                                                *)
(***************************************************************************)
CreatingIsOpen == \A p \in Procs : stage[p] = "creating" => handle[p] = "open"

LEMMA HandleStep ==
  ASSUME TypeOK, CreatingIsOpen, ThreadHasDatabase, [Next]_vars
  PROVE  CreatingIsOpen' /\ ThreadHasDatabase'
<1>1. CASE UNCHANGED <<stage, handle>>
  BY <1>1 DEF CreatingIsOpen, ThreadHasDatabase, HasThread
<1>2. ASSUME NEW p \in Procs, NEW q \in Procs,
             \/ Start(p) \/ OpenDb(p) \/ CreateTable(p)
             \/ ListFails(p) \/ ExitCommand(p) \/ ThreadEnds(p) \/ Die(p)
      PROVE  /\ stage'[q] = "creating" => handle'[q] = "open"
             /\ HasThread(q)' => handle'[q] \in {"open", "dropped"}
  <2>1. CASE q # p
    <3>1. stage'[q] = stage[q] /\ handle'[q] = handle[q]
      BY <1>2, <2>1 DEF TypeOK, Start, OpenDb, CreateTable, ListFails, ExitCommand,
                        ThreadEnds, Die
    <3> QED
      BY <3>1 DEF CreatingIsOpen, ThreadHasDatabase, HasThread
  <2>2. CASE q = p
    BY <1>2, <2>2 DEF TypeOK, CreatingIsOpen, ThreadHasDatabase, HasThread,
                      Start, OpenDb, CreateTable, ListFails, ExitCommand, ThreadEnds, Die
  <2> QED
    BY <2>1, <2>2
<1>3. ASSUME NEW p \in Procs, ThreadStep(p)
      PROVE  UNCHANGED <<stage, handle>>
  BY <1>3 DEF ThreadStep, Announce, Select, Insert, LookUp
<1> QED
  BY <1>1, <1>2, <1>3 DEF Next, vars, CreatingIsOpen, ThreadHasDatabase

(* The server thread runs only on a database that was opened, and loses it to  *)
(* the command "users" alone.                                               *)
THEOREM ThreadHasDatabaseCorrect == Spec => []ThreadHasDatabase
<1>1. Init => CreatingIsOpen /\ ThreadHasDatabase
  BY DEF Init, CreatingIsOpen, ThreadHasDatabase, HasThread
<1>2. TypeOK /\ CreatingIsOpen /\ ThreadHasDatabase /\ [Next]_vars
        => CreatingIsOpen' /\ ThreadHasDatabase'
  BY HandleStep
<1> QED
  BY <1>1, <1>2, TypeCorrect, PTL DEF Spec

(***************************************************************************)
(* One writer. As long as no process has started while another one was        *)
(* ending, a process that has the port, or whose server thread is ending, is   *)
(* the only one.                                                            *)
(***************************************************************************)
Active(p) == stage[p] \in {"opening", "creating", "serving", "closing"}

ActiveHasPort ==
  \A p \in Procs : Active(p) => port = p \/ stage[p] = "closing"

OneActive == \A p, q \in Procs : Active(p) /\ Active(q) => p = q

CallsOfThreads == \A p \in Procs : call[p].step # "none" => HasThread(p)

OneWriter == ActiveHasPort /\ OneActive /\ CallsOfThreads

LEMMA OneWriterStep ==
  ASSUME TypeOK, ~overlapped', OneWriter, [Next]_vars
  PROVE  OneWriter'
<1>1. CASE UNCHANGED vars
  BY <1>1 DEF OneWriter, ActiveHasPort, OneActive, CallsOfThreads, Active, HasThread, vars
<1>2. ASSUME NEW p \in Procs, Start(p)
      PROVE  OneWriter'
  <2>1. CASE port = NoProc
    <3>1. \A q \in Procs : ~Active(q)
      BY <1>2, <2>1, UsersDbAssumption DEF Start, Overlaps, OneWriter, ActiveHasPort,
                                           Active
    <3>2. /\ stage' = [stage EXCEPT ![p] = "opening"] /\ port' = p
          /\ UNCHANGED call
      BY <1>2, <2>1 DEF Start
    <3> QED
      BY <3>1, <3>2 DEF TypeOK, OneWriter, ActiveHasPort, OneActive, CallsOfThreads,
                        Active, HasThread
  <2>2. CASE port # NoProc
    BY <1>2, <2>2 DEF Start, TypeOK, OneWriter, ActiveHasPort, OneActive,
                      CallsOfThreads, Active, HasThread
  <2> QED
    BY <2>1, <2>2
<1>3. ASSUME NEW p \in Procs, OpenDb(p) \/ CreateTable(p)
      PROVE  OneWriter'
  <2>1. \A q \in Procs \ {p} : stage'[q] = stage[q]
    BY <1>3 DEF OpenDb, CreateTable, TypeOK
  <2>2. Active(p) /\ stage[p] # "closing" /\ ~HasThread(p) /\ stage'[p] # "closing"
    BY <1>3 DEF OpenDb, CreateTable, TypeOK, Active, HasThread
  <2>3. UNCHANGED <<port, call>>
    BY <1>3 DEF OpenDb, CreateTable
  <2> QED
    BY <2>1, <2>2, <2>3 DEF OneWriter, ActiveHasPort, OneActive, CallsOfThreads,
                            Active, HasThread
<1>4. ASSUME NEW p \in Procs, ListFails(p)
      PROVE  OneWriter'
  BY <1>4 DEF ListFails, OneWriter, ActiveHasPort, OneActive, CallsOfThreads,
              Active, HasThread
<1>5. ASSUME NEW p \in Procs, ExitCommand(p) \/ ThreadEnds(p) \/ Die(p)
      PROVE  OneWriter'
  <2>1. \A q \in Procs \ {p} : stage'[q] = stage[q] /\ call'[q] = call[q]
    BY <1>5 DEF ExitCommand, ThreadEnds, Die, TypeOK
  <2>2. \/ stage'[p] = "down" /\ call'[p].step = "none"
        \/ stage[p] = "serving" /\ stage'[p] = "closing" /\ call' = call
    BY <1>5 DEF ExitCommand, ThreadEnds, Die, TypeOK, OneWriter, CallsOfThreads,
                HasThread, NoCall
  <2>3. \A q \in Procs \ {p} : port = q => port' = q
    BY <1>5 DEF ExitCommand, ThreadEnds, Die
  <2> QED
    BY <2>1, <2>2, <2>3 DEF OneWriter, ActiveHasPort, OneActive, CallsOfThreads,
                            Active, HasThread
<1>6. ASSUME NEW p \in Procs, ThreadStep(p)
      PROVE  OneWriter'
  <2>1. UNCHANGED <<stage, port>> /\ HasThread(p)
    BY <1>6 DEF ThreadStep, Announce, Select, Insert, LookUp, OneWriter,
                CallsOfThreads
  <2>2. \A q \in Procs \ {p} : call'[q] = call[q]
    BY <1>6 DEF ThreadStep, Announce, Select, Insert, LookUp, TypeOK
  <2> QED
    BY <2>1, <2>2 DEF OneWriter, ActiveHasPort, OneActive, CallsOfThreads,
                      Active, HasThread
<1> QED
  BY <1>1, <1>2, <1>3, <1>4, <1>5, <1>6 DEF Next

(* An overlap is remembered.                                                *)
LEMMA OverlapStays ==
  ASSUME TypeOK, [Next]_vars, overlapped
  PROVE  overlapped'
BY DEF Next, vars, ThreadStep, Start, OpenDb, CreateTable, ListFails, ExitCommand,
       ThreadEnds, Die, Announce, Select, Insert, LookUp

LEMMA SelectStillTrueStep ==
  ASSUME TypeOK, ~overlapped, OneWriter, SelectStillTrue, [Next]_vars
  PROVE  SelectStillTrue'
<1>1. ASSUME users' = users,
             \A q \in Procs : \/ call'[q].step # "insert"
                              \/ call'[q] = call[q]
                              \/ Plain(call'[q].name) => ~HasRow(call'[q].name)
      PROVE  SelectStillTrue'
  BY <1>1 DEF SelectStillTrue, HasRow
<1>2. CASE UNCHANGED vars
  BY <1>1, <1>2 DEF vars, accounts
<1>3. ASSUME NEW p \in Procs,
             \/ Start(p) \/ OpenDb(p) \/ CreateTable(p)
             \/ ListFails(p) \/ ExitCommand(p) \/ ThreadEnds(p)
      PROVE  SelectStillTrue'
  BY <1>1, <1>3 DEF Start, OpenDb, CreateTable, ListFails, ExitCommand, ThreadEnds,
                    accounts
<1>4. ASSUME NEW p \in Procs, Die(p)
      PROVE  SelectStillTrue'
  <2>1. \A q \in Procs : call'[q].step # "insert" \/ call'[q] = call[q]
    BY <1>4 DEF Die, TypeOK, NoCall
  <2> QED
    BY <1>1, <1>4, <2>1 DEF Die, accounts
<1>5. ASSUME NEW p \in Procs, NEW doc \in MessageDocs, Announce(p, doc)
      PROVE  SelectStillTrue'
  <2>1. \A q \in Procs : call'[q].step # "insert" \/ call'[q] = call[q]
    BY <1>5 DEF Announce, TypeOK
  <2> QED
    BY <1>1, <1>5, <2>1 DEF Announce, accounts
(* What a statement of the one writer leaves: its own call alone may go on,  *)
(* with a name that is not plain.                                           *)
<1>6. ASSUME NEW p \in Procs, HasThread(p),
             \A q \in Procs \ {p} : call'[q] = call[q],
             call'[p].step # "insert" \/ ~Plain(call'[p].name)
      PROVE  SelectStillTrue'
  <2>1. ASSUME NEW q \in Procs \ {p} PROVE call'[q].step = "none"
    <3>1. ~HasThread(q)
      BY <1>6 DEF OneWriter, OneActive, Active, HasThread
    <3> QED
      BY <1>6, <3>1 DEF OneWriter, CallsOfThreads, TypeOK
  <2> QED
    BY <1>6, <2>1 DEF SelectStillTrue
<1>7. ASSUME NEW p \in Procs, Select(p)
      PROVE  SelectStillTrue'
  <2>0. PICK ran \in BOOLEAN :
          \E exists \in UsersNameExist(call[p].name, ran) :
            /\ ran => Usable(p)
            /\ SelectName(call[p].name, ran)
            /\ call' = [call EXCEPT ![p] = IF exists THEN NoCall
                                          ELSE [@ EXCEPT !.step = "insert"]]
    BY <1>7 DEF Select
  <2>1. PICK exists \in UsersNameExist(call[p].name, ran) :
          /\ SelectName(call[p].name, ran)
          /\ call' = [call EXCEPT ![p] = IF exists THEN NoCall
                                        ELSE [@ EXCEPT !.step = "insert"]]
    BY <2>0
  <2>2. \A q \in Procs \ {p} : call'[q] = call[q]
    BY <2>1 DEF TypeOK
  <2>3. HasThread(p)
    BY <1>7 DEF Select, OneWriter, CallsOfThreads
  <2>4. call'[p] = NoCall \/ (call'[p].name = call[p].name /\ ~exists)
    BY <2>1 DEF TypeOK
  <2>5. CASE Plain(call[p].name)
    <3>1. users' = users
      BY <2>1, <2>5 DEF SelectName, accounts
    <3>2. exists \/ ~HasRow(call[p].name)
      BY <2>5, Zenon DEF UsersNameExist
    <3>3. call'[p].step # "insert" \/ ~HasRow(call'[p].name)
      BY <2>4, <3>2 DEF NoCall
    <3> QED
      BY <1>1, <2>2, <3>1, <3>3
  <2>6. CASE ~Plain(call[p].name)
    BY <1>6, <2>2, <2>3, <2>4, <2>6 DEF NoCall
  <2> QED
    BY <2>5, <2>6
<1>8. ASSUME NEW p \in Procs, Insert(p)
      PROVE  SelectStillTrue'
  <2>1. /\ \A q \in Procs \ {p} : call'[q] = call[q]
        /\ call'[p].step # "insert"
    BY <1>8 DEF Insert, TypeOK, NoCall
  <2>2. HasThread(p)
    BY <1>8 DEF Insert, OneWriter, CallsOfThreads
  <2> QED
    BY <1>6, <2>1, <2>2
<1>9. ASSUME NEW p \in Procs, NEW doc \in MessageDocs, LookUp(p, doc)
      PROVE  SelectStillTrue'
  <2>1. HasThread(p) /\ call' = call /\ call[p].step # "insert"
    BY <1>9 DEF LookUp, NoCall
  <2> QED
    BY <1>6, <2>1
<1> QED
  BY <1>2, <1>3, <1>4, <1>5, <1>7, <1>8, <1>9 DEF Next, ThreadStep

WriterInv == ~overlapped => OneWriter /\ SelectStillTrue

LEMMA WriterInvCorrect == Spec => []WriterInv
<1>1. Init => WriterInv
  BY DEF Init, WriterInv, OneWriter, ActiveHasPort, OneActive, CallsOfThreads, Active,
         SelectStillTrue, NoCall
<1>2. TypeOK /\ WriterInv /\ [Next]_vars => WriterInv'
  BY OneWriterStep, SelectStillTrueStep, OverlapStays DEF WriterInv
<1> QED
  BY <1>1, <1>2, TypeCorrect, PTL DEF Spec

(* Between the SELECT and the INSERT of users_add nobody adds the name, as long *)
(* as no process has started while another one was ending.                    *)
THEOREM SelectStillTrueCorrect == Spec => []SelectStillTrue
<1>1. WriterInv => SelectStillTrue
  BY DEF WriterInv, SelectStillTrue
<1> QED
  BY <1>1, WriterInvCorrect, PTL

(***************************************************************************)
(* The names in users.db.                                                   *)
(***************************************************************************)
Accepted(name) ==
  \/ name = << >>
  \/ \E doc \in MessageDocs : DeserializeRet(doc) >= 0 /\ Field(doc.username) = name

CallsAccepted == \A p \in Procs : Accepted(call[p].name)

CallsAnnounced ==
  \A p \in Procs :
    /\ call[p].step # "none"
    /\ Plain(call[p].name) /\ Plain(call[p].password)
    => [name |-> call[p].name, password |-> call[p].password] \in Announced

(* A call is over, goes on with its arguments, or begins with those of a text.  *)
LEMMA CallStep ==
  ASSUME TypeOK, [Next]_vars, NEW q \in Procs
  PROVE  \/ call'[q] = NoCall
         \/ /\ call'[q].name = call[q].name /\ call'[q].password = call[q].password
            /\ call'[q].step # "none" => call[q].step # "none"
         \/ \E doc \in MessageDocs : /\ call'[q].name = Deserialize(doc).username
                                     /\ call'[q].password = Deserialize(doc).passwd
<1> DEFINE Goal == \/ call'[q] = NoCall
                   \/ /\ call'[q].name = call[q].name
                      /\ call'[q].password = call[q].password
                      /\ call'[q].step # "none" => call[q].step # "none"
                   \/ \E doc \in MessageDocs :
                        /\ call'[q].name = Deserialize(doc).username
                        /\ call'[q].password = Deserialize(doc).passwd
<1>1. CASE call'[q] = call[q]
  BY <1>1
<1>2. ASSUME NEW p \in Procs, Select(p), call'[q] # call[q]
      PROVE  Goal
  <2>1. \/ call' = [call EXCEPT ![p] = NoCall]
        \/ call' = [call EXCEPT ![p] = [call[p] EXCEPT !.step = "insert"]]
    BY <1>2 DEF Select
  <2>2. p = q /\ call[p].step = "select"
    BY <1>2, <2>1 DEF TypeOK, Select
  <2> QED
    BY <2>1, <2>2 DEF TypeOK
<1>3. ASSUME NEW p \in Procs, Insert(p) \/ Die(p), call'[q] # call[q]
      PROVE  Goal
  <2>1. call' = [call EXCEPT ![p] = NoCall]
    BY <1>3 DEF Insert, Die
  <2> QED
    BY <1>3, <2>1 DEF TypeOK
<1>4. ASSUME NEW p \in Procs, NEW doc \in MessageDocs, Announce(p, doc),
             call'[q] # call[q]
      PROVE  Goal
  <2>1. call' = [call EXCEPT ![p] = [step |-> "select", name |-> Deserialize(doc).username,
                                     password |-> Deserialize(doc).passwd]]
    BY <1>4 DEF Announce
  <2>2. p = q
    BY <1>4, <2>1 DEF TypeOK
  <2> QED
    BY <2>1, <2>2 DEF TypeOK
<1>5. ASSUME call'[q] # call[q]
      PROVE  \E p \in Procs : \/ Select(p) \/ Insert(p) \/ Die(p)
                              \/ \E doc \in MessageDocs : Announce(p, doc)
  BY <1>5 DEF Next, vars, ThreadStep, Start, OpenDb, CreateTable, ListFails,
              ExitCommand, ThreadEnds, LookUp
<1> HIDE DEF Goal
<1>6. Goal
  BY <1>2, <1>3, <1>4, <1>5, <1>1 DEF Goal
<1> QED
  BY <1>6 DEF Goal

(* The table stays, the call of some process adds its row, or a text that is   *)
(* not plain has run; an overlap begins in a step that leaves the table alone. *)
LEMMA UsersStep ==
  ASSUME TypeOK, [Next]_vars
  PROVE  \/ UNCHANGED accounts /\ (overlapped' = overlapped \/ overlapped' = TRUE)
         \/ /\ \E p \in Procs :
                 /\ call[p].step = "insert"
                 /\ Plain(call[p].name) /\ Plain(call[p].password)
                 /\ users' = Append(users, [name |-> call[p].name,
                                            password |-> call[p].password])
            /\ UNCHANGED <<rewritten, overlapped>>
         \/ Rewrite /\ UNCHANGED overlapped
<1> DEFINE Goal == \/ UNCHANGED accounts /\ (overlapped' = overlapped \/ overlapped' = TRUE)
                   \/ /\ \E p \in Procs :
                           /\ call[p].step = "insert"
                           /\ Plain(call[p].name) /\ Plain(call[p].password)
                           /\ users' = Append(users, [name |-> call[p].name,
                                                      password |-> call[p].password])
                      /\ UNCHANGED <<rewritten, overlapped>>
                   \/ Rewrite /\ UNCHANGED overlapped
<1>1. CASE UNCHANGED vars
  BY <1>1 DEF vars, accounts
<1>2. ASSUME NEW p \in Procs,
             \/ Start(p) \/ OpenDb(p) \/ CreateTable(p)
             \/ ListFails(p) \/ ExitCommand(p) \/ ThreadEnds(p) \/ Die(p)
      PROVE  UNCHANGED accounts /\ (overlapped' = overlapped \/ overlapped' = TRUE)
  <2>1. UNCHANGED accounts
    BY <1>2 DEF Start, OpenDb, CreateTable, ListFails, ExitCommand, ThreadEnds, Die
  <2>2. CASE Start(p)
    <3>1. overlapped \in BOOLEAN
      BY DEF TypeOK
    <3>2. overlapped' = overlapped \/ overlapped' = (overlapped \/ Overlaps)
      BY <2>2, Zenon DEF Start
    <3>3. (overlapped \/ Overlaps) = overlapped \/ (overlapped \/ Overlaps) = TRUE
      BY <3>1, Zenon DEF Overlaps
    <3> QED
      BY <2>1, <3>2, <3>3, Zenon
  <2>3. CASE ~Start(p)
    BY <1>2, <2>1, <2>3 DEF OpenDb, CreateTable, ListFails, ExitCommand, ThreadEnds, Die
  <2> QED
    BY <2>2, <2>3
<1>3. ASSUME NEW p \in Procs, NEW doc \in MessageDocs,
             Announce(p, doc) \/ LookUp(p, doc)
      PROVE  Goal
  BY <1>3 DEF Announce, LookUp, SelectName
<1>4. ASSUME NEW p \in Procs, Select(p)
      PROVE  Goal
  BY <1>4 DEF Select, SelectName
<1>5. ASSUME NEW p \in Procs, Insert(p)
      PROVE  Goal
  <2>1. CASE \E ret \in {-3, 0} : InsertRow(call[p].name, call[p].password, ret)
    BY <1>5, <2>1 DEF Insert, InsertRow, accounts
  <2>2. CASE UNCHANGED accounts
    BY <1>5, <2>2 DEF Insert
  <2> QED
    BY <1>5, <2>1, <2>2 DEF Insert
<1> QED
  BY <1>1, <1>2, <1>3, <1>4, <1>5 DEF Next, ThreadStep

LEMMA AcceptedStep ==
  ASSUME TypeOK, CallsAccepted, OnlyAcceptedNamesStored, [Next]_vars
  PROVE  CallsAccepted' /\ OnlyAcceptedNamesStored'
<1>1. CallsAccepted'
  <2> SUFFICES ASSUME NEW q \in Procs PROVE Accepted(call'[q].name)
    BY DEF CallsAccepted, Accepted
  <2>1. \A doc \in MessageDocs : Accepted(Deserialize(doc).username)
    BY AnnouncedByAccepted DEF Accepted
  <2>2. Accepted(NoCall.name)
    BY DEF Accepted, NoCall
  <2>3. Accepted(call[q].name)
    BY DEF CallsAccepted
  <2> QED
    BY <2>1, <2>2, <2>3, CallStep
<1>2. OnlyAcceptedNamesStored'
  <2>1. CASE UNCHANGED accounts
    BY <2>1 DEF OnlyAcceptedNamesStored, accounts
  <2>2. ASSUME NEW p \in Procs, rewritten' = rewritten,
               users' = Append(users, [name |-> call[p].name,
                                       password |-> call[p].password])
        PROVE  OnlyAcceptedNamesStored'
    <3> DEFINE row == [name |-> call[p].name, password |-> call[p].password]
               n   == Len(users)
    <3> SUFFICES ASSUME ~rewritten PROVE OnlyAcceptedNamesStored'
      BY <2>2 DEF OnlyAcceptedNamesStored
    <3>1. row \in Rows /\ users \in Seq(Rows) /\ users' = Append(users, row)
      BY <2>2 DEF TypeOK, Rows
    <3>2. Accepted(row.name)
      BY DEF CallsAccepted
    <3>3. \A k \in DOMAIN users : Accepted(users[k].name)
      BY DEF OnlyAcceptedNamesStored, Accepted
    <3> HIDE DEF row
    <3>4. /\ n \in Nat /\ DOMAIN users = 1 .. n /\ DOMAIN users' = 1 .. n + 1
          /\ \A k \in 1 .. n : users'[k] = users[k]
          /\ users'[n + 1] = row
      BY <3>1, AppendProperties, LenProperties
    <3> HIDE DEF n
    <3>5. \A k \in 1 .. n + 1 : k \in 1 .. n \/ k = n + 1
      BY <3>4
    <3>6. \A k \in DOMAIN users' : Accepted(users'[k].name)
      BY <3>2, <3>3, <3>4, <3>5
    <3> QED
      BY <3>6 DEF OnlyAcceptedNamesStored, Accepted
  <2>3. CASE Rewrite
    BY <2>3 DEF Rewrite, OnlyAcceptedNamesStored
  <2> QED
    BY <2>1, <2>2, <2>3, UsersStep
<1> QED
  BY <1>1, <1>2

(* As long as only plain texts have come, a text the parser rejects leaves an   *)
(* empty name at most, whatever its fields.                                  *)
THEOREM OnlyAcceptedNamesStoredCorrect == Spec => []OnlyAcceptedNamesStored
<1>1. Init => CallsAccepted /\ OnlyAcceptedNamesStored
  BY DEF Init, CallsAccepted, OnlyAcceptedNamesStored, Accepted, NoCall
<1>2. TypeOK /\ CallsAccepted /\ OnlyAcceptedNamesStored /\ [Next]_vars
        => CallsAccepted' /\ OnlyAcceptedNamesStored'
  BY AcceptedStep
<1> QED
  BY <1>1, <1>2, TypeCorrect, PTL DEF Spec

(***************************************************************************)
(* Refinement.                                                              *)
(***************************************************************************)
LEMMA CallsAnnouncedStep ==
  ASSUME TypeOK, CallsAnnounced, [Next]_vars
  PROVE  CallsAnnounced'
<1> DEFINE Account(c) == [name |-> c.name, password |-> c.password]
<1> SUFFICES ASSUME NEW q \in Procs, call'[q].step # "none",
                    Plain(call'[q].name), Plain(call'[q].password)
             PROVE  Account(call'[q]) \in Announced
  BY DEF CallsAnnounced, Announced, Plain
<1>1. call'[q] # NoCall
  BY DEF NoCall
<1>2. CASE /\ call'[q].name = call[q].name /\ call'[q].password = call[q].password
           /\ call[q].step # "none"
  BY <1>2 DEF CallsAnnounced
<1>3. ASSUME NEW doc \in MessageDocs,
             call'[q].name = Deserialize(doc).username,
             call'[q].password = Deserialize(doc).passwd
      PROVE  Account(call'[q]) \in Announced
  BY <1>3 DEF Announced
<1> QED
  BY <1>1, <1>2, <1>3, CallStep

LEMMA BookStep ==
  ASSUME TypeOK, SelectStillTrue, CallsAnnounced, [Next]_vars
  PROVE  [Book!Next]_(Book!bookVars)
<1>1. ASSUME NEW p \in Procs, call[p].step = "insert",
             Plain(call[p].name), Plain(call[p].password),
             users' = Append(users, [name |-> call[p].name,
                                     password |-> call[p].password]),
             UNCHANGED <<rewritten, overlapped>>
      PROVE  Book!Next
  <2> DEFINE account == [name |-> call[p].name, password |-> call[p].password]
  <2>1. account \in Announced
    BY <1>1 DEF CallsAnnounced
  <2>2. ~overlapped => \A k \in DOMAIN users : users[k].name # account.name
    BY <1>1 DEF SelectStillTrue, HasRow
  <2>3. users' = Append(users, account)
    BY <1>1
  <2> HIDE DEF account
  <2>4. Book!Register(account)
    BY <1>1, <2>2, <2>3 DEF Book!Register
  <2> QED
    BY <2>1, <2>4 DEF Book!Next
<1>2. CASE Rewrite /\ UNCHANGED overlapped
  BY <1>2 DEF Rewrite, Book!Rewrite, Book!Next
<1>3. CASE UNCHANGED accounts /\ (overlapped' = overlapped \/ overlapped' = TRUE)
  BY <1>3 DEF accounts, Book!Overlap, Book!Next, Book!bookVars
<1> QED
  BY <1>1, <1>2, <1>3, UsersStep

(* users_add, in three steps, over crashes, overlaps and texts of any kind, is  *)
(* one step of the book of accounts: a row that is added is an announced        *)
(* account of plain texts, and of a name that was free unless two processes     *)
(* overlapped.                                                              *)
THEOREM ImplementsAccountBookCorrect == Spec => ImplementsAccountBook
<1>1. Init => CallsAnnounced /\ Book!Init
  BY DEF Init, CallsAnnounced, NoCall, Book!Init
<1>2. TypeOK /\ CallsAnnounced /\ [Next]_vars => CallsAnnounced'
  BY CallsAnnouncedStep
<1>3. TypeOK /\ SelectStillTrue /\ CallsAnnounced /\ [Next]_vars
        => [Book!Next]_(Book!bookVars)
  BY BookStep
<1> QED
  BY <1>1, <1>2, <1>3, TypeCorrect, SelectStillTrueCorrect, PTL
     DEF Spec, ImplementsAccountBook, Book!Spec
==============================================================================
