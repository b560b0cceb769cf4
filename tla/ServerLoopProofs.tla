-------------------------- MODULE ServerLoopProofs --------------------------
(***************************************************************************)
(* Proofs about ServerLoop, for every size of the table and of the read      *)
(* buffer, any clients and any descriptors: invariants, action properties,   *)
(* and the table as an implementation of SessionPool.                       *)
(***************************************************************************)
EXTENDS ServerLoop, FiniteSetTheorems, SequenceTheorems, TLAPS

(***************************************************************************)
(* Types of what the parser and the accounts produce.                       *)
(***************************************************************************)

(* A field cut to its size is a string of the same characters.              *)
LEMMA FieldIsString == \A s \in Strings : Field(s) \in Strings
<1> SUFFICES ASSUME NEW s \in Strings
             PROVE  Field(s) \in Strings
  OBVIOUS
<1>1. CASE Len(s) < USER_NAME_SIZE
  BY <1>1 DEF Field
<1>2. CASE ~(Len(s) < USER_NAME_SIZE)
  <2>1. USER_NAME_SIZE \in Nat \ {0}
    BY FieldSizeAssumption
  <2>2. \A i \in 1 .. USER_NAME_SIZE - 1 : s[i] \in Chars
    BY <1>2, <2>1, LenProperties DEF Strings
  <2>3. SubSeq(s, 1, USER_NAME_SIZE - 1) \in Seq(Chars)
    BY <2>1, <2>2, SubSeqProperties
  <2> QED
    BY <1>2, <2>3 DEF Field, Strings
<1> QED
  BY <1>1, <1>2

(* The message made of a text holds strings.                                *)
LEMMA DeserializeType ==
  \A doc \in MessageDocs : /\ Deserialize(doc).username \in Strings
                           /\ Deserialize(doc).passwd \in Strings
                           /\ Deserialize(doc).target \in Strings
<1> SUFFICES ASSUME NEW doc \in MessageDocs
             PROVE  /\ Deserialize(doc).username \in Strings
                    /\ Deserialize(doc).passwd \in Strings
                    /\ Deserialize(doc).target \in Strings
  OBVIOUS
<1>1. doc.username \in Strings /\ doc.passwd \in Strings /\ doc.target \in Strings
  BY DocsAssumption DEF Docs
<1>2. << >> \in Strings
  BY EmptySeq DEF Strings
<1> QED
  BY <1>1, <1>2, FieldIsString DEF Deserialize, Target

(* The statements keep the table a table.                                   *)
LEMMA StatementType ==
  ASSUME NEW name \in Strings, NEW password \in Strings,
         users \in Seq(Rows), rewritten \in BOOLEAN,
         \/ \E ran \in BOOLEAN : SelectName(name, ran)
         \/ \E ret : InsertRow(name, password, ret)
  PROVE  users' \in Seq(Rows) /\ rewritten' \in BOOLEAN
<1> DEFINE row == [name |-> name, password |-> password]
<1>1. /\ users' = users \/ users' \in Tables \/ users' = Append(users, row)
      /\ rewritten' = rewritten \/ rewritten' = TRUE
  BY DEF SelectName, InsertRow, Rewrite, accounts
<1>2. row \in Rows
  BY DEF Rows
<1> HIDE DEF row
<1>3. CASE users' = users
  BY <1>1, <1>3
<1>4. CASE users' \in Tables
  BY <1>1, <1>4, TablesAssumption
<1>5. CASE users' = Append(users, row)
  <2>1. Append(users, row) \in Seq(Rows)
    BY <1>2, AppendProperties
  <2> QED
    BY <1>1, <1>5, <2>1
<1> QED
  BY <1>1, <1>3, <1>4, <1>5

LEMMA UsersAddType ==
  ASSUME NEW name \in Strings, NEW password \in Strings, NEW ret,
         users \in Seq(Rows), rewritten \in BOOLEAN,
         UsersAdd(name, password, ret)
  PROVE  users' \in Seq(Rows) /\ rewritten' \in BOOLEAN
<1>1. \/ \E ran \in BOOLEAN : SelectName(name, ran)
      \/ InsertRow(name, password, ret)
  BY Zenon DEF UsersAdd
<1> QED
  BY <1>1, StatementType

(* A write changes nothing but the state of a connection.                   *)
LEMMA WriteType ==
  ASSUME NEW c, NEW result, tcp \in [Conns -> TcpStates], Write(c, result)
  PROVE  tcp' \in [Conns -> TcpStates]
BY DEF Write, TcpStates

LEMMA NextIterationType ==
  ASSUME idx \in Slots, NextIteration
  PROVE  idx' \in Slots /\ pc' \in {"scan", "poll"}
BY TableAssumption DEF NextIteration, Slots

(***************************************************************************)
(* Type correctness.                                                        *)
(***************************************************************************)

LEMMA TypeInit == Init => TypeOK
<1> SUFFICES ASSUME Init
             PROVE  TypeOK
  OBVIOUS
<1>1. fd \in [Slots -> Fds]
  BY DEF Init, FreshFd, Fds
<1>2. username \in [Slots -> Strings \cup {Root}]
  BY EmptySeq DEF Init, FreshUsername, NoName, Strings
<1>3. idx \in Slots
  BY TableAssumption DEF Init, Slots
<1>4. users \in Seq(Rows) /\ rewritten \in BOOLEAN /\ backlog \in Seq(Conns)
  BY EmptySeq DEF Init
<1>5. inbox \in [Conns -> Seq(MessageDocs)]
  BY EmptySeq DEF Init
<1> QED
  BY <1>1, <1>2, <1>3, <1>4, <1>5 DEF Init, TypeOK, FreshEvents, TcpStates

(* Close_client_connection keeps the types of the table.                    *)
LEMMA ClearSlotType ==
  ASSUME TypeOK, NEW i \in Slots, ClearSlot(i)
  PROVE  /\ fd' \in [Slots -> Fds]
         /\ events' \in [Slots -> BOOLEAN]
         /\ revents' \in [Slots -> BOOLEAN]
         /\ username' \in [Slots -> Strings \cup {Root}]
         /\ client_count' \in Int
<1>1. NoName \in Strings
  BY EmptySeq DEF NoName, Strings
<1>2. client_count' \in Int
  BY DEF TypeOK, ClearSlot
<1>3. CASE fd[i] # NoFd
  <2>1. /\ fd' = [fd EXCEPT ![i] = NoFd]
        /\ events' = [events EXCEPT ![i] = FALSE]
        /\ revents' = [revents EXCEPT ![i] = FALSE]
        /\ username' = [username EXCEPT ![i] = NoName]
    BY <1>3 DEF ClearSlot
  <2>2. fd' \in [Slots -> Fds]
    BY <2>1 DEF TypeOK, Fds
  <2>3. events' \in [Slots -> BOOLEAN] /\ revents' \in [Slots -> BOOLEAN]
    BY <2>1 DEF TypeOK
  <2>4. username' \in [Slots -> Strings \cup {Root}]
    BY <1>1, <2>1 DEF TypeOK
  <2> QED
    BY <1>2, <2>2, <2>3, <2>4
<1>4. CASE fd[i] = NoFd
  <2>1. UNCHANGED <<fd, events, revents, username>>
    BY <1>4 DEF ClearSlot
  <2> QED
    BY <1>2, <2>1 DEF TypeOK
<1> QED
  BY <1>3, <1>4

LEMMA TypeClients ==
  ASSUME TypeOK, ClientNext
  PROVE  TypeOK'
<1> PICK c \in Conns : \/ Connect(c)
                       \/ \E doc \in MessageDocs : Send(c, doc)
                       \/ Close(c)
  BY DEF ClientNext
<1>1. CASE Connect(c)
  <2>1. backlog' \in Seq(Conns)
    BY <1>1 DEF TypeOK, Connect
  <2> QED
    BY <1>1, <2>1 DEF TypeOK, Connect, ClientStep, table, TcpStates, accounts
<1>2. CASE \E doc \in MessageDocs : Send(c, doc)
  <2> PICK doc \in MessageDocs : Send(c, doc)
    BY <1>2
  <2>1. inbox' \in [Conns -> Seq(MessageDocs)]
    BY DEF TypeOK, Send
  <2>2. sent' \in [Conns -> Nat]
    BY DEF TypeOK, Send
  <2> QED
    BY <2>1, <2>2 DEF TypeOK, Send, ClientStep, table, accounts
<1>3. CASE Close(c)
  BY <1>3 DEF TypeOK, Close, ClientStep, table, TcpStates, accounts
<1> QED
  BY <1>1, <1>2, <1>3

(* What a read takes leaves a queue of texts.                               *)
LEMMA ReadMessageType ==
  ASSUME TypeOK, NEW doc, ReadMessage(doc)
  PROVE  inbox' \in [Conns -> Seq(MessageDocs)]
<1> DEFINE p == Peer(idx)
           rest(s) == SubSeq(s, ReadResult(p) + 1, Len(s))
<1>1. inbox' = [inbox EXCEPT ![p] = rest(inbox[p])]
  BY DEF ReadMessage
<1>2. CASE p \in Conns
  <2>1. inbox[p] \in Seq(MessageDocs)
    BY <1>2 DEF TypeOK
  <2>2. ReadResult(p) \in Nat
    BY <2>1, TableAssumption, LenProperties DEF ReadResult, ReadMessage
  <2>3. rest(inbox[p]) \in Seq(MessageDocs)
    <3>1. Len(inbox[p]) \in Nat
      BY <2>1, LenProperties
    <3>2. \A i \in ReadResult(p) + 1 .. Len(inbox[p]) :
             inbox[p][i] \in MessageDocs
      BY <2>1, <2>2, <3>1, ElementOfSeq
    <3> HIDE DEF p
    <3> QED
      BY <2>2, <3>1, <3>2, SubSeqProperties
  <2> HIDE DEF p, rest
  <2> QED
    BY <1>1, <2>3 DEF TypeOK
<1>3. CASE p \notin Conns
  <2> HIDE DEF p, rest
  <2> QED
    BY <1>1, <1>3 DEF TypeOK
<1> QED
  BY <1>2, <1>3

LEMMA TypeServerEvents ==
  ASSUME TypeOK, ServerEvents
  PROVE  TypeOK'
<1>1. CASE NothingAccepted
  BY <1>1, NextIterationType DEF TypeOK, NothingAccepted, table, kernel, accounts
<1>2. CASE \E f \in ClientFds, i \in Slots : AcceptIntoSlot(f, i)
  <2> PICK f \in ClientFds, i \in Slots : AcceptIntoSlot(f, i)
    BY <1>2
  <2>1. Head(backlog) \in Conns /\ backlog' \in Seq(Conns)
    BY HeadTailProperties DEF TypeOK, AcceptIntoSlot
  <2>2. owner' \in [ClientFds -> Conns \cup {NoConn}]
    BY <2>1 DEF TypeOK, AcceptIntoSlot
  <2>3. fd' \in [Slots -> Fds] /\ events' \in [Slots -> BOOLEAN]
    BY DEF TypeOK, AcceptIntoSlot, Fds
  <2>4. client_count' \in Int
    BY DEF TypeOK, AcceptIntoSlot
  <2>5. idx' \in Slots /\ pc' \in {"scan", "poll"}
    BY NextIterationType DEF TypeOK, AcceptIntoSlot
  <2> QED
    BY <2>1, <2>2, <2>3, <2>4, <2>5 DEF TypeOK, AcceptIntoSlot, accounts
<1>3. CASE \E f \in ClientFds : AcceptWithoutSlot(f)
  <2> PICK f \in ClientFds : AcceptWithoutSlot(f)
    BY <1>3
  <2>1. Head(backlog) \in Conns /\ backlog' \in Seq(Conns)
    BY HeadTailProperties DEF TypeOK, AcceptWithoutSlot
  <2>2. owner' \in [ClientFds -> Conns \cup {NoConn}]
    BY <2>1 DEF TypeOK, AcceptWithoutSlot
  <2>3. idx' \in Slots /\ pc' \in {"scan", "poll"}
    BY NextIterationType DEF TypeOK, AcceptWithoutSlot
  <2> QED
    BY <2>1, <2>2, <2>3 DEF TypeOK, AcceptWithoutSlot, table, accounts
<1> QED
  BY <1>1, <1>2, <1>3 DEF ServerEvents

LEMMA TypeClientEvents ==
  ASSUME TypeOK, ClientEvents
  PROVE  TypeOK'
<1>1. CASE Disconnect
  <2>1. owner' \in [ClientFds -> Conns \cup {NoConn}]
    BY <1>1 DEF TypeOK, Disconnect
  <2>2. idx \in Slots /\ ClearSlot(idx) /\ NextIteration
    BY <1>1 DEF TypeOK, Disconnect
  <2> QED
    BY <1>1, <2>1, <2>2, ClearSlotType, NextIterationType DEF TypeOK, Disconnect, accounts
<1>2. CASE FailedRead
  <2>1. tcp' \in [Conns -> TcpStates]
    BY <1>2 DEF TypeOK, FailedRead, TcpStates
  <2>2. idx' \in Slots /\ pc' \in {"scan", "poll"}
    BY <1>2, NextIterationType DEF TypeOK, FailedRead
  <2> QED
    BY <1>2, <2>1, <2>2 DEF TypeOK, FailedRead, table, accounts
<1>3. CASE InfoMessage
  <2> PICK doc \in MessageDocs :
        /\ ReadMessage(doc)
        /\ LET msg == Deserialize(doc)
           IN /\ \E ret \in {-3, -1, 0} : UsersAdd(msg.username, msg.passwd, ret)
              /\ username' = [username EXCEPT ![idx] = msg.username]
    BY <1>3 DEF InfoMessage
  <2>1. inbox' \in [Conns -> Seq(MessageDocs)]
    BY ReadMessageType
  <2>2. users' \in Seq(Rows) /\ rewritten' \in BOOLEAN
    BY DeserializeType, UsersAddType DEF TypeOK
  <2>3. username' \in [Slots -> Strings \cup {Root}]
    BY DeserializeType DEF TypeOK
  <2>4. /\ UNCHANGED <<fd, events, revents, client_count, idx>>
        /\ UNCHANGED <<backlog, owner, tcp, sent>>
        /\ pc' = "fetch"
    BY <1>3 DEF InfoMessage, ReadMessage
  <2> QED
    BY <2>1, <2>2, <2>3, <2>4 DEF TypeOK
<1>4. CASE OtherMessage
  <2> PICK doc \in MessageDocs : ReadMessage(doc)
    BY <1>4 DEF OtherMessage
  <2>1. inbox' \in [Conns -> Seq(MessageDocs)]
    BY ReadMessageType
  <2>2. idx' \in Slots /\ pc' \in {"scan", "poll"}
    BY <1>4, NextIterationType DEF TypeOK, OtherMessage
  <2>3. UNCHANGED <<table, revents, accounts, backlog, owner, tcp, sent>>
    BY <1>4 DEF OtherMessage, ReadMessage
  <2> QED
    BY <2>1, <2>2, <2>3 DEF TypeOK, table, accounts
<1>5. CASE FaultingMessage
  <2> PICK doc \in MessageDocs : ReadMessage(doc)
    BY <1>5 DEF FaultingMessage
  <2>1. inbox' \in [Conns -> Seq(MessageDocs)]
    BY ReadMessageType
  <2>2. /\ UNCHANGED <<table, revents, accounts, idx, backlog, owner, tcp, sent>>
        /\ pc' = "dead"
    BY <1>5 DEF FaultingMessage, ReadMessage
  <2> QED
    BY <2>1, <2>2 DEF TypeOK, table, accounts
<1>6. CASE ChatMessage
  <2> PICK doc \in MessageDocs :
        /\ ReadMessage(doc)
        /\ \E ran \in BOOLEAN : SelectName(Deserialize(doc).target, ran)
    BY <1>6 DEF ChatMessage
  <2>1. inbox' \in [Conns -> Seq(MessageDocs)]
    BY ReadMessageType
  <2>2. idx' \in Slots /\ pc' \in {"scan", "poll"}
    BY <1>6, NextIterationType DEF TypeOK, ChatMessage
  <2>3. users' \in Seq(Rows) /\ rewritten' \in BOOLEAN
    BY DeserializeType, StatementType DEF TypeOK
  <2>4. UNCHANGED <<table, revents, backlog, owner, tcp, sent>>
    BY <1>6 DEF ChatMessage, ReadMessage
  <2> QED
    BY <2>1, <2>2, <2>3, <2>4 DEF TypeOK, table
<1> QED
  BY <1>1, <1>2, <1>3, <1>4, <1>5, <1>6 DEF ClientEvents

LEMMA TypeThread ==
  ASSUME TypeOK, Poll \/ SkipSlot \/ SendPayload
  PROVE  TypeOK'
<1>1. CASE Poll
  <2>1. revents' \in [Slots -> BOOLEAN]
    BY <1>1 DEF TypeOK, Poll, PollResults, Readable
  <2>2. idx' \in Slots
    BY <1>1, TableAssumption DEF Poll, Slots
  <2> QED
    BY <1>1, <2>1, <2>2 DEF TypeOK, Poll, table, kernel, accounts
<1>2. CASE SkipSlot
  BY <1>2, NextIterationType DEF TypeOK, SkipSlot, table, kernel, accounts
<1>3. CASE SendPayload
  <2>1. tcp' \in [Conns -> TcpStates]
    BY <1>3, WriteType DEF TypeOK, SendPayload
  <2>2. idx' \in Slots /\ pc' \in {"scan", "poll", "dead"}
    BY <1>3, NextIterationType DEF TypeOK, SendPayload
  <2> QED
    BY <1>3, <2>1, <2>2 DEF TypeOK, SendPayload, table, accounts
<1> QED
  BY <1>1, <1>2, <1>3

LEMMA TypeWeather ==
  ASSUME TypeOK, WeatherStep
  PROVE  TypeOK'
<1>1. CASE WeatherFailed
  BY <1>1, NextIterationType DEF TypeOK, WeatherFailed, table, kernel, accounts
<1>2. CASE SendHeader
  <2>1. tcp' \in [Conns -> TcpStates]
    BY <1>2, WriteType DEF TypeOK, SendHeader
  <2> QED
    BY <1>2, <2>1 DEF TypeOK, SendHeader, table, accounts
<1> QED
  BY <1>1, <1>2 DEF WeatherStep

LEMMA TypeRestart ==
  ASSUME TypeOK, Restart
  PROVE  TypeOK'
<1>1. fd' \in [Slots -> Fds]
  BY DEF Restart, FreshFd, Fds
<1>2. username' \in [Slots -> Strings \cup {Root}]
  BY EmptySeq DEF Restart, FreshUsername, NoName, Strings
<1>3. idx' \in Slots
  BY TableAssumption DEF Restart, Slots
<1>4. tcp' \in [Conns -> TcpStates]
  BY DEF Restart, TcpStates
<1> QED
  BY <1>1, <1>2, <1>3, <1>4, EmptySeq DEF Restart, TypeOK, FreshEvents, accounts

LEMMA TypeStep == TypeOK /\ [Next]_vars => TypeOK'
<1> SUFFICES ASSUME TypeOK, [Next]_vars
             PROVE  TypeOK'
  OBVIOUS
<1>1. CASE UNCHANGED vars
  BY <1>1 DEF TypeOK, vars, table, kernel, accounts
<1>2. CASE Next
  BY <1>2, TypeClients, TypeServerEvents, TypeClientEvents, TypeThread,
     TypeWeather, TypeRestart
     DEF Next, ThreadStep
<1> QED
  BY <1>1, <1>2

(* Every variable of the server thread, the kernel and the accounts keeps    *)
(* its type: in particular the loop index stays within the table.           *)
THEOREM TypeCorrect == Spec => []TypeOK
<1>1. Init => TypeOK
  BY TypeInit
<1>2. TypeOK /\ [Next]_vars => TypeOK'
  BY TypeStep
<1> QED
  BY <1>1, <1>2, PTL DEF Spec

(***************************************************************************)
(* The table. Entry 0 is the listening socket and the last entry keeps       *)
(* descriptor 0 for ever; a connection is in the backlog or behind one       *)
(* descriptor, never in both, and one that was not made yet is nowhere.      *)
(***************************************************************************)
DescriptorsInPlace ==
  /\ fd[0] = ServerFd
  /\ \A i \in 1 .. MAX_CLIENTNUM - 1 : fd[i] \in ClientFds \cup {NoFd}
  /\ fd[MAX_CLIENTNUM] = StdinFd

ConnectionsInOnePlace ==
  /\ \A j, k \in DOMAIN backlog : backlog[j] = backlog[k] => j = k
  /\ \A k \in DOMAIN backlog : \A f \in ClientFds : owner[f] # backlog[k]
  /\ \A c \in Conns : tcp[c] = "none" =>
       /\ \A k \in DOMAIN backlog : backlog[k] # c
       /\ \A f \in ClientFds : owner[f] # c

TableInv == /\ DescriptorsInPlace
            /\ ConnectionsInOnePlace
            /\ CountMatchesTable
            /\ SlotsOwnSockets
            /\ PollResultsHaveOwner

IInv == TypeOK /\ TableInv

(* What the assumptions on the constants say of the special descriptors.    *)
LEMMA DescriptorsDiffer ==
  /\ ServerFd # StdinFd /\ ServerFd # NoFd /\ StdinFd # NoFd
  /\ ServerFd \notin ClientFds /\ StdinFd \notin ClientFds /\ NoFd \notin ClientFds
<1>1. ASSUME NEW a, NEW b
      PROVE  Cardinality({a, b}) # 3
  <2>1. IsFiniteSet({a}) /\ Cardinality({a}) = 1
    BY FS_Singleton
  <2>2. Cardinality({a} \cup {b}) = IF b \in {a} THEN 1 ELSE 1 + 1
    BY <2>1, FS_AddElement
  <2>3. {a, b} = {a} \cup {b}
    OBVIOUS
  <2> QED
    BY <2>2, <2>3
<1>2. ServerFd # StdinFd
  <2>1. ServerFd = StdinFd => {ServerFd, StdinFd, NoFd} = {StdinFd, NoFd}
    OBVIOUS
  <2> QED
    BY <1>1, <2>1, TableAssumption
<1>3. ServerFd # NoFd
  <2>1. ServerFd = NoFd => {ServerFd, StdinFd, NoFd} = {StdinFd, NoFd}
    OBVIOUS
  <2> QED
    BY <1>1, <2>1, TableAssumption
<1>4. StdinFd # NoFd
  <2>1. StdinFd = NoFd => {ServerFd, StdinFd, NoFd} = {ServerFd, NoFd}
    OBVIOUS
  <2> QED
    BY <1>1, <2>1, TableAssumption
<1> QED
  BY <1>2, <1>3, <1>4, TableAssumption

LEMMA OccupiedFinite == IsFiniteSet(Occupied) /\ Cardinality(Occupied) \in Nat
<1>1. IsFiniteSet(Slots)
  BY FS_Interval, TableAssumption DEF Slots
<1>2. Occupied \in SUBSET Slots
  BY DEF Occupied
<1> QED
  BY <1>1, <1>2, FS_Subset, FS_CardinalityType

(* The slots that can be occupied are 1..MAX_CLIENTNUM-1.                   *)
LEMMA OccupiedRange ==
  ASSUME DescriptorsInPlace
  PROVE  Occupied \subseteq 1 .. MAX_CLIENTNUM - 1
BY DescriptorsDiffer, TableAssumption DEF DescriptorsInPlace, Occupied, Slots

(* An empty table, at the start of the process.                             *)
LEMMA FreshTable ==
  ASSUME fd = FreshFd
  PROVE  DescriptorsInPlace /\ Occupied = {}
BY DescriptorsDiffer, TableAssumption
   DEF FreshFd, DescriptorsInPlace, Occupied, Slots

LEMMA TableInit == Init => TableInv
<1> SUFFICES ASSUME Init
             PROVE  TableInv
  OBVIOUS
<1>1. DescriptorsInPlace /\ Occupied = {}
  BY FreshTable DEF Init
<1>2. ConnectionsInOnePlace
  BY TableAssumption DEF Init, ConnectionsInOnePlace
<1>3. CountMatchesTable
  BY <1>1, FS_EmptySet DEF Init, CountMatchesTable
<1>4. SlotsOwnSockets
  BY <1>1 DEF Init, SlotsOwnSockets
<1>5. PollResultsHaveOwner
  BY DEF Init, PollResultsHaveOwner
<1> QED
  BY <1>1, <1>2, <1>3, <1>4, <1>5 DEF TableInv

(* Steps that leave the table alone ...                                     *)
LEMMA TableFrame ==
  ASSUME TableInv, UNCHANGED <<fd, client_count, owner>>
  PROVE  /\ DescriptorsInPlace' /\ CountMatchesTable' /\ SlotsOwnSockets'
         /\ Occupied' = Occupied
<1>1. Occupied' = Occupied
  BY DEF Occupied
<1>2. DescriptorsInPlace'
  BY DEF TableInv, DescriptorsInPlace
<1>3. CountMatchesTable'
  BY <1>1 DEF TableInv, CountMatchesTable
<1>4. SlotsOwnSockets'
  BY <1>1 DEF TableInv, SlotsOwnSockets, Peer
<1> QED
  BY <1>1, <1>2, <1>3, <1>4

(* ... and steps that make no connection and accept none.                   *)
LEMMA ConnectionsFrame ==
  ASSUME TableInv, UNCHANGED <<backlog, owner>>,
         \A c \in Conns : tcp'[c] = "none" => tcp[c] = "none"
  PROVE  ConnectionsInOnePlace'
BY DEF TableInv, ConnectionsInOnePlace

LEMMA QuietStep ==
  ASSUME TableInv, UNCHANGED <<fd, client_count, owner, revents, backlog>>,
         \A c \in Conns : tcp'[c] = "none" => tcp[c] = "none"
  PROVE  TableInv'
<1>1. PollResultsHaveOwner'
  BY TableFrame DEF TableInv, PollResultsHaveOwner, Slots
<1> QED
  BY <1>1, TableFrame, ConnectionsFrame DEF TableInv

LEMMA WriteMakesNone ==
  ASSUME TypeOK, NEW c, NEW result, Write(c, result)
  PROVE  \A d \in Conns : tcp'[d] = "none" => tcp[d] = "none"
BY DEF TypeOK, Write

LEMMA TableConnect ==
  ASSUME IInv, NEW c \in Conns, Connect(c)
  PROVE  TableInv'
<1>1. UNCHANGED <<fd, client_count, owner, revents>>
  BY DEF Connect, ClientStep, table
<1>2. PollResultsHaveOwner'
  BY <1>1, TableFrame DEF IInv, TableInv, PollResultsHaveOwner, Slots
<1>3. ConnectionsInOnePlace'
  <2>1. backlog \in Seq(Conns) /\ backlog' = Append(backlog, c)
    BY DEF IInv, TypeOK, Connect
  <2>2. /\ DOMAIN backlog = 1 .. Len(backlog) /\ Len(backlog) \in Nat
        /\ DOMAIN backlog' = 1 .. Len(backlog) + 1
        /\ backlog'[Len(backlog) + 1] = c
        /\ \A k \in 1 .. Len(backlog) : backlog'[k] = backlog[k]
    BY <2>1, LenProperties
  <2>3. tcp \in [Conns -> TcpStates] /\ tcp[c] = "none"
        /\ tcp' = [tcp EXCEPT ![c] = "up"]
    BY DEF IInv, TypeOK, Connect
  <2>4. \A k \in DOMAIN backlog' : k \in DOMAIN backlog \/ k = Len(backlog) + 1
    BY <2>2
  <2>5. /\ \A k \in DOMAIN backlog : backlog[k] # c
        /\ \A f \in ClientFds : owner[f] # c
    BY <2>3 DEF IInv, TableInv, ConnectionsInOnePlace
  <2>6. \A j, k \in DOMAIN backlog' : backlog'[j] = backlog'[k] => j = k
    BY <2>2, <2>4, <2>5 DEF IInv, TableInv, ConnectionsInOnePlace
  <2>7. \A k \in DOMAIN backlog' : \A f \in ClientFds : owner'[f] # backlog'[k]
    BY <1>1, <2>2, <2>4, <2>5 DEF IInv, TableInv, ConnectionsInOnePlace
  <2>8. \A d \in Conns : tcp'[d] = "none" =>
           /\ \A k \in DOMAIN backlog' : backlog'[k] # d
           /\ \A f \in ClientFds : owner'[f] # d
    <3> SUFFICES ASSUME NEW d \in Conns, tcp'[d] = "none"
                 PROVE  /\ \A k \in DOMAIN backlog' : backlog'[k] # d
                        /\ \A f \in ClientFds : owner'[f] # d
      OBVIOUS
    <3>1. d # c /\ tcp[d] = "none"
      BY <2>3
    <3> QED
      BY <1>1, <2>2, <2>4, <3>1 DEF IInv, TableInv, ConnectionsInOnePlace
  <2> QED
    BY <2>6, <2>7, <2>8 DEF ConnectionsInOnePlace
<1> QED
  BY <1>1, <1>2, <1>3, TableFrame DEF IInv, TableInv

(* Steps of the clients and of the thread that do not accept, close or poll. *)
LEMMA TableQuiet ==
  ASSUME IInv,
         \/ \E c \in Conns : (\E doc \in MessageDocs : Send(c, doc)) \/ Close(c)
         \/ SkipSlot \/ NothingAccepted \/ FailedRead \/ InfoMessage
         \/ ChatMessage \/ OtherMessage \/ FaultingMessage \/ SendPayload \/ WeatherStep
         \/ UNCHANGED vars
  PROVE  TableInv'
<1>1. UNCHANGED <<fd, client_count, owner, revents, backlog>>
  BY DEF Send, Close, ClientStep, SkipSlot, NothingAccepted, FailedRead,
         InfoMessage, ChatMessage, OtherMessage, FaultingMessage, ReadMessage,
         SendPayload, WeatherStep, WeatherFailed, SendHeader, vars, table, kernel
<1>2. \A c \in Conns : tcp'[c] = "none" => tcp[c] = "none"
  <2>1. CASE \E c \in Conns : (\E doc \in MessageDocs : Send(c, doc)) \/ Close(c)
    BY <2>1 DEF IInv, TypeOK, Send, Close
  <2>2. CASE FailedRead
    BY <2>2 DEF IInv, TypeOK, FailedRead
  <2>3. CASE SendPayload \/ SendHeader
    BY <2>3, WriteMakesNone DEF IInv, SendPayload, SendHeader
  <2>4. CASE \/ SkipSlot \/ NothingAccepted \/ InfoMessage \/ ChatMessage
             \/ OtherMessage \/ FaultingMessage \/ WeatherFailed \/ UNCHANGED vars
    BY <2>4 DEF SkipSlot, NothingAccepted, InfoMessage, ChatMessage,
                OtherMessage, FaultingMessage, ReadMessage, WeatherFailed, vars, kernel
  <2> QED
    BY <2>1, <2>2, <2>3, <2>4 DEF WeatherStep
<1> QED
  BY <1>1, <1>2, QuietStep DEF IInv

LEMMA TablePoll ==
  ASSUME IInv, Poll
  PROVE  TableInv'
<1>1. UNCHANGED <<fd, client_count, owner, backlog, tcp>>
  BY DEF Poll, table, kernel
<1>2. PollResultsHaveOwner'
  <2> SUFFICES ASSUME NEW i \in Slots \ {0}, revents'[i]
               PROVE  i \in Occupied
    BY <1>1, TableFrame DEF IInv, PollResultsHaveOwner, Slots
  <2>1. revents'[i] = IF i \in PolledSlots THEN events[i] /\ Readable(fd[i])
                                           ELSE revents[i]
    BY DEF Poll, PollResults
  <2>2. CASE i \in PolledSlots
    <3>1. Readable(fd[i])
      BY <2>1, <2>2
    <3>2. fd[i] # ServerFd
      <4>1. i \in 1 .. MAX_CLIENTNUM - 1 \/ i = MAX_CLIENTNUM
        BY TableAssumption DEF Slots
      <4> QED
        BY <4>1, DescriptorsDiffer DEF IInv, TableInv, DescriptorsInPlace
    <3> QED
      BY <3>1, <3>2 DEF Readable, Occupied
  <2>3. CASE i \notin PolledSlots
    BY <2>1, <2>3 DEF IInv, TableInv, PollResultsHaveOwner
  <2> QED
    BY <2>2, <2>3
<1> QED
  BY <1>1, <1>2, TableFrame, ConnectionsFrame DEF IInv, TableInv

(* The oldest pending connection is behind no descriptor, and what is left   *)
(* of the backlog is still behind none.                                     *)
LEMMA BacklogHead ==
  ASSUME IInv, backlog # << >>
  PROVE  /\ Head(backlog) \in Conns
         /\ \A f \in ClientFds : owner[f] # Head(backlog)
         /\ tcp[Head(backlog)] # "none"
         /\ \A k \in DOMAIN Tail(backlog) :
              /\ Tail(backlog)[k] # Head(backlog)
              /\ k + 1 \in DOMAIN backlog /\ Tail(backlog)[k] = backlog[k + 1]
              /\ k \in Nat
<1>1. backlog \in Seq(Conns)
  BY DEF IInv, TypeOK
<1>2. /\ Head(backlog) \in Conns /\ Head(backlog) = backlog[1]
      /\ DOMAIN backlog = 1 .. Len(backlog) /\ Len(backlog) \in Nat \ {0}
  BY <1>1, HeadTailProperties, LenProperties, EmptySeq
<1>3. /\ DOMAIN Tail(backlog) = 1 .. Len(backlog) - 1
      /\ \A k \in 1 .. Len(backlog) - 1 : Tail(backlog)[k] = backlog[k + 1]
  BY <1>1, <1>2
<1>4. \A k \in DOMAIN Tail(backlog) :
        /\ k + 1 \in DOMAIN backlog /\ k + 1 # 1 /\ k \in Nat
        /\ Tail(backlog)[k] = backlog[k + 1]
  BY <1>2, <1>3
<1>5. 1 \in DOMAIN backlog
  BY <1>2
<1> QED
  BY <1>2, <1>4, <1>5 DEF IInv, TableInv, ConnectionsInOnePlace

LEMMA AcceptConnections ==
  ASSUME IInv, NEW f \in ClientFds,
         backlog # << >>, backlog' = Tail(backlog), UNCHANGED tcp,
         owner' = [owner EXCEPT ![f] = Head(backlog)] \/ owner' = owner
  PROVE  ConnectionsInOnePlace'
<1>1. owner \in [ClientFds -> Conns \cup {NoConn}]
  BY DEF IInv, TypeOK
<1>2. \A g \in ClientFds : owner'[g] = owner[g] \/ owner'[g] = Head(backlog)
  BY <1>1
<1>3. \A j, k \in DOMAIN backlog' : backlog'[j] = backlog'[k] => j = k
  <2> SUFFICES ASSUME NEW j \in DOMAIN Tail(backlog), NEW k \in DOMAIN Tail(backlog),
                      Tail(backlog)[j] = Tail(backlog)[k]
               PROVE  j = k
    OBVIOUS
  <2>1. j + 1 = k + 1 /\ j \in Nat /\ k \in Nat
    BY BacklogHead DEF IInv, TableInv, ConnectionsInOnePlace
  <2> QED
    BY <2>1
<1>4. \A k \in DOMAIN backlog' : \A g \in ClientFds : owner'[g] # backlog'[k]
  BY <1>2, BacklogHead DEF IInv, TableInv, ConnectionsInOnePlace
<1>5. \A c \in Conns : tcp'[c] = "none" =>
         /\ \A k \in DOMAIN backlog' : backlog'[k] # c
         /\ \A g \in ClientFds : owner'[g] # c
  BY <1>2, BacklogHead DEF IInv, TableInv, ConnectionsInOnePlace
<1> QED
  BY <1>3, <1>4, <1>5 DEF ConnectionsInOnePlace

LEMMA TableAcceptIntoSlot ==
  ASSUME IInv, NEW f \in ClientFds, NEW i \in Slots, AcceptIntoSlot(f, i)
  PROVE  TableInv'
<1>1. /\ fd \in [Slots -> Fds] /\ owner \in [ClientFds -> Conns \cup {NoConn}]
      /\ owner[f] = NoConn /\ fd[i] = NoFd
      /\ fd' = [fd EXCEPT ![i] = f]
      /\ owner' = [owner EXCEPT ![f] = Head(backlog)]
      /\ backlog # << >> /\ backlog' = Tail(backlog)
      /\ UNCHANGED <<revents, tcp>> /\ client_count' = client_count + 1
  BY DEF IInv, TypeOK, AcceptIntoSlot, FreeFds, IsFirstFree, FreeSlots
<1>2. i \in 1 .. MAX_CLIENTNUM - 1
  BY <1>1, DescriptorsDiffer, TableAssumption
     DEF IInv, TableInv, DescriptorsInPlace, Slots
<1>3. Head(backlog) \in Conns /\ Head(backlog) # NoConn
  BY <1>1, BacklogHead, TableAssumption
<1>4. i \notin Occupied /\ Occupied' = Occupied \cup {i}
  BY <1>1, DescriptorsDiffer DEF Occupied
<1>5. \A j \in Occupied : fd[j] \in ClientFds /\ fd[j] # f
  BY <1>1 DEF IInv, TableInv, SlotsOwnSockets, Peer, Occupied
<1>6. DescriptorsInPlace'
  <2>1. \A j \in Slots : fd'[j] = IF j = i THEN f ELSE fd[j]
    BY <1>1
  <2> QED
    BY <1>2, <2>1, TableAssumption DEF IInv, TableInv, DescriptorsInPlace, Slots
<1>7. CountMatchesTable'
  BY <1>1, <1>4, OccupiedFinite, FS_AddElement DEF IInv, TableInv, CountMatchesTable
<1>8. SlotsOwnSockets'
  <2>1. \A j \in Occupied : fd'[j] = fd[j] /\ owner'[fd[j]] = owner[fd[j]]
    BY <1>1, <1>4, <1>5 DEF Occupied
  <2>2. fd'[i] = f /\ owner'[f] = Head(backlog)
    BY <1>1
  <2>3. \A j \in Occupied' : Peer(j)' # NoConn
    BY <1>3, <1>4, <2>1, <2>2 DEF IInv, TableInv, SlotsOwnSockets, Peer
  <2>4. \A j, k \in Occupied' : fd'[j] = fd'[k] => j = k
    BY <1>4, <1>5, <2>1, <2>2 DEF IInv, TableInv, SlotsOwnSockets
  <2>5. \A g, h \in ClientFds : owner'[g] = owner'[h] /\ g # h => owner'[g] = NoConn
    <3>1. \A g \in ClientFds : g # f => owner'[g] = owner[g] /\ owner[g] # Head(backlog)
      BY <1>1, BacklogHead
    <3> QED
      BY <2>2, <3>1 DEF IInv, TableInv, SlotsOwnSockets
  <2> QED
    BY <2>3, <2>4, <2>5 DEF SlotsOwnSockets
<1>9. PollResultsHaveOwner'
  BY <1>1, <1>4 DEF IInv, TableInv, PollResultsHaveOwner, Slots
<1> QED
  BY <1>1, <1>6, <1>7, <1>8, <1>9, AcceptConnections DEF TableInv

LEMMA TableAcceptWithoutSlot ==
  ASSUME IInv, NEW f \in ClientFds, AcceptWithoutSlot(f)
  PROVE  TableInv'
<1>1. /\ owner \in [ClientFds -> Conns \cup {NoConn}]
      /\ owner[f] = NoConn
      /\ owner' = [owner EXCEPT ![f] = Head(backlog)] \/ owner' = owner
      /\ backlog # << >> /\ backlog' = Tail(backlog)
      /\ UNCHANGED <<fd, revents, tcp, client_count>>
  BY DEF IInv, TypeOK, AcceptWithoutSlot, FreeFds, table
<1>2. Occupied' = Occupied
  BY <1>1 DEF Occupied
<1>3. \A j \in Occupied : fd[j] \in ClientFds /\ fd[j] # f
  BY <1>1 DEF IInv, TableInv, SlotsOwnSockets, Peer, Occupied
<1>4. \A g \in ClientFds : g # f => owner'[g] = owner[g] /\ owner[g] # Head(backlog)
  BY <1>1, BacklogHead
<1>5. owner'[f] = Head(backlog) \/ owner'[f] = NoConn
  BY <1>1
<1>6. SlotsOwnSockets'
  <2>1. \A j \in Occupied' : Peer(j)' # NoConn
    BY <1>1, <1>2, <1>3, <1>4 DEF IInv, TableInv, SlotsOwnSockets, Peer
  <2>2. \A j, k \in Occupied' : fd'[j] = fd'[k] => j = k
    BY <1>1, <1>2 DEF IInv, TableInv, SlotsOwnSockets
  <2>3. \A g, h \in ClientFds : owner'[g] = owner'[h] /\ g # h => owner'[g] = NoConn
    BY <1>4, <1>5 DEF IInv, TableInv, SlotsOwnSockets
  <2> QED
    BY <2>1, <2>2, <2>3 DEF SlotsOwnSockets
<1>7. DescriptorsInPlace' /\ CountMatchesTable' /\ PollResultsHaveOwner'
  BY <1>1, <1>2 DEF IInv, TableInv, DescriptorsInPlace, CountMatchesTable,
                    PollResultsHaveOwner, Slots
<1> QED
  BY <1>1, <1>6, <1>7, AcceptConnections DEF TableInv

LEMMA TableDisconnect ==
  ASSUME IInv, Disconnect
  PROVE  TableInv'
<1>1. /\ idx \in Slots /\ fd \in [Slots -> Fds]
      /\ revents \in [Slots -> BOOLEAN]
      /\ owner \in [ClientFds -> Conns \cup {NoConn}]
  BY DEF IInv, TypeOK
<1>2. idx \in Occupied /\ fd[idx] \in ClientFds
  BY <1>1 DEF Disconnect, AtClientEvents, IInv, TableInv, DescriptorsInPlace,
              PollResultsHaveOwner, Occupied
<1>3. /\ fd' = [fd EXCEPT ![idx] = NoFd]
      /\ revents' = [revents EXCEPT ![idx] = FALSE]
      /\ client_count' = client_count - 1
      /\ owner' = [owner EXCEPT ![fd[idx]] = NoConn]
      /\ UNCHANGED <<backlog, tcp>>
  BY <1>2, DescriptorsDiffer DEF Disconnect, ClearSlot
<1>4. Occupied' = Occupied \ {idx}
  BY <1>1, <1>3, DescriptorsDiffer DEF Occupied
<1>5. DescriptorsInPlace'
  <2>1. idx \in 1 .. MAX_CLIENTNUM - 1
    BY <1>2, OccupiedRange DEF IInv, TableInv
  <2>2. \A j \in Slots : fd'[j] = IF j = idx THEN NoFd ELSE fd[j]
    BY <1>1, <1>3
  <2> QED
    BY <2>1, <2>2, TableAssumption DEF IInv, TableInv, DescriptorsInPlace, Slots
<1>6. CountMatchesTable'
  BY <1>2, <1>3, <1>4, OccupiedFinite, FS_RemoveElement
     DEF IInv, TableInv, CountMatchesTable
<1>7. \A g \in ClientFds : owner'[g] = IF g = fd[idx] THEN NoConn ELSE owner[g]
  BY <1>1, <1>3
<1>8. SlotsOwnSockets'
  <2>1. \A j \in Occupied' : fd'[j] = fd[j] /\ fd[j] # fd[idx] /\ fd[j] \in ClientFds
    BY <1>1, <1>2, <1>3, <1>4 DEF IInv, TableInv, SlotsOwnSockets, Occupied
  <2>2. \A j \in Occupied' : Peer(j)' # NoConn
    BY <1>4, <1>7, <2>1 DEF IInv, TableInv, SlotsOwnSockets, Peer
  <2>3. \A j, k \in Occupied' : fd'[j] = fd'[k] => j = k
    BY <1>4, <2>1 DEF IInv, TableInv, SlotsOwnSockets
  <2>4. \A g, h \in ClientFds : owner'[g] = owner'[h] /\ g # h => owner'[g] = NoConn
    BY <1>7 DEF IInv, TableInv, SlotsOwnSockets
  <2> QED
    BY <2>2, <2>3, <2>4 DEF SlotsOwnSockets
<1>9. PollResultsHaveOwner'
  BY <1>1, <1>3, <1>4 DEF IInv, TableInv, PollResultsHaveOwner, Slots
<1>10. ConnectionsInOnePlace'
  <2>1. NoConn \notin Conns
    BY TableAssumption
  <2>2. \A k \in DOMAIN backlog : backlog[k] # NoConn
    BY <2>1, LenProperties, ElementOfSeq DEF IInv, TypeOK
  <2> QED
    BY <1>3, <1>7, <2>1, <2>2 DEF IInv, TableInv, ConnectionsInOnePlace
<1> QED
  BY <1>5, <1>6, <1>8, <1>9, <1>10 DEF TableInv

LEMMA TableRestart ==
  ASSUME IInv, Restart
  PROVE  TableInv'
<1>1. DescriptorsInPlace' /\ Occupied' = {}
  BY DescriptorsDiffer, TableAssumption
     DEF Restart, FreshFd, DescriptorsInPlace, Occupied, Slots
<1>2. ConnectionsInOnePlace'
  BY TableAssumption DEF Restart, ConnectionsInOnePlace
<1>3. CountMatchesTable'
  BY <1>1, FS_EmptySet DEF Restart, CountMatchesTable
<1>4. SlotsOwnSockets'
  BY <1>1 DEF Restart, SlotsOwnSockets
<1>5. PollResultsHaveOwner'
  BY DEF Restart, PollResultsHaveOwner, Slots
<1> QED
  BY <1>1, <1>2, <1>3, <1>4, <1>5 DEF TableInv

LEMMA TableStep == IInv /\ [Next]_vars => TableInv'
<1> SUFFICES ASSUME IInv, [Next]_vars
             PROVE  TableInv'
  OBVIOUS
<1>1. CASE UNCHANGED vars
  BY <1>1, TableQuiet
<1>2. CASE ClientNext
  BY <1>2, TableConnect, TableQuiet DEF ClientNext
<1>3. CASE ServerEvents
  BY <1>3, TableAcceptIntoSlot, TableAcceptWithoutSlot, TableQuiet DEF ServerEvents
<1>4. CASE ClientEvents
  BY <1>4, TableDisconnect, TableQuiet DEF ClientEvents
<1>5. CASE Poll \/ SkipSlot \/ SendPayload
  BY <1>5, TablePoll, TableQuiet
<1>6. CASE WeatherStep
  BY <1>6, TableQuiet
<1>7. CASE Restart
  BY <1>7, TableRestart
<1> QED
  BY <1>1, <1>2, <1>3, <1>4, <1>5, <1>6, <1>7 DEF Next, ThreadStep

LEMMA IInvInvariant == Spec => []IInv
<1>1. Init => IInv
  BY TypeInit, TableInit DEF IInv
<1>2. IInv /\ [Next]_vars => IInv'
  BY TypeStep, TableStep DEF IInv
<1> QED
  BY <1>1, <1>2, PTL DEF Spec

(* client_count is the number of connections in the table in every reachable *)
(* state, for a table of any size.                                          *)
THEOREM CountCorrect == Spec => []CountMatchesTable
<1>1. IInv => CountMatchesTable
  BY DEF IInv, TableInv
<1> QED
  BY <1>1, IInvInvariant, PTL

(* No two slots and no two descriptors ever stand for one connection, and    *)
(* no slot keeps a closed descriptor.                                       *)
THEOREM SocketsCorrect == Spec => []SlotsOwnSockets
<1>1. IInv => SlotsOwnSockets
  BY DEF IInv, TableInv
<1> QED
  BY <1>1, IInvInvariant, PTL

(* client_events only ever runs for a slot that holds a connection.         *)
THEOREM PollResultsCorrect == Spec => []PollResultsHaveOwner
<1>1. IInv => PollResultsHaveOwner
  BY DEF IInv, TableInv
<1> QED
  BY <1>1, IInvInvariant, PTL

(***************************************************************************)
(* Accepting: a connection misses the table only when it is full.           *)
(***************************************************************************)

(* Only an accept gives a descriptor an owner.                              *)
LEMMA OnlyAcceptOpens ==
  ASSUME IInv, [Next]_vars, NEW f \in ClientFds,
         owner[f] = NoConn, owner'[f] # NoConn
  PROVE  \/ \E i \in Slots : AcceptIntoSlot(f, i)
         \/ AcceptWithoutSlot(f)
<1>0. owner \in [ClientFds -> Conns \cup {NoConn}]
  BY DEF IInv, TypeOK
<1>1. ASSUME owner' = owner PROVE FALSE
  BY <1>1
<1>2. CASE UNCHANGED vars \/ ClientNext \/ Poll \/ SkipSlot \/ SendPayload \/ WeatherStep
  <2>1. owner' = owner
    BY <1>2 DEF vars, kernel, ClientNext, Connect, Send, Close, ClientStep, Poll,
                SkipSlot, SendPayload, WeatherStep, WeatherFailed, SendHeader
  <2> QED
    BY <1>1, <2>1
<1>3. CASE \/ FailedRead \/ InfoMessage \/ ChatMessage \/ OtherMessage
           \/ FaultingMessage \/ NothingAccepted
  <2>1. owner' = owner
    BY <1>3 DEF kernel, FailedRead, InfoMessage, ChatMessage, OtherMessage,
                FaultingMessage, ReadMessage, NothingAccepted
  <2> QED
    BY <1>1, <2>1
<1>4. CASE Disconnect
  <2>1. owner' = [owner EXCEPT ![fd[idx]] = NoConn]
    BY <1>4 DEF Disconnect
  <2> QED
    BY <1>0, <2>1
<1>5. CASE Restart
  BY <1>5 DEF Restart
<1>6. CASE \E g \in ClientFds, i \in Slots : AcceptIntoSlot(g, i)
  <2> PICK g \in ClientFds, i \in Slots : AcceptIntoSlot(g, i)
    BY <1>6
  <2>1. owner' = [owner EXCEPT ![g] = Head(backlog)]
    BY DEF AcceptIntoSlot
  <2>2. f = g
    BY <1>0, <2>1
  <2> QED
    BY <2>2
<1>7. CASE \E g \in ClientFds : AcceptWithoutSlot(g)
  <2> PICK g \in ClientFds : AcceptWithoutSlot(g)
    BY <1>7
  <2>1. owner' = [owner EXCEPT ![g] = Head(backlog)] \/ owner' = owner
    BY DEF AcceptWithoutSlot
  <2>2. f = g
    BY <1>0, <2>1
  <2> QED
    BY <2>2
<1> QED
  BY <1>2, <1>3, <1>4, <1>5, <1>6, <1>7
     DEF Next, ThreadStep, ServerEvents, ClientEvents

(* A table without a free slot holds MAX_CLIENTNUM-1 connections.           *)
LEMMA FullTable ==
  ASSUME IInv, FreeSlots = {}
  PROVE  Cardinality(Occupied) >= MAX_CLIENTNUM - 1
<1>1. 1 .. MAX_CLIENTNUM - 1 \subseteq Occupied
  <2> SUFFICES ASSUME NEW i \in 1 .. MAX_CLIENTNUM - 1
               PROVE  i \in Occupied
    OBVIOUS
  <2>1. i \in Slots /\ i \in 1 .. MAX_CLIENTNUM
    BY TableAssumption DEF Slots
  <2>2. fd[i] # NoFd
    BY <2>1 DEF FreeSlots
  <2>3. fd[i] \in ClientFds \cup {NoFd}
    BY DEF IInv, TableInv, DescriptorsInPlace
  <2> QED
    BY <2>1, <2>2, <2>3 DEF Occupied
<1>2. Cardinality(1 .. MAX_CLIENTNUM - 1) = MAX_CLIENTNUM - 1
  BY FS_Interval, TableAssumption
<1> QED
  BY <1>1, <1>2, OccupiedFinite, FS_Subset

LEMMA FreeSlotStep ==
  ASSUME IInv, [Next]_vars, NEW f \in ClientFds,
         owner[f] = NoConn, owner'[f] # NoConn,
         Cardinality(Occupied) < MAX_CLIENTNUM - 1
  PROVE  \E i \in 1 .. MAX_CLIENTNUM - 1 : fd'[i] = f
<1>1. CASE \E i \in Slots : AcceptIntoSlot(f, i)
  <2> PICK i \in Slots : AcceptIntoSlot(f, i)
    BY <1>1
  <2>1. fd[i] = NoFd /\ i # 0 /\ fd'[i] = f
    BY TableAssumption DEF AcceptIntoSlot, IsFirstFree, FreeSlots, IInv, TypeOK
  <2>2. i \in 1 .. MAX_CLIENTNUM - 1
    BY <2>1, DescriptorsDiffer, TableAssumption
       DEF IInv, TableInv, DescriptorsInPlace, Slots
  <2> QED
    BY <2>1, <2>2
<1>2. CASE AcceptWithoutSlot(f)
  <2>1. client_count <= MAX_CLIENTNUM
    BY OccupiedFinite, TableAssumption DEF IInv, TableInv, CountMatchesTable
  <2>2. FreeSlots = {}
    BY <1>2, <2>1, OccupiedFinite, TableAssumption
       DEF AcceptWithoutSlot, IInv, TableInv, CountMatchesTable
  <2> QED
    BY <2>2, FullTable, OccupiedFinite, TableAssumption
<1> QED
  BY <1>1, <1>2, OnlyAcceptOpens

(* As long as fewer than MAX_CLIENTNUM-1 clients are in the table, the next   *)
(* one gets a slot: no free slot is missed by the search, at any size.      *)
THEOREM FreeSlotIsTakenCorrect == Spec => FreeSlotIsTaken
<1>1. IInv /\ [Next]_vars =>
        [\A f \in ClientFds :
           /\ owner[f] = NoConn /\ owner'[f] # NoConn
           /\ Cardinality(Occupied) < MAX_CLIENTNUM - 1
           => \E i \in 1 .. MAX_CLIENTNUM - 1 : fd'[i] = f]_vars
  BY FreeSlotStep
<1> QED
  BY <1>1, IInvInvariant, PTL DEF Spec, FreeSlotIsTaken

(***************************************************************************)
(* Accounts.                                                                *)
(***************************************************************************)

(* Whatever the step, the accounts are what they were, or one of them, for a  *)
(* name that had none, was added at the end, or a text that is not plain has   *)
(* run.                                                                     *)
LEMMA AccountsStep ==
  ASSUME TypeOK, [Next]_vars
  PROVE  \/ UNCHANGED accounts
         \/ \E name, password \in Strings :
              /\ ~HasRow(name)
              /\ users' = Append(users, [name |-> name, password |-> password])
              /\ UNCHANGED rewritten
         \/ rewritten'
<1>1. CASE InfoMessage
  <2> PICK doc \in MessageDocs, ret \in {-3, -1, 0} :
        UsersAdd(Deserialize(doc).username, Deserialize(doc).passwd, ret)
    BY <1>1 DEF InfoMessage
  <2> DEFINE name == Deserialize(doc).username
             password == Deserialize(doc).passwd
  <2>1. name \in Strings /\ password \in Strings
    BY DeserializeType
  <2> HIDE DEF name, password
  <2>2. \/ \E ran \in BOOLEAN : SelectName(name, ran)
        \/ /\ Plain(name) => ~HasRow(name)
           /\ InsertRow(name, password, ret)
    <3>1. PICK ran \in BOOLEAN : \E exists \in UsersNameExist(name, ran) :
             IF exists THEN ret = -1 /\ SelectName(name, ran)
                       ELSE InsertRow(name, password, ret)
      BY Zenon DEF UsersAdd, name, password
    <3>2. PICK exists \in UsersNameExist(name, ran) :
             IF exists THEN ret = -1 /\ SelectName(name, ran)
                       ELSE InsertRow(name, password, ret)
      BY <3>1
    <3>3. exists \/ (Plain(name) => ~HasRow(name))
      BY Zenon DEF UsersNameExist
    <3> QED
      BY <3>2, <3>3
  <2>3. CASE \E ran \in BOOLEAN : SelectName(name, ran)
    BY <2>3 DEF SelectName, Rewrite
  <2>4. CASE /\ Plain(name) => ~HasRow(name)
             /\ InsertRow(name, password, ret)
    BY <2>1, <2>4 DEF InsertRow, Rewrite, accounts
  <2> QED
    BY <2>2, <2>3, <2>4
<1>2. CASE ChatMessage
  BY <1>2 DEF ChatMessage, SelectName, Rewrite
<1>3. CASE ~(InfoMessage \/ ChatMessage)
  BY <1>3
     DEF Next, vars, ClientNext, Connect, Send, Close, ClientStep, ThreadStep, Poll,
         SkipSlot, ServerEvents, NothingAccepted, AcceptIntoSlot, AcceptWithoutSlot,
         ClientEvents, Disconnect, FailedRead, OtherMessage, FaultingMessage,
         SendPayload, WeatherStep, WeatherFailed, SendHeader, Restart
<1> QED
  BY <1>1, <1>2, <1>3

LEMMA NamesStoredOnceStep ==
  ASSUME TypeOK, NamesStoredOnce, [Next]_vars
  PROVE  NamesStoredOnce'
<1>1. CASE UNCHANGED accounts
  BY <1>1 DEF NamesStoredOnce, accounts
<1>2. ASSUME NEW name \in Strings, NEW password \in Strings, ~HasRow(name),
             users' = Append(users, [name |-> name, password |-> password]),
             UNCHANGED rewritten
      PROVE  NamesStoredOnce'
  <2> DEFINE row == [name |-> name, password |-> password]
             n == Len(users)
  <2>1. users \in Seq(Rows) /\ row \in Rows /\ row.name = name
    BY DEF TypeOK, Rows
  <2> HIDE DEF row
  <2>2. /\ n \in Nat /\ DOMAIN users = 1 .. n /\ DOMAIN users' = 1 .. n + 1
        /\ users'[n + 1] = row /\ \A k \in 1 .. n : users'[k] = users[k]
    BY <1>2, <2>1, LenProperties DEF row
  <2>3. \A k \in 1 .. n : users[k].name # name
    BY <1>2, <2>2 DEF HasRow
  <2> QED
    BY <1>2, <2>1, <2>2, <2>3 DEF NamesStoredOnce
<1>3. CASE rewritten'
  BY <1>3 DEF NamesStoredOnce
<1> QED
  BY <1>1, <1>2, <1>3, AccountsStep

(* As long as only plain texts have reached SQLite, users.db never holds two    *)
(* rows of one name, over failed statements, crashes and restarts, although the *)
(* schema does not say so.                                                  *)
THEOREM NamesStoredOnceCorrect == Spec => []NamesStoredOnce
<1>1. Init => NamesStoredOnce
  BY DEF Init, NamesStoredOnce
<1>2. TypeOK /\ NamesStoredOnce /\ [Next]_vars => NamesStoredOnce'
  BY NamesStoredOnceStep
<1> QED
  BY <1>1, <1>2, TypeCorrect, PTL DEF Spec

(* As long as only plain texts have reached SQLite, no row is ever changed or   *)
(* removed: the first password of a name stays.                              *)
THEOREM AccountsKeptCorrect == Spec => AccountsKept
<1>1. TypeOK /\ [Next]_vars =>
        [~rewritten' =>
           \A k \in DOMAIN users : k \in DOMAIN users' /\ users'[k] = users[k]]_users
  <2> SUFFICES ASSUME TypeOK, [Next]_vars, ~rewritten', NEW k \in DOMAIN users
               PROVE  k \in DOMAIN users' /\ users'[k] = users[k]
    OBVIOUS
  <2>1. ASSUME NEW row \in Rows, users' = Append(users, row)
        PROVE  k \in DOMAIN users' /\ users'[k] = users[k]
    <3>1. users \in Seq(Rows)
      BY DEF TypeOK
    <3> QED
      BY <2>1, <3>1, LenProperties
  <2>2. users' = users \/ \E row \in Rows : users' = Append(users, row)
    <3>1. \A name, password \in Strings : [name |-> name, password |-> password] \in Rows
      BY DEF Rows
    <3> QED
      BY <3>1, AccountsStep DEF accounts
  <2> QED
    BY <2>1, <2>2
<1> QED
  BY <1>1, TypeCorrect, PTL DEF Spec, AccountsKept

(***************************************************************************)
(* The table as a pool of sessions.                                         *)
(***************************************************************************)

(* The name a connection goes by: the value that Pool gives its ident.      *)
Ident == [c \in Conns |-> IF c \in Sessions
                            THEN username[CHOOSE i \in Occupied : Peer(i) = c]
                            ELSE NoName]

(* A name does not outlive the connection of its slot: the next client of    *)
(* the slot starts without one.                                             *)
FreeSlotsNameless == \A i \in Slots \ {0} : i \notin Occupied => username[i] = NoName

PoolInv == IInv /\ FreeSlotsNameless

LEMMA NamelessStep ==
  ASSUME IInv, FreeSlotsNameless, [Next]_vars
  PROVE  FreeSlotsNameless'
<1>0. /\ idx \in Slots /\ fd \in [Slots -> Fds]
      /\ username \in [Slots -> Strings \cup {Root}]
  BY DEF IInv, TypeOK
<1>1. CASE UNCHANGED <<fd, username>>
  BY <1>1 DEF FreeSlotsNameless, Occupied, Slots
<1>2. CASE \E f \in ClientFds, i \in Slots : AcceptIntoSlot(f, i)
  <2> PICK f \in ClientFds, i \in Slots : AcceptIntoSlot(f, i)
    BY <1>2
  <2>1. fd' = [fd EXCEPT ![i] = f] /\ username' = username
    BY DEF AcceptIntoSlot
  <2>2. Occupied \subseteq Occupied'
    BY <1>0, <2>1 DEF Occupied
  <2> QED
    BY <2>1, <2>2 DEF FreeSlotsNameless, Slots
<1>3. CASE Disconnect
  <2>1. fd[idx] # NoFd
    BY <1>0, <1>3, DescriptorsDiffer
       DEF Disconnect, AtClientEvents, IInv, TableInv, DescriptorsInPlace,
           PollResultsHaveOwner, Occupied
  <2>2. /\ fd' = [fd EXCEPT ![idx] = NoFd]
        /\ username' = [username EXCEPT ![idx] = NoName]
    BY <1>3, <2>1 DEF Disconnect, ClearSlot
  <2>3. \A i \in Slots : i # idx => (i \in Occupied <=> i \in Occupied')
    BY <1>0, <2>2 DEF Occupied
  <2> QED
    BY <1>0, <2>2, <2>3 DEF FreeSlotsNameless, Slots
<1>4. CASE InfoMessage
  <2>1. idx \in Occupied
    BY <1>0, <1>4
       DEF InfoMessage, ReadMessage, AtClientEvents, IInv, TableInv,
           DescriptorsInPlace, PollResultsHaveOwner
  <2>2. /\ fd' = fd
        /\ \E name : username' = [username EXCEPT ![idx] = name]
    BY <1>4 DEF InfoMessage
  <2>3. Occupied' = Occupied
    BY <2>2 DEF Occupied
  <2> QED
    BY <1>0, <2>1, <2>2, <2>3 DEF FreeSlotsNameless, Slots
<1>5. CASE Restart
  BY <1>5 DEF Restart, FreshUsername, FreeSlotsNameless, Slots
<1>6. CASE ~(Disconnect \/ InfoMessage \/ Restart
             \/ \E f \in ClientFds, i \in Slots : AcceptIntoSlot(f, i))
  <2>1. UNCHANGED <<fd, username>>
    BY <1>6
       DEF Next, vars, table, ClientNext, Connect, Send, Close, ClientStep, ThreadStep,
           Poll, SkipSlot, ServerEvents, NothingAccepted, AcceptWithoutSlot,
           ClientEvents, FailedRead, ChatMessage, OtherMessage, FaultingMessage,
           SendPayload, WeatherStep, WeatherFailed, SendHeader
  <2> QED
    BY <1>1, <2>1
<1> QED
  BY <1>2, <1>3, <1>4, <1>5, <1>6

LEMMA PoolInvInvariant == Spec => []PoolInv
<1>1. Init => FreeSlotsNameless
  BY DEF Init, FreshUsername, FreeSlotsNameless
<1>2. IInv /\ FreeSlotsNameless /\ [Next]_vars => FreeSlotsNameless'
  BY NamelessStep
<1> QED
  BY <1>1, <1>2, IInvInvariant, PTL DEF Spec, PoolInv

(* Every session is known by the name in its slot, every other connection by  *)
(* none: the slot of a session is unique.                                   *)
SessionsNamed ==
  /\ \A i \in Occupied : Peer(i) \in Conns /\ Ident[Peer(i)] = username[i]
  /\ \A c \in Conns \ Sessions : Ident[c] = NoName

LEMMA IdentOfSession == IInv => SessionsNamed
<1> SUFFICES ASSUME IInv PROVE SessionsNamed
  OBVIOUS
<1>1. owner \in [ClientFds -> Conns \cup {NoConn}]
  BY DEF IInv, TypeOK
<1>2. ASSUME NEW i \in Occupied
      PROVE  Peer(i) \in Conns /\ Ident[Peer(i)] = username[i]
  <2>1. fd[i] \in ClientFds /\ Peer(i) # NoConn
    BY DEF IInv, TableInv, SlotsOwnSockets, Occupied
  <2>2. Peer(i) \in Conns
    BY <1>1, <2>1 DEF Peer
  <2>3. \A j \in Occupied : Peer(j) = Peer(i) => j = i
    BY <2>1 DEF IInv, TableInv, SlotsOwnSockets, Peer, Occupied
  <2>4. (CHOOSE j \in Occupied : Peer(j) = Peer(i)) = i
    BY <2>3
  <2>5. Peer(i) \in Sessions
    BY DEF Sessions
  <2> QED
    BY <2>2, <2>4, <2>5 DEF Ident
<1>3. \A c \in Conns \ Sessions : Ident[c] = NoName
  BY DEF Ident
<1> QED
  BY <1>2, <1>3 DEF SessionsNamed

LEMMA IdentOfSessionNext == IInv' => SessionsNamed'
BY IdentOfSession, PTL

(* Two values of Ident are equal if they give every connection the same name. *)
LEMMA IdentUpdate ==
  ASSUME NEW c \in Conns, NEW name,
         \A d \in Conns : Ident'[d] = IF d = c THEN name ELSE Ident[d]
  PROVE  Ident' = [Ident EXCEPT ![c] = name]
<1>1. Ident = [d \in Conns |-> Ident[d]]
  BY DEF Ident
<1>2. Ident' = [d \in Conns |-> Ident'[d]]
  BY DEF Ident
<1> QED
  BY <1>1, <1>2

(* A step that leaves every session its slot and its name changes nothing in  *)
(* the pool.                                                                *)
LEMMA PoolFrame ==
  ASSUME IInv, IInv', Occupied' = Occupied, \A i \in Occupied : Peer(i)' = Peer(i)
  PROVE  /\ Sessions' = Sessions
         /\ username' = username => Ident' = Ident
<1>1. Sessions' = Sessions
  BY DEF Sessions
<1>2. ASSUME username' = username PROVE Ident' = Ident
  <2>1. \A c \in Conns : Ident'[c] = Ident[c]
    <3>1. SessionsNamed /\ SessionsNamed'
      BY IdentOfSession, IdentOfSessionNext
    <3>2. \A i \in Occupied : Ident[Peer(i)] = username[i] /\ Ident'[Peer(i)] = username[i]
      BY <1>2, <3>1 DEF SessionsNamed
    <3>3. \A c \in Conns \ Sessions : Ident[c] = NoName /\ Ident'[c] = NoName
      BY <1>1, <3>1 DEF SessionsNamed
    <3> QED
      BY <3>2, <3>3 DEF Sessions
  <2> QED
    BY <2>1 DEF Ident
<1> QED
  BY <1>1, <1>2

LEMMA SessionsFinite ==
  ASSUME IInv
  PROVE  IsFiniteSet(Sessions) /\ Cardinality(Sessions) <= Cardinality(Occupied)
<1> DEFINE peers == [i \in Occupied |-> Peer(i)]
<1>1. peers \in Surjection(Occupied, Sessions)
  BY DEF Sessions, Surjection
<1> HIDE DEF peers
<1> QED
  BY <1>1, OccupiedFinite, FS_Surjection

(* An accept that finds a slot opens a session ...                           *)
LEMMA AcceptOpens ==
  ASSUME PoolInv, IInv', NEW f \in ClientFds, NEW i \in Slots, AcceptIntoSlot(f, i)
  PROVE  \E c \in Conns \ Sessions : /\ Cardinality(Sessions) < MAX_CLIENTNUM - 1
                                     /\ Sessions' = Sessions \cup {c}
                                     /\ Ident[c] = NoName
                                     /\ UNCHANGED Ident
<1> DEFINE c == Head(backlog)
<1>0. IInv /\ FreeSlotsNameless
  BY DEF PoolInv
<1>1. /\ fd \in [Slots -> Fds] /\ owner \in [ClientFds -> Conns \cup {NoConn}]
      /\ owner[f] = NoConn /\ fd[i] = NoFd
      /\ fd' = [fd EXCEPT ![i] = f]
      /\ owner' = [owner EXCEPT ![f] = c]
      /\ backlog # << >> /\ UNCHANGED username
  BY <1>0 DEF IInv, TypeOK, AcceptIntoSlot, FreeFds, IsFirstFree, FreeSlots
<1>2. c \in Conns /\ \A g \in ClientFds : owner[g] # c
  BY <1>0, <1>1, BacklogHead
<1> HIDE DEF c
<1>3. i \notin Occupied /\ Occupied' = Occupied \cup {i}
  BY <1>1, DescriptorsDiffer DEF Occupied
<1>4. i \in 1 .. MAX_CLIENTNUM - 1
  BY <1>0, <1>1, DescriptorsDiffer, TableAssumption
     DEF IInv, TableInv, DescriptorsInPlace, Slots
<1>5. \A j \in Occupied : /\ fd[j] \in ClientFds /\ fd[j] # f
                          /\ Peer(j)' = Peer(j) /\ Peer(j) # c
  <2>1. \A j \in Occupied : fd[j] \in ClientFds /\ fd[j] # f /\ fd'[j] = fd[j]
    BY <1>0, <1>1, <1>3 DEF IInv, TableInv, SlotsOwnSockets, Peer, Occupied
  <2> QED
    BY <1>1, <1>2, <2>1 DEF Peer
<1>6. Peer(i)' = c
  BY <1>1 DEF Peer
<1>7. c \notin Sessions /\ Sessions' = Sessions \cup {c}
  BY <1>3, <1>5, <1>6 DEF Sessions
<1>8. Cardinality(Sessions) < MAX_CLIENTNUM - 1
  <2>1. Occupied \in SUBSET (1 .. MAX_CLIENTNUM - 1) /\ Occupied # 1 .. MAX_CLIENTNUM - 1
    BY <1>0, <1>3, <1>4, OccupiedRange DEF IInv, TableInv
  <2>2. /\ IsFiniteSet(1 .. MAX_CLIENTNUM - 1)
        /\ Cardinality(1 .. MAX_CLIENTNUM - 1) = MAX_CLIENTNUM - 1
    BY FS_Interval, TableAssumption
  <2>3. /\ Cardinality(Occupied) <= MAX_CLIENTNUM - 1
        /\ Cardinality(Occupied) # MAX_CLIENTNUM - 1
    BY <2>1, <2>2, FS_Subset
  <2>4. Cardinality(Sessions) \in Nat /\ Cardinality(Sessions) <= Cardinality(Occupied)
    BY <1>0, SessionsFinite, FS_CardinalityType
  <2> QED
    BY <2>3, <2>4, OccupiedFinite, TableAssumption
<1>9. SessionsNamed /\ SessionsNamed'
  BY <1>0, IdentOfSession, IdentOfSessionNext
<1>10. Ident[c] = NoName
  BY <1>2, <1>7, <1>9 DEF SessionsNamed
<1>11. Ident' = Ident
  <2>1. username[i] = NoName
    BY <1>0, <1>3, <1>4 DEF FreeSlotsNameless, Slots
  <2>2. Ident'[c] = NoName
    BY <1>1, <1>3, <1>6, <1>9, <2>1 DEF SessionsNamed
  <2>3. \A j \in Occupied : Ident[Peer(j)] = username[j] /\ Ident'[Peer(j)] = username[j]
    BY <1>1, <1>3, <1>5, <1>9 DEF SessionsNamed
  <2>4. \A d \in Conns \ Sessions' : Ident[d] = NoName /\ Ident'[d] = NoName
    BY <1>7, <1>9 DEF SessionsNamed
  <2>5. \A d \in Conns : Ident'[d] = Ident[d]
    BY <1>7, <1>10, <2>2, <2>3, <2>4 DEF Sessions
  <2> QED
    BY <2>5 DEF Ident
<1> QED
  BY <1>1, <1>2, <1>7, <1>8, <1>10, <1>11

(* ... client_events only runs for a session ...                             *)
LEMMA EventsOfSession ==
  ASSUME IInv, AtClientEvents
  PROVE  idx \in Occupied /\ Peer(idx) \in Conns /\ Peer(idx) \in Sessions
<1>1. idx \in Occupied
  BY DEF AtClientEvents, IInv, TypeOK, TableInv, DescriptorsInPlace, PollResultsHaveOwner
<1>2. Peer(idx) \in Sessions
  BY <1>1 DEF Sessions
<1> QED
  BY <1>1, <1>2, IdentOfSession DEF SessionsNamed

(* ... and ends it when read returns 0.                                      *)
LEMMA DisconnectEnds ==
  ASSUME IInv, IInv', Disconnect
  PROVE  \E c \in Conns : /\ c \in Sessions
                          /\ Sessions' = Sessions \ {c}
                          /\ Ident' = [Ident EXCEPT ![c] = NoName]
<1> DEFINE c == Peer(idx)
<1>0. /\ idx \in Slots /\ fd \in [Slots -> Fds] /\ username \in [Slots -> Strings \cup {Root}]
      /\ owner \in [ClientFds -> Conns \cup {NoConn}]
  BY DEF IInv, TypeOK
<1>1. idx \in Occupied /\ c \in Conns /\ c \in Sessions /\ fd[idx] \in ClientFds
  BY EventsOfSession DEF Disconnect, Occupied
<1>2. /\ fd' = [fd EXCEPT ![idx] = NoFd]
      /\ username' = [username EXCEPT ![idx] = NoName]
      /\ owner' = [owner EXCEPT ![fd[idx]] = NoConn]
  BY <1>1, DescriptorsDiffer DEF Disconnect, ClearSlot
<1>3. Occupied' = Occupied \ {idx}
  BY <1>0, <1>2, DescriptorsDiffer DEF Occupied
<1>4. \A j \in Occupied' : /\ Peer(j)' = Peer(j) /\ Peer(j) # c
                           /\ username'[j] = username[j]
  <2>1. \A j \in Occupied' : /\ j \in Slots /\ j # idx /\ fd'[j] = fd[j]
                             /\ fd[j] # fd[idx] /\ fd[j] \in ClientFds
    BY <1>0, <1>1, <1>2, <1>3 DEF IInv, TableInv, SlotsOwnSockets, Occupied
  <2>2. \A j \in Occupied' : owner[fd[j]] # owner[fd[idx]]
    BY <1>1, <2>1 DEF IInv, TableInv, SlotsOwnSockets, Peer
  <2> QED
    BY <1>0, <1>1, <1>2, <2>1, <2>2 DEF Peer
<1>5. Sessions' = Sessions \ {c}
  BY <1>3, <1>4 DEF Sessions
<1>6. SessionsNamed /\ SessionsNamed'
  BY IdentOfSession, IdentOfSessionNext
<1>7. \A d \in Conns : Ident'[d] = IF d = c THEN NoName ELSE Ident[d]
  <2>1. Ident'[c] = NoName
    BY <1>1, <1>5, <1>6 DEF SessionsNamed
  <2>2. \A j \in Occupied' : Ident'[Peer(j)] = Ident[Peer(j)]
    BY <1>3, <1>4, <1>6 DEF SessionsNamed
  <2>3. \A d \in Conns \ Sessions : Ident'[d] = Ident[d]
    BY <1>5, <1>6 DEF SessionsNamed
  <2>4. \A d \in Sessions : d = c \/ \E j \in Occupied' : d = Peer(j)
    BY <1>3 DEF Sessions
  <2> QED
    BY <2>1, <2>2, <2>3, <2>4
<1>8. Ident' = [Ident EXCEPT ![c] = NoName]
  <2> HIDE DEF c
  <2> QED
    BY <1>1, <1>7, IdentUpdate
<1> QED
  BY <1>1, <1>2, <1>5, <1>8

(* A message of type INFO gives the session it came from its name.            *)
LEMMA InfoAnnounces ==
  ASSUME IInv, IInv', InfoMessage
  PROVE  \E c \in Conns, doc \in MessageDocs :
           /\ c \in Sessions
           /\ Ident' = [Ident EXCEPT ![c] = Deserialize(doc).username]
           /\ UNCHANGED Sessions
<1>1. PICK doc \in MessageDocs :
        /\ ReadMessage(doc)
        /\ username' = [username EXCEPT ![idx] = Deserialize(doc).username]
        /\ UNCHANGED <<fd, owner>>
  BY DEF InfoMessage, ReadMessage
<1> DEFINE c   == Peer(idx)
           msg == Deserialize(doc)
<1>3. idx \in Occupied /\ c \in Conns /\ c \in Sessions
  BY <1>1, EventsOfSession DEF ReadMessage
<1>5. Occupied' = Occupied /\ \A j \in Occupied : Peer(j)' = Peer(j)
  BY <1>1 DEF Occupied, Peer
<1>6. Sessions' = Sessions
  BY <1>5, PoolFrame
<1>7. SessionsNamed /\ SessionsNamed'
  BY IdentOfSession, IdentOfSessionNext
<1>8. \A d \in Conns : Ident'[d] = IF d = c THEN msg.username ELSE Ident[d]
  <2> HIDE DEF msg
  <2>0. username \in [Slots -> Strings \cup {Root}] /\ Occupied \subseteq Slots
    BY DEF IInv, TypeOK, Occupied
  <2>1. \A j \in Occupied : username'[j] = IF j = idx THEN msg.username ELSE username[j]
    BY <1>1, <1>3, <2>0 DEF msg
  <2>2. \A j \in Occupied : j # idx => Peer(j) # c
    BY <1>3 DEF IInv, TableInv, SlotsOwnSockets, Peer, Occupied
  <2>3. \A j \in Occupied : /\ Ident[Peer(j)] = username[j]
                            /\ Ident'[Peer(j)] = username'[j]
    BY <1>5, <1>7 DEF SessionsNamed
  <2>4. \A d \in Conns \ Sessions : Ident'[d] = NoName /\ Ident[d] = NoName /\ d # c
    BY <1>3, <1>6, <1>7 DEF SessionsNamed
  <2>5. \A d \in Sessions : \E j \in Occupied : d = Peer(j)
    BY DEF Sessions
  <2> HIDE DEF c
  <2>6. \A d \in Sessions : Ident'[d] = IF d = c THEN msg.username ELSE Ident[d]
    BY <1>3, <2>1, <2>2, <2>3, <2>5 DEF c
  <2> QED
    BY <2>4, <2>6
<1>9. Ident' = [Ident EXCEPT ![c] = msg.username]
  <2> HIDE DEF c, msg
  <2> QED
    BY <1>3, <1>8, IdentUpdate
<1> QED
  BY <1>3, <1>6, <1>9

(* Every other step leaves the pool as it is.                               *)
LEMMA PoolQuiet ==
  ASSUME IInv, IInv', [Next]_vars,
         ~(Disconnect \/ InfoMessage \/ Restart
           \/ \E f \in ClientFds, i \in Slots : AcceptIntoSlot(f, i))
  PROVE  UNCHANGED <<Sessions, Ident>>
<1>1. CASE \E f \in ClientFds : AcceptWithoutSlot(f)
  <2> PICK f \in ClientFds : AcceptWithoutSlot(f)
    BY <1>1
  <2>1. /\ owner \in [ClientFds -> Conns \cup {NoConn}] /\ owner[f] = NoConn
        /\ owner' = [owner EXCEPT ![f] = Head(backlog)] \/ owner' = owner
        /\ UNCHANGED <<fd, username>>
    BY DEF IInv, TypeOK, AcceptWithoutSlot, FreeFds, table
  <2>2. Occupied' = Occupied
    BY <2>1 DEF Occupied
  <2>3. \A j \in Occupied : Peer(j)' = Peer(j)
    <3>1. \A j \in Occupied : fd[j] \in ClientFds /\ fd[j] # f
      BY <2>1 DEF IInv, TableInv, SlotsOwnSockets, Peer, Occupied
    <3> QED
      BY <2>1, <3>1 DEF Peer
  <2> QED
    BY <2>1, <2>2, <2>3, PoolFrame
<1>2. CASE ~(\E f \in ClientFds : AcceptWithoutSlot(f))
  <2>1. UNCHANGED <<fd, username, owner>>
    BY <1>2
       DEF Next, vars, table, kernel, ClientNext, Connect, Send, Close, ClientStep,
           ThreadStep, Poll, SkipSlot, ServerEvents, NothingAccepted, ClientEvents,
           FailedRead, ChatMessage, OtherMessage, FaultingMessage, ReadMessage,
           SendPayload, WeatherStep, WeatherFailed, SendHeader
  <2>2. Occupied' = Occupied /\ \A j \in Occupied : Peer(j)' = Peer(j)
    BY <2>1 DEF Occupied, Peer
  <2> QED
    BY <2>1, <2>2, PoolFrame
<1> QED
  BY <1>1, <1>2

LEMMA PoolStep ==
  ASSUME PoolInv, IInv', [Next]_vars
  PROVE  [Pool!Next]_(Pool!poolVars)
<1>0. IInv /\ TypeOK
  BY DEF PoolInv, IInv
<1>1. ASSUME NEW f \in ClientFds, NEW i \in Slots, AcceptIntoSlot(f, i)
      PROVE  Pool!Next
  <2> PICK c \in Conns \ Sessions : /\ Cardinality(Sessions) < MAX_CLIENTNUM - 1
                                     /\ Sessions' = Sessions \cup {c}
                                     /\ Ident[c] = NoName
                                     /\ UNCHANGED Ident
    BY <1>1, AcceptOpens
  <2> HIDE DEF Sessions
  <2>1. /\ c \in Conns \ Sessions
        /\ Cardinality(Sessions) < MAX_CLIENTNUM - 1
        /\ Sessions' = Sessions \cup {c}
    OBVIOUS
  <2>2. Ident[c] = NoName /\ UNCHANGED Ident
    OBVIOUS
  <2>3. Pool!Cardinality(Sessions) = Cardinality(Sessions)
    BY DEF Pool!Cardinality, Cardinality, Pool!IsFiniteSet, IsFiniteSet
  <2>4. Pool!Open(c)
    BY <2>1, <2>2, <2>3 DEF Pool!Open, Ident
  <2> QED
    BY <2>4 DEF Pool!Next
<1>2. CASE Disconnect
  <2> PICK c \in Conns : /\ c \in Sessions
                         /\ Sessions' = Sessions \ {c}
                         /\ Ident' = [Ident EXCEPT ![c] = NoName]
    BY <1>0, <1>2, DisconnectEnds
  <2>1. Pool!End(c)
    BY DEF Pool!End, Ident
  <2> QED
    BY <2>1 DEF Pool!Next
<1>3. CASE InfoMessage
  <2> PICK c \in Conns, doc \in MessageDocs :
        /\ c \in Sessions
        /\ Ident' = [Ident EXCEPT ![c] = Deserialize(doc).username]
        /\ UNCHANGED Sessions
    BY <1>0, <1>3, InfoAnnounces
  <2>1. Pool!Announce(c, Deserialize(doc).username)
    BY DEF Pool!Announce, Ident
  <2> QED
    BY <2>1 DEF Pool!Next
<1>4. CASE Restart
  <2>1. Occupied' = {}
    BY <1>4, DescriptorsDiffer, TableAssumption DEF Restart, FreshFd, Occupied, Slots
  <2>2. Sessions' = {}
    BY <2>1 DEF Sessions
  <2>3. Ident' = [c \in Conns |-> NoName]
    BY <2>2 DEF Ident
  <2>4. Pool!EndAll
    BY <2>1, <2>2, <2>3 DEF Pool!EndAll, Ident
  <2> QED
    BY <2>4 DEF Pool!Next
<1>5. CASE ~(Disconnect \/ InfoMessage \/ Restart
             \/ \E f \in ClientFds, i \in Slots : AcceptIntoSlot(f, i))
  <2>1. UNCHANGED <<Sessions, Ident>>
    BY <1>0, <1>5, PoolQuiet
  <2> QED
    BY <2>1 DEF Pool!poolVars, Ident
<1> QED
  BY <1>1, <1>2, <1>3, <1>4, <1>5

(* Slots, descriptors, poll, crashes and restarts amount to this: at most        *)
(* MAX_CLIENTNUM-1 sessions, each under the name its own client announced last   *)
(* and none at first.                                                       *)
THEOREM ImplementsSessionPoolCorrect == Spec => ImplementsSessionPool
<1>1. Init => Pool!Init
  <2> SUFFICES ASSUME Init PROVE Pool!Init
    OBVIOUS
  <2>1. Occupied = {}
    BY FreshTable DEF Init
  <2>2. Sessions = {}
    BY <2>1 DEF Sessions
  <2> QED
    BY <2>2 DEF Pool!Init
<1>2. PoolInv /\ PoolInv' /\ [Next]_vars => [Pool!Next]_(Pool!poolVars)
  BY PoolStep DEF PoolInv
<1> QED
  BY <1>1, <1>2, PoolInvInvariant, PTL DEF Spec, ImplementsSessionPool, Pool!Spec
==============================================================================
