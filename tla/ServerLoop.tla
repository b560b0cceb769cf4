----------------------------- MODULE ServerLoop -----------------------------
(***************************************************************************)
(* server/server.c: the connection table of server_t and the server thread  *)
(* that drives it (server_thread, server_handle_clients, server_events,     *)
(* client_events, handle_client_msg, close_client_connection), from the end *)
(* of ele_ds_server_init to the death of the process, and over restarts.    *)
(* Until the console closes the server this thread is the only writer of    *)
(* the table; what runs beside it is the kernel and the clients, so one      *)
(* iteration of the scan is one step, except that handle_client_msg gives   *)
(* way to the clients while it waits for the weather service and between    *)
(* its two writes.                                                          *)
(***************************************************************************)
EXTENDS Users, FiniteSets

CONSTANTS
  MAX_CLIENTNUM,   \* clients.fds has the indexes 0..MAX_CLIENTNUM
  MAX_MSGLEN,      \* size of the read buffer, in JSON texts of unit length
  Conns,           \* one element for every TCP connection a client may make
  ClientFds,       \* descriptors left to the process for accepted sockets
  ServerFd,        \* server_sockfd
  StdinFd,         \* descriptor 0
  NoFd,            \* -1
  NoConn,          \* owner of a descriptor that is not open
  MessageDocs,     \* the texts clients send
  MaxSent          \* bound: texts one connection sends

ASSUME TableAssumption ==
  /\ MAX_CLIENTNUM \in Nat \ {0}
  /\ MAX_MSGLEN \in Nat \ {0}
  /\ IsFiniteSet(ClientFds)
  /\ Cardinality({ServerFd, StdinFd, NoFd}) = 3
  /\ {ServerFd, StdinFd, NoFd} \cap ClientFds = {}
  /\ NoConn \notin Conns
  /\ MaxSent \in Nat

ASSUME DocsAssumption == \A doc \in MessageDocs : doc \in Docs

VARIABLES
  \* server_t
  fd,            \* clients.fds[i].fd
  events,        \* clients.fds[i].events: POLLIN is asked for
  revents,       \* clients.fds[i].revents: POLLIN is reported
  username,      \* clients.username[i]
  client_count,
  \* the server thread
  pc,            \* "poll", "scan", "fetch", "payload", or "dead"
  idx,           \* i of the loop in server_handle_clients
  \* the kernel
  backlog,       \* connections completed and not yet accepted, oldest first
  owner,         \* the connection an open descriptor stands for
  tcp,           \* what a connection's client has done to it
  inbox,         \* bytes received and unread
  sent           \* texts sent so far

table  == <<fd, events, username, client_count>>
kernel == <<backlog, owner, tcp, inbox, sent>>
vars   == <<table, revents, accounts, pc, idx, kernel>>

Slots == 0 .. MAX_CLIENTNUM
Fds   == ClientFds \cup {ServerFd, StdinFd, NoFd}

(* The user name of a slot nobody has announced itself on, and of slot 0.   *)
NoName == << >>
Root   == <<"root">>

(* "fin": the client sent FIN.  "rst": its RST has come and no call has      *)
(* reported it.  "closed": reads return 0 and the next write raises SIGPIPE. *)
TcpStates == {"none", "up", "fin", "rst", "closed"}

Occupied == {i \in Slots : fd[i] \in ClientFds}
FreeFds  == {f \in ClientFds : owner[f] = NoConn}

(* The connection slot i serves.                                           *)
Peer(i) == owner[fd[i]]
------------------------------------------------------------------------------
(* server_init: the loop that fills the table stops before its last entry,  *)
(* which keeps the zeros of the memset, that is, descriptor 0.              *)
FreshFd       == [i \in Slots |-> IF i = 0 THEN ServerFd
                                  ELSE IF i < MAX_CLIENTNUM THEN NoFd
                                  ELSE StdinFd]
FreshEvents   == [i \in Slots |-> i < MAX_CLIENTNUM]
FreshUsername == [i \in Slots |-> IF i = 0 THEN Root ELSE NoName]

Init ==
  /\ fd = FreshFd
  /\ events = FreshEvents
  /\ revents = [i \in Slots |-> FALSE]
  /\ username = FreshUsername
  /\ client_count = 0
  /\ users = << >>
  /\ rewritten = FALSE
  /\ pc = "poll"
  /\ idx = 0
  /\ backlog = << >>
  /\ owner = [f \in ClientFds |-> NoConn]
  /\ tcp = [c \in Conns |-> "none"]
  /\ inbox = [c \in Conns |-> << >>]
  /\ sent = [c \in Conns |-> 0]
------------------------------------------------------------------------------
(* The clients and the kernel.                                             *)
ClientStep == /\ pc # "dead"
              /\ UNCHANGED <<table, revents, accounts, pc, idx, owner>>

Connect(c) ==
  /\ ClientStep
  /\ tcp[c] = "none"
  /\ tcp' = [tcp EXCEPT ![c] = "up"]
  /\ backlog' = Append(backlog, c)
  /\ UNCHANGED <<inbox, sent>>

Send(c, doc) ==
  /\ ClientStep
  /\ tcp[c] = "up"
  /\ sent[c] < MaxSent
  /\ inbox' = [inbox EXCEPT ![c] = Append(@, doc)]
  /\ sent' = [sent EXCEPT ![c] = @ + 1]
  /\ UNCHANGED <<backlog, tcp>>

Close(c) ==
  /\ ClientStep
  /\ tcp[c] = "up"
  /\ \E how \in {"fin", "rst"} : tcp' = [tcp EXCEPT ![c] = how]
  /\ UNCHANGED <<backlog, inbox, sent>>

(* What poll reports for a descriptor.                                     *)
Readable(f) ==
  \/ f = ServerFd /\ backlog # << >>
  \/ f \in ClientFds /\ \/ inbox[owner[f]] # << >>
                        \/ tcp[owner[f]] \in {"fin", "rst", "closed"}

(* What read returns on the socket of a connection: -1, or a number of     *)
(* unit texts. Unread data comes before an error or the end of the stream. *)
ReadResult(c) ==
  IF inbox[c] # << >>
    THEN IF Len(inbox[c]) < MAX_MSGLEN THEN Len(inbox[c]) ELSE MAX_MSGLEN
    ELSE IF tcp[c] \in {"fin", "closed"} THEN 0 ELSE -1

(* write to the socket of a connection. A client that closed both ways      *)
(* answers the data after its FIN with a RST; one that only shut down its   *)
(* sending side does not.                                                   *)
Write(c, result) ==
  \/ tcp[c] = "up" /\ result = "returned" /\ UNCHANGED tcp
  \/ /\ tcp[c] = "fin" /\ result = "returned"
     /\ \E after \in {"fin", "closed"} : tcp' = [tcp EXCEPT ![c] = after]
  \/ /\ tcp[c] = "rst" /\ result = "returned"
     /\ tcp' = [tcp EXCEPT ![c] = "closed"]
  \/ tcp[c] = "closed" /\ result = "SIGPIPE" /\ UNCHANGED tcp
------------------------------------------------------------------------------
(* server_handle_clients hands the first client_count + 1 entries to poll;   *)
(* the results of the others stay what they were.                           *)
PolledSlotsOneShort == {i \in Slots : i < client_count}

PolledSlots == {i \in Slots : i < client_count + 1}

PollResults == [i \in Slots |-> IF i \in PolledSlots
                                  THEN events[i] /\ Readable(fd[i])
                                  ELSE revents[i]]

PollScanningClientsOnly ==
  /\ pc = "poll"
  /\ revents' = PollResults
  /\ pc' = "scan"
  /\ idx' = 1
  /\ UNCHANGED <<table, accounts, kernel>>

Poll ==
  /\ pc = "poll"
  /\ revents' = PollResults
  /\ pc' = "scan"
  /\ idx' = 0
  /\ UNCHANGED <<table, accounts, kernel>>

(* The end of one iteration; the loop covers 0..MAX_CLIENTNUM.              *)
NextIterationOneMore ==
  IF idx <= MAX_CLIENTNUM THEN pc' = "scan" /\ idx' = idx + 1
                          ELSE pc' = "poll" /\ idx' = 0

NextIteration ==
  IF idx < MAX_CLIENTNUM THEN pc' = "scan" /\ idx' = idx + 1
                         ELSE pc' = "poll" /\ idx' = 0

AtServerSlot == pc = "scan" /\ fd[idx] = ServerFd

(* client_events is entered and passes its check of the index.              *)
AtClientEvents == /\ pc = "scan" /\ fd[idx] # ServerFd
                  /\ revents[idx] /\ idx < MAX_CLIENTNUM

SkipSlot ==
  /\ pc = "scan" /\ fd[idx] # ServerFd
  /\ ~revents[idx] \/ idx >= MAX_CLIENTNUM
  /\ NextIteration
  /\ UNCHANGED <<table, revents, accounts, kernel>>

(* server_events.                                                          *)
FreeSlotsInPolledPart == {i \in 1 .. client_count : fd[i] = NoFd}

FreeSlots == {i \in 1 .. MAX_CLIENTNUM : fd[i] = NoFd}
IsFirstFree(i) == i \in FreeSlots /\ \A j \in FreeSlots : i <= j

(* accept fails: nothing is pending, or no descriptor is left.              *)
NothingAccepted ==
  /\ AtServerSlot
  /\ backlog = << >> \/ FreeFds = {}
  /\ NextIteration
  /\ UNCHANGED <<table, revents, accounts, kernel>>

AcceptIntoSlot(f, i) ==
  /\ AtServerSlot
  /\ backlog # << >> /\ f \in FreeFds
  /\ client_count <= MAX_CLIENTNUM /\ IsFirstFree(i)
  /\ owner' = [owner EXCEPT ![f] = Head(backlog)]
  /\ backlog' = Tail(backlog)
  /\ fd' = [fd EXCEPT ![i] = f]
  /\ events' = [events EXCEPT ![i] = TRUE]
  /\ client_count' = client_count + 1
  /\ NextIteration
  /\ UNCHANGED <<username, revents, accounts, tcp, inbox, sent>>

(* The search found no slot: the socket stays open and is forgotten. The    *)
(* closing branch is for a count above MAX_CLIENTNUM.                       *)
AcceptWithoutSlotCounted(f) ==
  /\ AtServerSlot
  /\ backlog # << >> /\ f \in FreeFds
  /\ FreeSlots = {}
  /\ owner' = [owner EXCEPT ![f] = Head(backlog)]
  /\ backlog' = Tail(backlog)
  /\ client_count' = client_count + 1
  /\ NextIteration
  /\ UNCHANGED <<fd, events, username, revents, accounts, tcp, inbox, sent>>

AcceptWithoutSlot(f) ==
  /\ AtServerSlot
  /\ backlog # << >> /\ f \in FreeFds
  /\ client_count > MAX_CLIENTNUM \/ FreeSlots = {}
  /\ owner' = IF client_count <= MAX_CLIENTNUM
                THEN [owner EXCEPT ![f] = Head(backlog)] ELSE owner
  /\ backlog' = Tail(backlog)
  /\ NextIteration
  /\ UNCHANGED <<table, revents, accounts, tcp, inbox, sent>>
------------------------------------------------------------------------------
(* close_client_connection, without the system calls; first with each of     *)
(* three resets left out.                                                   *)
ClearSlotKeepingFd(i) ==
  /\ client_count' = client_count - 1
  /\ events' = [events EXCEPT ![i] = FALSE]
  /\ revents' = [revents EXCEPT ![i] = FALSE]
  /\ username' = [username EXCEPT ![i] = NoName]
  /\ UNCHANGED fd

ClearSlotKeepingRevents(i) ==
  /\ client_count' = client_count - 1
  /\ fd' = [fd EXCEPT ![i] = NoFd]
  /\ events' = [events EXCEPT ![i] = FALSE]
  /\ username' = [username EXCEPT ![i] = NoName]
  /\ UNCHANGED revents

ClearSlotKeepingName(i) ==
  /\ client_count' = client_count - 1
  /\ fd' = [fd EXCEPT ![i] = NoFd]
  /\ events' = [events EXCEPT ![i] = FALSE]
  /\ revents' = [revents EXCEPT ![i] = FALSE]
  /\ UNCHANGED username

ClearSlot(i) ==
  /\ client_count' = client_count - 1
  /\ IF fd[i] # NoFd
       THEN /\ fd' = [fd EXCEPT ![i] = NoFd]
            /\ events' = [events EXCEPT ![i] = FALSE]
            /\ revents' = [revents EXCEPT ![i] = FALSE]
            /\ username' = [username EXCEPT ![i] = NoName]
       ELSE UNCHANGED <<fd, events, revents, username>>

(* client_events: read returned 0.                                         *)
Disconnect ==
  /\ AtClientEvents
  /\ ReadResult(Peer(idx)) = 0
  /\ ClearSlot(idx)
  /\ owner' = [owner EXCEPT ![fd[idx]] = NoConn]
  /\ NextIteration
  /\ UNCHANGED <<accounts, backlog, tcp, inbox, sent>>

(* read returned -1: the message branch runs on an empty buffer, after a    *)
(* store at buffer[-1] that this model lets go unnoticed.                   *)
FailedRead ==
  /\ AtClientEvents
  /\ ReadResult(Peer(idx)) = -1
  /\ tcp' = IF tcp[Peer(idx)] = "rst"
              THEN [tcp EXCEPT ![Peer(idx)] = "closed"] ELSE tcp
  /\ NextIteration
  /\ UNCHANGED <<table, revents, accounts, backlog, owner, inbox, sent>>

(* A message: everything that has come leaves the socket and the parser     *)
(* sees the first text of it.                                               *)
ReadMessage(doc) ==
  /\ AtClientEvents
  /\ ReadResult(Peer(idx)) > 0
  /\ doc = Head(inbox[Peer(idx)])
  /\ inbox' = [inbox EXCEPT ![Peer(idx)] =
                 SubSeq(@, ReadResult(Peer(idx)) + 1, Len(@))]
  /\ UNCHANGED <<backlog, owner, tcp, sent>>

(* handle_client_msg, EMT_CLIENTMSG_INFO, up to the weather request. It is  *)
(* reached whatever client_event_handler returned.                          *)
InfoMessage ==
  \E doc \in MessageDocs :
    /\ ReadMessage(doc)
    /\ ~ParserFaults(doc)
    /\ LET msg == Deserialize(doc)
       IN /\ msg.msgtype = EMT_CLIENTMSG_INFO
          /\ \E ret \in {-3, -1, 0} : UsersAdd(msg.username, msg.passwd, ret)
          /\ username' = [username EXCEPT ![idx] = msg.username]
    /\ pc' = "fetch"
    /\ UNCHANGED <<fd, events, revents, client_count, idx>>

(* EMT_CLIENTMSG_CHEAT: the receiver is looked up among the accounts, and    *)
(* nothing is forwarded.                                                    *)
ChatMessage ==
  \E doc \in MessageDocs :
    /\ ReadMessage(doc)
    /\ ~ParserFaults(doc)
    /\ Deserialize(doc).msgtype = EMT_CLIENTMSG_CHEAT
    /\ \E ran \in BOOLEAN : SelectName(Deserialize(doc).target, ran)
    /\ NextIteration
    /\ UNCHANGED <<table, revents>>

(* Other types are reported.                                                *)
OtherMessage ==
  \E doc \in MessageDocs :
    /\ ReadMessage(doc)
    /\ ~ParserFaults(doc)
    /\ Deserialize(doc).msgtype \notin {EMT_CLIENTMSG_INFO, EMT_CLIENTMSG_CHEAT}
    /\ NextIteration
    /\ UNCHANGED <<table, revents, accounts>>

(* SIGSEGV: signal_handler ends the process.                               *)
FaultingMessage ==
  \E doc \in MessageDocs :
    /\ ReadMessage(doc)
    /\ ParserFaults(doc)
    /\ pc' = "dead"
    /\ UNCHANGED <<table, revents, accounts, idx>>

(* get_weather_ex fails, or succeeds and msg_send writes the header. The    *)
(* default action of SIGPIPE ends the process.                              *)
WeatherFailed ==
  /\ pc = "fetch"
  /\ NextIteration
  /\ UNCHANGED <<table, revents, accounts, kernel>>

SendHeader ==
  /\ pc = "fetch"
  /\ \E result \in {"returned", "SIGPIPE"} :
       /\ Write(Peer(idx), result)
       /\ pc' = IF result = "SIGPIPE" THEN "dead" ELSE "payload"
  /\ UNCHANGED <<table, revents, accounts, idx, backlog, owner, inbox, sent>>

(* After 100 ms, the weather structures; an error of write is only logged.  *)
SendPayload ==
  /\ pc = "payload"
  /\ \E result \in {"returned", "SIGPIPE"} :
       /\ Write(Peer(idx), result)
       /\ IF result = "SIGPIPE" THEN pc' = "dead" /\ UNCHANGED idx
                                ELSE NextIteration
  /\ UNCHANGED <<table, revents, accounts, backlog, owner, inbox, sent>>

(* The operator starts the program again: the kernel has closed every       *)
(* connection, users.db is what it was.                                     *)
Restart ==
  /\ pc = "dead"
  /\ fd' = FreshFd
  /\ events' = FreshEvents
  /\ revents' = [i \in Slots |-> FALSE]
  /\ username' = FreshUsername
  /\ client_count' = 0
  /\ pc' = "poll"
  /\ idx' = 0
  /\ backlog' = << >>
  /\ owner' = [f \in ClientFds |-> NoConn]
  /\ tcp' = [c \in Conns |-> IF tcp[c] = "none" THEN "none" ELSE "closed"]
  /\ inbox' = [c \in Conns |-> << >>]
  /\ UNCHANGED <<accounts, sent>>
------------------------------------------------------------------------------
ClientNext == \E c \in Conns : \/ Connect(c)
                               \/ \E doc \in MessageDocs : Send(c, doc)
                               \/ Close(c)

ServerEvents == \/ NothingAccepted
                \/ \E f \in ClientFds, i \in Slots : AcceptIntoSlot(f, i)
                \/ \E f \in ClientFds : AcceptWithoutSlot(f)

ClientEvents == \/ Disconnect
                \/ FailedRead
                \/ InfoMessage
                \/ ChatMessage
                \/ OtherMessage
                \/ FaultingMessage

(* The steps that end whatever the weather service does.                   *)
ThreadStep == Poll \/ SkipSlot \/ ServerEvents \/ ClientEvents \/ SendPayload

WeatherStep == WeatherFailed \/ SendHeader

Next == ClientNext \/ ThreadStep \/ WeatherStep \/ Restart

Spec == Init /\ [][Next]_vars

(* The thread is scheduled as long as it can run; nothing makes the weather  *)
(* service answer (no timeout is set on the request) or anyone restart the   *)
(* program.                                                                  *)
FairSpec == Spec /\ WF_vars(ThreadStep)
------------------------------------------------------------------------------
TypeOK ==
  /\ fd \in [Slots -> Fds]
  /\ events \in [Slots -> BOOLEAN]
  /\ revents \in [Slots -> BOOLEAN]
  /\ username \in [Slots -> Strings \cup {Root}]
  /\ client_count \in Int
  /\ users \in Seq(Rows) /\ rewritten \in BOOLEAN
  /\ pc \in {"poll", "scan", "fetch", "payload", "dead"}
  /\ idx \in Slots
  /\ backlog \in Seq(Conns)
  /\ owner \in [ClientFds -> Conns \cup {NoConn}]
  /\ tcp \in [Conns -> TcpStates]
  /\ inbox \in [Conns -> Seq(MessageDocs)]
  /\ sent \in [Conns -> Nat]

(* client_count, which decides how much of the table poll sees and whether  *)
(* accept looks for a slot, is the number of connections in the table.      *)
CountMatchesTable == client_count = Cardinality(Occupied)

(* No slot keeps a descriptor that was closed, no two slots share one, and  *)
(* no connection sits behind two descriptors: a close or a write through a  *)
(* slot cannot hit another client.                                          *)
SlotsOwnSockets ==
  /\ \A i \in Occupied : Peer(i) # NoConn
  /\ \A i, j \in Occupied : fd[i] = fd[j] => i = j
  /\ \A f, g \in ClientFds : owner[f] = owner[g] /\ f # g => owner[f] = NoConn

(* A slot without a connection carries no poll result, not even after the   *)
(* polled prefix of the table has shrunk below it: client_events never       *)
(* reads descriptor -1 or the console's descriptor 0, and a new client does  *)
(* not inherit the readiness of the one before it.                          *)
PollResultsHaveOwner == \A i \in Slots \ {0} : revents[i] => i \in Occupied

(* server_events keeps a socket out of the table only when each of the       *)
(* slots 1..MAX_CLIENTNUM-1 holds a client.                                  *)
FreeSlotIsTaken ==
  [][\A f \in ClientFds :
       /\ owner[f] = NoConn /\ owner'[f] # NoConn
       /\ Cardinality(Occupied) < MAX_CLIENTNUM - 1
       => \E i \in 1 .. MAX_CLIENTNUM - 1 : fd'[i] = f]_vars

(* As long as only plain texts have reached SQLite, rows of users.db are      *)
(* never changed or dropped, over crashes and restarts too: the first        *)
(* password announced for a name stays.                                     *)
AccountsKept ==
  [][~rewritten' =>
       \A k \in DOMAIN users : k \in DOMAIN users' /\ users'[k] = users[k]]_users

(* The table implements a pool of at most MAX_CLIENTNUM-1 sessions, each      *)
(* known by the last name its own client announced.                         *)
Sessions == {Peer(i) : i \in Occupied}

Pool == INSTANCE SessionPool WITH
          Capacity <- MAX_CLIENTNUM - 1,
          Anonymous <- NoName,
          Names <- {Deserialize(doc).username : doc \in MessageDocs},
          sessions <- Sessions,
          ident <- [c \in Conns |->
                      IF c \in Sessions
                        THEN username[CHOOSE i \in Occupied : Peer(i) = c]
                        ELSE NoName]

ImplementsSessionPool == Pool!Spec
------------------------------------------------------------------------------
(* Progress. The weather service is the one thing the thread waits for       *)
(* without a limit; the properties suppose that no wait is endless.          *)
WeatherAnswers == []<>(pc # "fetch")

Pending(c) == \E k \in DOMAIN backlog : backlog[k] = c

(* c is in the part of the table poll looks at, and has something to read.  *)
Polled(c) == \E i \in 1 .. MAX_CLIENTNUM :
               /\ i <= client_count /\ i \in Occupied
               /\ Peer(i) = c /\ Readable(fd[i])

(* A connection that completes is accepted unless the process dies or has   *)
(* no descriptor left.                                                      *)
PendingIsAccepted ==
  WeatherAnswers => \A c \in Conns :
    Pending(c) ~> (~Pending(c) \/ pc = "dead" \/ FreeFds = {})

(* What a client in one of the slots 1..client_count sends is read, and its  *)
(* end noticed, unless the departure of others moves it out of that range.   *)
PolledIsServed ==
  WeatherAnswers => \A c \in Conns : Polled(c) ~> (~Polled(c) \/ pc = "dead")
------------------------------------------------------------------------------
(* What comments of the code say and the code does not do.                  *)

(* "Max client limit reached, rejecting connection" (server.c:326): a        *)
(* connection beyond the limit is closed, so every open socket has a slot.   *)
NoSocketForgotten ==
  \A f \in ClientFds : owner[f] # NoConn => \E i \in Slots : fd[i] = f

(* "MAX_CLIENTNUM 30 // maximum number of client connections" (server.h:28): *)
(* a client that comes while there are fewer gets a slot.                    *)
LimitIsMaxClientnum ==
  [][\A f \in ClientFds :
       /\ owner[f] = NoConn /\ owner'[f] # NoConn
       /\ Cardinality(Occupied) < MAX_CLIENTNUM
       => \E i \in Slots : fd'[i] = f]_vars

(* "handle client events" (server.c:515): what a connected client sends is   *)
(* read sooner or later.                                                    *)
EveryClientServed ==
  WeatherAnswers => \A c \in Conns :
    (c \in Sessions /\ inbox[c] # << >>) ~> (inbox[c] = << >> \/ pc = "dead")

(* "0 success ... -3 processing failed" (server.c:359): a client that goes   *)
(* away makes a write fail; it does not end the server.                     *)
SurvivesDepartures == pc # "dead"

(* "-2 parsing failed" (server.c:359): a text the parser rejects changes     *)
(* neither the accounts nor the name of the slot.                           *)
RejectedTextIgnored ==
  [][\A c \in Conns :
       /\ pc = "scan" /\ idx \in Occupied /\ Peer(idx) = c
       /\ inbox[c] # << >> /\ Len(inbox'[c]) < Len(inbox[c])
       /\ ClientEventHandler(Head(inbox[c])) < 0
       => UNCHANGED <<accounts, username>>]_vars

(* "MAX_MSGLEN 1024 // maximum message length" (server.h:29): a read of the  *)
(* longest message leaves room for buffer[valread] = 0.                      *)
RoomForTerminator ==
  AtClientEvents => ReadResult(Peer(idx)) < MAX_MSGLEN

(* "handle the received message" (server.c:465): the branch that stores at   *)
(* buffer[valread] runs after a read that received something.               *)
MessageBranchHasMessage ==
  AtClientEvents => ReadResult(Peer(idx)) >= 0
==============================================================================
