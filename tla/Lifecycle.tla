----------------------------- MODULE Lifecycle -----------------------------
(***************************************************************************)
(* main.c and server_close of server/server.c: start, exit command, SIGINT   *)
(* and the end of the process. main sweeps the table with server_close       *)
(* before it joins the server thread, so that the two threads read and write *)
(* the same slots, the count and the descriptors without a lock. A step is   *)
(* one read or write of what they share, or one system call; client_count++   *)
(* and client_count-- are a read and a write. Three things are not taken      *)
(* apart: what AtSlot says; the words of a slot that poll copies; and the     *)
(* lists of history variables. Of the messages of clients only this is here:   *)
(* the thread reads one, may wait for the weather service, and writes the      *)
(* answer.                                                                  *)
(***************************************************************************)
EXTENDS Integers, FiniteSets

CONSTANTS
  MAX_CLIENTNUM,
  Conns, ClientFds, ServerFd, StdinFd, NoFd, NoConn,
  Senders,         \* the clients that send texts
  InitOutcomes     \* how ele_ds_server_init may end

ASSUME LifecycleAssumption ==
  /\ MAX_CLIENTNUM \in Nat \ {0}
  /\ Cardinality({ServerFd, StdinFd, NoFd}) = 3
  /\ {ServerFd, StdinFd, NoFd} \cap ClientFds = {}
  /\ NoConn \notin Conns /\ Senders \subseteq Conns
  /\ InitOutcomes \subseteq {"ok", "socket", "bind", "users"}

VARIABLES
  fd, revents, client_count, server_sockfd, ops, exitflag,   \* shared memory
  listening,   \* clients can connect
  owner,       \* the connection an open descriptor stands for
  tcp,         \* state of a connection
  unread,      \* connections with an unread text
  mpc, mi,     \* main: program counter, i of server_close
  mfd,         \* the number it has read to send SERVER_SHUTDOWN to
  tpc, ti,     \* the server thread: program counter, i of its loop
  tfd,         \* the socket it has accepted, or is about to answer
  acc,         \* server_events: i of its search, the count it has read
  polled,      \* what poll was given: nfds - 1, and the connections
  cl,          \* close_client_connection, one activation for each thread
  misclosed,   \* a close hit a number that was not the slot's connection
  atExit       \* connections in the table when server_close began

memory == <<fd, revents, client_count, server_sockfd, ops, exitflag>>
kernel == <<listening, owner, tcp, unread>>
main   == <<mpc, mi, mfd, atExit>>
thread == <<tpc, ti, tfd, acc, polled>>
vars   == <<memory, kernel, main, thread, cl, misclosed>>

Slots   == 0 .. MAX_CLIENTNUM
Threads == {"main", "thread"}

OwnerOf(f)  == IF f \in ClientFds THEN owner[f] ELSE NoConn
Readable(c) ==
  c # NoConn /\ (c \in unread \/ tcp[c] \in {"left", "shut", "closed"})

(* A write may raise SIGPIPE when the peer is gone, and does when this side     *)
(* has been shut down.                                                      *)
PipeMayBreak(c) == c # NoConn /\ tcp[c] \in {"left", "shut"}
PipeIsBroken(c) == c # NoConn /\ tcp[c] = "shut"

Inactive  == [step |-> "none", fd |-> NoFd, conn |-> NoConn, count |-> 0]
NoSearch  == [slot |-> 0, count |-> 0]
NotPolled == [n |-> -1, conns |-> [i \in Slots |-> NoConn]]

(* server_init fails before it fills the table ("socket", "bind"), or        *)
(* users_init after it; main goes on in any case.                           *)
Init ==
  \E outcome \in InitOutcomes :
    LET filled == outcome \in {"ok", "users"}
    IN /\ fd = [i \in Slots |-> IF ~filled \/ i = MAX_CLIENTNUM THEN StdinFd
                                ELSE IF i = 0 THEN ServerFd ELSE NoFd]
       /\ server_sockfd = IF outcome = "socket" THEN NoFd ELSE ServerFd
       /\ listening = filled
       /\ ops = filled
       /\ tpc = IF outcome = "ok" THEN "test" ELSE "none"
       /\ revents = [i \in Slots |-> FALSE]
       /\ client_count = 0
       /\ exitflag = FALSE
       /\ owner = [f \in ClientFds |-> NoConn]
       /\ tcp = [c \in Conns |-> "none"]
       /\ unread = {}
       /\ mpc = "readline" /\ mi = 0 /\ mfd = NoFd /\ atExit = {}
       /\ ti = 0 /\ tfd = NoFd /\ acc = NoSearch
       /\ polled = NotPolled
       /\ cl = [w \in Threads |-> Inactive]
       /\ misclosed = FALSE
------------------------------------------------------------------------------
Running == mpc \notin {"done", "crashed"}

Connect(c) ==
  /\ Running /\ listening
  /\ tcp[c] = "none"
  /\ tcp' = [tcp EXCEPT ![c] = "pending"]
  /\ UNCHANGED <<memory, listening, owner, unread, main, thread, cl, misclosed>>

SendText(c) ==
  /\ Running /\ tcp[c] = "up" /\ c \in Senders
  /\ unread' = unread \cup {c}
  /\ UNCHANGED <<memory, listening, owner, tcp, main, thread, cl, misclosed>>

Leave(c) ==
  /\ Running /\ tcp[c] = "up"
  /\ tcp' = [tcp EXCEPT ![c] = "left"]
  /\ UNCHANGED <<memory, listening, owner, unread, main, thread, cl, misclosed>>

(* SIGINT sets the flag; main still waits for a line. When the handler runs  *)
(* in the server thread, poll returns -1 and the round is over.             *)
Interrupt ==
  /\ mpc = "readline"
  /\ exitflag' = TRUE
  /\ tpc' \in {tpc} \cup (IF tpc = "wait" THEN {"test"} ELSE {})
  /\ UNCHANGED <<fd, revents, client_count, server_sockfd, ops>>
  /\ UNCHANGED <<kernel, main, ti, tfd, acc, polled, cl, misclosed>>
------------------------------------------------------------------------------
(* The loops of server_close and of server_handle_clients over the slots.    *)
LastSlotOneMore == MAX_CLIENTNUM + 1

LastSlot == MAX_CLIENTNUM

NextSlot(w) ==
  CASE w = "main" ->
         /\ IF mi < LastSlot THEN mi' = mi + 1 /\ mpc' = "sweep"
                             ELSE mi' = mi /\ mpc' = "zero"
         /\ UNCHANGED <<mfd, atExit, thread>>
    [] w = "thread" ->
         /\ IF ti < LastSlot THEN ti' = ti + 1 /\ tpc' = "scan"
                             ELSE ti' = ti /\ tpc' = "test"
         /\ tfd' = NoFd /\ acc' = NoSearch
         /\ UNCHANGED <<polled, main>>

(* close_client_connection for the slot the thread w is at.                 *)
Slot(w)   == IF w = "main" THEN mi ELSE ti
Call(w)   == cl' = [cl EXCEPT ![w].step = "enter"]
Return(w) == NextSlot(w) /\ cl' = [cl EXCEPT ![w] = Inactive]
GoOn(w, step) == cl' = [cl EXCEPT ![w].step = step] /\ UNCHANGED <<main, thread>>

(* It reads the number ...                                                  *)
CloseEnter(w) ==
  /\ Running /\ cl[w].step = "enter"
  /\ LET f == fd[Slot(w)]
     IN cl' = [cl EXCEPT ![w] = [step |-> "count", fd |-> f,
                                 conn |-> OwnerOf(f), count |-> 0]]
  /\ UNCHANGED <<memory, kernel, main, thread, misclosed>>

(* ... reads the count ...                                                  *)
CloseCount(w) ==
  /\ Running /\ cl[w].step = "count"
  /\ cl' = [cl EXCEPT ![w] = [step |-> "store", fd |-> cl[w].fd,
                              conn |-> cl[w].conn, count |-> client_count]]
  /\ UNCHANGED <<memory, kernel, main, thread, misclosed>>

(* ... and stores it, though the other thread may have changed it.           *)
CloseStore(w) ==
  /\ Running /\ cl[w].step = "store"
  /\ client_count' = cl[w].count - 1
  /\ IF cl[w].fd = NoFd THEN Return(w) ELSE GoOn(w, "shutdown")
  /\ UNCHANGED <<fd, revents, server_sockfd, ops, exitflag, kernel, misclosed>>

CloseShutdown(w) ==
  /\ Running /\ cl[w].step = "shutdown"
  /\ tcp' = IF OwnerOf(cl[w].fd) = NoConn THEN tcp
            ELSE [tcp EXCEPT ![OwnerOf(cl[w].fd)] = "shut"]
  /\ GoOn(w, "close")
  /\ UNCHANGED <<memory, listening, owner, unread, misclosed>>

CloseClose(w) ==
  /\ Running /\ cl[w].step = "close"
  /\ LET f == cl[w].fd
     IN IF OwnerOf(f) = NoConn
          THEN UNCHANGED <<tcp, owner, unread>>
          ELSE /\ tcp' = [tcp EXCEPT ![owner[f]] = "closed"]
               /\ unread' = unread \ {owner[f]}
               /\ owner' = [owner EXCEPT ![f] = NoConn]
  /\ misclosed' = \/ misclosed
                  \/ cl[w].fd \in ClientFds /\ OwnerOf(cl[w].fd) # cl[w].conn
                  \/ cl[w].fd \in ClientFds /\ cl[w].conn = NoConn
  /\ GoOn(w, "clear")
  /\ UNCHANGED <<memory, listening>>

CloseClear(w) ==
  /\ Running /\ cl[w].step = "clear"
  /\ fd' = [fd EXCEPT ![Slot(w)] = NoFd]
  /\ GoOn(w, "reset")
  /\ UNCHANGED <<revents, client_count, server_sockfd, ops, exitflag>>
  /\ UNCHANGED <<kernel, misclosed>>

CloseReset(w) ==
  /\ Running /\ cl[w].step = "reset"
  /\ revents' = [revents EXCEPT ![Slot(w)] = FALSE]
  /\ Return(w)
  /\ UNCHANGED <<fd, client_count, server_sockfd, ops, exitflag>>
  /\ UNCHANGED <<kernel, misclosed>>

CloseStep(w) == \/ CloseEnter(w) \/ CloseCount(w) \/ CloseStore(w)
                \/ CloseShutdown(w) \/ CloseClose(w) \/ CloseClear(w) \/ CloseReset(w)
------------------------------------------------------------------------------
(* main: a line from readline, then the test of the flag. The commands that  *)
(* send call through ops, which is NULL after a failed server_init.         *)
FirstSweptSkipsOne == 2

FirstSwept == 1

ReadLine(line) ==
  /\ mpc = "readline"
  /\ exitflag' = (exitflag \/ line = "exit")
  /\ IF line = "send" /\ ~ops
       THEN mpc' = "crashed" /\ UNCHANGED <<mi, atExit>>
       ELSE IF exitflag'
              THEN /\ mpc' = "sweep"
                   /\ mi' = FirstSwept
                   /\ atExit' = {OwnerOf(fd[i]) : i \in Slots} \ {NoConn}
              ELSE UNCHANGED <<mpc, mi, atExit>>
  /\ UNCHANGED <<fd, revents, client_count, server_sockfd, ops>>
  /\ UNCHANGED <<mfd, kernel, thread, cl, misclosed>>

(* server_close: the number of a slot is read, and the text SERVER_SHUTDOWN    *)
(* sent to it, which may end the process.                                    *)
Sweep ==
  /\ mpc = "sweep"
  /\ mfd' = fd[mi]
  /\ mpc' = "send"
  /\ UNCHANGED <<memory, kernel, mi, atExit, thread, cl, misclosed>>

SendShutdown ==
  /\ mpc = "send"
  /\ LET c == OwnerOf(mfd)
     IN \/ ~PipeIsBroken(c) /\ mpc' = "closing" /\ Call("main")
        \/ PipeMayBreak(c) /\ mpc' = "crashed" /\ UNCHANGED cl
  /\ mfd' = NoFd
  /\ UNCHANGED <<memory, kernel, mi, atExit, thread, misclosed>>

(* ... and what follows the loop.                                          *)
EndStep(from, to) ==
  /\ mpc = from
  /\ mpc' = to
  /\ UNCHANGED <<ops, exitflag, owner, tcp, unread, mi, mfd, atExit, thread, cl, misclosed>>

ZeroCount ==
  /\ EndStep("zero", "socket")
  /\ client_count' = 0
  /\ UNCHANGED <<fd, revents, server_sockfd, listening>>

CloseSocket ==
  /\ EndStep("socket", "forget")
  /\ listening' = (listening /\ server_sockfd = NoFd)
  /\ UNCHANGED <<fd, revents, client_count, server_sockfd>>

ForgetSocket ==
  /\ EndStep("forget", "first")
  /\ server_sockfd' = NoFd
  /\ UNCHANGED <<fd, revents, client_count, listening>>

ClearFirst ==
  /\ EndStep("first", "last")
  /\ fd' = [fd EXCEPT ![0] = NoFd]
  /\ UNCHANGED <<revents, client_count, server_sockfd, listening>>

ResetFirst ==
  /\ EndStep("last", "join")
  /\ revents' = [revents EXCEPT ![0] = FALSE]
  /\ UNCHANGED <<fd, client_count, server_sockfd, listening>>

(* pthread_join of a thread that was never created: the handle is 0.        *)
Join ==
  /\ mpc = "join" /\ tpc \in {"ended", "none"}
  /\ mpc' \in IF tpc = "none" THEN {"crashed", "done"} ELSE {"done"}
  /\ UNCHANGED <<memory, kernel, mi, mfd, atExit, thread, cl, misclosed>>
------------------------------------------------------------------------------
(* The server thread.                                                      *)
TestFlagIgnored ==
  /\ Running /\ tpc = "test"
  /\ tpc' = "poll"
  /\ UNCHANGED <<memory, kernel, main, ti, tfd, acc, polled, cl, misclosed>>

TestFlag ==
  /\ Running /\ tpc = "test"
  /\ tpc' = IF exitflag THEN "ended" ELSE "poll"
  /\ UNCHANGED <<memory, kernel, main, ti, tfd, acc, polled, cl, misclosed>>

(* The count is read, and handed to poll as unsigned: one that the sweep has   *)
(* made less than -1 is an error. poll takes the numbers when it is called    *)
(* and stores its results when it returns, at the latest after 500 ms.       *)
PollCount ==
  /\ Running /\ tpc = "poll"
  /\ polled' = [polled EXCEPT !.n = client_count]
  /\ tpc' = "call"
  /\ UNCHANGED <<memory, kernel, main, ti, tfd, acc, cl, misclosed>>

PollFails ==
  /\ Running /\ tpc = "call"
  /\ polled.n < -1
  /\ polled' = NotPolled
  /\ tpc' = "test"
  /\ UNCHANGED <<memory, kernel, main, ti, tfd, acc, cl, misclosed>>

PollCall ==
  /\ Running /\ tpc = "call"
  /\ polled.n >= -1
  /\ polled' = [polled EXCEPT !.conns = [i \in Slots |-> OwnerOf(fd[i])]]
  /\ tpc' = "wait"
  /\ UNCHANGED <<memory, kernel, main, ti, tfd, acc, cl, misclosed>>

PollWakesOnEvent == \/ \E i \in Slots : i <= polled.n /\ Readable(polled.conns[i])
                    \/ \E c \in Conns : tcp[c] = "pending"

PollWakes == TRUE

PollReturn ==
  /\ Running /\ tpc = "wait" /\ PollWakes
  /\ revents' = [i \in Slots |-> IF i <= polled.n THEN Readable(polled.conns[i])
                                                  ELSE revents[i]]
  /\ tpc' = "scan"
  /\ ti' = 0
  /\ polled' = NotPolled
  /\ UNCHANGED <<fd, client_count, server_sockfd, ops, exitflag>>
  /\ UNCHANGED <<kernel, main, tfd, acc, cl, misclosed>>

(* The reads by which the thread chooses what to do at a slot are one step    *)
(* with the accept or the read that follows. Meanwhile main can only close,    *)
(* and store -1 and 0; the call then fails and the slot is passed, as it is    *)
(* when main was first. A number is given out again by accept alone, in this  *)
(* thread.                                                                  *)
AtSlot == Running /\ tpc = "scan"

(* server_events.                                                          *)
Accept(c, f) ==
  /\ AtSlot /\ fd[ti] = server_sockfd
  /\ server_sockfd # NoFd /\ listening
  /\ tcp[c] = "pending" /\ owner[f] = NoConn
  /\ owner' = [owner EXCEPT ![f] = c]
  /\ tcp' = [tcp EXCEPT ![c] = "up"]
  /\ tfd' = f
  /\ tpc' = "limit"
  /\ UNCHANGED <<memory, listening, unread, main, ti, acc, polled, cl, misclosed>>

(* The count is compared with the limit ...                                  *)
CheckLimit ==
  /\ Running /\ tpc = "limit"
  /\ IF client_count <= MAX_CLIENTNUM
       THEN /\ acc' = [acc EXCEPT !.slot = 1] /\ tpc' = "search"
            /\ UNCHANGED <<owner, tcp, main, ti, tfd, polled>>
       ELSE /\ owner' = [owner EXCEPT ![tfd] = NoConn]
            /\ tcp' = [tcp EXCEPT ![owner[tfd]] = "closed"]
            /\ NextSlot("thread")
  /\ UNCHANGED <<memory, listening, unread, cl, misclosed>>

(* ... the slots are tried one after the other ...                           *)
Search ==
  /\ Running /\ tpc = "search"
  /\ IF fd[acc.slot] = NoFd
       THEN tpc' = "put" /\ UNCHANGED <<main, ti, tfd, acc, polled>>
       ELSE IF acc.slot < MAX_CLIENTNUM
         THEN acc' = [acc EXCEPT !.slot = @ + 1] /\ UNCHANGED <<main, tpc, ti, tfd, polled>>
         ELSE NextSlot("thread")
  /\ UNCHANGED <<memory, kernel, cl, misclosed>>

Put ==
  /\ Running /\ tpc = "put"
  /\ fd' = [fd EXCEPT ![acc.slot] = tfd]
  /\ tpc' = "load"
  /\ UNCHANGED <<revents, client_count, server_sockfd, ops, exitflag>>
  /\ UNCHANGED <<kernel, main, ti, tfd, acc, polled, cl, misclosed>>

(* ... and the count is read again and stored, though main may have changed   *)
(* it.                                                                      *)
LoadCount ==
  /\ Running /\ tpc = "load"
  /\ acc' = [acc EXCEPT !.count = client_count]
  /\ tpc' = "add"
  /\ UNCHANGED <<memory, kernel, main, ti, tfd, polled, cl, misclosed>>

AddOne ==
  /\ Running /\ tpc = "add"
  /\ client_count' = acc.count + 1
  /\ NextSlot("thread")
  /\ UNCHANGED <<fd, revents, server_sockfd, ops, exitflag>>
  /\ UNCHANGED <<kernel, cl, misclosed>>

ServerEvents == \/ \E c \in Conns, f \in ClientFds : Accept(c, f)
                \/ CheckLimit \/ Search \/ Put \/ LoadCount \/ AddOne

(* client_events: read returns a text, and handle_client_msg notes the number. *)
AtClient == /\ AtSlot /\ fd[ti] # server_sockfd
            /\ revents[ti] /\ ti < MAX_CLIENTNUM
            /\ OwnerOf(fd[ti]) # NoConn

ReadText ==
  /\ AtClient /\ OwnerOf(fd[ti]) \in unread
  /\ unread' = unread \ {OwnerOf(fd[ti])}
  /\ tfd' = fd[ti]
  /\ tpc' = "fetch"
  /\ UNCHANGED <<memory, listening, owner, tcp, main, ti, acc, polled, cl, misclosed>>

(* The weather request is over, or none was needed. The answer goes to the     *)
(* number noted, which main may have closed.                                 *)
Answer ==
  /\ Running /\ tpc = "fetch"
  /\ LET c == OwnerOf(tfd)
     IN \/ NextSlot("thread")
        \/ /\ PipeMayBreak(c)
           /\ mpc' = "crashed"
           /\ UNCHANGED <<mi, mfd, atExit, thread>>
  /\ UNCHANGED <<memory, kernel, cl, misclosed>>

(* read returns 0.                                                         *)
Disconnect ==
  /\ AtClient
  /\ OwnerOf(fd[ti]) \notin unread /\ tcp[OwnerOf(fd[ti])] \in {"left", "shut"}
  /\ Call("thread")
  /\ tpc' = "closing"
  /\ UNCHANGED <<memory, kernel, main, ti, tfd, acc, polled, misclosed>>

(* Nothing pending, no event, an index out of range, or read returns -1.    *)
PassSlot ==
  /\ AtSlot
  /\ \/ /\ fd[ti] = server_sockfd
        /\ \/ server_sockfd = NoFd \/ ~listening
           \/ \A c \in Conns : tcp[c] # "pending"
           \/ \A f \in ClientFds : owner[f] # NoConn
     \/ /\ fd[ti] # server_sockfd
        /\ \/ ~revents[ti] \/ ti = MAX_CLIENTNUM
           \/ OwnerOf(fd[ti]) = NoConn
           \/ /\ OwnerOf(fd[ti]) \in Conns \ unread
              /\ tcp[OwnerOf(fd[ti])] = "up"
  /\ NextSlot("thread")
  /\ UNCHANGED <<memory, kernel, cl, misclosed>>
------------------------------------------------------------------------------
Ended == ~Running /\ UNCHANGED vars

MainStep == \/ Sweep \/ SendShutdown \/ CloseStep("main")
            \/ ZeroCount \/ CloseSocket \/ ForgetSocket \/ ClearFirst \/ ResetFirst
            \/ Join

ThreadStep == \/ TestFlag \/ PollCount \/ PollFails \/ PollCall \/ PollReturn
              \/ ServerEvents
              \/ ReadText \/ Disconnect \/ PassSlot \/ CloseStep("thread")

Next == \/ \E c \in Conns : Connect(c) \/ SendText(c) \/ Leave(c)
        \/ Interrupt
        \/ \E line \in {"exit", "send", "status"} : ReadLine(line)
        \/ MainStep \/ ThreadStep \/ Answer
        \/ Ended

Spec == Init /\ [][Next]_vars

FairSpec == Spec /\ WF_vars(MainStep) /\ WF_vars(ThreadStep)
------------------------------------------------------------------------------
(* client_count misses updates while both threads close, and keeps its bounds: *)
(* poll is never given more entries than the table has.                       *)
TypeOK ==
  /\ fd \in [Slots -> ClientFds \cup {ServerFd, StdinFd, NoFd}]
  /\ revents \in [Slots -> BOOLEAN]
  /\ client_count \in -(2 * MAX_CLIENTNUM) .. MAX_CLIENTNUM
  /\ server_sockfd \in {ServerFd, NoFd}
  /\ ops \in BOOLEAN /\ exitflag \in BOOLEAN /\ listening \in BOOLEAN
  /\ owner \in [ClientFds -> Conns \cup {NoConn}]
  /\ tcp \in [Conns -> {"none", "pending", "up", "left", "shut", "closed"}]
  /\ mpc \in {"readline", "sweep", "send", "closing", "zero", "socket", "forget",
             "first", "last", "join", "done", "crashed"}
  /\ mfd \in ClientFds \cup {ServerFd, StdinFd, NoFd}
  /\ tpc \in {"none", "test", "poll", "call", "wait", "scan", "limit", "search",
             "put", "load", "add", "fetch", "closing", "ended"}
  /\ tfd \in ClientFds \cup {NoFd}
  /\ acc \in [slot : Slots, count : -(2 * MAX_CLIENTNUM) .. MAX_CLIENTNUM]
  /\ polled \in [n : -(2 * MAX_CLIENTNUM) .. MAX_CLIENTNUM,
                 conns : [Slots -> Conns \cup {NoConn}]]
  /\ mi \in Slots /\ ti \in Slots
  /\ unread \subseteq Conns
  /\ atExit \subseteq Conns

(* Every client in the table when the exit begins has been disconnected when *)
(* server_close is through, though the thread closes, clears and refills     *)
(* slots meanwhile.                                                         *)
ClientsAtExitClosed ==
  mpc \in {"join", "done"} => \A c \in atExit : tcp[c] = "closed"

(* The work an exit has left, in steps of the two threads: main's slots, socket and *)
(* join, and what remains of the thread's round and its last test of the flag.     *)
CloseLeft(w) == [none |-> 0, reset |-> 1, clear |-> 2, close |-> 3, shutdown |-> 4,
                 store |-> 5, count |-> 6, enter |-> 7][cl[w].step]

MainLeft ==
  CASE mpc = "sweep"   -> 9 * (MAX_CLIENTNUM - mi) + 15
    [] mpc = "send"    -> 9 * (MAX_CLIENTNUM - mi) + 14
    [] mpc = "closing" -> 9 * (MAX_CLIENTNUM - mi) + CloseLeft("main") + 6
    [] mpc = "zero"    -> 6
    [] mpc = "socket"  -> 5
    [] mpc = "forget"  -> 4
    [] mpc = "first"   -> 3
    [] mpc = "last"    -> 2
    [] mpc = "join"    -> 1
    [] OTHER           -> 0

(* A slot is at most a search of the table and a close away from the next.    *)
SlotWork == MAX_CLIENTNUM + 8

ThreadLeft ==
  LET after == SlotWork * (MAX_CLIENTNUM - ti)
      all   == SlotWork * (MAX_CLIENTNUM + 1)
  IN CASE tpc = "poll"    -> all + 4
       [] tpc = "call"    -> all + 3
       [] tpc = "wait"    -> all + 2
       [] tpc = "scan"    -> after + SlotWork + 1
       [] tpc = "limit"   -> after + SlotWork
       [] tpc = "search"  -> after + (MAX_CLIENTNUM - acc.slot) + 5
       [] tpc = "put"     -> after + 4
       [] tpc = "load"    -> after + 3
       [] tpc = "add"     -> after + 2
       [] tpc = "fetch"   -> after + 2
       [] tpc = "closing" -> after + CloseLeft("thread") + 1
       [] tpc = "test"    -> 1
       [] OTHER           -> 0

(* From the beginning of server_close every step of either thread uses up some of *)
(* the work left: neither makes the other begin again, in whatever order they go.   *)
ExitShrinks ==
  [][mpc # "readline" => \/ UNCHANGED <<main, thread, cl>>
                         \/ MainLeft' + ThreadLeft' < MainLeft + ThreadLeft]_vars

(* The thread is not left waiting for the weather service, which no time limit *)
(* of the code ends.                                                        *)
WeatherAnswers == []<>(tpc # "fetch")

(* An exit command is carried out: poll's time limit and the flag end the     *)
(* thread, whatever the two threads do to each other's slots before, and in    *)
(* whatever request the exit finds it.                                      *)
ExitCompletes == WeatherAnswers => ((mpc = "sweep") ~> ~Running)
------------------------------------------------------------------------------
(* What comments of the code say and the code does not do.                  *)

(* "Close the server, empty all fds" (server.c:548): no client is left when   *)
(* the process is about to return.                                          *)
NoClientLeft == mpc = "done" => \A f \in ClientFds : owner[f] = NoConn

(* "Close all client connections" (server.c:557): a slot's connection is      *)
(* closed once, under its own number.                                       *)
ClosesOwnConnection == ~misclosed

(* "Server initialization failed" (main.c:125): after a failed start the      *)
(* process ends in an orderly way.                                          *)
FailedStartSurvived == mpc # "crashed"
==============================================================================
