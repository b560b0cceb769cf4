--------------------------- MODULE LifecycleProofs ---------------------------
(***************************************************************************)
(* Proofs about Lifecycle, for tables of any size, any clients and any        *)
(* outcome of the start: what server_close achieves beside the running server  *)
(* thread, what the two threads can make of the count, and that the exit's work  *)
(* is bounded.                                                              *)
(***************************************************************************)
EXTENDS Lifecycle, FiniteSetTheorems, TLAPS

(***************************************************************************)
(* Types, as far as the sweep needs them: client_count is any integer, since    *)
(* the two threads lose each other's updates of it.                           *)
(***************************************************************************)
Fds       == ClientFds \cup {ServerFd, StdinFd, NoFd}
TcpStates == {"none", "pending", "up", "left", "shut", "closed"}
Steps     == {"none", "enter", "count", "store", "shutdown", "close", "clear", "reset"}
MainPcs   == {"readline", "sweep", "send", "closing", "zero", "socket", "forget",
              "first", "last", "join", "done", "crashed"}
Record    == [step : Steps, fd : Fds, conn : Conns \cup {NoConn}, count : Int]

Types ==
  /\ fd \in [Slots -> Fds]
  /\ client_count \in Int
  /\ owner \in [ClientFds -> Conns \cup {NoConn}]
  /\ tcp \in [Conns -> TcpStates]
  /\ cl \in [Threads -> Record]
  /\ mfd \in Fds
  /\ tfd \in ClientFds \cup {NoFd}
  /\ acc \in [slot : Slots, count : Int]
  /\ mi \in Slots /\ ti \in Slots
  /\ mpc \in MainPcs
  /\ atExit \subseteq Conns

LEMMA OwnerIsConn ==
  ASSUME Types, NEW f
  PROVE  /\ OwnerOf(f) \in Conns \cup {NoConn}
         /\ OwnerOf(f) # NoConn => f \in ClientFds /\ OwnerOf(f) = owner[f]
  BY DEF Types, OwnerOf

LEMMA InactiveIsRecord == Inactive \in Record
  BY DEF Inactive, Record, Steps, Fds

LEMMA SlotsAreNumbers ==
  /\ MAX_CLIENTNUM \in Nat /\ LastSlot = MAX_CLIENTNUM
  /\ Slots = 0 .. MAX_CLIENTNUM
  /\ 1 \in Slots /\ 0 \in Slots
  BY LifecycleAssumption DEF LastSlot, Slots

LEMMA NoSearchType == NoSearch \in [slot : Slots, count : Int]
  BY SlotsAreNumbers DEF NoSearch

LEMMA InitTypes == Init => Types
<1> SUFFICES ASSUME Init PROVE Types
  OBVIOUS
<1>1. cl \in [Threads -> Record]
  BY InactiveIsRecord DEF Init
<1>2. fd \in [Slots -> Fds] /\ mfd \in Fds
  BY DEF Init, Fds
<1>3. owner \in [ClientFds -> Conns \cup {NoConn}] /\ tcp \in [Conns -> TcpStates]
  BY DEF Init, TcpStates
<1>4. /\ client_count \in Int /\ tfd \in ClientFds \cup {NoFd}
      /\ mi \in Slots /\ ti \in Slots /\ mpc \in MainPcs /\ atExit \subseteq Conns
  BY SlotsAreNumbers DEF Init, MainPcs
<1>5. acc \in [slot : Slots, count : Int]
  BY NoSearchType DEF Init
<1> QED
  BY <1>1, <1>2, <1>3, <1>4, <1>5 DEF Types

(* The next slot of either loop.                                            *)
LEMMA MainNext ==
  ASSUME Types, NextSlot("main")
  PROVE  /\ UNCHANGED <<tpc, ti, tfd, acc, polled, mfd, atExit>>
         /\ mpc' \in {"sweep", "zero"}
         /\ mi < MAX_CLIENTNUM => mpc' = "sweep" /\ mi' = mi + 1
         /\ mi = MAX_CLIENTNUM => mpc' = "zero" /\ mi' = mi
<1>1. IF mi < LastSlot THEN mi' = mi + 1 /\ mpc' = "sweep"
                       ELSE mi' = mi /\ mpc' = "zero"
  BY DEF NextSlot
<1>2. UNCHANGED <<mfd, atExit, thread>>
  BY DEF NextSlot
<1> QED
  BY <1>1, <1>2, SlotsAreNumbers DEF thread

LEMMA ThreadNext ==
  ASSUME Types, NextSlot("thread")
  PROVE  /\ UNCHANGED <<mpc, mi, mfd, atExit, polled>> /\ tpc' \in {"scan", "test"}
         /\ tfd' = NoFd /\ acc' = NoSearch
         /\ ti < MAX_CLIENTNUM => tpc' = "scan" /\ ti' = ti + 1
         /\ ti = MAX_CLIENTNUM => tpc' = "test" /\ ti' = ti
<1>1. IF ti < LastSlot THEN ti' = ti + 1 /\ tpc' = "scan"
                       ELSE ti' = ti /\ tpc' = "test"
  BY DEF NextSlot
<1>2. tfd' = NoFd /\ acc' = NoSearch /\ UNCHANGED <<polled, main>>
  BY DEF NextSlot
<1> QED
  BY <1>1, <1>2, SlotsAreNumbers DEF main

LEMMA NextSlotTypes ==
  ASSUME Types, NEW w \in Threads, NextSlot(w)
  PROVE  /\ mi' \in Slots /\ ti' \in Slots /\ mpc' \in MainPcs
         /\ mfd' \in Fds /\ tfd' \in ClientFds \cup {NoFd}
         /\ acc' \in [slot : Slots, count : Int] /\ atExit' = atExit
<1>1. CASE w = "main"
  BY <1>1, MainNext, SlotsAreNumbers DEF Types, MainPcs
<1>2. CASE w = "thread"
  BY <1>2, ThreadNext, SlotsAreNumbers, NoSearchType DEF Types
<1> QED
  BY <1>1, <1>2 DEF Threads

(* What the steps of a close have in common.                                   *)
LEMMA GoOnTypes ==
  ASSUME Types, NEW w \in Threads, NEW step \in Steps, GoOn(w, step)
  PROVE  /\ cl' \in [Threads -> Record]
         /\ UNCHANGED <<mpc, mi, mfd, atExit, tpc, ti, tfd, acc, polled>>
         /\ cl'[w].step = step
         /\ \A v \in Threads : cl'[v].fd = cl[v].fd /\ cl'[v].count = cl[v].count
         /\ \A v \in Threads : v # w => cl'[v] = cl[v]
  BY DEF GoOn, Types, Record, main, thread

LEMMA ReturnTypes ==
  ASSUME Types, NEW w \in Threads, Return(w)
  PROVE  /\ cl' \in [Threads -> Record] /\ NextSlot(w)
         /\ cl'[w].step = "none"
         /\ \A v \in Threads : v # w => cl'[v] = cl[v]
  BY InactiveIsRecord DEF Return, Types, Inactive

LEMMA CloseTypes ==
  ASSUME Types, NEW w \in Threads, CloseStep(w)
  PROVE  Types'
<1>1. CASE CloseEnter(w)
  <2> DEFINE f == fd[Slot(w)]
             r == [step |-> "count", fd |-> f, conn |-> OwnerOf(f), count |-> 0]
  <2>1. f \in Fds
    BY DEF Types, Slot
  <2>2. r \in Record
    BY <2>1, OwnerIsConn DEF Types, Record, Steps
  <2>3. cl' = [cl EXCEPT ![w] = r]
    BY <1>1 DEF CloseEnter
  <2> HIDE DEF r, f
  <2>4. cl' \in [Threads -> Record]
    BY <2>2, <2>3 DEF Types
  <2> QED
    BY <1>1, <2>4 DEF CloseEnter, Types, memory, kernel, main, thread
<1>2. CASE CloseCount(w)
  <2> DEFINE r == [step |-> "store", fd |-> cl[w].fd, conn |-> cl[w].conn,
                   count |-> client_count]
  <2>1. r \in Record
    BY DEF Types, Record, Steps
  <2>2. cl' = [cl EXCEPT ![w] = r]
    BY <1>2 DEF CloseCount
  <2> HIDE DEF r
  <2>3. cl' \in [Threads -> Record]
    BY <2>1, <2>2 DEF Types
  <2> QED
    BY <1>2, <2>3 DEF CloseCount, Types, memory, kernel, main, thread
<1>3. CASE CloseStore(w)
  <2>1. cl[w] \in Record /\ client_count' \in Int
    BY <1>3 DEF CloseStore, Types, Record
  <2>2. CASE cl[w].fd = NoFd
    <3>1. Return(w)
      BY <1>3, <2>2 DEF CloseStore
    <3> QED
      BY <1>3, <2>1, <3>1, ReturnTypes, NextSlotTypes DEF CloseStore, Types, kernel
  <2>3. CASE cl[w].fd # NoFd
    <3>1. GoOn(w, "shutdown")
      BY <1>3, <2>3 DEF CloseStore
    <3> QED
      BY <1>3, <2>1, <3>1, GoOnTypes DEF CloseStore, Types, kernel, Steps
  <2> QED
    BY <2>2, <2>3
<1>4. CASE CloseShutdown(w)
  <2>1. tcp' \in [Conns -> TcpStates]
    BY <1>4, OwnerIsConn DEF CloseShutdown, Types, TcpStates
  <2>2. GoOn(w, "close")
    BY <1>4 DEF CloseShutdown
  <2> QED
    BY <1>4, <2>1, <2>2, GoOnTypes DEF CloseShutdown, Types, memory, Steps
<1>5. CASE CloseClose(w)
  <2>1. GoOn(w, "clear")
    BY <1>5 DEF CloseClose
  <2>2. tcp' \in [Conns -> TcpStates]
    BY <1>5, OwnerIsConn DEF CloseClose, Types, TcpStates
  <2>3. owner' \in [ClientFds -> Conns \cup {NoConn}]
    BY <1>5 DEF CloseClose, Types
  <2> QED
    BY <1>5, <2>1, <2>2, <2>3, GoOnTypes DEF CloseClose, Types, memory, Steps
<1>6. CASE CloseClear(w)
  <2>1. GoOn(w, "reset")
    BY <1>6 DEF CloseClear
  <2>2. fd' \in [Slots -> Fds]
    BY <1>6 DEF CloseClear, Types, Fds
  <2> QED
    BY <1>6, <2>1, <2>2, GoOnTypes DEF CloseClear, Types, kernel, Steps
<1>7. CASE CloseReset(w)
  <2>1. Return(w)
    BY <1>7 DEF CloseReset
  <2> QED
    BY <1>7, <2>1, ReturnTypes, NextSlotTypes DEF CloseReset, Types, kernel
<1> QED
  BY <1>1, <1>2, <1>3, <1>4, <1>5, <1>6, <1>7 DEF CloseStep

(* The steps of main after its loop over the slots.                            *)
EndOfMain == ZeroCount \/ CloseSocket \/ ForgetSocket \/ ClearFirst \/ ResetFirst \/ Join

LEMMA EndOfMainStep ==
  ASSUME Types, EndOfMain
  PROVE  /\ UNCHANGED <<owner, tcp, unread, ops, exitflag, mi, mfd, atExit, cl>>
         /\ UNCHANGED <<tpc, ti, tfd, acc, polled>>
         /\ client_count' \in {client_count, 0}
         /\ fd' \in [Slots -> Fds]
         /\ fd' = fd \/ fd' = [fd EXCEPT ![0] = NoFd]
         /\ mpc \in {"zero", "socket", "forget", "first", "last", "join"}
         /\ mpc' \in {"socket", "forget", "first", "last", "join", "done", "crashed"}
  BY DEF EndOfMain, ZeroCount, CloseSocket, ForgetSocket, ClearFirst, ResetFirst, Join,
         EndStep, memory, kernel, thread, Types, Fds

LEMMA MainTypes ==
  ASSUME Types,
         (\E line \in {"exit", "send", "status"} : ReadLine(line))
           \/ Sweep \/ SendShutdown \/ EndOfMain
  PROVE  Types'
<1>1. ASSUME NEW line, ReadLine(line) PROVE Types'
  <2>1. {OwnerOf(fd[i]) : i \in Slots} \ {NoConn} \subseteq Conns
    BY OwnerIsConn
  <2>2. mi' \in Slots /\ mpc' \in MainPcs /\ atExit' \subseteq Conns
    BY <1>1, <2>1, SlotsAreNumbers DEF ReadLine, FirstSwept, Types, MainPcs
  <2> QED
    BY <1>1, <2>2 DEF ReadLine, Types, kernel, thread
<1>2. CASE Sweep
  BY <1>2 DEF Sweep, MainPcs, Types, memory, kernel, thread
<1>3. CASE SendShutdown
  <2>1. cl' \in [Threads -> Record]
    BY <1>3 DEF SendShutdown, Call, Types, Record, Steps
  <2>2. mpc' \in MainPcs /\ mfd' \in Fds
    BY <1>3 DEF SendShutdown, MainPcs, Fds
  <2> QED
    BY <1>3, <2>1, <2>2 DEF SendShutdown, Types, memory, kernel, thread
<1>4. CASE EndOfMain
  BY <1>4, EndOfMainStep DEF Types, MainPcs
<1> QED
  BY <1>1, <1>2, <1>3, <1>4

LEMMA EventTypes ==
  ASSUME Types, ServerEvents
  PROVE  Types'
<1>1. ASSUME NEW c \in Conns, NEW f \in ClientFds, Accept(c, f) PROVE Types'
  BY <1>1 DEF Accept, Types, TcpStates, memory, main
<1>2. CASE CheckLimit
  <2>1. CASE client_count <= MAX_CLIENTNUM
    <3>1. acc' \in [slot : Slots, count : Int]
      BY <1>2, <2>1, SlotsAreNumbers DEF CheckLimit, Types
    <3> QED
      BY <1>2, <2>1, <3>1 DEF CheckLimit, Types, memory, main
  <2>2. CASE ~(client_count <= MAX_CLIENTNUM)
    <3>1. NextSlot("thread") /\ "thread" \in Threads
      BY <1>2, <2>2 DEF CheckLimit, Threads
    <3>2. owner' \in [ClientFds -> Conns \cup {NoConn}] /\ tcp' \in [Conns -> TcpStates]
      BY <1>2, <2>2 DEF CheckLimit, Types, TcpStates
    <3> QED
      BY <1>2, <3>1, <3>2, NextSlotTypes DEF CheckLimit, Types, memory
  <2> QED
    BY <2>1, <2>2
<1>3. CASE Search
  <2>1. CASE NextSlot("thread")
    BY <1>3, <2>1, NextSlotTypes DEF Search, Types, memory, kernel, Threads
  <2>2. CASE ~NextSlot("thread")
    <3>1. acc' \in [slot : Slots, count : Int]
      BY <1>3, <2>2, SlotsAreNumbers DEF Search, Types
    <3> QED
      BY <1>3, <2>2, <3>1 DEF Search, Types, memory, kernel, main
  <2> QED
    BY <2>1, <2>2
<1>4. CASE Put
  <2>1. fd' \in [Slots -> Fds]
    BY <1>4 DEF Put, Types, Fds
  <2> QED
    BY <1>4, <2>1 DEF Put, Types, kernel, main
<1>5. CASE LoadCount
  BY <1>5 DEF LoadCount, Types, memory, kernel, main
<1>6. CASE AddOne
  <2>1. NextSlot("thread") /\ "thread" \in Threads /\ client_count' \in Int
    BY <1>6 DEF AddOne, Threads, Types
  <2> QED
    BY <1>6, <2>1, NextSlotTypes DEF AddOne, Types, kernel
<1> QED
  BY <1>1, <1>2, <1>3, <1>4, <1>5, <1>6 DEF ServerEvents

LEMMA ThreadTypes ==
  ASSUME Types, ThreadStep \/ Answer
  PROVE  Types'
<1>1. CASE TestFlag \/ PollCount \/ PollFails \/ PollCall \/ PollReturn
  BY <1>1, SlotsAreNumbers
     DEF TestFlag, PollCount, PollFails, PollCall, PollReturn, Types, memory, kernel, main
<1>2. CASE ReadText
  BY <1>2, OwnerIsConn DEF ReadText, AtClient, Types, memory, main
<1>3. CASE Disconnect
  <2>1. cl' \in [Threads -> Record]
    BY <1>3 DEF Disconnect, Call, Types, Record, Steps
  <2> QED
    BY <1>3, <2>1 DEF Disconnect, Types, memory, kernel, main
<1>4. CASE PassSlot
  <2>1. NextSlot("thread") /\ "thread" \in Threads
    BY <1>4 DEF PassSlot, Threads
  <2> QED
    BY <1>4, <2>1, NextSlotTypes DEF PassSlot, Types, memory, kernel
<1>5. CASE Answer
  <2>1. CASE NextSlot("thread")
    BY <1>5, <2>1, NextSlotTypes DEF Answer, Types, memory, kernel, Threads
  <2>2. CASE ~NextSlot("thread")
    BY <1>5, <2>2 DEF Answer, Types, MainPcs, memory, kernel, thread
  <2> QED
    BY <2>1, <2>2
<1>6. CASE CloseStep("thread")
  BY <1>6, CloseTypes DEF Threads
<1> QED
  BY <1>1, <1>2, <1>3, <1>4, <1>5, <1>6, EventTypes DEF ThreadStep

LEMMA NextTypes == Types /\ [Next]_vars => Types'
<1> SUFFICES ASSUME Types, [Next]_vars PROVE Types'
  OBVIOUS
<1>1. ASSUME NEW c \in Conns, Connect(c) \/ SendText(c) \/ Leave(c) PROVE Types'
  BY <1>1 DEF Connect, SendText, Leave, Types, TcpStates, memory, main, thread
<1>2. CASE Interrupt
  BY <1>2 DEF Interrupt, Types, kernel, main
<1>3. CASE CloseStep("main")
  BY <1>3, CloseTypes DEF Threads
<1>4. CASE Ended \/ UNCHANGED vars
  BY <1>4 DEF Ended, Types, vars, memory, kernel, main, thread
<1> QED
  BY <1>1, <1>2, <1>3, <1>4, MainTypes, ThreadTypes DEF Next, MainStep, EndOfMain

(***************************************************************************)
(* The sweep. A client of the table when server_close begins stays in a slot    *)
(* the sweep still has to visit, under the number that slot holds, until one     *)
(* of the two threads closes it: the thread clears no slot that holds an open   *)
(* connection.                                                             *)
(***************************************************************************)

(* A number stands for a connection that is open, and no two for the same.     *)
Owners ==
  /\ \A f \in ClientFds : owner[f] # NoConn => tcp[owner[f]] \in {"up", "left", "shut"}
  /\ \A f, g \in ClientFds : owner[f] = owner[g] /\ owner[f] # NoConn => f = g

(* The listener's slot, which the sweep leaves out, holds no client.           *)
ListenerSlot == fd[0] \notin ClientFds

(* While the thread closes a client nothing is stored in its slot, so that it    *)
(* clears the number it has closed, or one that main has cleared before.        *)
ThreadCloses ==
  /\ cl["thread"].step # "none" => tpc = "closing"
  /\ cl["thread"].step \in {"count", "store", "shutdown", "close", "clear"}
       => fd[ti] \in {cl["thread"].fd, NoFd}
  /\ cl["thread"].step = "clear" => OwnerOf(cl["thread"].fd) = NoConn

MainCloses == cl["main"].step # "none" => mpc \in {"closing", "crashed"}

(* The sweep has still to come to slot i, or the one whose number main has in hand.    *)
Ahead(i) ==
  \/ mpc \in {"sweep", "send"} /\ mi <= i
  \/ mpc = "closing" /\ mi < i
  \/ /\ mpc = "closing" /\ mi = i
     /\ \/ cl["main"].step = "enter"
        \/ /\ cl["main"].step \in {"count", "store", "shutdown", "close"}
           /\ cl["main"].fd = fd[i]

Waits(c) == \E i \in Slots : OwnerOf(fd[i]) = c /\ Ahead(i)

AtExitClosedOrAhead ==
  mpc \notin {"readline", "crashed"}
    => \A c \in atExit : c # NoConn /\ (tcp[c] = "closed" \/ Waits(c))

SweepInv == /\ Owners /\ ListenerSlot /\ ThreadCloses /\ MainCloses
            /\ AtExitClosedOrAhead

(* A slot the thread has found free is free until it is used: main stores no      *)
(* number, and the search leaves the listener's slot out.                      *)
Accepting ==
  /\ tpc \in {"limit", "search", "put", "load", "add"} => tfd \in ClientFds
  /\ tpc \in {"search", "put"} => acc.slot # 0
  /\ tpc = "put" => fd[acc.slot] = NoFd

LEMMA DistinctNames ==
  /\ NoFd \notin ClientFds /\ ServerFd \notin ClientFds /\ StdinFd \notin ClientFds
  /\ NoConn \notin Conns
  BY LifecycleAssumption

LEMMA InitSweep == Init => SweepInv
<1> SUFFICES ASSUME Init PROVE SweepInv
  OBVIOUS
<1>1. \A w \in Threads : cl[w].step = "none"
  BY DEF Init, Inactive
<1>2. ListenerSlot
  BY SlotsAreNumbers, DistinctNames DEF Init, ListenerSlot
<1>3. Owners
  BY DEF Init, Owners
<1>4. mpc = "readline"
  BY DEF Init
<1> QED
  BY <1>1, <1>2, <1>3, <1>4
     DEF SweepInv, ThreadCloses, MainCloses, AtExitClosedOrAhead, Threads

(* A step that leaves the slots, the owners and both closes alone, and makes no  *)
(* connection that is up or closed anything else.                             *)
LEMMA QuietStep ==
  ASSUME Types, SweepInv, UNCHANGED <<fd, owner, mpc, mi, atExit, cl>>,
         UNCHANGED <<tpc, ti>> \/ cl["thread"].step = "none",
         \A c \in Conns :
           /\ tcp[c] \in {"up", "left", "shut"} => tcp'[c] \in {"up", "left", "shut"}
           /\ tcp[c] = "closed" => tcp'[c] = "closed"
  PROVE  SweepInv'
<1>1. Owners'
  BY DEF SweepInv, Owners, Types
<1>2. ListenerSlot' /\ MainCloses'
  BY DEF SweepInv, ListenerSlot, MainCloses
<1>3. ThreadCloses'
  BY DEF SweepInv, ThreadCloses, OwnerOf
<1>4. \A c : Waits(c) => Waits(c)'
  BY DEF Waits, Ahead, OwnerOf
<1>5. AtExitClosedOrAhead'
  BY <1>4 DEF SweepInv, AtExitClosedOrAhead, Types
<1> QED
  BY <1>1, <1>2, <1>3, <1>5 DEF SweepInv

LEMMA ClientSweep ==
  ASSUME Types, SweepInv, NEW c \in Conns, Connect(c) \/ SendText(c) \/ Leave(c)
  PROVE  SweepInv'
<1>1. UNCHANGED <<fd, owner, mpc, mi, atExit, cl, tpc, ti>>
  BY DEF Connect, SendText, Leave, memory, main, thread
<1>2. \A d \in Conns :
        /\ tcp[d] \in {"up", "left", "shut"} => tcp'[d] \in {"up", "left", "shut"}
        /\ tcp[d] = "closed" => tcp'[d] = "closed"
  BY DEF Connect, SendText, Leave, Types
<1> QED
  BY <1>1, <1>2, QuietStep

LEMMA InterruptSweep ==
  ASSUME Types, SweepInv, Interrupt
  PROVE  SweepInv'
<1>1. UNCHANGED <<fd, owner, tcp, mpc, mi, atExit, cl, ti>>
  BY DEF Interrupt, kernel, main
<1>2. tpc' = tpc \/ cl["thread"].step = "none"
  BY DEF Interrupt, SweepInv, ThreadCloses
<1> QED
  BY <1>1, <1>2, QuietStep

(* When the exit begins every slot but the listener's is ahead.                *)
LEMMA ReadLineSweep ==
  ASSUME Types, SweepInv, NEW line, ReadLine(line)
  PROVE  SweepInv'
<1>1. UNCHANGED <<fd, owner, tcp, cl, tpc, ti>> /\ mpc = "readline"
  BY DEF ReadLine, kernel, thread
<1>2. Owners' /\ ListenerSlot' /\ ThreadCloses'
  BY <1>1 DEF SweepInv, Owners, ListenerSlot, ThreadCloses, OwnerOf
<1>3. MainCloses'
  BY <1>1 DEF SweepInv, MainCloses
<1>4. CASE mpc' = "sweep"
  <2>1. mi' = 1 /\ atExit' = {OwnerOf(fd[i]) : i \in Slots} \ {NoConn}
    BY <1>1, <1>4 DEF ReadLine, FirstSwept
  <2>2. SUFFICES ASSUME NEW c \in atExit' PROVE c # NoConn /\ Waits(c)'
    BY <1>2, <1>3 DEF AtExitClosedOrAhead, SweepInv
  <2>3. PICK i \in Slots : c = OwnerOf(fd[i]) /\ c # NoConn
    BY <2>1
  <2>4. i # 0
    BY <2>3 DEF SweepInv, ListenerSlot, OwnerOf
  <2>5. 1 <= i
    BY <2>4, SlotsAreNumbers
  <2> QED
    BY <1>1, <1>4, <2>1, <2>3, <2>5 DEF Waits, Ahead, OwnerOf
<1>5. CASE mpc' # "sweep"
  <2>1. mpc' \in {"readline", "crashed"}
    BY <1>1, <1>5 DEF ReadLine
  <2> QED
    BY <1>2, <1>3, <2>1 DEF AtExitClosedOrAhead, SweepInv
<1> QED
  BY <1>4, <1>5

LEMMA SweepSweep ==
  ASSUME Types, SweepInv, Sweep
  PROVE  SweepInv'
<1>1. /\ UNCHANGED <<fd, owner, tcp, mi, atExit, tpc, ti, cl>>
      /\ mpc = "sweep" /\ mpc' = "send"
  BY DEF Sweep, memory, kernel, thread
<1>2. Owners' /\ ListenerSlot' /\ ThreadCloses' /\ MainCloses'
  BY <1>1 DEF SweepInv, Owners, ListenerSlot, ThreadCloses, MainCloses, OwnerOf
<1>3. \A c : Waits(c) => Waits(c)'
  BY <1>1 DEF Waits, Ahead, OwnerOf
<1> QED
  BY <1>1, <1>2, <1>3 DEF SweepInv, AtExitClosedOrAhead

LEMMA SendSweep ==
  ASSUME Types, SweepInv, SendShutdown
  PROVE  SweepInv'
<1>1. /\ UNCHANGED <<fd, owner, tcp, mi, atExit, tpc, ti>>
      /\ mpc = "send" /\ cl'["thread"] = cl["thread"]
  BY DEF SendShutdown, Call, memory, kernel, thread, Types, Threads
<1>2. Owners' /\ ListenerSlot' /\ ThreadCloses'
  BY <1>1 DEF SweepInv, Owners, ListenerSlot, ThreadCloses, OwnerOf
<1>3. CASE mpc' = "crashed"
  BY <1>2, <1>3 DEF SweepInv, MainCloses, AtExitClosedOrAhead
<1>4. CASE mpc' = "closing" /\ Call("main")
  <2>1. cl'["main"].step = "enter"
    BY <1>4 DEF Call, Types, Threads, Record
  <2>2. \A c : Waits(c) => Waits(c)'
    BY <1>1, <1>4, <2>1, SlotsAreNumbers DEF Waits, Ahead, OwnerOf, Types
  <2> QED
    BY <1>1, <1>2, <1>4, <2>2 DEF SweepInv, MainCloses, AtExitClosedOrAhead
<1> QED
  BY <1>3, <1>4 DEF SendShutdown

LEMMA EndSweep ==
  ASSUME Types, SweepInv, EndOfMain
  PROVE  SweepInv'
<1>1. /\ UNCHANGED <<owner, tcp, mi, atExit, cl, tpc, ti>>
      /\ mpc \in {"zero", "socket", "forget", "first", "last", "join"}
      /\ mpc' \in {"socket", "forget", "first", "last", "join", "done", "crashed"}
      /\ fd' = fd \/ fd' = [fd EXCEPT ![0] = NoFd]
  BY EndOfMainStep
<1>2. fd'[0] \notin ClientFds /\ \A i \in Slots : fd'[i] \in {fd[i], NoFd}
  BY <1>1, SlotsAreNumbers, DistinctNames DEF SweepInv, ListenerSlot, Types
<1>3. Owners' /\ ListenerSlot'
  BY <1>1, <1>2 DEF SweepInv, Owners, ListenerSlot
<1>4. ThreadCloses'
  BY <1>1, <1>2 DEF SweepInv, ThreadCloses, OwnerOf, Types
<1>5. MainCloses'
  BY <1>1 DEF SweepInv, MainCloses
<1>6. \A c : ~Waits(c)
  BY <1>1 DEF Waits, Ahead
<1>7. AtExitClosedOrAhead'
  BY <1>1, <1>6 DEF SweepInv, AtExitClosedOrAhead
<1> QED
  BY <1>3, <1>4, <1>5, <1>7 DEF SweepInv

(* After main's step to its next slot it is before the slots that were after its   *)
(* own.                                                                     *)
LEMMA MainMoves ==
  ASSUME Types, NextSlot("main")
  PROVE  \A i \in Slots : mi < i => mpc' = "sweep" /\ mi' <= i
  BY MainNext, SlotsAreNumbers DEF Types

LEMMA EnterSweep ==
  ASSUME Types, SweepInv, NEW w \in Threads, CloseEnter(w)
  PROVE  SweepInv'
<1>1. /\ UNCHANGED <<fd, owner, tcp, mpc, mi, atExit, tpc, ti>>
      /\ cl[w].step = "enter" /\ mpc # "crashed"
      /\ cl' = [cl EXCEPT ![w] = [step |-> "count", fd |-> fd[Slot(w)],
                                  conn |-> OwnerOf(fd[Slot(w)]), count |-> 0]]
  BY DEF CloseEnter, memory, kernel, main, thread, Running
<1>2. Owners' /\ ListenerSlot'
  BY <1>1 DEF SweepInv, Owners, ListenerSlot
<1>3. CASE w = "main"
  <2>1. /\ cl'["thread"] = cl["thread"] /\ mpc = "closing"
        /\ cl'["main"].step = "count" /\ cl'["main"].fd = fd[mi]
    BY <1>1, <1>3 DEF Types, Threads, Slot, SweepInv, MainCloses
  <2>2. ThreadCloses' /\ MainCloses'
    BY <1>1, <2>1 DEF SweepInv, ThreadCloses, MainCloses, OwnerOf
  <2>3. \A c : Waits(c) => Waits(c)'
    BY <1>1, <2>1 DEF Waits, Ahead, OwnerOf
  <2> QED
    BY <1>1, <1>2, <2>2, <2>3 DEF SweepInv, AtExitClosedOrAhead
<1>4. CASE w = "thread"
  <2>1. /\ cl'["main"] = cl["main"]
        /\ cl'["thread"].step = "count" /\ cl'["thread"].fd = fd[ti]
    BY <1>1, <1>4 DEF Types, Threads, Slot
  <2>2. ThreadCloses' /\ MainCloses'
    BY <1>1, <1>4, <2>1 DEF SweepInv, ThreadCloses, MainCloses
  <2>3. \A c : Waits(c) => Waits(c)'
    BY <1>1, <2>1 DEF Waits, Ahead, OwnerOf
  <2> QED
    BY <1>1, <1>2, <2>2, <2>3 DEF SweepInv, AtExitClosedOrAhead
<1> QED
  BY <1>3, <1>4 DEF Threads

(* The steps between keep the number that was read, and close nothing yet.          *)
LEMMA OnSweep ==
  ASSUME Types, SweepInv, NEW w \in Threads,
         UNCHANGED <<fd, owner, mpc, mi, atExit, tpc, ti>>, mpc # "crashed",
         \A c \in Conns :
           /\ tcp[c] \in {"up", "left", "shut"} => tcp'[c] \in {"up", "left", "shut"}
           /\ tcp[c] = "closed" => tcp'[c] = "closed",
         cl[w].step \in {"count", "store", "shutdown"},
         cl'[w].step \in {"store", "shutdown", "close"}, cl'[w].fd = cl[w].fd,
         \A v \in Threads : v # w => cl'[v] = cl[v]
  PROVE  SweepInv'
<1>1. Owners' /\ ListenerSlot'
  BY DEF SweepInv, Owners, ListenerSlot, Types
<1>2. /\ \A v \in Threads : cl'[v].fd = cl[v].fd
      /\ \A v \in Threads : v # w => cl'[v].step = cl[v].step
  OBVIOUS
<1>3. ThreadCloses' /\ MainCloses'
  BY <1>2 DEF SweepInv, ThreadCloses, MainCloses, OwnerOf, Threads
<1>4. \A c : Waits(c) => Waits(c)'
  BY <1>2 DEF Waits, Ahead, OwnerOf, Threads
<1> QED
  BY <1>1, <1>3, <1>4 DEF SweepInv, AtExitClosedOrAhead, Types

LEMMA CountSweep ==
  ASSUME Types, SweepInv, NEW w \in Threads, CloseCount(w)
  PROVE  SweepInv'
<1>1. /\ UNCHANGED <<fd, owner, tcp, mpc, mi, atExit, tpc, ti>>
      /\ cl[w].step = "count" /\ mpc # "crashed"
      /\ cl' = [cl EXCEPT ![w] = [step |-> "store", fd |-> cl[w].fd,
                                  conn |-> cl[w].conn, count |-> client_count]]
  BY DEF CloseCount, memory, kernel, main, thread, Running
<1>2. /\ cl'[w].step = "store" /\ cl'[w].fd = cl[w].fd
      /\ \A v \in Threads : v # w => cl'[v] = cl[v]
  BY <1>1 DEF Types
<1> QED
  BY <1>1, <1>2, OnSweep

(* A close ends: the connection it was called for waits no more.                  *)
LEMMA ReturnSweep ==
  ASSUME Types, SweepInv, NEW w \in Threads, Return(w), UNCHANGED <<fd, owner, tcp>>,
         mpc # "crashed", cl[w].step # "none",
         w = "main" => ~Ahead(mi) \/ OwnerOf(fd[mi]) = NoConn
  PROVE  SweepInv'
<1>1. Owners' /\ ListenerSlot'
  BY DEF SweepInv, Owners, ListenerSlot
<1>2. /\ NextSlot(w) /\ cl'[w].step = "none"
      /\ \A v \in Threads : v # w => cl'[v] = cl[v]
  BY ReturnTypes
<1>3. CASE w = "main"
  <2>1. cl'["thread"] = cl["thread"] /\ cl'["main"].step = "none" /\ mpc = "closing"
    BY <1>2, <1>3 DEF Threads, SweepInv, MainCloses
  <2>2. NextSlot("main")
    BY <1>2, <1>3
  <2>3. ThreadCloses' /\ MainCloses'
    BY <2>1, <2>2, MainNext DEF SweepInv, ThreadCloses, MainCloses, OwnerOf
  <2>4. \A c \in Conns : Waits(c) => Waits(c)'
    <3> SUFFICES ASSUME NEW c \in Conns, NEW i \in Slots, OwnerOf(fd[i]) = c, Ahead(i)
                 PROVE  Waits(c)'
      BY DEF Waits
    <3>1. i # mi
      BY <1>3, DistinctNames
    <3>2. mi < i
      BY <2>1, <3>1 DEF Ahead
    <3>3. mpc' = "sweep" /\ mi' <= i
      BY <2>2, <3>2, MainMoves
    <3>4. Ahead(i)' /\ OwnerOf(fd[i])' = c
      BY <3>3 DEF Ahead, OwnerOf
    <3> QED
      BY <3>4 DEF Waits
  <2> QED
    BY <1>1, <2>1, <2>2, <2>3, <2>4, MainNext DEF SweepInv, AtExitClosedOrAhead, Types
<1>4. CASE w = "thread"
  <2>1. cl'["main"] = cl["main"] /\ cl'["thread"].step = "none" /\ NextSlot("thread")
    BY <1>2, <1>4 DEF Threads
  <2>2. UNCHANGED <<mpc, mi, atExit>>
    BY <2>1, ThreadNext
  <2>3. ThreadCloses' /\ MainCloses'
    BY <2>1, <2>2 DEF SweepInv, ThreadCloses, MainCloses
  <2>4. \A c : Waits(c) => Waits(c)'
    BY <2>1, <2>2 DEF Waits, Ahead, OwnerOf
  <2> QED
    BY <1>1, <2>2, <2>3, <2>4 DEF SweepInv, AtExitClosedOrAhead
<1> QED
  BY <1>3, <1>4 DEF Threads

LEMMA StoreSweep ==
  ASSUME Types, SweepInv, NEW w \in Threads, CloseStore(w)
  PROVE  SweepInv'
<1>1. /\ UNCHANGED <<fd, owner, tcp>> /\ cl[w].step = "store" /\ mpc # "crashed"
  BY DEF CloseStore, kernel, Running
<1>2. CASE cl[w].fd = NoFd
  <2>1. Return(w)
    BY <1>2 DEF CloseStore
  <2>2. w = "main" => ~Ahead(mi) \/ OwnerOf(fd[mi]) = NoConn
    <3> SUFFICES ASSUME w = "main", Ahead(mi) PROVE OwnerOf(fd[mi]) = NoConn
      OBVIOUS
    <3>1. mpc = "closing" /\ mi \in Int
      BY <1>1, SlotsAreNumbers DEF SweepInv, MainCloses, Types
    <3>2. fd[mi] = NoFd
      BY <1>1, <1>2, <3>1 DEF Ahead
    <3> QED
      BY <3>2, DistinctNames DEF OwnerOf
  <2> QED
    BY <1>1, <2>1, <2>2, ReturnSweep
<1>3. CASE cl[w].fd # NoFd
  <2>1. GoOn(w, "shutdown") /\ "shutdown" \in Steps
    BY <1>3 DEF CloseStore, Steps
  <2> QED
    BY <1>1, <2>1, GoOnTypes, OnSweep
<1> QED
  BY <1>2, <1>3

LEMMA ShutdownSweep ==
  ASSUME Types, SweepInv, NEW w \in Threads, CloseShutdown(w)
  PROVE  SweepInv'
<1>1. /\ UNCHANGED <<fd, owner>> /\ cl[w].step = "shutdown" /\ mpc # "crashed"
      /\ GoOn(w, "close") /\ "close" \in Steps
  BY DEF CloseShutdown, Running, memory, Steps
<1>2. \A c \in Conns :
        /\ tcp[c] \in {"up", "left", "shut"} => tcp'[c] \in {"up", "left", "shut"}
        /\ tcp[c] = "closed" => tcp'[c] = "closed"
  BY OwnerIsConn DEF CloseShutdown, SweepInv, Owners, Types
<1> QED
  BY <1>1, <1>2, GoOnTypes, OnSweep

(* The close of a number: its connection is closed, and every other one keeps    *)
(* the number it has.                                                       *)
LEMMA CloseSweep ==
  ASSUME Types, SweepInv, NEW w \in Threads, CloseClose(w)
  PROVE  SweepInv'
<1>1. /\ UNCHANGED <<fd, mpc, mi, atExit, tpc, ti>>
      /\ cl[w].step = "close" /\ GoOn(w, "clear") /\ "clear" \in Steps
  BY DEF CloseClose, GoOn, memory, main, thread, Steps
<1>2. /\ \A v \in Threads : cl'[v].fd = cl[v].fd
      /\ cl'[w].step = "clear"
      /\ \A v \in Threads : v # w => cl'[v].step = cl[v].step
  BY <1>1, GoOnTypes
<1>3. /\ \A f \in ClientFds : owner'[f] \in {owner[f], NoConn}
      /\ \A f \in ClientFds : f # cl[w].fd => owner'[f] = owner[f]
      /\ cl[w].fd \in ClientFds => owner'[cl[w].fd] = NoConn
  BY DEF CloseClose, OwnerOf, Types
<1>4. \A c \in Conns : tcp'[c] = IF c = OwnerOf(cl[w].fd) THEN "closed" ELSE tcp[c]
  BY OwnerIsConn, DistinctNames DEF CloseClose, Types
<1>5. Owners'
  <2>1. \A f \in ClientFds : owner'[f] # NoConn => owner[f] # OwnerOf(cl[w].fd)
    BY <1>3 DEF SweepInv, Owners, OwnerOf
  <2> QED
    BY <1>3, <1>4, <2>1 DEF SweepInv, Owners, Types
<1>6. ListenerSlot' /\ MainCloses'
  BY <1>1, <1>2 DEF SweepInv, ListenerSlot, MainCloses, Threads
<1>7. ThreadCloses'
  BY <1>1, <1>2, <1>3 DEF SweepInv, ThreadCloses, Threads, OwnerOf
<1>8. ASSUME NEW c \in Conns, Waits(c) PROVE tcp'[c] = "closed" \/ Waits(c)'
  <2>1. PICK i \in Slots : OwnerOf(fd[i]) = c /\ Ahead(i)
    BY <1>8 DEF Waits
  <2>2. CASE c = OwnerOf(cl[w].fd)
    BY <1>4, <2>2
  <2>3. CASE c # OwnerOf(cl[w].fd)
    <3>1. fd[i] # cl[w].fd /\ fd[i] \in ClientFds
      BY <2>1, <2>3, DistinctNames DEF OwnerOf
    <3>2. OwnerOf(fd[i])' = c
      BY <1>1, <1>3, <2>1, <3>1 DEF OwnerOf
    <3>3. Ahead(i)'
      BY <1>1, <1>2, <2>1, <3>1 DEF Ahead, Threads
    <3> QED
      BY <3>2, <3>3 DEF Waits
  <2> QED
    BY <2>2, <2>3
<1>9. AtExitClosedOrAhead'
  BY <1>1, <1>4, <1>8 DEF SweepInv, AtExitClosedOrAhead, Types
<1> QED
  BY <1>5, <1>6, <1>7, <1>9 DEF SweepInv

(* The slot a close clears holds no open connection that still waits.           *)
LEMMA ClearSweep ==
  ASSUME Types, SweepInv, NEW w \in Threads, CloseClear(w)
  PROVE  SweepInv'
<1>1. /\ UNCHANGED <<owner, tcp, mpc, mi, atExit, tpc, ti>>
      /\ cl[w].step = "clear" /\ mpc # "crashed"
      /\ fd' = [fd EXCEPT ![Slot(w)] = NoFd]
      /\ GoOn(w, "reset") /\ "reset" \in Steps
  BY DEF CloseClear, GoOn, kernel, main, thread, Running, Steps
<1>2. \A i \in Slots : fd'[i] = IF i = Slot(w) THEN NoFd ELSE fd[i]
  BY <1>1 DEF Types
<1>3. /\ \A v \in Threads : cl'[v].fd = cl[v].fd
      /\ cl'[w].step = "reset"
      /\ \A v \in Threads : v # w => cl'[v].step = cl[v].step
  BY <1>1, GoOnTypes
<1>4. Owners' /\ ListenerSlot'
  BY <1>1, <1>2, SlotsAreNumbers, DistinctNames DEF SweepInv, Owners, ListenerSlot
<1>5. ThreadCloses'
  BY <1>1, <1>2, <1>3 DEF SweepInv, ThreadCloses, OwnerOf, Types, Threads
<1>6. MainCloses'
  BY <1>1, <1>3 DEF SweepInv, MainCloses, Threads
<1>7. ASSUME NEW c \in Conns, NEW i \in Slots, OwnerOf(fd[i]) = c, Ahead(i)
      PROVE  i # Slot(w)
  <2>1. CASE w = "main"
    <3>1. mpc = "closing" /\ mi \in Int
      BY <1>1, <2>1, SlotsAreNumbers DEF SweepInv, MainCloses, Types
    <3> QED
      BY <1>1, <1>7, <2>1, <3>1 DEF Ahead, Slot
  <2>2. CASE w = "thread"
    <3>1. OwnerOf(fd[ti]) = NoConn
      BY <1>1, <2>2, DistinctNames DEF SweepInv, ThreadCloses, OwnerOf
    <3> QED
      BY <1>7, <2>2, <3>1, DistinctNames DEF Slot
  <2> QED
    BY <2>1, <2>2 DEF Threads
<1>8. \A c \in Conns : Waits(c) => Waits(c)'
  <2> SUFFICES ASSUME NEW c \in Conns, NEW i \in Slots, OwnerOf(fd[i]) = c, Ahead(i)
               PROVE  Waits(c)'
    BY DEF Waits
  <2>1. fd'[i] = fd[i] /\ OwnerOf(fd[i])' = c
    BY <1>1, <1>2, <1>7 DEF OwnerOf
  <2>2. Ahead(i)'
    <3>1. cl[w].step \notin {"enter", "count", "store", "shutdown", "close"}
      BY <1>1
    <3> QED
      BY <1>1, <1>3, <2>1, <3>1 DEF Ahead, Threads
  <2> QED
    BY <2>1, <2>2 DEF Waits
<1> QED
  BY <1>1, <1>4, <1>5, <1>6, <1>8 DEF SweepInv, AtExitClosedOrAhead, Types

LEMMA ResetSweep ==
  ASSUME Types, SweepInv, NEW w \in Threads, CloseReset(w)
  PROVE  SweepInv'
<1>1. /\ UNCHANGED <<fd, owner, tcp>> /\ cl[w].step = "reset" /\ mpc # "crashed"
      /\ Return(w)
  BY DEF CloseReset, kernel, Running
<1>2. w = "main" => ~Ahead(mi)
  BY <1>1, SlotsAreNumbers DEF SweepInv, MainCloses, Ahead, Types
<1> QED
  BY <1>1, <1>2, ReturnSweep

(* The other steps of the thread.                                          *)
LEMMA ThreadSweep ==
  ASSUME Types, SweepInv,
         TestFlag \/ PollCount \/ PollFails \/ PollCall \/ PollReturn
           \/ ReadText \/ PassSlot
  PROVE  SweepInv'
<1>1. UNCHANGED <<fd, owner, tcp, cl>> /\ tpc # "closing"
  BY DEF TestFlag, PollCount, PollFails, PollCall, PollReturn, ReadText, PassSlot,
     AtClient, AtSlot, memory, kernel
<1>2. UNCHANGED <<mpc, mi, atExit>>
  BY ThreadNext DEF TestFlag, PollCount, PollFails, PollCall, PollReturn, ReadText,
                    PassSlot, main
<1>3. cl["thread"].step = "none"
  BY <1>1 DEF SweepInv, ThreadCloses
<1> QED
  BY <1>1, <1>2, <1>3, QuietStep

LEMMA AnswerSweep ==
  ASSUME Types, SweepInv, Answer
  PROVE  SweepInv'
<1>1. UNCHANGED <<fd, owner, tcp, cl>> /\ tpc = "fetch"
  BY DEF Answer, memory, kernel
<1>2. cl["thread"].step = "none"
  BY <1>1 DEF SweepInv, ThreadCloses
<1>3. CASE NextSlot("thread")
  BY <1>1, <1>2, <1>3, ThreadNext, QuietStep
<1>4. CASE mpc' = "crashed"
  <2>1. Owners' /\ ListenerSlot'
    BY <1>1 DEF SweepInv, Owners, ListenerSlot
  <2>2. ThreadCloses' /\ MainCloses' /\ AtExitClosedOrAhead'
    BY <1>1, <1>2, <1>4 DEF ThreadCloses, MainCloses, AtExitClosedOrAhead
  <2> QED
    BY <2>1, <2>2 DEF SweepInv
<1> QED
  BY <1>3, <1>4 DEF Answer

LEMMA DisconnectSweep ==
  ASSUME Types, SweepInv, Disconnect
  PROVE  SweepInv'
<1>1. UNCHANGED <<fd, owner, tcp, mpc, mi, atExit>> /\ tpc' = "closing"
  BY DEF Disconnect, memory, kernel, main
<1>2. cl'["main"] = cl["main"] /\ cl'["thread"].step = "enter"
  BY DEF Disconnect, Call, Types, Threads, Record
<1>3. Owners' /\ ListenerSlot'
  BY <1>1 DEF SweepInv, Owners, ListenerSlot
<1>4. ThreadCloses' /\ MainCloses'
  BY <1>1, <1>2 DEF SweepInv, ThreadCloses, MainCloses
<1>5. \A c : Waits(c) => Waits(c)'
  BY <1>1, <1>2 DEF Waits, Ahead, OwnerOf
<1> QED
  BY <1>1, <1>3, <1>4, <1>5 DEF SweepInv, AtExitClosedOrAhead

(* A connection is accepted under a free number and stored in a free slot.       *)
LEMMA AcceptSweep ==
  ASSUME Types, SweepInv, NEW d \in Conns, NEW f \in ClientFds, Accept(d, f)
  PROVE  SweepInv'
<1>1. /\ UNCHANGED <<fd, mpc, mi, atExit, cl>> /\ tpc = "scan"
      /\ owner[f] = NoConn /\ tcp[d] = "pending"
      /\ owner' = [owner EXCEPT ![f] = d] /\ tcp' = [tcp EXCEPT ![d] = "up"]
  BY DEF Accept, AtSlot, memory, main
<1>2. \A g \in ClientFds : owner[g] # d
  BY <1>1, DistinctNames DEF SweepInv, Owners
<1>3. Owners'
  BY <1>1, <1>2 DEF SweepInv, Owners, Types
<1>4. ListenerSlot' /\ MainCloses'
  BY <1>1 DEF SweepInv, ListenerSlot, MainCloses
<1>5. ThreadCloses'
  BY <1>1 DEF SweepInv, ThreadCloses
<1>6. \A c \in Conns : Waits(c) => Waits(c)'
  <2> SUFFICES ASSUME NEW c \in Conns, NEW i \in Slots, OwnerOf(fd[i]) = c, Ahead(i)
               PROVE  Waits(c)'
    BY DEF Waits
  <2>1. OwnerOf(fd[i])' = c
    BY <1>1, DistinctNames DEF OwnerOf, Types
  <2> QED
    BY <1>1, <2>1 DEF Waits, Ahead
<1> QED
  BY <1>1, <1>3, <1>4, <1>5, <1>6 DEF SweepInv, AtExitClosedOrAhead, Types

(* ... or turned away, which closes what no slot holds ...                        *)
LEMMA LimitSweep ==
  ASSUME Types, SweepInv, Accepting, CheckLimit
  PROVE  SweepInv'
<1>1. UNCHANGED <<fd, cl>> /\ tpc = "limit" /\ tfd \in ClientFds
  BY DEF CheckLimit, Accepting, memory
<1>2. cl["thread"].step = "none"
  BY <1>1 DEF SweepInv, ThreadCloses
<1>3. CASE client_count <= MAX_CLIENTNUM
  <2>1. UNCHANGED <<owner, tcp, mpc, mi, atExit>>
    BY <1>3 DEF CheckLimit, main
  <2> QED
    BY <1>1, <1>2, <2>1, QuietStep
<1>4. CASE ~(client_count <= MAX_CLIENTNUM)
  <2>1. /\ owner' = [owner EXCEPT ![tfd] = NoConn]
        /\ tcp' = [tcp EXCEPT ![owner[tfd]] = "closed"]
        /\ UNCHANGED <<mpc, mi, atExit>>
    BY <1>4, ThreadNext DEF CheckLimit
  <2>2. /\ \A f \in ClientFds : owner'[f] = IF f = tfd THEN NoConn ELSE owner[f]
        /\ \A c \in Conns : tcp'[c] = IF c = owner[tfd] THEN "closed" ELSE tcp[c]
    BY <1>1, <2>1 DEF Types
  <2>3. \A f \in ClientFds : owner'[f] # NoConn => owner'[f] # owner[tfd]
    BY <1>1, <2>2 DEF SweepInv, Owners
  <2>4. Owners'
    BY <2>2, <2>3 DEF SweepInv, Owners, Types
  <2>5. ListenerSlot' /\ MainCloses' /\ ThreadCloses'
    BY <1>1, <1>2, <2>1 DEF SweepInv, ListenerSlot, MainCloses, ThreadCloses
  <2>6. ASSUME NEW c \in Conns, Waits(c) PROVE tcp'[c] = "closed" \/ Waits(c)'
    <3>1. PICK i \in Slots : OwnerOf(fd[i]) = c /\ Ahead(i)
      BY <2>6 DEF Waits
    <3>2. CASE c = owner[tfd]
      BY <2>2, <3>2
    <3>3. CASE c # owner[tfd]
      <4>1. OwnerOf(fd[i])' = c
        BY <1>1, <2>2, <3>1, <3>3, DistinctNames DEF OwnerOf
      <4> QED
        BY <1>1, <2>1, <3>1, <4>1 DEF Waits, Ahead
    <3> QED
      BY <3>2, <3>3
  <2>7. AtExitClosedOrAhead'
    BY <2>1, <2>2, <2>6 DEF SweepInv, AtExitClosedOrAhead, Types
  <2> QED
    BY <2>4, <2>5, <2>7 DEF SweepInv
<1> QED
  BY <1>3, <1>4

(* ... and stored in a slot that is free.                                       *)
LEMMA PutSweep ==
  ASSUME Types, SweepInv, Accepting, Put
  PROVE  SweepInv'
<1>1. /\ UNCHANGED <<owner, tcp, cl, mpc, mi, atExit, ti>> /\ tpc = "put"
      /\ fd' = [fd EXCEPT ![acc.slot] = tfd] /\ fd[acc.slot] = NoFd /\ acc.slot # 0
  BY DEF Put, kernel, main, Accepting
<1>2. \A i \in Slots : fd[i] # NoFd \/ i = 0 => fd'[i] = fd[i]
  BY <1>1 DEF Types
<1>3. Owners' /\ ListenerSlot' /\ MainCloses'
  BY <1>1, <1>2, SlotsAreNumbers DEF SweepInv, Owners, ListenerSlot, MainCloses
<1>4. ThreadCloses'
  BY <1>1 DEF SweepInv, ThreadCloses
<1>5. \A c \in Conns : Waits(c) => Waits(c)'
  <2> SUFFICES ASSUME NEW c \in Conns, NEW i \in Slots, OwnerOf(fd[i]) = c, Ahead(i)
               PROVE  Waits(c)'
    BY DEF Waits
  <2>1. fd'[i] = fd[i]
    BY <1>2, DistinctNames DEF OwnerOf
  <2> QED
    BY <1>1, <2>1 DEF Waits, Ahead, OwnerOf
<1> QED
  BY <1>1, <1>3, <1>4, <1>5 DEF SweepInv, AtExitClosedOrAhead, Types

LEMMA EventSweep ==
  ASSUME Types, SweepInv, Accepting, ServerEvents
  PROVE  SweepInv'
<1>1. CASE Search \/ LoadCount \/ AddOne
  <2>1. UNCHANGED <<fd, owner, tcp, cl>> /\ tpc # "closing"
    BY <1>1 DEF Search, LoadCount, AddOne, memory, kernel
  <2>2. UNCHANGED <<mpc, mi, atExit>>
    BY <1>1, ThreadNext DEF Search, LoadCount, AddOne, main
  <2>3. cl["thread"].step = "none"
    BY <2>1 DEF SweepInv, ThreadCloses
  <2> QED
    BY <2>1, <2>2, <2>3, QuietStep
<1> QED
  BY <1>1, AcceptSweep, LimitSweep, PutSweep DEF ServerEvents

LEMMA NextSweep == Types /\ SweepInv /\ Accepting /\ [Next]_vars => SweepInv'
<1> SUFFICES ASSUME Types, SweepInv, Accepting, [Next]_vars PROVE SweepInv'
  OBVIOUS
<1>1. ASSUME NEW w \in Threads, CloseStep(w) PROVE SweepInv'
  BY <1>1, EnterSweep, CountSweep, StoreSweep, ShutdownSweep, CloseSweep, ClearSweep,
     ResetSweep DEF CloseStep
<1>2. CASE MainStep
  BY <1>1, <1>2, SweepSweep, SendSweep, EndSweep DEF MainStep, EndOfMain, Threads
<1>3. CASE ThreadStep
  BY <1>1, <1>3, ThreadSweep, EventSweep, DisconnectSweep DEF ThreadStep, Threads
<1>4. CASE Ended \/ UNCHANGED vars
  BY <1>4, QuietStep DEF Ended, vars, memory, kernel, main, thread
<1> QED
  BY <1>2, <1>3, <1>4, ClientSweep, InterruptSweep, ReadLineSweep, AnswerSweep DEF Next

(* The accepted number and the slot found for it.                              *)
LEMMA AcceptingKept ==
  ASSUME Types, Accepting, \A i \in Slots : fd'[i] \in {fd[i], NoFd},
         \/ UNCHANGED <<tpc, tfd, acc>>
         \/ tpc' \notin {"limit", "search", "put", "load", "add"}
  PROVE  Accepting'
  BY DEF Accepting, Types

LEMMA EventAccepting ==
  ASSUME Types, Accepting, ServerEvents
  PROVE  Accepting'
<1>1. ASSUME NEW c \in Conns, NEW f \in ClientFds, Accept(c, f) PROVE Accepting'
  BY <1>1 DEF Accept, Accepting
<1>2. ASSUME NextSlot("thread") PROVE tpc' \in {"scan", "test"}
  BY <1>2, ThreadNext
<1>3. CASE CheckLimit
  BY <1>2, <1>3 DEF CheckLimit, Accepting, Types
<1>4. CASE Search
  BY <1>2, <1>4, SlotsAreNumbers DEF Search, Accepting, Types, memory
<1>5. CASE Put \/ LoadCount \/ AddOne
  BY <1>2, <1>5 DEF Put, LoadCount, AddOne, Accepting
<1> QED
  BY <1>1, <1>3, <1>4, <1>5 DEF ServerEvents

LEMMA NextAccepting == Types /\ Accepting /\ [Next]_vars => Accepting'
<1> SUFFICES ASSUME Types, Accepting, [Next]_vars PROVE Accepting'
  OBVIOUS
<1>1. CASE ServerEvents
  BY <1>1, EventAccepting
<1>2. ASSUME NEW w \in Threads, CloseStep(w) PROVE Accepting'
  <2>1. fd' = fd \/ fd' = [fd EXCEPT ![Slot(w)] = NoFd]
    BY <1>2 DEF CloseStep, CloseEnter, CloseCount, CloseStore, CloseShutdown, CloseClose,
                CloseClear, CloseReset, memory
  <2>2. \A i \in Slots : fd'[i] \in {fd[i], NoFd}
    BY <2>1 DEF Types
  <2>3. UNCHANGED thread \/ NextSlot(w)
    BY <1>2 DEF CloseStep, CloseEnter, CloseCount, CloseStore, CloseShutdown, CloseClose,
                CloseClear, CloseReset, GoOn, Return
  <2>4. UNCHANGED <<tpc, tfd, acc>> \/ tpc' \in {"scan", "test"}
    BY <2>3, MainNext, ThreadNext DEF Threads, thread
  <2> QED
    BY <2>2, <2>4, AcceptingKept
<1>3. ASSUME EndOfMain PROVE Accepting'
  <2>1. \A i \in Slots : fd'[i] \in {fd[i], NoFd}
    BY <1>3, EndOfMainStep DEF Types
  <2> QED
    BY <1>3, <2>1, EndOfMainStep, AcceptingKept
<1>4. ASSUME \/ \E c \in Conns : Connect(c) \/ SendText(c) \/ Leave(c)
             \/ \E line \in {"exit", "send", "status"} : ReadLine(line)
             \/ Sweep \/ SendShutdown \/ Ended \/ UNCHANGED vars
      PROVE  Accepting'
  <2>1. UNCHANGED <<fd, tpc, tfd, acc>>
    BY <1>4 DEF Connect, SendText, Leave, ReadLine, Sweep, SendShutdown, Ended, vars,
                memory, thread
  <2> QED
    BY <2>1, AcceptingKept
<1>5. ASSUME Interrupt \/ Answer PROVE Accepting'
  <2>1. fd' = fd /\ (UNCHANGED <<tpc, tfd, acc>> \/ tpc' \in {"scan", "test"})
    BY <1>5, ThreadNext DEF Interrupt, Answer, memory, thread
  <2> QED
    BY <2>1, AcceptingKept
<1>6. ASSUME \/ TestFlag \/ PollCount \/ PollFails \/ PollCall \/ PollReturn
             \/ ReadText \/ Disconnect \/ PassSlot
      PROVE  Accepting'
  <2>1. fd' = fd /\ tpc' \notin {"limit", "search", "put", "load", "add"}
    BY <1>6, ThreadNext DEF TestFlag, PollCount, PollFails, PollCall, PollReturn, ReadText,
                           Disconnect, PassSlot, memory
  <2> QED
    BY <2>1, AcceptingKept
<1> QED
  BY <1>1, <1>2, <1>3, <1>4, <1>5, <1>6 DEF Next, MainStep, ThreadStep, EndOfMain, Threads

LEMMA InitAccepting == Init => Accepting
<1> SUFFICES ASSUME Init PROVE Accepting
  OBVIOUS
<1>1. PICK outcome \in InitOutcomes : tpc = IF outcome = "ok" THEN "test" ELSE "none"
  BY Zenon DEF Init
<1> QED
  BY <1>1 DEF Accepting

(* server_close disconnects every client it found in the table, though it sweeps *)
(* the table while the thread still accepts, stores, closes and clears.         *)
THEOREM ClientsAtExitClosedCorrect == Spec => []ClientsAtExitClosed
<1>1. Types /\ SweepInv => ClientsAtExitClosed
  BY DEF SweepInv, AtExitClosedOrAhead, Waits, Ahead, ClientsAtExitClosed
<1> QED
  BY <1>1, InitTypes, InitSweep, InitAccepting, NextTypes, NextSweep, NextAccepting,
     PTL DEF Spec

(***************************************************************************)
(* The count. Before the exit it is the number of slots that hold a client; a   *)
(* close in hand has already taken its client off, and one that is being stored   *)
(* is not yet added. From the exit on the two threads overwrite each other's      *)
(* updates, but each close takes one off a value the count has had, main closes    *)
(* each slot once, and the flag leaves the thread the rest of one round: each slot  *)
(* once, and one client more.                                                *)
(***************************************************************************)
ThreadPcs == {"none", "test", "poll", "call", "wait", "scan", "limit", "search", "put",
              "load", "add", "fetch", "closing", "ended"}

RestTypes ==
  /\ revents \in [Slots -> BOOLEAN]
  /\ server_sockfd \in {ServerFd, NoFd}
  /\ ops \in BOOLEAN /\ exitflag \in BOOLEAN /\ listening \in BOOLEAN
  /\ tpc \in ThreadPcs
  /\ unread \subseteq Conns
  /\ polled \in [n : Int, conns : [Slots -> Conns \cup {NoConn}]]

(* Where the program counters stand, and which slots can hold the listener.      *)
Places ==
  /\ tpc \in {"limit", "search", "put", "load", "add"} => ti = 0
  /\ tpc = "closing" => ti < MAX_CLIENTNUM
  /\ mpc \in {"sweep", "send", "closing"} => mi > 0
  /\ mpc \notin {"readline", "crashed"} => exitflag
  /\ \A i \in Slots \ {0} : fd[i] # ServerFd

Busy == {i \in 1 .. MAX_CLIENTNUM - 1 : fd[i] \in ClientFds}

(* A client the thread has taken off the count and not yet out of its slot, and    *)
(* one that is in its slot and not yet in the count.                           *)
Taken == IF cl["thread"].step \in {"shutdown", "close", "clear"} THEN 1 ELSE 0
Added == IF tpc \in {"load", "add"} THEN 1 ELSE 0

Counted ==
  mpc = "readline" =>
    /\ client_count = Cardinality(Busy) - (Taken + Added)
    /\ cl["thread"].step = "store" => cl["thread"].count = client_count
    /\ tpc = "add" => acc.count = client_count
    /\ cl["thread"].step \notin {"none", "reset"} => ti \in Busy
    /\ tpc \in {"load", "add"} => acc.slot \in Busy
    /\ cl["thread"].step \in {"count", "store", "shutdown", "close", "clear"}
         => fd[ti] = cl["thread"].fd
    /\ fd[MAX_CLIENTNUM] = StdinFd

(* What the sweep, and the thread's last round, have taken off at most; and      *)
(* whether that round may still store a client.                               *)
MainDone ==
  IF mpc \in {"sweep", "send"}
       \/ (mpc = "closing" /\ cl["main"].step \in {"enter", "count", "store"})
    THEN mi - 1
    ELSE IF mpc = "closing" THEN mi ELSE MAX_CLIENTNUM

Closed ==
  IF cl["thread"].step \in {"shutdown", "close", "clear", "reset"} THEN 1 ELSE 0

ThreadDone == IF tpc \in {"poll", "call", "wait"} THEN 0 ELSE ti + Closed

MayStore ==
  IF \/ tpc \in {"poll", "call", "wait", "limit", "search", "put", "load", "add"}
     \/ tpc = "scan" /\ ti = 0
    THEN 1 ELSE 0

InLimits(n) == -(MainDone + ThreadDone) <= n /\ n + MayStore <= MAX_CLIENTNUM

Miscounted ==
  mpc # "readline" =>
    /\ InLimits(client_count)
    /\ \A w \in Threads : cl[w].step = "store" => InLimits(cl[w].count)
    /\ tpc = "add" => InLimits(acc.count)

(* The values of it that the thread has read for poll and for its increment.       *)
CountsRead == /\ polled.n \in -(2 * MAX_CLIENTNUM) .. MAX_CLIENTNUM
              /\ acc.count \in -(2 * MAX_CLIENTNUM) .. MAX_CLIENTNUM

CountInv == Places /\ Counted /\ Miscounted /\ CountsRead

LEMMA InitRest == Init => RestTypes
<1> SUFFICES ASSUME Init PROVE RestTypes
  OBVIOUS
<1>1. polled \in [n : Int, conns : [Slots -> Conns \cup {NoConn}]]
  BY DEF Init, NotPolled
<1>2. server_sockfd \in {ServerFd, NoFd} /\ tpc \in {"test", "none"}
  <2>1. PICK outcome \in InitOutcomes :
          /\ server_sockfd = IF outcome = "socket" THEN NoFd ELSE ServerFd
          /\ tpc = IF outcome = "ok" THEN "test" ELSE "none"
    BY Zenon DEF Init
  <2> QED
    BY <2>1
<1>3. exitflag = FALSE /\ unread = {} /\ revents = [i \in Slots |-> FALSE]
  BY DEF Init
<1>4. ops \in BOOLEAN /\ listening \in BOOLEAN
  <2>1. PICK outcome \in InitOutcomes :
          /\ ops = (outcome \in {"ok", "users"})
          /\ listening = (outcome \in {"ok", "users"})
    BY Zenon DEF Init
  <2> QED
    BY <2>1
<1> QED
  BY <1>1, <1>2, <1>3, <1>4 DEF RestTypes, ThreadPcs

LEMMA NextSlotRest ==
  ASSUME Types, RestTypes, NEW w \in Threads, NextSlot(w)
  PROVE  tpc' \in ThreadPcs /\ polled' = polled
  BY MainNext, ThreadNext DEF RestTypes, ThreadPcs, Threads

LEMMA CloseRest ==
  ASSUME Types, RestTypes, NEW w \in Threads, CloseStep(w)
  PROVE  RestTypes' /\ polled' = polled
<1>1. CASE CloseEnter(w) \/ CloseCount(w)
  BY <1>1 DEF CloseEnter, CloseCount, RestTypes, memory, kernel, thread
<1>2. tpc' \in ThreadPcs /\ polled' = polled
  BY NextSlotRest DEF CloseStep, CloseEnter, CloseCount, CloseStore, CloseShutdown,
                      CloseClose, CloseClear, CloseReset, GoOn, Return, thread, RestTypes
<1>3. CASE CloseStore(w) \/ CloseShutdown(w)
  BY <1>2, <1>3 DEF CloseStore, CloseShutdown, RestTypes, memory, kernel
<1>4. CASE CloseClose(w)
  <2>1. unread' \subseteq Conns
    BY <1>4 DEF CloseClose, RestTypes
  <2> QED
    BY <1>2, <1>4, <2>1 DEF CloseClose, RestTypes, memory
<1>5. CASE CloseClear(w)
  BY <1>2, <1>5 DEF CloseClear, RestTypes, kernel
<1>6. CASE CloseReset(w)
  <2>1. revents' \in [Slots -> BOOLEAN]
    BY <1>6 DEF CloseReset, RestTypes
  <2> QED
    BY <1>2, <1>6, <2>1 DEF CloseReset, RestTypes, kernel
<1> QED
  BY <1>1, <1>3, <1>4, <1>5, <1>6 DEF CloseStep

LEMMA EndRest ==
  ASSUME Types, RestTypes, EndOfMain
  PROVE  RestTypes'
<1>1. listening' \in BOOLEAN
  <2>1. CASE CloseSocket
    <3>1. listening' = (listening /\ server_sockfd = NoFd)
      BY <2>1 DEF CloseSocket
    <3> QED
      BY <3>1, Zenon
  <2>2. CASE ~CloseSocket
    BY <2>2 DEF EndOfMain, ZeroCount, ForgetSocket, ClearFirst, ResetFirst, Join, RestTypes,
                kernel
  <2> QED
    BY <2>1, <2>2
<1>2. /\ revents' \in [Slots -> BOOLEAN] /\ server_sockfd' \in {ServerFd, NoFd}
      /\ UNCHANGED <<ops, exitflag, unread, tpc, polled>>
  BY EndOfMainStep DEF EndOfMain, ZeroCount, CloseSocket, ForgetSocket, ClearFirst,
                       ResetFirst, Join, RestTypes, memory
<1> QED
  BY <1>1, <1>2 DEF RestTypes

LEMMA EventRest ==
  ASSUME Types, RestTypes, ServerEvents
  PROVE  RestTypes' /\ polled' = polled
<1>1. ASSUME NEW c \in Conns, NEW f \in ClientFds, Accept(c, f)
      PROVE  RestTypes' /\ polled' = polled
  BY <1>1 DEF Accept, RestTypes, ThreadPcs, memory
<1>2. tpc' \in ThreadPcs /\ polled' = polled
  BY NextSlotRest DEF ServerEvents, Accept, CheckLimit, Search, Put, LoadCount, AddOne,
                      ThreadPcs, RestTypes, Threads
<1>3. CASE CheckLimit \/ Search \/ Put \/ LoadCount \/ AddOne
  BY <1>2, <1>3 DEF CheckLimit, Search, Put, LoadCount, AddOne, RestTypes, memory, kernel
<1> QED
  BY <1>1, <1>3 DEF ServerEvents

LEMMA NextRest == Types /\ RestTypes /\ [Next]_vars => RestTypes'
<1> SUFFICES ASSUME Types, RestTypes, [Next]_vars PROVE RestTypes'
  OBVIOUS
<1>1. ASSUME NEW c \in Conns, Connect(c) \/ SendText(c) \/ Leave(c) PROVE RestTypes'
  BY <1>1 DEF Connect, SendText, Leave, RestTypes, memory, thread
<1>2. CASE Interrupt
  BY <1>2 DEF Interrupt, RestTypes, ThreadPcs, kernel
<1>3. ASSUME NEW line, ReadLine(line) PROVE RestTypes'
  BY <1>3 DEF ReadLine, RestTypes, kernel, thread
<1>4. CASE Sweep \/ SendShutdown
  BY <1>4 DEF Sweep, SendShutdown, RestTypes, memory, kernel, thread
<1>5. CASE TestFlag
  BY <1>5 DEF TestFlag, RestTypes, ThreadPcs, memory, kernel
<1>6. CASE PollCount
  <2>1. polled' \in [n : Int, conns : [Slots -> Conns \cup {NoConn}]]
    BY <1>6 DEF PollCount, Types, RestTypes
  <2> QED
    BY <1>6, <2>1 DEF PollCount, RestTypes, ThreadPcs, memory, kernel
<1>7. CASE PollFails
  BY <1>7 DEF PollFails, NotPolled, RestTypes, ThreadPcs, memory, kernel
<1>8. CASE PollCall
  <2>1. polled' \in [n : Int, conns : [Slots -> Conns \cup {NoConn}]]
    BY <1>8, OwnerIsConn DEF PollCall, RestTypes
  <2> QED
    BY <1>8, <2>1 DEF PollCall, RestTypes, ThreadPcs, memory, kernel
<1>9. CASE PollReturn
  <2>1. \A c : Readable(c) \in BOOLEAN
    BY DEF Readable
  <2>2. revents' \in [Slots -> BOOLEAN]
    BY <1>9, <2>1 DEF PollReturn, RestTypes
  <2> QED
    BY <1>9, <2>2 DEF PollReturn, NotPolled, RestTypes, ThreadPcs, kernel
<1>10. CASE ReadText
  BY <1>10 DEF ReadText, RestTypes, ThreadPcs, memory
<1>11. CASE Answer
  <2>1. CASE NextSlot("thread")
    BY <1>11, <2>1, NextSlotRest DEF Answer, RestTypes, memory, kernel, Threads
  <2>2. CASE ~NextSlot("thread")
    BY <1>11, <2>2 DEF Answer, RestTypes, memory, kernel, thread
  <2> QED
    BY <2>1, <2>2
<1>12. CASE Disconnect
  BY <1>12 DEF Disconnect, RestTypes, ThreadPcs, memory, kernel
<1>13. CASE PassSlot
  BY <1>13, NextSlotRest DEF PassSlot, RestTypes, memory, kernel, Threads
<1>14. CASE Ended \/ UNCHANGED vars
  BY <1>14 DEF Ended, RestTypes, vars, memory, kernel, thread
<1> QED
  BY <1>1, <1>2, <1>3, <1>4, <1>5, <1>8, <1>9, <1>6, <1>7, <1>10, <1>11, <1>12, <1>13,
     <1>14, CloseRest, EndRest, EventRest
     DEF Next, MainStep, ThreadStep, EndOfMain, Threads

(***************************************************************************)
(* The places.                                                             *)
(***************************************************************************)
LEMMA SpecialFds ==
  /\ ServerFd # StdinFd /\ ServerFd # NoFd /\ StdinFd # NoFd
  /\ \A f \in ClientFds : f # ServerFd /\ f # StdinFd /\ f # NoFd
<1>1. ASSUME NEW a, NEW b PROVE Cardinality({a, b}) # 3
  <2>1. {a, b} = {a} \cup {b}
    OBVIOUS
  <2>2. IsFiniteSet({a}) /\ Cardinality({a}) = 1
    BY FS_Singleton
  <2>3. Cardinality({a} \cup {b}) = IF b \in {a} THEN Cardinality({a})
                                                 ELSE Cardinality({a}) + 1
    BY <2>2, FS_AddElement
  <2> QED
    BY <2>1, <2>2, <2>3
<1>2. ServerFd # StdinFd
  <2> SUFFICES ASSUME ServerFd = StdinFd PROVE FALSE
    OBVIOUS
  <2>1. {ServerFd, StdinFd, NoFd} = {ServerFd, NoFd}
    OBVIOUS
  <2> QED
    BY <1>1, <2>1, LifecycleAssumption
<1>3. ServerFd # NoFd
  <2> SUFFICES ASSUME ServerFd = NoFd PROVE FALSE
    OBVIOUS
  <2>1. {ServerFd, StdinFd, NoFd} = {ServerFd, StdinFd}
    OBVIOUS
  <2> QED
    BY <1>1, <2>1, LifecycleAssumption
<1>4. StdinFd # NoFd
  <2> SUFFICES ASSUME StdinFd = NoFd PROVE FALSE
    OBVIOUS
  <2>1. {ServerFd, StdinFd, NoFd} = {ServerFd, StdinFd}
    OBVIOUS
  <2> QED
    BY <1>1, <2>1, LifecycleAssumption
<1> QED
  BY <1>2, <1>3, <1>4, LifecycleAssumption

LEMMA PcsAreNumbers ==
  ASSUME Types
  PROVE  /\ MAX_CLIENTNUM \in Nat /\ 1 <= MAX_CLIENTNUM
         /\ mi \in Nat /\ mi <= MAX_CLIENTNUM /\ ti \in Nat /\ ti <= MAX_CLIENTNUM
  BY SlotsAreNumbers, LifecycleAssumption DEF Types

LEMMA InitPlaces == Init => Places
<1> SUFFICES ASSUME Init PROVE Places
  OBVIOUS
<1>1. PICK outcome \in InitOutcomes :
        /\ tpc = IF outcome = "ok" THEN "test" ELSE "none"
        /\ fd = [i \in Slots |->
                   IF ~(outcome \in {"ok", "users"}) \/ i = MAX_CLIENTNUM THEN StdinFd
                   ELSE IF i = 0 THEN ServerFd ELSE NoFd]
  BY Zenon DEF Init
<1>2. \A i \in Slots \ {0} : fd[i] # ServerFd
  BY <1>1, SpecialFds
<1>3. mpc = "readline"
  BY DEF Init
<1> QED
  BY <1>1, <1>2, <1>3 DEF Places

LEMMA ClosePlaces ==
  ASSUME Types, Places, SweepInv, NEW w \in Threads, CloseStep(w)
  PROVE  Places'
<1>1. exitflag' = exitflag
  BY DEF CloseStep, CloseEnter, CloseCount, CloseStore, CloseShutdown, CloseClose, CloseClear,
         CloseReset, memory
<1>2. \A i \in Slots \ {0} : fd'[i] # ServerFd
  <2>1. fd' = fd \/ fd' = [fd EXCEPT ![Slot(w)] = NoFd]
    BY DEF CloseStep, CloseEnter, CloseCount, CloseStore, CloseShutdown, CloseClose,
           CloseClear, CloseReset, memory
  <2> QED
    BY <2>1, SpecialFds DEF Places, Types
<1>3. cl[w].step # "none" /\ Running
  BY DEF CloseStep, CloseEnter, CloseCount, CloseStore, CloseShutdown, CloseClose, CloseClear,
         CloseReset
<1>4. UNCHANGED <<main, thread>> \/ NextSlot(w)
  BY DEF CloseStep, CloseEnter, CloseCount, CloseStore, CloseShutdown, CloseClose, CloseClear,
         CloseReset, GoOn, Return
<1>5. CASE UNCHANGED <<main, thread>>
  BY <1>1, <1>2, <1>5 DEF Places, main, thread
<1>6. CASE w = "main" /\ NextSlot(w)
  <2>1. mpc = "closing"
    BY <1>3, <1>6 DEF SweepInv, MainCloses, Running
  <2>2. mi > 0
    BY <2>1 DEF Places
  <2>3. mi' > 0
    BY <1>6, <2>2, MainNext, PcsAreNumbers
  <2>4. UNCHANGED <<tpc, ti>> /\ exitflag
    BY <1>6, <2>1, MainNext DEF Places
  <2> QED
    BY <1>1, <1>2, <2>3, <2>4 DEF Places
<1>7. CASE w = "thread" /\ NextSlot(w)
  <2>1. UNCHANGED <<mpc, mi>> /\ tpc' \in {"scan", "test"}
    BY <1>7, ThreadNext
  <2> QED
    BY <1>1, <1>2, <2>1 DEF Places
<1> QED
  BY <1>4, <1>5, <1>6, <1>7 DEF Threads

LEMMA EventPlaces ==
  ASSUME Types, RestTypes, Accepting, Places, ServerEvents
  PROVE  Places'
<1>1. UNCHANGED <<mpc, mi, exitflag>>
  BY ThreadNext DEF ServerEvents, Accept, CheckLimit, Search, Put, LoadCount, AddOne, memory,
                    main
<1>2. ti = 0
  <2>1. ASSUME NEW c \in Conns, NEW f \in ClientFds, Accept(c, f) PROVE ti = 0
    <3>1. fd[ti] = ServerFd
      BY <2>1 DEF Accept, RestTypes
    <3> QED
      BY <3>1 DEF Places, Types
  <2> QED
    BY <2>1 DEF ServerEvents, CheckLimit, Search, Put, LoadCount, AddOne, Places
<1>3. (ti' = ti /\ tpc' # "closing") \/ tpc' \in {"scan", "test"}
  BY ThreadNext DEF ServerEvents, Accept, CheckLimit, Search, Put, LoadCount, AddOne
<1>4. \A i \in Slots \ {0} : fd'[i] # ServerFd
  <2>1. CASE Put
    <3>1. tfd \in ClientFds
      BY <2>1 DEF Put, Accepting
    <3> QED
      BY <2>1, <3>1, SpecialFds DEF Put, Places, Types
  <2>2. CASE ~Put
    BY <2>2 DEF ServerEvents, Accept, CheckLimit, Search, LoadCount, AddOne, memory, Places
  <2> QED
    BY <2>1, <2>2
<1> QED
  BY <1>1, <1>2, <1>3, <1>4 DEF Places

LEMMA NextPlaces ==
  Types /\ RestTypes /\ SweepInv /\ Accepting /\ Places /\ [Next]_vars => Places'
<1> SUFFICES ASSUME Types, RestTypes, SweepInv, Accepting, Places, [Next]_vars PROVE Places'
  OBVIOUS
<1>1. ASSUME NEW c \in Conns, Connect(c) \/ SendText(c) \/ Leave(c) PROVE Places'
  BY <1>1 DEF Connect, SendText, Leave, Places, memory, main, thread
<1>2. CASE Interrupt
  BY <1>2 DEF Interrupt, Places, main
<1>3. ASSUME NEW line, ReadLine(line) PROVE Places'
  <2>1. UNCHANGED <<fd, tpc, ti>>
    BY <1>3 DEF ReadLine, thread
  <2>2. /\ mpc' \in {"sweep", "send", "closing"} => mi' > 0
        /\ mpc' \notin {"readline", "crashed"} => exitflag'
    BY <1>3 DEF ReadLine, FirstSwept
  <2> QED
    BY <2>1, <2>2 DEF Places
<1>4. CASE Sweep \/ SendShutdown
  BY <1>4 DEF Sweep, SendShutdown, Places, memory, thread
<1>5. CASE EndOfMain
  <2>1. \A i \in Slots \ {0} : fd'[i] = fd[i]
    BY <1>5, EndOfMainStep DEF Types
  <2> QED
    BY <1>5, <2>1, EndOfMainStep DEF Places
<1>6. CASE TestFlag \/ PollCount \/ PollFails \/ PollCall \/ PollReturn
  <2>1. /\ UNCHANGED <<fd, mpc, mi, exitflag>>
        /\ tpc' \in {"ended", "poll", "test", "call", "wait", "scan"}
    BY <1>6 DEF TestFlag, PollCount, PollFails, PollCall, PollReturn, memory, main
  <2> QED
    BY <2>1 DEF Places
<1>7. CASE ReadText
  BY <1>7 DEF ReadText, Places, memory, main
<1>8. CASE Answer
  <2>1. UNCHANGED <<fd, exitflag>>
    BY <1>8 DEF Answer, memory
  <2>2. CASE NextSlot("thread")
    BY <2>1, <2>2, ThreadNext DEF Places
  <2>3. CASE ~NextSlot("thread")
    BY <1>8, <2>1, <2>3 DEF Answer, Places, thread
  <2> QED
    BY <2>2, <2>3
<1>9. CASE Disconnect
  <2>1. UNCHANGED <<fd, exitflag, mpc, mi, ti>> /\ tpc' = "closing" /\ ti < MAX_CLIENTNUM
    BY <1>9 DEF Disconnect, AtClient, memory, main
  <2> QED
    BY <2>1 DEF Places
<1>10. CASE PassSlot
  <2>1. UNCHANGED <<fd, exitflag>>
    BY <1>10 DEF PassSlot, memory
  <2> QED
    BY <1>10, <2>1, ThreadNext DEF PassSlot, Places
<1>11. CASE Ended \/ UNCHANGED vars
  BY <1>11 DEF Ended, Places, vars, memory, main, thread
<1> QED
  BY <1>1, <1>2, <1>3, <1>4, <1>5, <1>6, <1>7, <1>8, <1>9, <1>10, <1>11, ClosePlaces,
     EventPlaces DEF Next, MainStep, ThreadStep, EndOfMain, Threads

(***************************************************************************)
(* The count.                                                              *)
(***************************************************************************)
LEMMA SlotSets ==
  ASSUME NEW S \in SUBSET (1 .. MAX_CLIENTNUM - 1)
  PROVE  /\ IsFiniteSet(S) /\ Cardinality(S) \in Nat
         /\ Cardinality(S) <= MAX_CLIENTNUM - 1
<1> DEFINE n == MAX_CLIENTNUM - 1
<1>1. n \in Nat
  BY LifecycleAssumption
<1> HIDE DEF n
<1>2. IsFiniteSet(1 .. n) /\ Cardinality(1 .. n) = n
  BY <1>1, FS_Interval
<1>3. IsFiniteSet(S) /\ Cardinality(S) <= n
  BY <1>2, FS_Subset DEF n
<1>4. Cardinality(S) \in Nat
  BY <1>3, FS_CardinalityType
<1> QED
  BY <1>3, <1>4 DEF n

LEMMA BusySlots ==
  /\ IsFiniteSet(Busy) /\ Cardinality(Busy) \in Nat
  /\ Cardinality(Busy) <= MAX_CLIENTNUM - 1
<1>1. Busy \in SUBSET (1 .. MAX_CLIENTNUM - 1)
  BY DEF Busy
<1> QED
  BY <1>1, SlotSets

Numbers ==
  /\ MainDone \in Int /\ -1 <= MainDone /\ MainDone <= MAX_CLIENTNUM
  /\ ThreadDone \in Int /\ 0 <= ThreadDone
  /\ MayStore \in {0, 1} /\ Taken \in {0, 1} /\ Added \in {0, 1} /\ Closed \in {0, 1}
  /\ client_count \in Int /\ acc.count \in Int
  /\ \A w \in Threads : cl[w].count \in Int

LEMMA TypesNumbers == Types => Numbers
<1> SUFFICES ASSUME Types PROVE Numbers
  OBVIOUS
<1>1. /\ Taken \in {0, 1} /\ Added \in {0, 1} /\ Closed \in {0, 1}
      /\ MayStore \in {0, 1}
  BY DEF Taken, Added, Closed, MayStore
<1>2. MainDone \in Int /\ -1 <= MainDone /\ MainDone <= MAX_CLIENTNUM
  BY PcsAreNumbers DEF MainDone
<1>3. ThreadDone \in Int /\ 0 <= ThreadDone
  BY <1>1, PcsAreNumbers DEF ThreadDone
<1>4. client_count \in Int /\ acc.count \in Int /\ \A w \in Threads : cl[w].count \in Int
  BY DEF Types, Record
<1> QED
  BY <1>1, <1>2, <1>3, <1>4 DEF Numbers

LEMMA TypesNumbersNext == Types' => Numbers'
  BY TypesNumbers, PTL

(* Before the exit the count is that of the clients, less the close or the store in  *)
(* hand.                                                                    *)
LEMMA CountBeforeExit ==
  ASSUME Types, SweepInv, Counted, mpc = "readline"
  PROVE  /\ 0 <= client_count /\ client_count < MAX_CLIENTNUM
         /\ \A w \in Threads : cl[w].step = "store" => cl[w].count = client_count
         /\ tpc = "add" => acc.count = client_count
<1>1. client_count = Cardinality(Busy) - (Taken + Added)
  BY DEF Counted
<1>2. Taken + Added \in {0, 1}
  BY DEF Taken, Added, SweepInv, ThreadCloses
<1>3. Taken + Added = 1 => Cardinality(Busy) # 0
  <2> SUFFICES ASSUME Taken + Added = 1 PROVE Cardinality(Busy) # 0
    OBVIOUS
  <2>1. ti \in Busy \/ acc.slot \in Busy
    BY DEF Taken, Added, Counted
  <2> QED
    BY <2>1, BusySlots, FS_EmptySet
<1>4. cl["main"].step = "none"
  BY DEF SweepInv, MainCloses
<1>5. 0 <= client_count /\ client_count < MAX_CLIENTNUM
  <2> DEFINE n == Cardinality(Busy)
             h == Taken + Added
  <2>1. n \in Nat /\ n <= MAX_CLIENTNUM - 1
    BY BusySlots
  <2>2. client_count = n - h /\ (h = 1 => n # 0) /\ h \in {0, 1}
    BY <1>1, <1>2, <1>3
  <2> HIDE DEF n, h
  <2> QED
    BY <2>1, <2>2, PcsAreNumbers
<1> QED
  BY <1>4, <1>5 DEF Counted, Threads

LEMMA CountRange ==
  ASSUME Types, SweepInv, Places, Counted, Miscounted
  PROVE  client_count \in -(2 * MAX_CLIENTNUM) .. MAX_CLIENTNUM
<1>1. Numbers /\ MAX_CLIENTNUM \in Nat
  BY TypesNumbers, PcsAreNumbers
<1>2. CASE mpc = "readline"
  BY <1>1, <1>2, CountBeforeExit DEF Numbers
<1>3. CASE mpc # "readline"
  <2>1. ThreadDone <= MAX_CLIENTNUM
    <3>1. Closed = 1 => ti < MAX_CLIENTNUM
      BY DEF Closed, SweepInv, ThreadCloses, Places
    <3> QED
      BY <1>1, <3>1, PcsAreNumbers DEF ThreadDone, Numbers
  <2>2. InLimits(client_count)
    BY <1>3 DEF Miscounted
  <2>3. -(MainDone + ThreadDone) <= client_count /\ client_count + MayStore <= MAX_CLIENTNUM
    BY <2>2 DEF InLimits
  <2> HIDE DEF MainDone, ThreadDone, MayStore
  <2> QED
    BY <1>1, <2>1, <2>3 DEF Numbers
<1> QED
  BY <1>2, <1>3

(* The exit begins, or the process ends, while the count is right.              *)
LEMMA ExitBegins ==
  ASSUME Types, Types', SweepInv, Counted, mpc = "readline", mpc' # "readline",
         client_count' = client_count, cl' = cl, UNCHANGED <<tpc, acc>>, 0 <= MainDone'
  PROVE  Miscounted'
<1>1. Numbers /\ Numbers' /\ MAX_CLIENTNUM \in Nat
  BY TypesNumbers, TypesNumbersNext, PcsAreNumbers
<1>2. InLimits(client_count)'
  <2>1. 0 <= client_count' /\ client_count' < MAX_CLIENTNUM
    BY CountBeforeExit
  <2>2. /\ client_count' \in Int /\ MainDone' \in Int /\ ThreadDone' \in Int
        /\ 0 <= ThreadDone' /\ MayStore' \in {0, 1}
    BY <1>1 DEF Numbers
  <2>3. -(MainDone' + ThreadDone') <= client_count'
        /\ client_count' + MayStore' <= MAX_CLIENTNUM
    <3> DEFINE a == MainDone'
               b == ThreadDone'
               c == client_count'
               t == MayStore'
    <3>1. a \in Int /\ 0 <= a
      BY <2>2
    <3>2. b \in Int /\ 0 <= b
      BY <2>2
    <3>3. c \in Int /\ 0 <= c /\ c < MAX_CLIENTNUM
      BY <2>1, <2>2
    <3>4. t \in {0, 1}
      BY <2>2
    <3>5. MAX_CLIENTNUM \in Int
      BY <1>1
    <3> HIDE DEF a, b, c, t
    <3>6. -(a + b) <= c /\ c + t <= MAX_CLIENTNUM
      BY <3>1, <3>2, <3>3, <3>4, <3>5
    <3> QED
      BY <3>6 DEF a, b, c, t
  <2> QED
    BY <2>3 DEF InLimits
<1>3. /\ \A w \in Threads : cl'[w].step = "store" => cl'[w].count = client_count'
      /\ tpc' = "add" => acc'.count = client_count'
  BY CountBeforeExit
<1> QED
  BY <1>2, <1>3 DEF Miscounted

(* A step that leaves the count, takes nothing back, and reads no other value.   *)
LEMMA LimitsKept ==
  ASSUME Types, Types', Miscounted, mpc # "readline", client_count' = client_count,
         \A w \in Threads : cl'[w].step = "store"
           => \/ cl[w].step = "store" /\ cl'[w].count = cl[w].count
              \/ cl'[w].count = client_count,
         tpc' = "add" => \/ tpc = "add" /\ acc'.count = acc.count
                         \/ acc'.count = client_count,
         MainDone <= MainDone', ThreadDone <= ThreadDone', MayStore' <= MayStore
  PROVE  Miscounted'
<1>1. Numbers /\ Numbers' /\ MAX_CLIENTNUM \in Nat
  BY TypesNumbers, TypesNumbersNext, PcsAreNumbers
<1>2. ASSUME NEW n \in Int, InLimits(n)
      PROVE  /\ -(MainDone' + ThreadDone') <= n
             /\ n + MayStore' <= MAX_CLIENTNUM
  <2> DEFINE a == MainDone
             b == ThreadDone
             c == MainDone'
             d == ThreadDone'
             s == MayStore
             t == MayStore'
  <2>1. a \in Int /\ b \in Int /\ c \in Int /\ d \in Int /\ s \in Int /\ t \in Int
    BY <1>1 DEF Numbers
  <2>2. a <= c /\ b <= d /\ t <= s
    OBVIOUS
  <2>3. -(a + b) <= n /\ n + s <= MAX_CLIENTNUM
    BY <1>2 DEF InLimits
  <2> HIDE DEF a, b, c, d, s, t
  <2>4. -(c + d) <= n /\ n + t <= MAX_CLIENTNUM
    BY <1>1, <2>1, <2>2, <2>3
  <2> QED
    BY <2>4 DEF c, d, t
<1>3. InLimits(client_count)'
  <2>1. client_count \in Int /\ InLimits(client_count)
    BY <1>1 DEF Miscounted, Numbers
  <2>2. /\ -(MainDone' + ThreadDone') <= client_count
        /\ client_count + MayStore' <= MAX_CLIENTNUM
    BY <1>2, <2>1
  <2> QED
    BY <2>2 DEF InLimits
<1>4. ASSUME NEW w \in Threads, cl'[w].step = "store" PROVE InLimits(cl[w].count)'
  <2> DEFINE n == cl'[w].count
  <2>1. n \in Int
    BY <1>1 DEF Numbers
  <2>2. InLimits(n)
    BY <1>4 DEF Miscounted
  <2> HIDE DEF n
  <2>3. /\ -(MainDone' + ThreadDone') <= n
        /\ n + MayStore' <= MAX_CLIENTNUM
    BY <1>2, <2>1, <2>2
  <2> QED
    BY <2>3 DEF InLimits, n
<1>5. ASSUME tpc' = "add" PROVE InLimits(acc.count)'
  <2> DEFINE n == acc'.count
  <2>1. n \in Int
    BY <1>1 DEF Numbers
  <2>2. InLimits(n)
    BY <1>5 DEF Miscounted
  <2> HIDE DEF n
  <2>3. /\ -(MainDone' + ThreadDone') <= n
        /\ n + MayStore' <= MAX_CLIENTNUM
    BY <1>2, <2>1, <2>2
  <2> QED
    BY <2>3 DEF InLimits, n
<1> QED
  BY <1>3, <1>4, <1>5 DEF Miscounted

(* A close stores what it has read less one, which is one more taken off.        *)
LEMMA LimitsTaken ==
  ASSUME Types, Types', Miscounted, mpc # "readline", NEW w \in Threads,
         cl[w].step = "store", client_count' = cl[w].count - 1,
         \A v \in Threads : cl'[v].step = "store"
                              => cl[v].step = "store" /\ cl'[v].count = cl[v].count,
         tpc' = "add" => tpc = "add" /\ acc' = acc,
         \/ MainDone' = MainDone + 1 /\ ThreadDone' = ThreadDone
         \/ MainDone' = MainDone /\ ThreadDone' = ThreadDone + 1,
         MayStore' <= MayStore
  PROVE  Miscounted'
<1>1. Numbers /\ Numbers' /\ MAX_CLIENTNUM \in Nat
  BY TypesNumbers, TypesNumbersNext, PcsAreNumbers
<1>2. MainDone' + ThreadDone' = MainDone + ThreadDone + 1
  <2> DEFINE a == MainDone
             b == ThreadDone
             c == MainDone'
             d == ThreadDone'
  <2>1. a \in Int /\ b \in Int
    BY <1>1 DEF Numbers
  <2>2. (c = a + 1 /\ d = b) \/ (c = a /\ d = b + 1)
    OBVIOUS
  <2> HIDE DEF a, b, c, d
  <2>3. c + d = a + b + 1
    BY <2>1, <2>2
  <2> QED
    BY <2>3 DEF a, b, c, d
<1>3. ASSUME NEW n \in Int, InLimits(n)
      PROVE  /\ -(MainDone' + ThreadDone') <= n - 1
             /\ n + MayStore' <= MAX_CLIENTNUM
  <2> DEFINE d == MainDone + ThreadDone
             e == MainDone' + ThreadDone'
             s == MayStore
             t == MayStore'
  <2>1. d \in Int /\ s \in Int /\ t \in Int /\ t <= s
    BY <1>1 DEF Numbers
  <2>2. e = d + 1
    BY <1>2
  <2>3. -d <= n /\ n + s <= MAX_CLIENTNUM
    BY <1>3 DEF InLimits
  <2> HIDE DEF d, e, s, t
  <2>4. -e <= n - 1 /\ n + t <= MAX_CLIENTNUM
    BY <1>1, <2>1, <2>2, <2>3
  <2> QED
    BY <2>4 DEF e, t
<1>4. InLimits(client_count)'
  <2> DEFINE n == cl[w].count
             e == MainDone' + ThreadDone'
             t == MayStore'
  <2>1. n \in Int /\ InLimits(n)
    BY <1>1 DEF Miscounted, Numbers
  <2>2. -e <= n - 1 /\ n + t <= MAX_CLIENTNUM
    BY <1>3, <2>1
  <2>3. t \in Int
    BY <1>1 DEF Numbers
  <2> HIDE DEF n, e, t
  <2>4. -e <= n - 1 /\ n - 1 + t <= MAX_CLIENTNUM
    BY <1>1, <2>1, <2>2, <2>3
  <2> QED
    BY <2>4 DEF InLimits, n, e, t
<1>5. ASSUME NEW n \in Int, InLimits(n)
      PROVE  /\ -(MainDone' + ThreadDone') <= n
             /\ n + MayStore' <= MAX_CLIENTNUM
  <2> DEFINE e == MainDone' + ThreadDone'
             t == MayStore'
  <2>1. e \in Int
    BY <1>1 DEF Numbers
  <2>2. -e <= n - 1 /\ n + t <= MAX_CLIENTNUM
    BY <1>3, <1>5
  <2> HIDE DEF e, t
  <2>3. -e <= n /\ n + t <= MAX_CLIENTNUM
    BY <2>1, <2>2
  <2> QED
    BY <2>3 DEF e, t
<1>6. ASSUME NEW v \in Threads, cl'[v].step = "store" PROVE InLimits(cl[v].count)'
  <2> DEFINE n == cl[v].count
  <2>1. n \in Int /\ InLimits(n) /\ cl'[v].count = n
    BY <1>1, <1>6 DEF Miscounted, Numbers
  <2> HIDE DEF n
  <2> QED
    BY <1>5, <2>1 DEF InLimits
<1>7. ASSUME tpc' = "add" PROVE InLimits(acc.count)'
  <2> DEFINE n == acc.count
  <2>1. n \in Int /\ InLimits(n) /\ acc'.count = n
    BY <1>1, <1>7 DEF Miscounted, Numbers
  <2> HIDE DEF n
  <2> QED
    BY <1>5, <2>1 DEF InLimits
<1> QED
  BY <1>4, <1>6, <1>7 DEF Miscounted

(* How a step of the server thread moves through its round.                    *)
LEMMA ThreadRound ==
  ASSUME Types, SweepInv, Places, NextSlot("thread"), tpc \notin {"poll", "call", "wait"},
         cl'["thread"].step = "none"
  PROVE  /\ MayStore' = 0
         /\ ThreadDone <= ThreadDone'
         /\ tpc = "closing" /\ Closed = 0 => ThreadDone' = ThreadDone + 1
<1>1. Closed' = 0 /\ Closed \in {0, 1}
  BY DEF Closed
<1>2. /\ tpc' \in {"scan", "test"}
      /\ ti < MAX_CLIENTNUM => tpc' = "scan" /\ ti' = ti + 1
      /\ ti = MAX_CLIENTNUM => tpc' = "test" /\ ti' = ti
  BY ThreadNext
<1>3. ti \in Nat /\ MAX_CLIENTNUM \in Nat /\ ti <= MAX_CLIENTNUM
  BY PcsAreNumbers
<1>4. ThreadDone = ti + Closed /\ ThreadDone' = ti'
  BY <1>1, <1>2, <1>3 DEF ThreadDone
<1>5. MayStore' = 0
  BY <1>2, <1>3 DEF MayStore
<1>6. Closed = 1 => tpc = "closing"
  BY DEF Closed, SweepInv, ThreadCloses
<1>7. tpc = "closing" => ti < MAX_CLIENTNUM
  BY DEF Places
<1> QED
  BY <1>1, <1>2, <1>3, <1>4, <1>5, <1>6, <1>7

LEMMA ClosingThread ==
  ASSUME Types, SweepInv, Places, cl["thread"].step # "none"
  PROVE  tpc = "closing" /\ MayStore = 0 /\ ThreadDone = ti + Closed /\ ti < MAX_CLIENTNUM
  BY DEF SweepInv, ThreadCloses, Places, MayStore, ThreadDone

(* A step of a close that leaves the count alone, and the slots.                  *)
LEMMA OnCount ==
  ASSUME Types, Types', SweepInv, Counted, Miscounted, NEW w \in Threads,
         UNCHANGED <<fd, client_count, mpc, mi, tpc, ti, acc>>,
         \A v \in Threads : v # w => cl'[v] = cl[v],
         cl[w].step # "none",
         \/ /\ cl[w].step = "enter" /\ cl'[w].step = "count" /\ cl'[w].fd = fd[Slot(w)]
         \/ /\ cl[w].step = "count" /\ cl'[w].step = "store" /\ cl'[w].fd = cl[w].fd
            /\ cl'[w].count = client_count
         \/ /\ cl[w].step \in {"shutdown", "close"} /\ cl'[w].step \in {"close", "clear"}
            /\ cl'[w].fd = cl[w].fd,
         Running
  PROVE  Counted' /\ Miscounted'
<1>1. Taken' = Taken /\ Closed' = Closed /\ Added' = Added /\ Busy' = Busy
  BY DEF Taken, Closed, Added, Busy, Threads
<1>2. MainDone' = MainDone /\ ThreadDone' = ThreadDone /\ MayStore' = MayStore
  BY <1>1 DEF MainDone, ThreadDone, MayStore, Threads
<1>3. CASE mpc = "readline"
  <2>1. w = "thread"
    BY <1>3 DEF SweepInv, MainCloses, Threads
  <2>2. Counted'
    BY <1>1, <1>3, <2>1 DEF Counted, Slot
  <2> QED
    BY <1>3, <2>2 DEF Miscounted
<1>4. CASE mpc # "readline"
  <2>1. MainDone <= MainDone' /\ ThreadDone <= ThreadDone' /\ MayStore' <= MayStore
    BY <1>2, TypesNumbers DEF Numbers
  <2>2. \A v \in Threads : cl'[v].step = "store"
          => \/ cl[v].step = "store" /\ cl'[v].count = cl[v].count
             \/ cl'[v].count = client_count
    OBVIOUS
  <2>3. Miscounted'
    BY <1>4, <2>1, <2>2, LimitsKept
  <2> QED
    BY <1>4, <2>3 DEF Counted
<1> QED
  BY <1>3, <1>4

LEMMA ReadsCount ==
  ASSUME Types, Types', SweepInv, Counted, Miscounted, NEW w \in Threads,
         CloseEnter(w) \/ CloseCount(w)
  PROVE  Counted' /\ Miscounted'
<1>1. UNCHANGED <<fd, client_count, mpc, mi, tpc, ti, acc>> /\ Running
  BY DEF CloseEnter, CloseCount, memory, main, thread
<1>2. CASE CloseEnter(w)
  <2>1. /\ cl[w].step = "enter" /\ cl'[w].step = "count" /\ cl'[w].fd = fd[Slot(w)]
        /\ \A v \in Threads : v # w => cl'[v] = cl[v]
    BY <1>2 DEF CloseEnter, Types
  <2> QED
    BY <1>1, <2>1, OnCount
<1>3. CASE CloseCount(w)
  <2>1. /\ cl[w].step = "count" /\ cl'[w].step = "store" /\ cl'[w].fd = cl[w].fd
        /\ cl'[w].count = client_count
        /\ \A v \in Threads : v # w => cl'[v] = cl[v]
    BY <1>3 DEF CloseCount, Types
  <2> QED
    BY <1>1, <2>1, OnCount
<1> QED
  BY <1>2, <1>3

LEMMA EndsCount ==
  ASSUME Types, Types', SweepInv, Counted, Miscounted, NEW w \in Threads,
         CloseShutdown(w) \/ CloseClose(w)
  PROVE  Counted' /\ Miscounted'
<1>1. UNCHANGED <<fd, client_count, mpc, mi, tpc, ti, acc>> /\ Running
  BY DEF CloseShutdown, CloseClose, GoOn, memory, main, thread
<1>2. PICK step \in {"close", "clear"} : GoOn(w, step) /\ step \in Steps
  BY DEF CloseShutdown, CloseClose, Steps
<1>3. /\ cl'[w].step = step /\ cl'[w].fd = cl[w].fd
      /\ \A v \in Threads : v # w => cl'[v] = cl[v]
  BY <1>2, GoOnTypes
<1>4. cl[w].step \in {"shutdown", "close"}
  BY DEF CloseShutdown, CloseClose
<1> QED
  BY <1>1, <1>2, <1>3, <1>4, OnCount

LEMMA StoreCount ==
  ASSUME Types, Types', SweepInv, Places, Counted, Miscounted, NEW w \in Threads,
         CloseStore(w)
  PROVE  Counted' /\ Miscounted'
<1>1. /\ fd' = fd /\ cl[w].step = "store" /\ Running
      /\ client_count' = cl[w].count - 1
  BY DEF CloseStore
<1>2. /\ cl[w].fd = NoFd => Return(w) /\ NextSlot(w)
      /\ cl[w].fd # NoFd => GoOn(w, "shutdown") /\ UNCHANGED <<main, thread>>
  BY DEF CloseStore, Return, GoOn
<1>3. /\ cl'[w].step \in {"none", "shutdown"} /\ \A v \in Threads : v # w => cl'[v] = cl[v]
      /\ cl[w].fd = NoFd => cl'[w].step = "none"
      /\ cl[w].fd # NoFd => cl'[w].step = "shutdown" /\ cl'[w].fd = cl[w].fd
  <2>1. CASE cl[w].fd = NoFd
    BY <1>2, <2>1, ReturnTypes
  <2>2. CASE cl[w].fd # NoFd
    BY <1>2, <2>2, GoOnTypes DEF Steps
  <2> QED
    BY <2>1, <2>2
<1>4. CASE mpc = "readline"
  <2>0. tpc = "closing"
    BY <1>1, <1>4 DEF SweepInv, MainCloses, ThreadCloses, Threads
  <2>1. w = "thread" /\ ti \in Busy /\ fd[ti] = cl[w].fd /\ cl[w].count = client_count
    BY <1>1, <1>4 DEF SweepInv, MainCloses, Counted, Threads
  <2>2. cl[w].fd # NoFd
    BY <2>1, SpecialFds DEF Busy
  <2>3. UNCHANGED <<mpc, tpc, ti>> /\ cl'["thread"].step = "shutdown"
        /\ cl'["thread"].fd = cl["thread"].fd
    BY <1>2, <1>3, <2>1, <2>2 DEF main, thread
  <2>4. Busy' = Busy /\ Taken + Added = 0 /\ Taken' + Added' = 1
    BY <1>1, <2>0, <2>1, <2>3 DEF Busy, Taken, Added
  <2>5. client_count' = Cardinality(Busy) - 1
    <3> DEFINE n == Cardinality(Busy)
    <3>1. n \in Nat /\ client_count = n - (Taken + Added)
      BY <1>4, BusySlots DEF Counted
    <3> HIDE DEF n
    <3>2. client_count' = n - 1
      BY <1>1, <2>1, <2>4, <3>1
    <3> QED
      BY <3>2 DEF n
  <2>6. Counted'
    BY <1>1, <1>4, <2>0, <2>1, <2>3, <2>4, <2>5 DEF Counted
  <2> QED
    BY <1>4, <2>3, <2>6 DEF Miscounted
<1>5. CASE mpc # "readline" /\ w = "main"
  <2>1. mpc = "closing" /\ mi > 0 /\ MainDone = mi - 1
    BY <1>1, <1>5 DEF SweepInv, MainCloses, Running, Places, MainDone
  <2>2. mpc' # "readline" /\ UNCHANGED <<tpc, ti, acc>> /\ MainDone' = mi
    <3>1. CASE cl[w].fd = NoFd
      <4>1. NextSlot("main")
        BY <1>2, <1>5, <3>1
      <4> QED
        BY <4>1, MainNext, PcsAreNumbers DEF MainDone
    <3>2. CASE cl[w].fd # NoFd
      <4>1. UNCHANGED <<mpc, mi, tpc, ti, acc>> /\ cl'["main"].step = "shutdown"
        BY <1>2, <1>3, <1>5, <3>2 DEF main, thread
      <4> QED
        BY <2>1, <4>1 DEF MainDone
    <3> QED
      BY <3>1, <3>2
  <2>3. MainDone' = MainDone + 1
    BY <2>1, <2>2, PcsAreNumbers
  <2>4. cl'["thread"] = cl["thread"]
    BY <1>3, <1>5 DEF Threads
  <2>5. ThreadDone' = ThreadDone /\ MayStore' = MayStore
    BY <2>2, <2>4 DEF ThreadDone, MayStore, Closed
  <2>6. MayStore' <= MayStore
    BY <2>5, TypesNumbers DEF Numbers
  <2>7. \A v \in Threads : cl'[v].step = "store"
                              => cl[v].step = "store" /\ cl'[v].count = cl[v].count
    BY <1>3
  <2>8. Miscounted'
    BY <1>1, <1>5, <2>2, <2>3, <2>5, <2>6, <2>7, LimitsTaken
  <2> QED
    BY <2>2, <2>8 DEF Counted
<1>6. CASE mpc # "readline" /\ w = "thread"
  <2>1. tpc = "closing" /\ MayStore = 0 /\ ThreadDone = ti + Closed
        /\ ti < MAX_CLIENTNUM /\ Closed = 0
    BY <1>1, <1>6, ClosingThread DEF Closed
  <2>2. UNCHANGED <<mpc, mi>> /\ ThreadDone' = ThreadDone + 1 /\ MayStore' = 0
        /\ tpc' # "add"
    <3>1. CASE cl[w].fd = NoFd
      <4>1. NextSlot("thread") /\ cl'["thread"].step = "none"
        BY <1>2, <1>3, <1>6, <3>1
      <4> QED
        BY <2>1, <4>1, ThreadRound, ThreadNext
    <3>2. CASE cl[w].fd # NoFd
      <4>1. UNCHANGED <<mpc, mi, tpc, ti>> /\ cl'["thread"].step = "shutdown"
        BY <1>2, <1>3, <1>6, <3>2 DEF main, thread
      <4>2. Closed' = 1
        BY <4>1 DEF Closed
      <4> QED
        BY <2>1, <4>1, <4>2, PcsAreNumbers DEF ThreadDone, MayStore
    <3> QED
      BY <3>1, <3>2
  <2>3. cl'["main"] = cl["main"]
    BY <1>3, <1>6 DEF Threads
  <2>4. MainDone' = MainDone
    BY <2>2, <2>3 DEF MainDone
  <2>5. MayStore' <= MayStore
    BY <2>1, <2>2
  <2>6. \A v \in Threads : cl'[v].step = "store"
                              => cl[v].step = "store" /\ cl'[v].count = cl[v].count
    BY <1>3
  <2>7. Miscounted'
    BY <1>1, <1>6, <2>2, <2>4, <2>5, <2>6, LimitsTaken
  <2> QED
    BY <1>6, <2>2, <2>7 DEF Counted
<1> QED
  BY <1>4, <1>5, <1>6 DEF Threads

LEMMA ClearCount ==
  ASSUME Types, Types', SweepInv, Counted, Miscounted, NEW w \in Threads, CloseClear(w)
  PROVE  Counted' /\ Miscounted'
<1>1. /\ fd' = [fd EXCEPT ![Slot(w)] = NoFd] /\ cl[w].step = "clear" /\ Running
      /\ GoOn(w, "reset") /\ UNCHANGED <<client_count, mpc, mi, tpc, ti, acc>>
  BY DEF CloseClear, GoOn, main, thread
<1>2. cl'[w].step = "reset" /\ \A v \in Threads : v # w => cl'[v] = cl[v]
  BY <1>1, GoOnTypes DEF Steps
<1>3. CASE mpc = "readline"
  <2>1. w = "thread" /\ ti \in Busy /\ tpc = "closing"
    BY <1>1, <1>3 DEF SweepInv, MainCloses, ThreadCloses, Counted, Threads
  <2>2. Taken + Added = 1 /\ Taken' + Added' = 0
    BY <1>1, <1>2, <2>1 DEF Taken, Added
  <2>3. Busy' = Busy \ {ti}
    BY <1>1, <2>1, SpecialFds, SlotsAreNumbers DEF Busy, Slot, Types
  <2>4. client_count' = Cardinality(Busy') - (Taken' + Added')
    <3> DEFINE n == Cardinality(Busy)
               m == Cardinality(Busy')
               h == Taken' + Added'
    <3>1. m = n - 1
      BY <2>1, <2>3, BusySlots, FS_RemoveElement
    <3>2. n \in Nat /\ client_count = n - (Taken + Added) /\ h = 0
      BY <1>3, <2>2, BusySlots DEF Counted
    <3> HIDE DEF n, m, h
    <3>3. client_count' = m - h
      BY <1>1, <2>2, <3>1, <3>2
    <3> QED
      BY <3>3 DEF m, h
  <2>5. fd'[MAX_CLIENTNUM] = StdinFd
    <3>1. ti \in 1 .. MAX_CLIENTNUM - 1
      BY <2>1 DEF Busy
    <3>2. MAX_CLIENTNUM # ti /\ MAX_CLIENTNUM \in Slots
      BY <3>1, SlotsAreNumbers
    <3> QED
      BY <1>1, <1>3, <2>1, <3>2 DEF Counted, Slot, Types
  <2>6. cl'["thread"].step = "reset"
    BY <1>2, <2>1
  <2> QED
    BY <1>1, <1>3, <2>1, <2>4, <2>5, <2>6 DEF Counted, Miscounted
<1>4. CASE mpc # "readline"
  <2>1. Closed' = Closed
    BY <1>1, <1>2 DEF Closed, Threads
  <2>2. MainDone' = MainDone /\ ThreadDone' = ThreadDone /\ MayStore' = MayStore
    BY <1>1, <1>2, <2>1 DEF MainDone, ThreadDone, MayStore, Threads
  <2>3. MainDone <= MainDone' /\ ThreadDone <= ThreadDone' /\ MayStore' <= MayStore
    BY <2>2, TypesNumbers DEF Numbers
  <2>4. \A v \in Threads : cl'[v].step = "store"
                              => cl[v].step = "store" /\ cl'[v].count = cl[v].count
    BY <1>2
  <2>5. Miscounted'
    BY <1>1, <1>4, <2>3, <2>4, LimitsKept
  <2> QED
    BY <1>1, <1>4, <2>5 DEF Counted
<1> QED
  BY <1>3, <1>4

LEMMA ResetCount ==
  ASSUME Types, Types', SweepInv, Places, Counted, Miscounted, NEW w \in Threads,
         CloseReset(w)
  PROVE  Counted' /\ Miscounted'
<1>1. /\ UNCHANGED <<fd, client_count>> /\ cl[w].step = "reset" /\ Running
      /\ Return(w) /\ NextSlot(w)
  BY DEF CloseReset, Return
<1>2. cl'[w].step = "none" /\ \A v \in Threads : v # w => cl'[v] = cl[v]
  BY <1>1, ReturnTypes
<1>3. \A v \in Threads : cl'[v].step = "store"
                            => cl[v].step = "store" /\ cl'[v].count = cl[v].count
  BY <1>2
<1>4. CASE mpc = "readline"
  <2>1. w = "thread" /\ tpc = "closing"
    BY <1>1, <1>4 DEF SweepInv, MainCloses, ThreadCloses, Threads
  <2>2. mpc' = mpc /\ tpc' \in {"scan", "test"} /\ cl'["thread"].step = "none"
    BY <1>1, <1>2, <2>1, ThreadNext
  <2>3. Taken' = Taken /\ Added' = Added /\ Busy' = Busy
    BY <1>1, <2>1, <2>2 DEF Taken, Added, Busy
  <2> QED
    BY <1>1, <1>4, <2>2, <2>3 DEF Counted, Miscounted
<1>5. CASE mpc # "readline" /\ w = "main"
  <2>1. mpc = "closing" /\ MainDone = mi
    BY <1>1, <1>5 DEF SweepInv, MainCloses, Running, MainDone
  <2>2. mpc' # "readline" /\ UNCHANGED <<tpc, ti, acc>> /\ MainDone' = mi
    BY <1>1, <1>5, MainNext, PcsAreNumbers DEF MainDone
  <2>3. cl'["thread"] = cl["thread"]
    BY <1>2, <1>5 DEF Threads
  <2>4. ThreadDone' = ThreadDone /\ MayStore' = MayStore
    BY <2>2, <2>3 DEF ThreadDone, MayStore, Closed
  <2>5. MainDone <= MainDone' /\ ThreadDone <= ThreadDone' /\ MayStore' <= MayStore
    BY <2>1, <2>2, <2>4, TypesNumbers DEF Numbers
  <2>6. Miscounted'
    BY <1>1, <1>3, <1>5, <2>2, <2>5, LimitsKept
  <2> QED
    BY <2>2, <2>6 DEF Counted
<1>6. CASE mpc # "readline" /\ w = "thread"
  <2>1. tpc = "closing" /\ MayStore = 0
    BY <1>1, <1>6, ClosingThread
  <2>2. cl'["main"] = cl["main"] /\ cl'["thread"].step = "none"
    BY <1>2, <1>6 DEF Threads
  <2>3. UNCHANGED <<mpc, mi>> /\ MayStore' = 0 /\ ThreadDone <= ThreadDone'
        /\ tpc' \in {"scan", "test"}
    BY <1>1, <1>6, <2>1, <2>2, ThreadNext, ThreadRound
  <2>4. MainDone <= MainDone'
    <3>1. MainDone' = MainDone
      BY <2>2, <2>3 DEF MainDone
    <3> QED
      BY <3>1, TypesNumbers DEF Numbers
  <2>5. MayStore' <= MayStore
    BY <2>1, <2>3
  <2>6. Miscounted'
    BY <1>1, <1>3, <1>6, <2>3, <2>4, <2>5, LimitsKept
  <2> QED
    BY <1>6, <2>3, <2>6 DEF Counted
<1> QED
  BY <1>4, <1>5, <1>6 DEF Threads

LEMMA CloseStepCount ==
  ASSUME Types, Types', SweepInv, Places, Counted, Miscounted, NEW w \in Threads,
         CloseStep(w)
  PROVE  Counted' /\ Miscounted'
  BY ReadsCount, StoreCount, EndsCount, ClearCount, ResetCount DEF CloseStep

(* The steps of the clients and of main that are no close.                      *)
LEMMA MainCount ==
  ASSUME Types, Types', SweepInv, Places, Counted, Miscounted,
         \/ \E c \in Conns : Connect(c) \/ SendText(c) \/ Leave(c)
         \/ Interrupt
         \/ \E line \in {"exit", "send", "status"} : ReadLine(line)
         \/ Sweep \/ SendShutdown \/ EndOfMain
  PROVE  Counted' /\ Miscounted'
<1>1. MAX_CLIENTNUM \in Nat /\ 1 <= MAX_CLIENTNUM /\ Numbers /\ Numbers'
  BY PcsAreNumbers, TypesNumbers, TypesNumbersNext
<1>2. ASSUME NEW c \in Conns, Connect(c) \/ SendText(c) \/ Leave(c)
      PROVE  Counted' /\ Miscounted'
  <2>1. UNCHANGED <<fd, client_count, mpc, mi, tpc, ti, acc, cl>>
    BY <1>2 DEF Connect, SendText, Leave, memory, main, thread
  <2> QED
    BY <2>1 DEF Counted, Miscounted, InLimits, MainDone, ThreadDone, MayStore, Closed, Taken,
                Added, Busy
<1>3. CASE Interrupt
  <2>1. /\ UNCHANGED <<fd, client_count, mpc, ti, acc, cl>> /\ mpc = "readline"
        /\ tpc' = tpc \/ (tpc = "wait" /\ tpc' = "test")
    BY <1>3 DEF Interrupt, main
  <2> QED
    BY <2>1 DEF Counted, Miscounted, Taken, Added, Busy
<1>4. ASSUME NEW line, ReadLine(line) PROVE Counted' /\ Miscounted'
  <2>1. UNCHANGED <<fd, client_count, tpc, ti, acc, cl>> /\ mpc = "readline"
    BY <1>4 DEF ReadLine, thread
  <2>2. CASE mpc' = "readline"
    BY <2>1, <2>2 DEF Counted, Miscounted, Taken, Added, Busy
  <2>3. CASE mpc' # "readline"
    <3>1. (mpc' = "sweep" /\ mi' = 1) \/ mpc' = "crashed"
      BY <1>4, <2>3 DEF ReadLine, FirstSwept
    <3>2. 0 <= MainDone'
      BY <1>1, <3>1 DEF MainDone
    <3>3. Miscounted'
      BY <2>1, <2>3, <3>2, ExitBegins
    <3> QED
      BY <2>3, <3>3 DEF Counted
  <2> QED
    BY <2>2, <2>3
<1>5. CASE Sweep \/ SendShutdown
  <2>1. /\ UNCHANGED <<client_count, mi, tpc, ti, acc>>
        /\ mpc \in {"sweep", "send"} /\ cl'["thread"] = cl["thread"]
        /\ cl' # cl => cl'["main"].step = "enter"
        /\ mpc' \in {"send", "crashed"} \/ (mpc' = "closing" /\ cl'["main"].step = "enter")
    BY <1>5 DEF Sweep, SendShutdown, Call, memory, thread, Types, Threads, Record
  <2>2. MainDone = mi - 1 /\ (MainDone' = mi - 1 \/ MainDone' = MAX_CLIENTNUM)
    BY <2>1 DEF MainDone
  <2>3. MainDone <= MainDone'
    BY <1>1, <2>2, PcsAreNumbers
  <2>4. ThreadDone' = ThreadDone /\ MayStore' = MayStore
    BY <2>1 DEF ThreadDone, MayStore, Closed
  <2>5. ThreadDone <= ThreadDone' /\ MayStore' <= MayStore
    BY <1>1, <2>4 DEF Numbers
  <2>6. \A v \in Threads : cl'[v].step = "store"
                              => cl[v].step = "store" /\ cl'[v].count = cl[v].count
    BY <2>1 DEF Threads
  <2>7. Miscounted'
    BY <2>1, <2>3, <2>5, <2>6, LimitsKept
  <2> QED
    BY <2>1, <2>7 DEF Counted
<1>6. CASE EndOfMain
  <2>1. /\ client_count' \in {client_count, 0} /\ UNCHANGED <<tpc, ti, acc, cl>>
        /\ mpc \in {"zero", "socket", "forget", "first", "last", "join"}
        /\ mpc' \in {"socket", "forget", "first", "last", "join", "done", "crashed"}
    BY <1>6, EndOfMainStep
  <2>2. MainDone = MAX_CLIENTNUM /\ MainDone' = MAX_CLIENTNUM
    BY <2>1 DEF MainDone
  <2>3. ThreadDone' = ThreadDone /\ MayStore' = MayStore
    BY <2>1 DEF ThreadDone, MayStore, Closed
  <2>5. InLimits(0)
    <3>1. ThreadDone \in Int /\ 0 <= ThreadDone /\ MayStore \in {0, 1}
      BY <1>1 DEF Numbers
    <3> DEFINE d == ThreadDone
               s == MayStore
    <3> HIDE DEF d, s
    <3>2. -(MAX_CLIENTNUM + d) <= 0 /\ 0 + s <= MAX_CLIENTNUM
      BY <1>1, <3>1 DEF d, s
    <3> QED
      BY <2>2, <3>2 DEF InLimits, d, s
  <2>6. InLimits(client_count)'
    <3>1. CASE client_count' = 0
      BY <2>2, <2>3, <2>5, <3>1 DEF InLimits
    <3>2. CASE client_count' = client_count
      BY <2>1, <2>2, <2>3, <3>2 DEF Miscounted, InLimits
    <3> QED
      BY <2>1, <3>1, <3>2
  <2>7. /\ \A w \in Threads : cl'[w].step = "store" => InLimits(cl[w].count)'
        /\ tpc' = "add" => InLimits(acc.count)'
    BY <2>1, <2>2, <2>3 DEF Miscounted, InLimits
  <2> QED
    BY <2>1, <2>6, <2>7 DEF Miscounted, Counted
<1> QED
  BY <1>2, <1>3, <1>4, <1>5, <1>6

(* A step of the thread that closes nothing and stores nothing.                 *)
LEMMA QuietCount ==
  ASSUME Types, Types', Counted, Miscounted,
         fd' = fd, client_count' = client_count, mpc' = mpc, mi' = mi,
         cl'["main"] = cl["main"], cl["thread"].step = "none",
         cl'["thread"].step \in {"none", "enter"},
         tpc \notin {"load", "add"}, tpc' \notin {"load", "add"},
         mpc = "readline" /\ cl'["thread"].step = "enter" => ti' \in Busy,
         mpc # "readline" => ThreadDone <= ThreadDone' /\ MayStore' <= MayStore
  PROVE  Counted' /\ Miscounted'
<1>1. /\ Taken = 0 /\ Taken' = 0 /\ Added = 0 /\ Added' = 0 /\ Busy' = Busy
  BY DEF Taken, Added, Busy
<1>2. CASE mpc = "readline"
  BY <1>1, <1>2 DEF Counted, Miscounted
<1>3. CASE mpc # "readline"
  <2>1. MainDone' = MainDone
    BY DEF MainDone
  <2>2. MainDone <= MainDone'
    BY <2>1, TypesNumbers DEF Numbers
  <2>3. \A v \in Threads : cl'[v].step = "store"
                              => cl[v].step = "store" /\ cl'[v].count = cl[v].count
    BY DEF Threads
  <2>4. Miscounted'
    BY <1>3, <2>2, <2>3, LimitsKept
  <2> QED
    BY <1>3, <2>4 DEF Counted
<1> QED
  BY <1>2, <1>3

(* A client is stored, and added to the value the count had when it was read.       *)
LEMMA AcceptsCount ==
  ASSUME Types, Types', RestTypes, SweepInv, Places, Counted, Miscounted,
         (\E c \in Conns, f \in ClientFds : Accept(c, f)) \/ CheckLimit \/ Search
  PROVE  Counted' /\ Miscounted'
<1>1. UNCHANGED <<fd, client_count, cl>> /\ tpc \in {"scan", "limit", "search"}
  BY DEF Accept, CheckLimit, Search, AtSlot, memory
<1>2. cl["thread"].step = "none" /\ Closed = 0 /\ Closed' = 0
  BY <1>1 DEF SweepInv, ThreadCloses, Closed
<1>3. ti = 0 /\ MayStore = 1
  <2>1. ASSUME NEW c \in Conns, NEW f \in ClientFds, Accept(c, f) PROVE ti = 0
    <3>1. fd[ti] = ServerFd
      BY <2>1 DEF Accept, RestTypes
    <3> QED
      BY <3>1 DEF Places, Types
  <2> QED
    BY <1>1, <2>1 DEF CheckLimit, Search, Places, MayStore
<1>4. CASE NextSlot("thread")
  <2>1. UNCHANGED <<mpc, mi>> /\ tpc' \notin {"load", "add"}
    BY <1>4, ThreadNext
  <2>2. ThreadDone <= ThreadDone' /\ MayStore' = 0
    BY <1>1, <1>2, <1>4, ThreadRound
  <2> QED
    BY <1>1, <1>2, <1>3, <2>1, <2>2, QuietCount
<1>5. CASE ~NextSlot("thread")
  <2>1. UNCHANGED <<mpc, mi, ti>> /\ tpc' \in {"limit", "search", "put"}
    BY <1>1, <1>5 DEF Accept, CheckLimit, Search, main
  <2>2. ThreadDone' = ThreadDone /\ MayStore' = 1
    BY <1>1, <1>2, <2>1 DEF ThreadDone, MayStore
  <2>3. ThreadDone <= ThreadDone' /\ MayStore' <= MayStore
    BY <1>3, <2>2, TypesNumbers DEF Numbers
  <2> QED
    BY <1>1, <1>2, <2>1, <2>3, QuietCount
<1> QED
  BY <1>4, <1>5

LEMMA PutCount ==
  ASSUME Types, Types', SweepInv, Accepting, Places, Counted, Miscounted, Put \/ LoadCount
  PROVE  Counted' /\ Miscounted'
<1>1. /\ UNCHANGED <<client_count, cl, mpc, mi, ti>> /\ tpc \in {"put", "load"}
      /\ tpc' \in {"load", "add"}
  BY DEF Put, LoadCount, memory, main
<1>2. cl["thread"].step = "none"
  BY <1>1 DEF SweepInv, ThreadCloses
<1>3. CASE mpc = "readline" /\ Put
  <2> DEFINE i == acc.slot
  <2>1. /\ fd' = [fd EXCEPT ![i] = tfd] /\ fd[i] = NoFd /\ tfd \in ClientFds /\ i # 0
        /\ tpc = "put" /\ tpc' = "load" /\ acc' = acc /\ i \in Slots
    BY <1>3 DEF Put, Accepting, Types
  <2>2. i # MAX_CLIENTNUM
    BY <1>3, <2>1, SpecialFds DEF Counted
  <2>3. i \in 1 .. MAX_CLIENTNUM - 1
    BY <2>1, <2>2, SlotsAreNumbers
  <2>4. i \notin Busy /\ Busy' = Busy \cup {i}
    BY <2>1, <2>3, SpecialFds, SlotsAreNumbers DEF Busy, Types
  <2>5. Taken = 0 /\ Taken' = 0 /\ Added = 0 /\ Added' = 1
    BY <1>1, <1>2, <2>1 DEF Taken, Added
  <2>6. client_count' = Cardinality(Busy') - (Taken' + Added')
    <3> DEFINE n == Cardinality(Busy)
               m == Cardinality(Busy')
               h == Taken' + Added'
    <3>1. m = n + 1
      BY <2>4, BusySlots, FS_AddElement
    <3>2. n \in Nat /\ client_count = n - (Taken + Added) /\ h = 1
      BY <1>3, <2>5, BusySlots DEF Counted
    <3> HIDE DEF n, m, h
    <3>3. client_count' = m - h
      BY <1>1, <2>5, <3>1, <3>2
    <3> QED
      BY <3>3 DEF m, h
  <2>7. fd'[MAX_CLIENTNUM] = StdinFd
    BY <1>3, <2>1, <2>2, SlotsAreNumbers DEF Counted, Types
  <2> QED
    BY <1>1, <1>2, <1>3, <2>1, <2>4, <2>6, <2>7 DEF Counted, Miscounted
<1>4. CASE mpc = "readline" /\ LoadCount
  <2>1. /\ fd' = fd /\ tpc = "load" /\ tpc' = "add" /\ acc'.slot = acc.slot
        /\ acc'.count = client_count
    BY <1>4 DEF LoadCount, memory, Types
  <2>2. Taken' = Taken /\ Added' = Added /\ Busy' = Busy
    BY <1>1, <2>1 DEF Taken, Added, Busy
  <2> QED
    BY <1>1, <1>2, <1>4, <2>1, <2>2 DEF Counted, Miscounted
<1>5. CASE mpc # "readline"
  <2>1. MainDone' = MainDone /\ ThreadDone' = ThreadDone /\ MayStore' = MayStore
    BY <1>1 DEF MainDone, ThreadDone, MayStore, Closed
  <2>2. MainDone <= MainDone' /\ ThreadDone <= ThreadDone' /\ MayStore' <= MayStore
    BY <2>1, TypesNumbers DEF Numbers
  <2>3. tpc' = "add" => acc'.count = client_count
    BY DEF Put, LoadCount, Types
  <2>4. Miscounted'
    BY <1>1, <1>5, <2>2, <2>3, LimitsKept
  <2> QED
    BY <1>1, <1>5, <2>4 DEF Counted
<1> QED
  BY <1>3, <1>4, <1>5

LEMMA AddCount ==
  ASSUME Types, Types', SweepInv, Places, Counted, Miscounted, AddOne
  PROVE  Counted' /\ Miscounted'
<1>1. /\ fd' = fd /\ cl' = cl /\ tpc = "add" /\ client_count' = acc.count + 1
      /\ NextSlot("thread")
  BY DEF AddOne
<1>2. /\ UNCHANGED <<mpc, mi>> /\ cl["thread"].step = "none" /\ tpc' \in {"scan", "test"}
  BY <1>1, ThreadNext DEF SweepInv, ThreadCloses
<1>3. CASE mpc = "readline"
  <2>1. Taken = 0 /\ Taken' = 0 /\ Added = 1 /\ Added' = 0 /\ Busy' = Busy
    BY <1>1, <1>2 DEF Taken, Added, Busy
  <2>2. client_count' = Cardinality(Busy') - (Taken' + Added')
    <3> DEFINE n == Cardinality(Busy)
               h == Taken' + Added'
    <3>1. n \in Nat /\ client_count = n - 1 /\ acc.count = client_count /\ h = 0
      BY <1>1, <1>3, <2>1, BusySlots DEF Counted
    <3> HIDE DEF n, h
    <3>2. client_count' = n - h
      BY <1>1, <3>1
    <3> QED
      BY <2>1, <3>2 DEF n, h
  <2> QED
    BY <1>1, <1>2, <1>3, <2>1, <2>2 DEF Counted, Miscounted
<1>4. CASE mpc # "readline"
  <2>1. MainDone' = MainDone
    BY <1>1, <1>2 DEF MainDone
  <2>2. ThreadDone <= ThreadDone' /\ MayStore = 1 /\ MayStore' = 0
    BY <1>1, <1>2, ThreadRound DEF MayStore
  <2>3. Numbers /\ Numbers' /\ MAX_CLIENTNUM \in Nat
    BY TypesNumbers, TypesNumbersNext, PcsAreNumbers
  <2>4. ASSUME NEW n \in Int, InLimits(n)
        PROVE  /\ -(MainDone' + ThreadDone') <= n
               /\ -(MainDone' + ThreadDone') <= n + 1
               /\ n + MayStore' <= MAX_CLIENTNUM /\ n + 1 + MayStore' <= MAX_CLIENTNUM
    <3> DEFINE d == MainDone
               e == ThreadDone
               x == ThreadDone'
    <3>1. d \in Int /\ e \in Int
      BY <2>3 DEF Numbers
    <3>2. x \in Int
      BY <2>3 DEF Numbers
    <3>3. e <= x
      BY <2>2
    <3>4. -(d + e) <= n /\ n + 1 <= MAX_CLIENTNUM
      BY <2>2, <2>4 DEF InLimits
    <3> HIDE DEF d, e, x
    <3>5. /\ -(d + x) <= n /\ -(d + x) <= n + 1
          /\ n + 0 <= MAX_CLIENTNUM /\ n + 1 + 0 <= MAX_CLIENTNUM
      BY <2>3, <3>1, <3>2, <3>3, <3>4
    <3> QED
      BY <2>1, <2>2, <3>5 DEF d, x
  <2>5. InLimits(client_count)'
    <3> DEFINE n == acc.count
    <3>1. n \in Int /\ InLimits(n) /\ client_count' = n + 1
      BY <1>1, <1>4, <2>3 DEF Miscounted, Numbers
    <3> HIDE DEF n
    <3> QED
      BY <2>4, <3>1 DEF InLimits
  <2>6. ASSUME NEW w \in Threads, cl'[w].step = "store" PROVE InLimits(cl[w].count)'
    <3> DEFINE n == cl[w].count
    <3>1. n \in Int /\ InLimits(n) /\ cl'[w].count = n
      BY <1>1, <1>4, <2>3, <2>6 DEF Miscounted, Numbers
    <3> HIDE DEF n
    <3> QED
      BY <2>4, <3>1 DEF InLimits
  <2> QED
    BY <1>2, <1>4, <2>5, <2>6 DEF Miscounted, Counted
<1> QED
  BY <1>3, <1>4

LEMMA EventCount ==
  ASSUME Types, Types', RestTypes, SweepInv, Accepting, Places, Counted, Miscounted,
         ServerEvents
  PROVE  Counted' /\ Miscounted'
  BY AcceptsCount, PutCount, AddCount DEF ServerEvents

LEMMA ThreadCount ==
  ASSUME Types, Types', RestTypes, SweepInv, Places, Counted, Miscounted,
         \/ TestFlag \/ PollCount \/ PollFails \/ PollCall \/ PollReturn
         \/ ReadText \/ Disconnect \/ PassSlot \/ Answer
  PROVE  Counted' /\ Miscounted'
<1>1. MAX_CLIENTNUM \in Nat /\ 1 <= MAX_CLIENTNUM /\ Numbers /\ Numbers' /\ ti \in Nat
  BY PcsAreNumbers, TypesNumbers, TypesNumbersNext
<1>2. /\ Running /\ fd' = fd /\ client_count' = client_count
      /\ tpc \in {"test", "poll", "call", "wait", "scan", "fetch"}
  BY DEF TestFlag, PollCount, PollFails, PollCall, PollReturn, ReadText, AtClient, AtSlot,
         Disconnect, PassSlot, Answer, memory
<1>3. cl["thread"].step = "none" /\ Closed = 0
  BY <1>2 DEF SweepInv, ThreadCloses, Closed
<1>4. mpc # "readline" => exitflag
  BY <1>2 DEF Running, Places
<1>5. CASE TestFlag \/ PollCount \/ PollFails \/ PollCall \/ PollReturn
  <2>1. /\ UNCHANGED <<mpc, mi, cl>> /\ tpc' \notin {"load", "add"}
    BY <1>5 DEF TestFlag, PollCount, PollFails, PollCall, PollReturn, main
  <2>2. Closed' = 0
    BY <1>3, <2>1 DEF Closed
  <2>3. mpc # "readline" => ThreadDone <= ThreadDone' /\ MayStore' <= MayStore
    <3>1. TestFlag /\ exitflag => tpc = "test" /\ tpc' = "ended" /\ ti' = ti
      BY DEF TestFlag
    <3>2. PollCount => tpc = "poll" /\ tpc' = "call"
      BY DEF PollCount
    <3>3. PollFails => tpc = "call" /\ tpc' = "test" /\ ti' = ti
      BY DEF PollFails
    <3>4. PollCall => tpc = "call" /\ tpc' = "wait"
      BY DEF PollCall
    <3>5. PollReturn => tpc = "wait" /\ tpc' = "scan" /\ ti' = 0
      BY DEF PollReturn
    <3> QED
      BY <1>1, <1>3, <1>4, <1>5, <2>2, <3>1, <3>2, <3>3, <3>4, <3>5 DEF ThreadDone, MayStore
  <2> QED
    BY <1>2, <1>3, <2>1, <2>3, QuietCount
<1>6. CASE ReadText \/ Disconnect
  <2>1. /\ UNCHANGED <<mpc, mi, ti>> /\ tpc = "scan" /\ tpc' \in {"fetch", "closing"}
        /\ OwnerOf(fd[ti]) # NoConn /\ ti < MAX_CLIENTNUM
    BY <1>6 DEF ReadText, Disconnect, AtClient, AtSlot, main
  <2>2. cl'["main"] = cl["main"] /\ cl'["thread"].step \in {"none", "enter"}
    BY <1>3, <1>6 DEF ReadText, Disconnect, Call, Types, Record, Threads
  <2>3. ti \in Busy
    <3>1. fd[ti] \in ClientFds
      BY <2>1, OwnerIsConn
    <3>2. ti # 0
      BY <3>1 DEF SweepInv, ListenerSlot
    <3> QED
      BY <1>1, <2>1, <3>1, <3>2 DEF Busy
  <2>4. Closed' = 0
    BY <2>2 DEF Closed
  <2>5. ThreadDone' = ThreadDone /\ MayStore' = 0
    BY <1>3, <2>1, <2>4 DEF ThreadDone, MayStore
  <2>6. ThreadDone <= ThreadDone' /\ MayStore' <= MayStore
    BY <1>1, <2>5 DEF Numbers
  <2>7. ti' \in Busy
    BY <2>1, <2>3
  <2> QED
    BY <1>2, <1>3, <2>1, <2>2, <2>6, <2>7, QuietCount
<1>7. CASE PassSlot \/ (Answer /\ NextSlot("thread"))
  <2>1. NextSlot("thread") /\ cl' = cl /\ tpc \in {"scan", "fetch"}
    BY <1>7 DEF PassSlot, AtSlot, Answer
  <2>2. UNCHANGED <<mpc, mi>> /\ tpc' \notin {"load", "add"}
    BY <2>1, ThreadNext
  <2>3. ThreadDone <= ThreadDone' /\ MayStore' = 0
    BY <1>3, <2>1, ThreadRound
  <2>4. MayStore' <= MayStore
    BY <1>1, <2>3 DEF Numbers
  <2> QED
    BY <1>2, <1>3, <2>1, <2>2, <2>3, <2>4, QuietCount
<1>8. CASE Answer /\ ~NextSlot("thread")
  <2>1. mpc' = "crashed" /\ UNCHANGED <<mi, tpc, ti, acc, cl>>
    BY <1>8 DEF Answer, thread
  <2>2. MainDone' = MAX_CLIENTNUM
    BY <2>1 DEF MainDone
  <2>3. ThreadDone' = ThreadDone /\ MayStore' = MayStore
    BY <2>1 DEF ThreadDone, MayStore, Closed
  <2>4. CASE mpc = "readline"
    <3>1. 0 <= MainDone'
      BY <1>1, <2>2
    <3>2. Miscounted'
      BY <1>2, <2>1, <2>4, <3>1, ExitBegins
    <3> QED
      BY <2>1, <3>2 DEF Counted
  <2>5. CASE mpc # "readline"
    <3>1. MainDone <= MainDone' /\ ThreadDone <= ThreadDone' /\ MayStore' <= MayStore
      BY <1>1, <2>2, <2>3 DEF Numbers
    <3>2. Miscounted'
      BY <1>2, <2>1, <2>5, <3>1, LimitsKept
    <3> QED
      BY <2>1, <3>2 DEF Counted
  <2> QED
    BY <2>4, <2>5
<1> QED
  BY <1>5, <1>6, <1>7, <1>8

LEMMA InitCount == Init => Counted /\ Miscounted /\ CountsRead
<1> SUFFICES ASSUME Init PROVE Counted /\ Miscounted /\ CountsRead
  OBVIOUS
<1>1. PICK outcome \in InitOutcomes :
        /\ tpc = IF outcome = "ok" THEN "test" ELSE "none"
        /\ fd = [i \in Slots |->
                IF ~(outcome \in {"ok", "users"}) \/ i = MAX_CLIENTNUM THEN StdinFd
                ELSE IF i = 0 THEN ServerFd ELSE NoFd]
  BY Zenon DEF Init
<1>2. Busy = {}
  <2>1. \A i \in 1 .. MAX_CLIENTNUM - 1 : i \in Slots
    BY SlotsAreNumbers
  <2> QED
    BY <1>1, <2>1, SpecialFds DEF Busy
<1>3. /\ mpc = "readline" /\ client_count = 0 /\ polled.n = -1 /\ acc.count = 0
      /\ cl["thread"].step = "none" /\ tpc \in {"test", "none"}
  BY <1>1 DEF Init, Inactive, NotPolled, NoSearch, Threads
<1>4. Taken = 0 /\ Added = 0 /\ Cardinality(Busy) = 0
  BY <1>2, <1>3, FS_EmptySet DEF Taken, Added
<1>5. fd[MAX_CLIENTNUM] = StdinFd
  BY <1>1, SlotsAreNumbers
<1>6. CountsRead
  BY <1>3, SlotsAreNumbers DEF CountsRead
<1> QED
  BY <1>3, <1>4, <1>5, <1>6 DEF Counted, Miscounted

LEMMA NextCountsRead ==
  Types /\ RestTypes /\ SweepInv /\ Places /\ Counted /\ Miscounted /\ CountsRead
    /\ [Next]_vars => CountsRead'
<1> SUFFICES ASSUME Types, RestTypes, SweepInv, Places, Counted, Miscounted, CountsRead,
                    [Next]_vars
             PROVE  CountsRead'
  OBVIOUS
<1>1. client_count \in -(2 * MAX_CLIENTNUM) .. MAX_CLIENTNUM
  BY CountRange
<1>2. CASE UNCHANGED <<polled, acc>>
  BY <1>2 DEF CountsRead
<1>3. ASSUME UNCHANGED polled, acc' \in {acc, NoSearch} PROVE CountsRead'
  BY <1>3, PcsAreNumbers DEF CountsRead, NoSearch
<1>4. ASSUME NEW w \in Threads, NextSlot(w) PROVE CountsRead'
  BY <1>3, <1>4, MainNext, ThreadNext DEF Threads
<1>5. ASSUME NEW w \in Threads, CloseStep(w) PROVE CountsRead'
  <2>1. UNCHANGED thread \/ NextSlot(w)
    BY <1>5 DEF CloseStep, CloseEnter, CloseCount, CloseStore, CloseShutdown, CloseClose,
                CloseClear, CloseReset, GoOn, Return
  <2> QED
    BY <1>2, <1>4, <2>1 DEF thread
<1>6. CASE PollCount
  BY <1>1, <1>6 DEF PollCount, CountsRead, RestTypes
<1>7. CASE PollFails \/ PollReturn
  BY <1>7, PcsAreNumbers DEF PollFails, PollReturn, NotPolled, CountsRead
<1>8. CASE PollCall
  BY <1>8 DEF PollCall, CountsRead, RestTypes
<1>9. CASE LoadCount
  BY <1>1, <1>9 DEF LoadCount, CountsRead, Types
<1>10. CASE CheckLimit \/ Search
  <2>1. CASE NextSlot("thread")
    BY <1>4, <2>1 DEF Threads
  <2>2. CASE ~NextSlot("thread")
    BY <1>10, <2>2 DEF CheckLimit, Search, CountsRead, Types
  <2> QED
    BY <2>1, <2>2
<1>11. CASE AddOne \/ PassSlot \/ Answer
  <2>1. NextSlot("thread") \/ UNCHANGED thread
    BY <1>11 DEF AddOne, PassSlot, Answer
  <2> QED
    BY <1>2, <1>4, <2>1 DEF Threads, thread
<1>12. ASSUME \/ \E c \in Conns : Connect(c) \/ SendText(c) \/ Leave(c)
              \/ \E line \in {"exit", "send", "status"} : ReadLine(line)
              \/ Sweep \/ SendShutdown \/ Ended \/ UNCHANGED vars
       PROVE  UNCHANGED <<polled, acc>>
  BY <1>12 DEF Connect, SendText, Leave, ReadLine, Sweep, SendShutdown, Ended, vars, thread
<1>13. ASSUME \/ Interrupt \/ TestFlag \/ ReadText \/ Disconnect \/ Put
              \/ \E c \in Conns, f \in ClientFds : Accept(c, f)
       PROVE  UNCHANGED <<polled, acc>>
  BY <1>13 DEF Interrupt, TestFlag, ReadText, Disconnect, Put, Accept
<1>14. CASE EndOfMain
  BY <1>2, <1>14, EndOfMainStep
<1> QED
  BY <1>2, <1>5, <1>6, <1>7, <1>8, <1>9, <1>10, <1>11, <1>12, <1>13, <1>14
     DEF Next, MainStep, ThreadStep, ServerEvents, EndOfMain, Threads

LEMMA NextCount ==
  Types /\ RestTypes /\ SweepInv /\ Accepting /\ CountInv /\ [Next]_vars => CountInv'
<1> SUFFICES ASSUME Types, RestTypes, SweepInv, Accepting, CountInv, [Next]_vars
             PROVE  CountInv'
  OBVIOUS
<1>1. Places /\ Counted /\ Miscounted /\ CountsRead
  BY DEF CountInv
<1>2. Places' /\ CountsRead'
  BY <1>1, NextPlaces, NextCountsRead
<1>3. Types'
  BY NextTypes
<1>4. ASSUME NEW w \in Threads, CloseStep(w) PROVE Counted' /\ Miscounted'
  BY <1>1, <1>3, <1>4, CloseStepCount
<1>5. ASSUME Ended \/ UNCHANGED vars PROVE Counted' /\ Miscounted'
  <2>1. UNCHANGED <<fd, client_count, mpc, mi, tpc, ti, acc, cl>>
    BY <1>5 DEF Ended, vars, memory, main, thread
  <2> QED
    BY <1>1, <2>1 DEF Counted, Miscounted, InLimits, MainDone, ThreadDone, MayStore,
                      Closed, Taken, Added, Busy
<1>6. ASSUME ServerEvents PROVE Counted' /\ Miscounted'
  BY <1>1, <1>3, <1>6, EventCount
<1>7. ASSUME \/ \E c \in Conns : Connect(c) \/ SendText(c) \/ Leave(c)
             \/ Interrupt
             \/ \E line \in {"exit", "send", "status"} : ReadLine(line)
             \/ Sweep \/ SendShutdown \/ EndOfMain
      PROVE  Counted' /\ Miscounted'
  BY <1>1, <1>3, <1>7, MainCount
<1>8. ASSUME \/ TestFlag \/ PollCount \/ PollFails \/ PollCall \/ PollReturn
             \/ ReadText \/ Disconnect \/ PassSlot \/ Answer
      PROVE  Counted' /\ Miscounted'
  BY <1>1, <1>3, <1>8, ThreadCount
<1>9. Counted' /\ Miscounted'
  BY <1>4, <1>5, <1>6, <1>7, <1>8 DEF Next, MainStep, ThreadStep, EndOfMain, Threads
<1> QED
  BY <1>2, <1>9 DEF CountInv

(* The types. client_count stays between -2 * MAX_CLIENTNUM and MAX_CLIENTNUM though *)
(* main's sweep and the thread, each between its read of the count and its write,    *)
(* overwrite each other's updates of it; and poll is never asked about entries the   *)
(* table does not have.                                                      *)
THEOREM TypeCorrect == Spec => []TypeOK
<1>1. Types /\ RestTypes /\ SweepInv /\ CountInv => TypeOK
  <2> SUFFICES ASSUME Types, RestTypes, SweepInv, CountInv PROVE TypeOK
    OBVIOUS
  <2>1. client_count \in -(2 * MAX_CLIENTNUM) .. MAX_CLIENTNUM
    BY CountRange DEF CountInv
  <2>2. polled \in [n : -(2 * MAX_CLIENTNUM) .. MAX_CLIENTNUM,
                     conns : [Slots -> Conns \cup {NoConn}]]
    BY DEF RestTypes, CountInv, CountsRead
  <2>3. acc \in [slot : Slots, count : -(2 * MAX_CLIENTNUM) .. MAX_CLIENTNUM]
    BY DEF Types, CountInv, CountsRead
  <2> QED
    BY <2>1, <2>2, <2>3 DEF TypeOK, Types, RestTypes, ThreadPcs, Fds, TcpStates, MainPcs
<1>2. Init => CountInv
  BY InitPlaces, InitCount DEF CountInv
<1> QED
  BY <1>1, <1>2, InitTypes, InitRest, InitSweep, InitAccepting, NextTypes, NextRest,
     NextSweep, NextAccepting, NextCount, PTL DEF Spec

(***************************************************************************)
(* The work an exit has left. From the beginning of server_close the flag is set,  *)
(* so the thread's next test of it is the last one.                           *)
(***************************************************************************)
LEMMA CloseLeftOf ==
  ASSUME Types, NEW w \in Threads
  PROVE  /\ CloseLeft(w) \in Nat
         /\ cl[w].step = "none" => CloseLeft(w) = 0
         /\ cl[w].step = "reset" => CloseLeft(w) = 1
         /\ cl[w].step = "clear" => CloseLeft(w) = 2
         /\ cl[w].step = "close" => CloseLeft(w) = 3
         /\ cl[w].step = "shutdown" => CloseLeft(w) = 4
         /\ cl[w].step = "store" => CloseLeft(w) = 5
         /\ cl[w].step = "count" => CloseLeft(w) = 6
         /\ cl[w].step = "enter" => CloseLeft(w) = 7
<1>1. cl[w].step \in Steps
  BY DEF Types, Record
<1> QED
  BY <1>1 DEF CloseLeft, Steps

(* A slot takes the thread the same work wherever it is in the table.              *)
LEMMA SlotWorks ==
  ASSUME NEW i \in Slots
  PROVE  /\ SlotWork \in Nat /\ SlotWork = MAX_CLIENTNUM + 8
         /\ SlotWork * (MAX_CLIENTNUM - i) \in Nat
         /\ SlotWork * (MAX_CLIENTNUM + 1) \in Nat
         /\ i < MAX_CLIENTNUM => SlotWork * (MAX_CLIENTNUM - (i + 1)) + SlotWork
                                   = SlotWork * (MAX_CLIENTNUM - i)
         /\ SlotWork * (MAX_CLIENTNUM - MAX_CLIENTNUM) = 0
         /\ SlotWork * (MAX_CLIENTNUM - 0) + SlotWork = SlotWork * (MAX_CLIENTNUM + 1)
<1> DEFINE s == SlotWork
           m == MAX_CLIENTNUM
<1>1. m \in Nat /\ i \in Nat /\ i <= m
  BY SlotsAreNumbers
<1>2. s \in Nat /\ s = m + 8
  BY <1>1 DEF SlotWork
<1> HIDE DEF s, m
<1>3. \A k \in Nat : s * k \in Nat /\ s * k + s = s * (k + 1) /\ s * 0 = 0
  BY <1>2
<1>4. m - i \in Nat /\ m + 1 \in Nat /\ m - m = 0 /\ m - 0 = m
  BY <1>1
<1>5. i < m => m - (i + 1) \in Nat /\ (m - (i + 1)) + 1 = m - i
  BY <1>1
<1> QED
  BY <1>1, <1>2, <1>3, <1>4, <1>5 DEF s, m

WorkIsNumber == MainLeft \in Nat /\ ThreadLeft \in Nat

LEMMA TypesWork == Types => WorkIsNumber
<1> SUFFICES ASSUME Types PROVE WorkIsNumber
  OBVIOUS
<1>1. CloseLeft("main") \in Nat /\ CloseLeft("thread") \in Nat
  BY CloseLeftOf DEF Threads
<1>2. MainLeft \in Nat
  BY <1>1, PcsAreNumbers DEF MainLeft
<1>3. ThreadLeft \in Nat
  <2> DEFINE x == SlotWork * (MAX_CLIENTNUM - ti)
             y == SlotWork * (MAX_CLIENTNUM + 1)
  <2>1. /\ ThreadLeft \in {y + 4, y + 3, y + 2, x + SlotWork + 1, x + SlotWork,
                            x + (MAX_CLIENTNUM - acc.slot) + 5, x + 4, x + 3, x + 2,
                            x + CloseLeft("thread") + 1, 1, 0}
    BY DEF ThreadLeft
  <2>2. x \in Nat /\ y \in Nat /\ SlotWork \in Nat
    BY SlotWorks DEF Types
  <2>3. MAX_CLIENTNUM - acc.slot \in Nat
    BY SlotsAreNumbers DEF Types
  <2> HIDE DEF x, y
  <2> QED
    BY <1>1, <2>1, <2>2, <2>3
<1> QED
  BY <1>2, <1>3 DEF WorkIsNumber

LEMMA TypesWorkNext == Types' => WorkIsNumber'
  BY TypesWork, PTL

LEMMA CloseLeftNext ==
  ASSUME Types', NEW w \in Threads
  PROVE  /\ CloseLeft(w)' \in Nat
         /\ cl'[w].step = "none" => CloseLeft(w)' = 0
         /\ cl'[w].step = "reset" => CloseLeft(w)' = 1
         /\ cl'[w].step = "clear" => CloseLeft(w)' = 2
         /\ cl'[w].step = "close" => CloseLeft(w)' = 3
         /\ cl'[w].step = "shutdown" => CloseLeft(w)' = 4
         /\ cl'[w].step = "store" => CloseLeft(w)' = 5
         /\ cl'[w].step = "count" => CloseLeft(w)' = 6
         /\ cl'[w].step = "enter" => CloseLeft(w)' = 7
<1>1. cl'[w].step \in Steps
  BY DEF Types, Record
<1> QED
  BY <1>1 DEF CloseLeft, Steps

(* What a step to the next slot leaves of the work.                            *)
LEMMA MainSlotWork ==
  ASSUME Types, NextSlot("main") PROVE MainLeft' = 9 * (MAX_CLIENTNUM - mi) + 6
  BY MainNext, PcsAreNumbers DEF MainLeft

LEMMA ThreadSlotWork ==
  ASSUME Types, NextSlot("thread")
  PROVE  ThreadLeft' = SlotWork * (MAX_CLIENTNUM - ti) + 1
<1>1. CASE ti < MAX_CLIENTNUM
  <2>1. tpc' = "scan" /\ ti' = ti + 1
    BY <1>1, ThreadNext
  <2>2. ThreadLeft' = SlotWork * (MAX_CLIENTNUM - (ti + 1)) + SlotWork + 1
    BY <2>1 DEF ThreadLeft, SlotWork
  <2> QED
    BY <1>1, <2>2, SlotWorks DEF Types
<1>2. CASE ti = MAX_CLIENTNUM
  <2>1. ThreadLeft' = 1
    BY <1>2, ThreadNext DEF ThreadLeft
  <2>2. SlotWork * (MAX_CLIENTNUM - ti) = 0
    BY <1>2, SlotWorks DEF Types
  <2> QED
    BY <2>1, <2>2
<1> QED
  BY <1>1, <1>2, PcsAreNumbers

MainShrinks   == MainLeft' < MainLeft /\ ThreadLeft' = ThreadLeft
ThreadShrinks == ThreadLeft' < ThreadLeft /\ MainLeft' = MainLeft

LEMMA MainCloseShrinks ==
  ASSUME Types, Types', SweepInv, mpc # "readline", CloseStep("main")
  PROVE  MainShrinks
<1>1. mpc = "closing" /\ "main" \in Threads
  BY DEF CloseStep, CloseEnter, CloseCount, CloseStore, CloseShutdown, CloseClose, CloseClear,
         CloseReset, SweepInv, MainCloses, Running, Threads
<1>2. UNCHANGED <<main, thread>> \/ NextSlot("main")
  BY DEF CloseStep, CloseEnter, CloseCount, CloseStore, CloseShutdown, CloseClose, CloseClear,
         CloseReset, GoOn, Return
<1>3. cl'["thread"] = cl["thread"] /\ UNCHANGED <<tpc, ti, acc>>
  <2>1. cl'["thread"] = cl["thread"]
    BY DEF CloseStep, CloseEnter, CloseCount, CloseStore, CloseShutdown, CloseClose, CloseClear,
           CloseReset, GoOn, Return, Types, Threads
  <2> QED
    BY <1>2, <2>1, MainNext DEF main, thread
<1>4. ThreadLeft' = ThreadLeft
  BY <1>3 DEF ThreadLeft, CloseLeft
<1> DEFINE x == 9 * (MAX_CLIENTNUM - mi)
           a == CloseLeft("main")
           b == CloseLeft("main")'
           y == MainLeft
           z == MainLeft'
<1>5. x \in Nat
  BY PcsAreNumbers
<1>6. a \in Nat /\ y = x + a + 6
  BY <1>1, CloseLeftOf DEF MainLeft
<1>7. CASE NextSlot("main")
  <2>1. z = x + 6
    BY <1>7, MainSlotWork
  <2>2. cl["main"].step # "none"
    BY DEF CloseStep, CloseEnter, CloseCount, CloseStore, CloseShutdown, CloseClose,
           CloseClear, CloseReset
  <2>3. a > 0
    <3>1. cl["main"].step \in Steps
      BY <1>1 DEF Types, Record
    <3> QED
      BY <1>1, <2>2, <3>1, CloseLeftOf DEF Steps
  <2> HIDE DEF a, x, y, z
  <2>4. z < y
    BY <1>5, <1>6, <2>1, <2>3
  <2> QED
    BY <1>4, <2>4 DEF MainShrinks, y, z
<1>8. CASE UNCHANGED <<main, thread>> /\ ~NextSlot("main")
  <2>1. /\ cl["main"].step = "enter" => cl'["main"].step = "count"
        /\ cl["main"].step = "count" => cl'["main"].step = "store"
        /\ cl["main"].step = "store" => cl'["main"].step = "shutdown"
        /\ cl["main"].step = "shutdown" => cl'["main"].step = "close"
        /\ cl["main"].step = "close" => cl'["main"].step = "clear"
        /\ cl["main"].step = "clear" => cl'["main"].step = "reset"
        /\ cl["main"].step \in Steps \ {"none", "reset"}
    <3>1. CASE CloseEnter("main") \/ CloseCount("main")
      BY <1>1, <3>1 DEF CloseEnter, CloseCount, Types, Steps
    <3>2. CASE ~(CloseEnter("main") \/ CloseCount("main"))
      <4>1. PICK step \in Steps : /\ GoOn("main", step)
                                 /\ \/ cl["main"].step = "store" /\ step = "shutdown"
                                    \/ cl["main"].step = "shutdown" /\ step = "close"
                                    \/ cl["main"].step = "close" /\ step = "clear"
                                    \/ cl["main"].step = "clear" /\ step = "reset"
        BY <1>8, <3>2 DEF CloseStep, CloseStore, CloseShutdown, CloseClose, CloseClear,
                          CloseReset, Return, Steps
      <4>2. cl'["main"].step = step
        BY <1>1, <4>1, GoOnTypes
      <4> QED
        BY <4>1, <4>2 DEF Steps
    <3> QED
      BY <3>1, <3>2
  <2>2. b \in Nat /\ b < a
    BY <1>1, <2>1, CloseLeftOf, CloseLeftNext DEF Steps
  <2>3. z = x + b + 6
    BY <1>1, <1>8 DEF MainLeft, main, thread, SlotWork
  <2> HIDE DEF a, b, x, y, z
  <2>4. z < y
    BY <1>5, <1>6, <2>2, <2>3
  <2> QED
    BY <1>4, <2>4 DEF MainShrinks, y, z
<1> QED
  BY <1>2, <1>7, <1>8

LEMMA ThreadCloseShrinks ==
  ASSUME Types, Types', SweepInv, mpc # "readline", CloseStep("thread")
  PROVE  ThreadShrinks
<1>1. tpc = "closing" /\ "thread" \in Threads
  BY DEF CloseStep, CloseEnter, CloseCount, CloseStore, CloseShutdown, CloseClose, CloseClear,
         CloseReset, SweepInv, ThreadCloses, Running, Threads
<1>2. UNCHANGED <<main, thread>> \/ NextSlot("thread")
  BY DEF CloseStep, CloseEnter, CloseCount, CloseStore, CloseShutdown, CloseClose, CloseClear,
         CloseReset, GoOn, Return
<1>3. cl'["main"] = cl["main"] /\ UNCHANGED <<mpc, mi>>
  <2>1. cl'["main"] = cl["main"]
    BY DEF CloseStep, CloseEnter, CloseCount, CloseStore, CloseShutdown, CloseClose, CloseClear,
           CloseReset, GoOn, Return, Types, Threads
  <2> QED
    BY <1>2, <2>1, ThreadNext DEF main, thread
<1>4. MainLeft' = MainLeft
  BY <1>3 DEF MainLeft, CloseLeft
<1> DEFINE x == SlotWork * (MAX_CLIENTNUM - ti)
           a == CloseLeft("thread")
           b == CloseLeft("thread")'
           y == ThreadLeft
           z == ThreadLeft'
<1>5. x \in Nat
  BY SlotWorks DEF Types
<1>6. a \in Nat /\ y = x + a + 1
  BY <1>1, CloseLeftOf DEF ThreadLeft
<1>7. CASE NextSlot("thread")
  <2>1. z = x + 1
    BY <1>7, ThreadSlotWork
  <2>2. cl["thread"].step # "none"
    BY DEF CloseStep, CloseEnter, CloseCount, CloseStore, CloseShutdown, CloseClose,
           CloseClear, CloseReset
  <2>3. a > 0
    <3>1. cl["thread"].step \in Steps
      BY <1>1 DEF Types, Record
    <3> QED
      BY <1>1, <2>2, <3>1, CloseLeftOf DEF Steps
  <2> HIDE DEF a, x, y, z
  <2>4. z < y
    BY <1>5, <1>6, <2>1, <2>3
  <2> QED
    BY <1>4, <2>4 DEF ThreadShrinks, y, z
<1>8. CASE UNCHANGED <<main, thread>> /\ ~NextSlot("thread")
  <2>1. /\ cl["thread"].step = "enter" => cl'["thread"].step = "count"
        /\ cl["thread"].step = "count" => cl'["thread"].step = "store"
        /\ cl["thread"].step = "store" => cl'["thread"].step = "shutdown"
        /\ cl["thread"].step = "shutdown" => cl'["thread"].step = "close"
        /\ cl["thread"].step = "close" => cl'["thread"].step = "clear"
        /\ cl["thread"].step = "clear" => cl'["thread"].step = "reset"
        /\ cl["thread"].step \in Steps \ {"none", "reset"}
    <3>1. CASE CloseEnter("thread") \/ CloseCount("thread")
      BY <1>1, <3>1 DEF CloseEnter, CloseCount, Types, Steps
    <3>2. CASE ~(CloseEnter("thread") \/ CloseCount("thread"))
      <4>1. PICK step \in Steps : /\ GoOn("thread", step)
                                 /\ \/ cl["thread"].step = "store" /\ step = "shutdown"
                                    \/ cl["thread"].step = "shutdown" /\ step = "close"
                                    \/ cl["thread"].step = "close" /\ step = "clear"
                                    \/ cl["thread"].step = "clear" /\ step = "reset"
        BY <1>8, <3>2 DEF CloseStep, CloseStore, CloseShutdown, CloseClose, CloseClear,
                          CloseReset, Return, Steps
      <4>2. cl'["thread"].step = step
        BY <1>1, <4>1, GoOnTypes
      <4> QED
        BY <4>1, <4>2 DEF Steps
    <3> QED
      BY <3>1, <3>2
  <2>2. b \in Nat /\ b < a
    BY <1>1, <2>1, CloseLeftOf, CloseLeftNext DEF Steps
  <2>3. z = x + b + 1
    BY <1>1, <1>8 DEF ThreadLeft, main, thread, SlotWork
  <2> HIDE DEF a, b, x, y, z
  <2>4. z < y
    BY <1>5, <1>6, <2>2, <2>3
  <2> QED
    BY <1>4, <2>4 DEF ThreadShrinks, y, z
<1> QED
  BY <1>2, <1>7, <1>8

(* The rest of main's exit.                                                *)
LEMMA MainWorkShrinks ==
  ASSUME Types, Types', SweepInv, Sweep \/ SendShutdown \/ EndOfMain
  PROVE  MainShrinks
<1>1. UNCHANGED <<tpc, ti, acc>> /\ cl'["thread"] = cl["thread"]
  BY EndOfMainStep DEF Sweep, SendShutdown, Call, thread, Types, Threads
<1>2. ThreadLeft' = ThreadLeft
  BY <1>1 DEF ThreadLeft, CloseLeft
<1>3. CASE Sweep
  <2>1. mpc = "sweep" /\ mpc' = "send" /\ mi' = mi
    BY <1>3 DEF Sweep
  <2>2. MainLeft' < MainLeft
    BY <2>1, PcsAreNumbers DEF MainLeft
  <2> QED
    BY <1>2, <2>2 DEF MainShrinks
<1>4. CASE SendShutdown
  <2>1. MainLeft = 9 * (MAX_CLIENTNUM - mi) + 14
    BY <1>4 DEF SendShutdown, MainLeft
  <2>2. CASE mpc' = "crashed"
    <3>1. MainLeft' = 0
      BY <2>2 DEF MainLeft
    <3> QED
      BY <1>2, <2>1, <3>1, PcsAreNumbers DEF MainShrinks
  <2>3. CASE mpc' # "crashed"
    <3>1. mpc' = "closing" /\ mi' = mi /\ cl'["main"].step = "enter" /\ "main" \in Threads
      BY <1>4, <2>3 DEF SendShutdown, Call, Types, Record, Threads
    <3>2. CloseLeft("main")' = 7
      BY <3>1, CloseLeftNext
    <3>3. MainLeft' = 9 * (MAX_CLIENTNUM - mi) + 7 + 6
      BY <3>1, <3>2 DEF MainLeft
    <3> QED
      BY <1>2, <2>1, <3>3, PcsAreNumbers DEF MainShrinks
  <2> QED
    BY <2>2, <2>3
<1>5. CASE EndOfMain
  BY <1>2, <1>5 DEF EndOfMain, ZeroCount, CloseSocket, ForgetSocket, ClearFirst, ResetFirst,
                    Join, EndStep, MainLeft, MainShrinks
<1> QED
  BY <1>3, <1>4, <1>5

(* The rest of the thread's round.                                          *)
LEMMA ThreadWorkShrinks ==
  ASSUME Types, Types', SweepInv, Places, mpc # "readline",
         \/ TestFlag \/ PollCount \/ PollFails \/ PollCall \/ PollReturn
         \/ ServerEvents \/ ReadText \/ Disconnect \/ PassSlot
  PROVE  ThreadShrinks
<1>1. cl'["main"] = cl["main"] /\ UNCHANGED <<mpc, mi>>
  BY ThreadNext DEF TestFlag, PollCount, PollFails, PollCall, PollReturn, ServerEvents, Accept,
     CheckLimit, Search, Put, LoadCount, AddOne, ReadText, Disconnect, PassSlot, Call, main,
     Types, Threads
<1>2. MainLeft' = MainLeft
  BY <1>1 DEF MainLeft, CloseLeft
<1> DEFINE x == SlotWork * (MAX_CLIENTNUM - ti)
           y == SlotWork * (MAX_CLIENTNUM + 1)
           s == SlotWork
           a == ThreadLeft
           b == ThreadLeft'
<1>3. x \in Nat /\ y \in Nat /\ s \in Nat /\ s = MAX_CLIENTNUM + 8
  BY SlotWorks DEF Types
<1>4. /\ MAX_CLIENTNUM \in Nat /\ acc.slot \in Nat /\ acc.slot <= MAX_CLIENTNUM
      /\ "thread" \in Threads
  BY SlotsAreNumbers DEF Types, Threads
<1>5. SUFFICES b < a
  BY <1>2 DEF ThreadShrinks
<1>6. CASE TestFlag \/ PollCount \/ PollFails \/ PollCall
  <2>1. TestFlag => a = 1 /\ b = 0
    BY DEF TestFlag, Places, Running, ThreadLeft
  <2>2. PollCount => a = y + 4 /\ b = y + 3
    BY DEF PollCount, ThreadLeft, SlotWork
  <2>3. PollFails => a = y + 3 /\ b = 1
    BY DEF PollFails, ThreadLeft
  <2>4. PollCall => a = y + 3 /\ b = y + 2
    BY DEF PollCall, ThreadLeft, SlotWork
  <2> HIDE DEF x, y, s, a, b
  <2> QED
    BY <1>3, <1>6, <2>1, <2>2, <2>3, <2>4
<1>7. CASE PollReturn
  <2>1. a = y + 2
    BY <1>7 DEF PollReturn, ThreadLeft
  <2>2. b = SlotWork * (MAX_CLIENTNUM - 0) + s + 1
    BY <1>7 DEF PollReturn, ThreadLeft, SlotWork
  <2>3. SlotWork * (MAX_CLIENTNUM - 0) + s = y
    BY SlotWorks, SlotsAreNumbers
  <2>4. b = y + 1
    BY <2>2, <2>3
  <2> HIDE DEF x, y, s, a, b
  <2> QED
    BY <1>3, <2>1, <2>4
<1>8. CASE NextSlot("thread") /\ tpc \in {"scan", "limit", "search", "add"}
  <2>1. b = x + 1
    BY <1>8, ThreadSlotWork
  <2>2. a \in {x + s + 1, x + s, x + (MAX_CLIENTNUM - acc.slot) + 5, x + 2}
    BY <1>8 DEF ThreadLeft
  <2> HIDE DEF x, y, s, a, b
  <2> QED
    BY <1>3, <1>4, <2>1, <2>2
<1>9. ASSUME NextSlot("thread"), tpc \in {"scan", "limit", "search", "add"} PROVE b < a
  BY <1>8, <1>9
<1>10. /\ tpc = "scan" => a = x + s + 1
       /\ tpc = "limit" => a = x + s
       /\ tpc = "search" => a = x + (MAX_CLIENTNUM - acc.slot) + 5
       /\ tpc = "put" => a = x + 4
       /\ tpc = "load" => a = x + 3
  BY DEF ThreadLeft
<1>11. ti' = ti
         => /\ tpc' = "limit" => b = x + s
            /\ tpc' = "search" => b = x + (MAX_CLIENTNUM - acc'.slot) + 5
            /\ tpc' = "put" => b = x + 4
            /\ tpc' = "load" => b = x + 3
            /\ tpc' \in {"add", "fetch"} => b = x + 2
            /\ tpc' = "closing" => b = x + CloseLeft("thread")' + 1
  BY DEF ThreadLeft, SlotWork
<1>12. CASE PassSlot
  BY <1>9, <1>12 DEF PassSlot, AtSlot
<1>13. CASE ReadText
  <2>1. a = x + s + 1 /\ b = x + 2
    BY <1>10, <1>11, <1>13 DEF ReadText, AtClient, AtSlot
  <2> HIDE DEF x, y, s, a, b
  <2> QED
    BY <1>3, <1>4, <2>1
<1>14. CASE Disconnect
  <2>1. /\ tpc = "scan" /\ tpc' = "closing" /\ ti' = ti
        /\ cl'["thread"].step = "enter"
    BY <1>4, <1>14 DEF Disconnect, AtClient, AtSlot, Call, Types, Record
  <2>2. CloseLeft("thread")' = 7
    BY <1>4, <2>1, CloseLeftNext
  <2>3. a = x + s + 1 /\ b = x + 7 + 1
    BY <1>10, <1>11, <2>1, <2>2
  <2>4. MAX_CLIENTNUM > 0
    BY SlotsAreNumbers
  <2> HIDE DEF x, y, s, a, b
  <2> QED
    BY <1>3, <1>4, <2>3, <2>4
<1>15. CASE \E c \in Conns, f \in ClientFds : Accept(c, f)
  <2>1. tpc = "scan" /\ tpc' = "limit" /\ ti' = ti
    BY <1>15 DEF Accept, AtSlot
  <2>2. a = x + s + 1 /\ b = x + s
    BY <1>10, <1>11, <2>1
  <2> HIDE DEF x, y, s, a, b
  <2> QED
    BY <1>3, <2>2
<1>16. CASE CheckLimit
  <2>1. CASE NextSlot("thread")
    BY <1>9, <1>16, <2>1 DEF CheckLimit
  <2>2. CASE ~NextSlot("thread")
    <3>1. tpc = "limit" /\ tpc' = "search" /\ acc'.slot = 1 /\ ti' = ti
      BY <1>16, <2>2 DEF CheckLimit, Types
    <3>2. a = x + s /\ b = x + (MAX_CLIENTNUM - 1) + 5
      BY <1>10, <1>11, <3>1
    <3> HIDE DEF x, y, s, a, b
    <3> QED
      BY <1>3, <1>4, <3>2
  <2> QED
    BY <2>1, <2>2
<1>17. CASE Search
  <2>1. CASE NextSlot("thread")
    BY <1>9, <1>17, <2>1 DEF Search
  <2>2. CASE ~NextSlot("thread")
    <3>1. /\ tpc = "search" /\ ti' = ti
          /\ \/ tpc' = "put"
             \/ tpc' = "search" /\ acc'.slot = acc.slot + 1
      BY <1>17, <2>2 DEF Search, Types
    <3>2. /\ a = x + (MAX_CLIENTNUM - acc.slot) + 5
          /\ b = x + 4 \/ b = x + (MAX_CLIENTNUM - (acc.slot + 1)) + 5
      BY <1>10, <1>11, <3>1
    <3> HIDE DEF x, y, s, a, b
    <3> QED
      BY <1>3, <1>4, <3>2
  <2> QED
    BY <2>1, <2>2
<1>18. CASE Put \/ LoadCount
  <2>1. /\ Put => a = x + 4 /\ b = x + 3
        /\ LoadCount => a = x + 3 /\ b = x + 2
    BY <1>10, <1>11 DEF Put, LoadCount
  <2> HIDE DEF x, y, s, a, b
  <2> QED
    BY <1>3, <1>18, <2>1
<1>19. CASE AddOne
  BY <1>9, <1>19 DEF AddOne
<1> QED
  BY <1>6, <1>7, <1>12, <1>13, <1>14, <1>15, <1>16, <1>17, <1>18, <1>19 DEF ServerEvents

LEMMA AnswerShrinks ==
  ASSUME Types, Types', SweepInv, Places, mpc # "readline", Answer
  PROVE  ThreadShrinks \/ MainShrinks
<1>1. Running /\ tpc = "fetch" /\ cl' = cl
  BY DEF Answer
<1>2. ThreadLeft = SlotWork * (MAX_CLIENTNUM - ti) + 2
  BY <1>1 DEF ThreadLeft
<1>3. CASE NextSlot("thread")
  <2>1. UNCHANGED <<mpc, mi>> /\ ThreadLeft' = SlotWork * (MAX_CLIENTNUM - ti) + 1
    BY <1>3, ThreadNext, ThreadSlotWork
  <2>2. MainLeft' = MainLeft
    BY <1>1, <2>1 DEF MainLeft, CloseLeft
  <2>3. ThreadLeft' < ThreadLeft
    <3> DEFINE x == SlotWork * (MAX_CLIENTNUM - ti)
    <3>1. x \in Nat /\ ThreadLeft = x + 2 /\ ThreadLeft' = x + 1
      BY <1>2, <2>1, SlotWorks DEF Types
    <3> HIDE DEF x
    <3> QED
      BY <3>1
  <2> QED
    BY <2>2, <2>3 DEF ThreadShrinks
<1>4. CASE ~NextSlot("thread")
  <2>1. mpc' = "crashed" /\ UNCHANGED <<tpc, ti, acc>>
    BY <1>4 DEF Answer, thread
  <2>2. ThreadLeft' = ThreadLeft
    BY <1>1, <2>1 DEF ThreadLeft, CloseLeft
  <2>3. MainLeft' = 0
    BY <2>1 DEF MainLeft
  <2>4. MainLeft > 0
    <3>1. mpc \in {"sweep", "send", "closing", "zero", "socket", "forget", "first", "last",
                    "join"}
      BY <1>1 DEF Running, Types, MainPcs
    <3>2. CloseLeft("main") \in Nat
      BY CloseLeftOf DEF Threads
    <3> QED
      BY <3>1, <3>2, PcsAreNumbers DEF MainLeft
  <2> QED
    BY <2>2, <2>3, <2>4 DEF MainShrinks
<1> QED
  BY <1>3, <1>4

(* An exit ends after a bounded number of steps: each step of either thread uses    *)
(* up some of the work left, whatever the other does to its slots, for a table of    *)
(* any size. What liveness adds is only that the steps are taken.                 *)
THEOREM ExitShrinksCorrect == Spec => ExitShrinks
<1> DEFINE Shrinks == mpc # "readline" => \/ UNCHANGED <<main, thread, cl>>
                                          \/ MainLeft' + ThreadLeft' < MainLeft + ThreadLeft
<1>1. ASSUME Types, SweepInv, CountInv, [Next]_vars PROVE Shrinks
  <2> SUFFICES ASSUME mpc # "readline", ~UNCHANGED <<main, thread, cl>>
               PROVE  MainLeft' + ThreadLeft' < MainLeft + ThreadLeft
    OBVIOUS
  <2>1. Types' /\ Types /\ SweepInv /\ Places
    BY <1>1, NextTypes DEF CountInv
  <2>2. MainShrinks \/ ThreadShrinks
    <3>1. CASE MainStep
      BY <2>1, <3>1, MainCloseShrinks, MainWorkShrinks DEF MainStep, EndOfMain
    <3>2. CASE ThreadStep
      BY <2>1, <3>2, ThreadCloseShrinks, ThreadWorkShrinks DEF ThreadStep
    <3>3. CASE Answer
      BY <2>1, <3>3, AnswerShrinks
    <3>4. ASSUME NEW c \in Conns PROVE ~(Connect(c) \/ SendText(c) \/ Leave(c))
      BY DEF Connect, SendText, Leave
    <3>5. ~(Interrupt \/ \E line \in {"exit", "send", "status"} : ReadLine(line))
      BY DEF Interrupt, ReadLine
    <3>6. ~(Ended \/ UNCHANGED vars)
      BY DEF Ended, vars
    <3> QED
      BY <1>1, <3>1, <3>2, <3>3, <3>4, <3>5, <3>6 DEF Next
  <2>3. /\ MainLeft \in Nat /\ ThreadLeft \in Nat
        /\ MainLeft' \in Nat /\ ThreadLeft' \in Nat
    BY <2>1, TypesWork, TypesWorkNext DEF WorkIsNumber
  <2> DEFINE a == MainLeft
             b == ThreadLeft
             c == MainLeft'
             d == ThreadLeft'
  <2>4. (c < a /\ d = b) \/ (d < b /\ c = a)
    BY <2>2 DEF MainShrinks, ThreadShrinks
  <2>5. a \in Nat /\ b \in Nat /\ c \in Nat /\ d \in Nat
    BY <2>3
  <2> HIDE DEF a, b, c, d
  <2>6. c + d < a + b
    BY <2>4, <2>5
  <2> QED
    BY <2>6 DEF a, b, c, d
<1>2. Init => CountInv
  BY InitPlaces, InitCount DEF CountInv
<1>3. Types /\ SweepInv /\ CountInv /\ [Next]_vars => [Shrinks]_vars
  BY <1>1
<1> QED
  BY <1>2, <1>3, InitTypes, InitRest, InitSweep, InitAccepting, NextTypes, NextRest,
     NextSweep, NextAccepting, NextCount, PTL DEF Spec, ExitShrinks
=============================================================================
