-------------------------------- MODULE Wire --------------------------------
(***************************************************************************)
(* What reaches a device's socket: msg_send (client/client.c) writes a JSON  *)
(* header, and for files and weather a second write of the caller follows    *)
(* with the announced bytes. Two threads do so without a lock: the console   *)
(* (server_send_memo and server_send_file, on a descriptor number that the   *)
(* operator typed) and the server thread (the weather reply), which also     *)
(* accepts and closes the connections the numbers stand for. The sockets     *)
(* are non-blocking, so that a write takes what the send buffer has room     *)
(* for. Departures that end the process through SIGPIPE are ServerLoop's     *)
(* subject: here a device that leaves is one whose connection is closed.     *)
(***************************************************************************)
EXTENDS Integers, Sequences, FiniteSets

CONSTANTS
  Conns,         \* connections that devices may make
  ClientFds,     \* descriptor numbers the kernel gives to them
  AllFd,         \* MAX_CLIENTNUM + 1
  NoFd,          \* a negative number
  NoConn,        \* owner of a number that is not open
  Commands,      \* the sending commands the operator uses
  HeaderSize,    \* units of a header, or of a memo
  FileSizes,     \* units of the files the operator may send
  WeatherSize,   \* units of the weather structures
  SendRoom,      \* units the send buffer of a socket holds
  MaxJobs        \* bound: commands of the operator, and weather replies

FileCommands == {"csupdate", "bgimage", "defsysfile", "sendfile"}

ASSUME WireAssumption ==
  /\ Commands \subseteq FileCommands \cup {"memo"}
  /\ AllFd # NoFd /\ NoFd \notin ClientFds
  /\ NoConn \notin Conns
  /\ HeaderSize \in Nat \ {0} /\ WeatherSize \in Nat \ {0}
  /\ FileSizes \subseteq Nat
  /\ SendRoom \in Nat \ {0} /\ MaxJobs \in Nat

VARIABLES
  owner,      \* the connection an open descriptor number stands for
  tcp,        \* "none", "up" or "closed", for every connection
  stream,     \* what write calls put into a connection, oldest first
  room,       \* what its send buffer still takes
  cpc,        \* the console: "idle", "payload" (asleep before the payload)
  job,        \* its command: the fields id, command, fd, size
  buf,        \* the file's buffer: "none", "live", "freed" or "twice"
  cret,       \* the value its last command returned
  tpc,        \* the server thread: "idle" or "payload"
  tjob,       \* the reply it sends, with the same fields
  done,       \* jobs begun by each of the two writers
  alive       \* FALSE once the process has ended

network == <<owner, tcp, stream, room>>
console == <<cpc, job, buf, cret>>
thread  == <<tpc, tjob>>
vars    == <<network, console, thread, done, alive>>

Writers == {"console", "thread"}

(* The numbers an operator may type.                                       *)
TypedFds == ClientFds \cup {AllFd, NoFd}

Jobs == [by: Writers, nr: 0 .. MaxJobs, type: FileCommands \cup {"memo", "weather"},
         fd: TypedFds, size: FileSizes \cup {0, WeatherSize}]

(* One write call that transferred something.                              *)
Writes == [job: Jobs, part: {"header", "payload"},
           asked: Nat, got: Nat]

NoJob == [by |-> "console", nr |-> 0, type |-> "memo", fd |-> NoFd, size |-> 0]

Init ==
  /\ owner = [f \in ClientFds |-> NoConn]
  /\ tcp = [c \in Conns |-> "none"]
  /\ stream = [c \in Conns |-> << >>]
  /\ room = [c \in Conns |-> SendRoom]
  /\ cpc = "idle" /\ job = NoJob /\ buf = "none" /\ cret = 0
  /\ tpc = "idle" /\ tjob = NoJob
  /\ done = [w \in Writers |-> 0]
  /\ alive = TRUE
------------------------------------------------------------------------------
IsOpen(f) == f \in ClientFds /\ owner[f] # NoConn

(* What write returns: -1 is EBADF, or EAGAIN on a full send buffer. First   *)
(* for a socket that set_nonblocking was forgotten on.                      *)
WriteResultBlocking(f, n) == IF IsOpen(f) THEN n ELSE -1

WriteResult(f, n) ==
  CASE ~IsOpen(f) -> -1
    [] IsOpen(f) /\ n = 0 -> 0
    [] IsOpen(f) /\ n > 0 /\ room[owner[f]] = 0 -> -1
    [] OTHER -> IF n < room[owner[f]] THEN n ELSE room[owner[f]]

Write(j, part, n) ==
  LET ret == WriteResult(j.fd, n)
      c   == owner[j.fd]
  IN IF ret > 0
       THEN /\ stream' = [stream EXCEPT ![c] = Append(@,
                           [job |-> j, part |-> part, asked |-> n, got |-> ret])]
            /\ room' = [room EXCEPT ![c] = @ - ret]
       ELSE UNCHANGED <<stream, room>>

(* The device acknowledges some of what was sent.                          *)
Drain(c) ==
  /\ alive
  /\ tcp[c] = "up"
  /\ \E n \in 1 .. (SendRoom - room[c]) : room' = [room EXCEPT ![c] = @ + n]
  /\ UNCHANGED <<owner, tcp, stream, console, thread, done, alive>>
------------------------------------------------------------------------------
(* The server thread between two messages: server_events takes a new        *)
(* connection, client_events closes one that has ended.                     *)
ThreadNeverBusy == alive

ThreadIdle == alive /\ tpc = "idle"

Accept(c, f) ==
  /\ ThreadIdle
  /\ tcp[c] = "none" /\ owner[f] = NoConn
  /\ tcp' = [tcp EXCEPT ![c] = "up"]
  /\ owner' = [owner EXCEPT ![f] = c]
  /\ UNCHANGED <<stream, room, console, thread, done, alive>>

Close(f) ==
  /\ ThreadIdle
  /\ owner[f] # NoConn
  /\ tcp' = [tcp EXCEPT ![owner[f]] = "closed"]
  /\ owner' = [owner EXCEPT ![f] = NoConn]
  /\ UNCHANGED <<stream, room, console, thread, done, alive>>

(* The reply to an announcement: the result of msg_send is not looked at,   *)
(* and neither is that of the write after the pause. In the first form both  *)
(* threads keep the number they write to in one static variable.            *)
ReplyHeaderSharedFd(f) ==
  /\ ThreadIdle
  /\ done["thread"] < MaxJobs
  /\ owner[f] # NoConn
  /\ done' = [done EXCEPT !["thread"] = @ + 1]
  /\ tjob' = [by |-> "thread", nr |-> done["thread"] + 1, type |-> "weather",
              fd |-> f, size |-> WeatherSize]
  /\ job' = [job EXCEPT !.fd = f]
  /\ Write(tjob', "header", HeaderSize)
  /\ tpc' = "payload"
  /\ UNCHANGED <<owner, tcp, cpc, buf, cret, alive>>

ReplyHeader(f) ==
  /\ ThreadIdle
  /\ done["thread"] < MaxJobs
  /\ owner[f] # NoConn
  /\ done' = [done EXCEPT !["thread"] = @ + 1]
  /\ tjob' = [by |-> "thread", nr |-> done["thread"] + 1, type |-> "weather",
              fd |-> f, size |-> WeatherSize]
  /\ Write(tjob', "header", HeaderSize)
  /\ tpc' = "payload"
  /\ UNCHANGED <<owner, tcp, console, alive>>

ReplyPayload ==
  /\ alive
  /\ tpc = "payload"
  /\ Write(tjob, "payload", tjob.size)
  /\ tpc' = "idle"
  /\ UNCHANGED <<owner, tcp, console, tjob, done, alive>>
------------------------------------------------------------------------------
(* The console. A command begins with the number the operator typed.        *)
Command(type, f, size) ==
  /\ alive /\ cpc = "idle"
  /\ type \in Commands
  /\ done["console"] < MaxJobs
  /\ done' = [done EXCEPT !["console"] = @ + 1]
  /\ job' = [by |-> "console", nr |-> done["console"] + 1, type |-> type,
             fd |-> f, size |-> size]
  /\ UNCHANGED <<owner, tcp, thread, alive>>

(* server_send_memo: the text travels in the header. -2 is msg_send's value *)
(* for a failed write, a positive value the length of a successful one.     *)
SendMemo(f) ==
  /\ Command("memo", f, 0)
  /\ Write(job', "header", HeaderSize)
  /\ cret' = IF WriteResult(f, HeaderSize) < 0 THEN -2
             ELSE WriteResult(f, HeaderSize)
  /\ UNCHANGED <<cpc, buf>>

(* server_send_file returns early: a negative number, no such file, no      *)
(* memory, an error of read. The file is closed before every return and      *)
(* before the pause of the successful case.                                 *)
SendFileFails(type, f) ==
  /\ type \in FileCommands
  /\ Command(type, f, 0)
  /\ \/ cret' = -1 /\ UNCHANGED buf
     \/ f # NoFd /\ cret' = -2 /\ UNCHANGED buf
     \/ f # NoFd /\ cret' = -3 /\ buf' = "freed"
  /\ UNCHANGED <<cpc, stream, room>>

(* The file is read and announced; the result of msg_send is not looked at. *)
(* The buffer and the number are kept over the pause.                       *)
SendFileHeader(type, f, n) ==
  /\ type \in FileCommands /\ f # NoFd
  /\ Command(type, f, n)
  /\ Write(job', "header", HeaderSize)
  /\ buf' = "live"
  /\ cpc' = "payload"
  /\ UNCHANGED cret

(* After the pause. A failed write frees the buffer, and _error once more:  *)
(* the allocator ends the process or lets it pass.                          *)
SendFilePayloadKeepsBuffer ==
  /\ alive /\ cpc = "payload"
  /\ Write(job, "payload", job.size)
  /\ IF WriteResult(job.fd, job.size) < 0
       THEN /\ cret' = -4 /\ UNCHANGED <<buf, alive>>
       ELSE /\ buf' = "freed" /\ cret' = 0 /\ UNCHANGED alive
  /\ cpc' = "idle"
  /\ UNCHANGED <<owner, tcp, thread, job, done>>

SendFilePayload ==
  /\ alive /\ cpc = "payload"
  /\ Write(job, "payload", job.size)
  /\ IF WriteResult(job.fd, job.size) < 0
       THEN /\ buf' = "twice" /\ cret' = -4 /\ alive' \in BOOLEAN
       ELSE /\ buf' = "freed" /\ cret' = 0 /\ UNCHANGED alive
  /\ cpc' = "idle"
  /\ UNCHANGED <<owner, tcp, thread, job, done>>
------------------------------------------------------------------------------
ThreadNext == \/ \E c \in Conns, f \in ClientFds : Accept(c, f)
              \/ \E f \in ClientFds : Close(f) \/ ReplyHeader(f)
              \/ ReplyPayload

ConsoleNext == \/ \E f \in TypedFds : SendMemo(f)
               \/ \E type \in FileCommands, f \in TypedFds :
                    \/ SendFileFails(type, f)
                    \/ \E n \in FileSizes : SendFileHeader(type, f, n)
               \/ SendFilePayload

Next == ThreadNext \/ ConsoleNext \/ \E c \in Conns : Drain(c)

Spec == Init /\ [][Next]_vars
------------------------------------------------------------------------------
TypeOK ==
  /\ owner \in [ClientFds -> Conns \cup {NoConn}]
  /\ tcp \in [Conns -> {"none", "up", "closed"}]
  /\ stream \in [Conns -> Seq(Writes)]
  /\ room \in [Conns -> 0 .. SendRoom]
  /\ cpc \in {"idle", "payload"} /\ tpc \in {"idle", "payload"}
  /\ job \in Jobs /\ tjob \in Jobs
  /\ buf \in {"none", "live", "freed", "twice"}
  /\ cret \in Int
  /\ done \in [Writers -> 0 .. MaxJobs]
  /\ alive \in BOOLEAN

(* Whatever way server_send_file returns, its buffer does not stay behind.    *)
BufferReleased == cpc = "idle" => buf # "live"

SameJob(a, b) == a.by = b.by /\ a.nr = b.nr

OneReceiver(writer) ==
  \A c, d \in Conns : \A k \in DOMAIN stream[c], l \in DOMAIN stream[d] :
    /\ SameJob(stream[c][k].job, stream[d][l].job)
    /\ stream[c][k].job.by = writer
    => c = d

(* The two writes of a weather reply reach one device: the number cannot      *)
(* change hands during the pause, because the thread that pauses is the one  *)
(* that closes and accepts.                                                  *)
ReplyHasOneReceiver == OneReceiver("thread")

(* A file of the console may reach another device than its header did, but    *)
(* only when the device that got the header has left: none that is still      *)
(* connected waits for contents that went elsewhere, whatever the server      *)
(* thread accepts, closes and answers during the pause.                     *)
StrayFileMeansDeparture ==
  \A c, d \in Conns : \A k \in DOMAIN stream[c], l \in DOMAIN stream[d] :
    /\ c # d /\ SameJob(stream[c][k].job, stream[d][l].job)
    /\ stream[c][k].part = "header"
    => tcp[c] = "closed"
------------------------------------------------------------------------------
(* What comments of the code say and the code does not do.                  *)

(* "Send a file to a terminal" (server.c:60): header and contents reach the  *)
(* same one.                                                                *)
FileHasOneReceiver == OneReceiver("console")

(* "Wait 100 ms so that header and data do not run together" (server.c:402),  *)
(* so that a device can tell them apart (client.c:316): behind a header that *)
(* announces data come these data.                                          *)
HeaderThenPayload ==
  \A c \in Conns : \A k \in DOMAIN stream[c] :
    (/\ k + 1 \in DOMAIN stream[c]
     /\ stream[c][k].part = "header" /\ stream[c][k].job.size > 0)
    => stream[c][k+1].job = stream[c][k].job

(* "0: success" (server.c:65): the connection has got the whole file.        *)
SuccessMeansWhole ==
  [][(cpc = "payload" /\ cpc' = "idle" /\ cret' = 0 /\ job.size > 0)
     => \E c \in Conns : \E k \in DOMAIN stream'[c] :
          /\ stream'[c][k].job = job /\ stream'[c][k].part = "payload"
          /\ stream'[c][k].got = job.size]_vars

(* "others: failure" (server.c:65): a failure is returned to the console.    *)
FailureIsReturned == alive /\ buf # "twice"

(* "fd == MAX_CLIENTNUM + 1: all clients are updated" (command.c:134).       *)
AllFdReachesAll ==
  [][(/\ done'["console"] # done["console"]
      /\ job'.type = "csupdate" /\ job'.fd = AllFd /\ job'.size > 0)
     => \A c \in Conns : tcp[c] = "up" =>
            \E k \in DOMAIN stream'[c] : stream'[c][k].job = job']_vars
==============================================================================
