----------------------------- MODULE WireProofs -----------------------------
(***************************************************************************)
(* Proofs about Wire, for any number of devices, descriptor numbers and      *)
(* jobs, any sizes and any send buffers. Each writer numbers its jobs, so     *)
(* that the first write of a job is the first with its number, and what a    *)
(* pausing writer has written so far is known to be with one device.         *)
(***************************************************************************)
EXTENDS Wire, SequenceTheorems, TLAPS

(* No entry of a stream belongs to a job that has not begun.                *)
Numbered ==
  \A c \in Conns : \A k \in DOMAIN stream[c] :
    stream[c][k].job.nr <= done[stream[c][k].job.by]

(* A writer that pauses is at the last job it began.                        *)
Pausing ==
  /\ cpc = "payload" => job.by = "console" /\ job.nr = done["console"]
  /\ tpc = "payload" => tjob.by = "thread" /\ tjob.nr = done["thread"]

(* While the server thread pauses, the number it replies to keeps its owner, *)
(* who has the header.                                                      *)
ReplyOwner ==
  tpc = "payload" =>
    /\ IsOpen(tjob.fd)
    /\ \A c \in Conns : \A k \in DOMAIN stream[c] :
         SameJob(stream[c][k].job, tjob) => c = owner[tjob.fd]

(* While the console pauses, the device that has the header either is the     *)
(* one behind the number, or has left.                                      *)
FileOwner ==
  cpc = "payload" =>
    \A c \in Conns : \A k \in DOMAIN stream[c] :
      SameJob(stream[c][k].job, job)
        => tcp[c] = "closed" \/ (IsOpen(job.fd) /\ c = owner[job.fd])

(* What a write adds to the streams is j's, and goes to o.                   *)
AddsOnly(j, part, o) ==
  \A c \in Conns : \A k \in DOMAIN stream'[c] :
    \/ k \in DOMAIN stream[c] /\ stream'[c][k] = stream[c][k]
    \/ /\ stream'[c][k].job = j /\ stream'[c][k].part = part
       /\ IsOpen(j.fd) /\ c = o

(* What j has written so far is with o, or with a device that has left.      *)
HeldBy(j, o) ==
  \A c \in Conns : \A k \in DOMAIN stream[c] :
    SameJob(stream[c][k].job, j) => c = o

HeldByOrGone(j, o) ==
  \A c \in Conns : \A k \in DOMAIN stream[c] :
    SameJob(stream[c][k].job, j) => c = o \/ tcp[c] = "closed"

(* j has not written yet.                                                   *)
Fresh(j) ==
  \A c \in Conns : \A k \in DOMAIN stream[c] : ~SameJob(stream[c][k].job, j)

(* The inductive invariant.                                                 *)
Inv == /\ TypeOK /\ Numbered /\ Pausing /\ ReplyOwner /\ FileOwner
       /\ ReplyHasOneReceiver /\ StrayFileMeansDeparture /\ BufferReleased
-----------------------------------------------------------------------------
(* What write returns.                                                      *)
LEMMA WriteResultType ==
  ASSUME TypeOK, NEW f, NEW n \in Nat
  PROVE  /\ WriteResult(f, n) \in Int
         /\ WriteResult(f, n) > 0 =>
              /\ IsOpen(f) /\ owner[f] \in Conns
              /\ WriteResult(f, n) <= room[owner[f]]
<1> DEFINE r == room[owner[f]]
<1>1. CASE IsOpen(f)
  <2>1. owner[f] \in Conns
    BY <1>1 DEF TypeOK, IsOpen
  <2>2. r \in 0 .. SendRoom
    BY <2>1 DEF TypeOK
  <2>3. r \in Nat
    BY <2>2, SMT, WireAssumption
  <2> HIDE DEF r
  <2>4. WriteResult(f, n) = IF n = 0 THEN 0 ELSE IF r = 0 THEN -1
                            ELSE IF n < r THEN n ELSE r
    BY <1>1, SMT DEF WriteResult, r
  <2>5. WriteResult(f, n) \in Int /\ (WriteResult(f, n) > 0 => WriteResult(f, n) <= r)
    BY <2>3, <2>4, SMT
  <2> QED
    BY <1>1, <2>1, <2>5 DEF r
<1>2. CASE ~IsOpen(f)
  <2>1. WriteResult(f, n) = -1
    BY <1>2 DEF WriteResult
  <2> QED
    BY <2>1, SMT
<1> QED
  BY <1>1, <1>2

(* What a write does to the streams: it adds nothing, or one entry at the    *)
(* end of the stream of the connection the number stands for.               *)
LEMMA WriteEffect ==
  ASSUME TypeOK, NEW j \in Jobs, NEW part \in {"header", "payload"}, NEW n \in Nat,
         Write(j, part, n)
  PROVE  /\ stream' \in [Conns -> Seq(Writes)]
         /\ room' \in [Conns -> 0 .. SendRoom]
         /\ \A c \in Conns :
              /\ \A k \in DOMAIN stream[c] :
                   k \in DOMAIN stream'[c] /\ stream'[c][k] = stream[c][k]
              /\ \A k \in DOMAIN stream'[c] \ DOMAIN stream[c] :
                   /\ k = Len(stream[c]) + 1
                   /\ stream'[c][k].job = j /\ stream'[c][k].part = part
                   /\ IsOpen(j.fd) /\ c = owner[j.fd]
<1> DEFINE ret == WriteResult(j.fd, n)
           o   == owner[j.fd]
           e   == [job |-> j, part |-> part, asked |-> n, got |-> ret]
<1>1. /\ ret \in Int
      /\ ret > 0 => IsOpen(j.fd) /\ o \in Conns /\ ret <= room[o]
  BY WriteResultType
<1>2. CASE ret > 0
  <2>1. /\ stream' = [stream EXCEPT ![o] = Append(@, e)]
        /\ room' = [room EXCEPT ![o] = @ - ret]
    BY <1>2 DEF Write
  <2>2. ret \in Nat
    BY <1>1, <1>2, SMT
  <2>3. e \in Writes
    BY <2>2 DEF Writes
  <2>4. room[o] \in 0 .. SendRoom /\ SendRoom \in Nat
    BY <1>1, <1>2, WireAssumption DEF TypeOK
  <2> DEFINE r == room[o]
  <2>5. r - ret \in 0 .. SendRoom
    <3>1. r \in 0 .. SendRoom /\ SendRoom \in Nat /\ ret <= r /\ ret \in Nat
      BY <1>1, <1>2, <2>2, <2>4
    <3> HIDE DEF r, ret
    <3> QED
      BY <3>1, SMT
  <2>6. room' \in [Conns -> 0 .. SendRoom]
    BY <2>1, <2>5 DEF TypeOK
  <2> DEFINE s == stream[o]
  <2> HIDE DEF e, ret
  <2>7. s \in Seq(Writes)
    BY <1>1, <1>2 DEF TypeOK
  <2>8. /\ Append(s, e) \in Seq(Writes)
        /\ Len(Append(s, e)) = Len(s) + 1
        /\ \A k \in 1 .. Len(s) : Append(s, e)[k] = s[k]
        /\ Append(s, e)[Len(s) + 1] = e
    BY <2>3, <2>7, AppendProperties
  <2>9. Len(s) \in Nat /\ DOMAIN s = 1 .. Len(s)
    BY <2>7, LenProperties
  <2>10. DOMAIN Append(s, e) = 1 .. Len(s) + 1
    BY <2>8, LenProperties
  <2>11. stream' \in [Conns -> Seq(Writes)]
    BY <2>1, <2>8 DEF TypeOK
  <2>12. ASSUME NEW c \in Conns
         PROVE  /\ \A k \in DOMAIN stream[c] :
                     k \in DOMAIN stream'[c] /\ stream'[c][k] = stream[c][k]
                /\ \A k \in DOMAIN stream'[c] \ DOMAIN stream[c] :
                     /\ k = Len(stream[c]) + 1
                     /\ stream'[c][k].job = j /\ stream'[c][k].part = part
                     /\ IsOpen(j.fd) /\ c = owner[j.fd]
    <3>1. CASE c = o
      <4>1. stream'[c] = Append(s, e) /\ stream[c] = s
        BY <2>1, <3>1 DEF TypeOK
      <4>2. DOMAIN s \subseteq DOMAIN Append(s, e)
        BY <2>9, <2>10, SMT
      <4>3. \A k \in DOMAIN Append(s, e) \ DOMAIN s : k = Len(s) + 1
        BY <2>9, <2>10, SMT
      <4>4. e.job = j /\ e.part = part
        BY DEF e
      <4> HIDE DEF s
      <4> QED
        BY <1>1, <1>2, <2>8, <2>9, <3>1, <4>1, <4>2, <4>3, <4>4
    <3>2. CASE c # o
      <4>1. stream'[c] = stream[c]
        BY <2>1, <3>2 DEF TypeOK
      <4> QED
        BY <4>1
    <3> QED
      BY <3>1, <3>2
  <2> QED
    BY <2>6, <2>11, <2>12
<1>3. CASE ~(ret > 0)
  <2>1. stream' = stream /\ room' = room
    BY <1>3 DEF Write
  <2> QED
    BY <2>1 DEF TypeOK
<1> QED
  BY <1>2, <1>3
-----------------------------------------------------------------------------
(* The types of what a step may use, and of the streams.                     *)
LEMMA StreamFacts ==
  ASSUME TypeOK, NEW c \in Conns
  PROVE  /\ Len(stream[c]) \in Nat /\ DOMAIN stream[c] = 1 .. Len(stream[c])
         /\ \A k \in DOMAIN stream[c] :
              /\ stream[c][k].job \in Jobs
              /\ stream[c][k].job.by \in Writers /\ stream[c][k].job.nr \in Nat
              /\ stream[c][k].part \in {"header", "payload"}
<1>1. stream[c] \in Seq(Writes)
  BY DEF TypeOK
<1>2. Len(stream[c]) \in Nat /\ DOMAIN stream[c] = 1 .. Len(stream[c])
  BY <1>1, LenProperties
<1>3. \A k \in DOMAIN stream[c] : stream[c][k] \in Writes
  BY <1>1, <1>2, ElementOfSeq
<1>4. \A e \in Writes : e.job \in Jobs /\ e.part \in {"header", "payload"}
  BY DEF Writes
<1>5. \A j \in Jobs : j.by \in Writers /\ j.nr \in Nat
  BY WireAssumption, SMT DEF Jobs
<1> QED
  BY <1>2, <1>3, <1>4, <1>5

(* The first write of a job: its number is new.                             *)
LEMMA HeaderWrite ==
  ASSUME TypeOK, Numbered,
         NEW j \in Jobs, NEW n \in Nat, Write(j, "header", n),
         j.nr = done[j.by] + 1,
         done' = [done EXCEPT ![j.by] = @ + 1]
  PROVE  Numbered' /\ Fresh(j) /\ AddsOnly(j, "header", owner[j.fd])
<1>1. \A c \in Conns :
        /\ \A k \in DOMAIN stream[c] :
             k \in DOMAIN stream'[c] /\ stream'[c][k] = stream[c][k]
        /\ \A k \in DOMAIN stream'[c] \ DOMAIN stream[c] :
             /\ k = Len(stream[c]) + 1
             /\ stream'[c][k].job = j /\ stream'[c][k].part = "header"
             /\ IsOpen(j.fd) /\ c = owner[j.fd]
  BY WriteEffect
<1>2. /\ j.by \in Writers /\ done[j.by] \in Nat
      /\ \A w \in Writers : done[w] \in Nat
      /\ done'[j.by] = done[j.by] + 1
      /\ \A w \in Writers : w # j.by => done'[w] = done[w]
  BY WireAssumption, SMT DEF TypeOK, Jobs
<1>3. ASSUME NEW c \in Conns, NEW k \in DOMAIN stream'[c]
      PROVE  \/ /\ k \in DOMAIN stream[c] /\ stream'[c][k] = stream[c][k]
                /\ k \in Nat /\ k <= Len(stream[c])
                /\ stream[c][k].job \in Jobs
                /\ stream[c][k].job.by \in Writers /\ stream[c][k].job.nr \in Nat
                /\ stream[c][k].job.nr <= done[stream[c][k].job.by]
             \/ /\ k \notin DOMAIN stream[c]
                /\ k = Len(stream[c]) + 1 /\ Len(stream[c]) \in Nat
                /\ stream'[c][k].job = j /\ stream'[c][k].part = "header"
                /\ IsOpen(j.fd) /\ c = owner[j.fd]
  <2>1. CASE k \in DOMAIN stream[c]
    <3>1. k \in Nat /\ k <= Len(stream[c])
      BY <2>1, StreamFacts, SMT
    <3>2. stream[c][k].job.nr <= done[stream[c][k].job.by]
      BY <2>1 DEF Numbered
    <3> QED
      BY <1>1, <2>1, <3>1, <3>2, StreamFacts
  <2>2. CASE k \notin DOMAIN stream[c]
    BY <1>1, <2>2, StreamFacts
  <2> QED
    BY <2>1, <2>2
<1>4. Numbered'
  <2> SUFFICES ASSUME NEW c \in Conns, NEW k \in DOMAIN stream'[c]
               PROVE  stream'[c][k].job.nr <= done'[stream'[c][k].job.by]
    BY DEF Numbered
  <2> DEFINE e == stream'[c][k].job
  <2>1. CASE k \in DOMAIN stream[c]
    <3>1. /\ e.by \in Writers /\ e.nr \in Nat /\ e.nr <= done[e.by]
      BY <1>3, <2>1
    <3>2. CASE e.by = j.by
      <4> DEFINE d == done[j.by]
      <4>1. d \in Nat /\ e.nr \in Nat /\ e.nr <= d /\ done'[e.by] = d + 1
        BY <1>2, <3>1, <3>2
      <4> HIDE DEF d, e
      <4> QED
        BY <4>1, SMT DEF e
    <3>3. CASE e.by # j.by
      BY <1>2, <3>1, <3>3
    <3> QED
      BY <3>2, <3>3
  <2>2. CASE k \notin DOMAIN stream[c]
    <3>1. e = j
      BY <1>3, <2>2
    <3>2. j.nr <= done'[j.by]
      BY <1>2, SMT
    <3> QED
      BY <3>1, <3>2
  <2> QED
    BY <2>1, <2>2
<1>5. ASSUME NEW c \in Conns, NEW k \in DOMAIN stream[c],
             SameJob(stream[c][k].job, j)
      PROVE  FALSE
  <2> DEFINE a == j.nr
             d == done[j.by]
  <2>1. a \in Nat /\ a <= d /\ d \in Nat /\ a = d + 1
    BY <1>2, <1>5, StreamFacts DEF Numbered, SameJob
  <2> HIDE DEF a, d
  <2> QED
    BY <2>1, SMT
<1> QED
  BY <1>3, <1>4, <1>5 DEF AddsOnly, Fresh

(* The second write of a job: its number is the last one.                   *)
LEMMA PayloadWrite ==
  ASSUME TypeOK, Numbered,
         NEW j \in Jobs, NEW n \in Nat, Write(j, "payload", n),
         j.nr = done[j.by], done' = done
  PROVE  Numbered' /\ AddsOnly(j, "payload", owner[j.fd])
<1>1. \A c \in Conns :
        /\ \A k \in DOMAIN stream[c] :
             k \in DOMAIN stream'[c] /\ stream'[c][k] = stream[c][k]
        /\ \A k \in DOMAIN stream'[c] \ DOMAIN stream[c] :
             /\ k = Len(stream[c]) + 1
             /\ stream'[c][k].job = j /\ stream'[c][k].part = "payload"
             /\ IsOpen(j.fd) /\ c = owner[j.fd]
  BY WriteEffect
<1>2. /\ j.by \in Writers /\ done[j.by] \in Nat
      /\ \A w \in Writers : done[w] \in Nat
  BY WireAssumption, SMT DEF TypeOK, Jobs
<1>3. ASSUME NEW c \in Conns, NEW k \in DOMAIN stream'[c]
      PROVE  \/ /\ k \in DOMAIN stream[c] /\ stream'[c][k] = stream[c][k]
                /\ k \in Nat /\ k <= Len(stream[c])
                /\ stream[c][k].job \in Jobs
                /\ stream[c][k].job.by \in Writers /\ stream[c][k].job.nr \in Nat
                /\ stream[c][k].job.nr <= done[stream[c][k].job.by]
             \/ /\ k \notin DOMAIN stream[c]
                /\ k = Len(stream[c]) + 1 /\ Len(stream[c]) \in Nat
                /\ stream'[c][k].job = j /\ stream'[c][k].part = "payload"
                /\ IsOpen(j.fd) /\ c = owner[j.fd]
  <2>1. CASE k \in DOMAIN stream[c]
    <3>1. k \in Nat /\ k <= Len(stream[c])
      BY <2>1, StreamFacts, SMT
    <3>2. stream[c][k].job.nr <= done[stream[c][k].job.by]
      BY <2>1 DEF Numbered
    <3> QED
      BY <1>1, <2>1, <3>1, <3>2, StreamFacts
  <2>2. CASE k \notin DOMAIN stream[c]
    BY <1>1, <2>2, StreamFacts
  <2> QED
    BY <2>1, <2>2
<1>4. Numbered'
  <2> SUFFICES ASSUME NEW c \in Conns, NEW k \in DOMAIN stream'[c]
               PROVE  stream'[c][k].job.nr <= done'[stream'[c][k].job.by]
    BY DEF Numbered
  <2>1. CASE k \in DOMAIN stream[c]
    BY <1>3, <2>1
  <2>2. CASE k \notin DOMAIN stream[c]
    <3>1. stream'[c][k].job = j
      BY <1>3, <2>2
    <3>2. j.nr <= done[j.by]
      BY <1>2, SMT
    <3> QED
      BY <3>1, <3>2
  <2> QED
    BY <2>1, <2>2
<1> QED
  BY <1>3, <1>4 DEF AddsOnly

(* A command that fails before it writes takes a number all the same.        *)
LEMMA EmptyJob ==
  ASSUME TypeOK, Numbered, NEW w \in Writers,
         stream' = stream, done' = [done EXCEPT ![w] = @ + 1]
  PROVE  Numbered'
<1>1. /\ \A v \in Writers : done[v] \in Nat
      /\ done'[w] = done[w] + 1
      /\ \A v \in Writers : v # w => done'[v] = done[v]
  BY WireAssumption, SMT DEF TypeOK
<1>2. \A v \in Writers : done[v] <= done'[v] /\ done'[v] \in Nat
  BY <1>1, SMT
<1>3. Numbered'
  <2> SUFFICES ASSUME NEW c \in Conns, NEW k \in DOMAIN stream[c]
               PROVE  stream[c][k].job.nr <= done'[stream[c][k].job.by]
    BY DEF Numbered
  <2> DEFINE e == stream[c][k].job
             x == done[e.by]
             y == done'[e.by]
  <2>1. e.nr \in Nat /\ e.by \in Writers
    BY StreamFacts
  <2>2. e.nr \in Nat /\ x \in Nat /\ y \in Nat /\ e.nr <= x /\ x <= y
    BY <1>1, <1>2, <2>1 DEF Numbered
  <2> HIDE DEF x, y, e
  <2>3. e.nr <= y
    BY <2>2, SMT
  <2> QED
    BY <2>3 DEF y, e
<1> QED
  BY <1>3
-----------------------------------------------------------------------------
(* Entries of another writer, or of the connection that has the job already,  *)
(* do not give a job a second receiver.                                     *)
LEMMA OneReceiverKept ==
  ASSUME NEW w, OneReceiver(w), NEW j, NEW part, NEW o,
         AddsOnly(j, part, o), j.by # w \/ HeldBy(j, o)
  PROVE  OneReceiver(w)'
<1> SUFFICES ASSUME NEW c \in Conns, NEW d \in Conns,
                    NEW k \in DOMAIN stream'[c], NEW l \in DOMAIN stream'[d],
                    SameJob(stream'[c][k].job, stream'[d][l].job),
                    stream'[c][k].job.by = w
             PROVE  c = d
  BY DEF OneReceiver, SameJob
<1>1. CASE k \in DOMAIN stream[c] /\ stream'[c][k] = stream[c][k]
           /\ l \in DOMAIN stream[d] /\ stream'[d][l] = stream[d][l]
  BY <1>1 DEF OneReceiver
<1>2. CASE k \in DOMAIN stream[c] /\ stream'[c][k] = stream[c][k]
           /\ stream'[d][l].job = j /\ d = o
  BY <1>2 DEF HeldBy, SameJob
<1>3. CASE l \in DOMAIN stream[d] /\ stream'[d][l] = stream[d][l]
           /\ stream'[c][k].job = j /\ c = o
  BY <1>3 DEF HeldBy, SameJob
<1>4. CASE c = o /\ d = o
  BY <1>4
<1> QED
  BY <1>1, <1>2, <1>3, <1>4 DEF AddsOnly

(* A job that writes for the first time, or writes its payload when what it   *)
(* has written is with that device or with one that has left, strays only    *)
(* from a device that has left.                                             *)
LEMMA StrayKept ==
  ASSUME StrayFileMeansDeparture, NEW j, NEW part, NEW o,
         AddsOnly(j, part, o), tcp' = tcp,
         Fresh(j) \/ (part = "payload" /\ HeldByOrGone(j, o))
  PROVE  StrayFileMeansDeparture'
<1> SUFFICES ASSUME NEW c \in Conns, NEW d \in Conns,
                    NEW k \in DOMAIN stream'[c], NEW l \in DOMAIN stream'[d],
                    c # d, SameJob(stream'[c][k].job, stream'[d][l].job),
                    stream'[c][k].part = "header"
             PROVE  tcp[c] = "closed"
  BY DEF StrayFileMeansDeparture, SameJob
<1>1. CASE k \in DOMAIN stream[c] /\ stream'[c][k] = stream[c][k]
           /\ l \in DOMAIN stream[d] /\ stream'[d][l] = stream[d][l]
  BY <1>1 DEF StrayFileMeansDeparture
<1>2. CASE k \in DOMAIN stream[c] /\ stream'[c][k] = stream[c][k]
           /\ stream'[d][l].job = j /\ d = o
  BY <1>2 DEF HeldByOrGone, Fresh, SameJob
<1>3. CASE l \in DOMAIN stream[d] /\ stream'[d][l] = stream[d][l]
           /\ stream'[c][k].job = j /\ stream'[c][k].part = part /\ c = o
  BY <1>3 DEF HeldByOrGone, Fresh, SameJob
<1>4. CASE c = o /\ d = o
  BY <1>4
<1> QED
  BY <1>1, <1>2, <1>3, <1>4 DEF AddsOnly

(* Nothing is written and nobody pauses.                                    *)
LEMMA InitInv == Init => Inv
<1> SUFFICES ASSUME Init PROVE Inv
  OBVIOUS
<1>1. << >> \in Seq(Writes) /\ DOMAIN << >> = {}
  BY EmptySeq
<1>2. \A c \in Conns : stream[c] = << >>
  BY DEF Init
<1>3. Numbered /\ ReplyHasOneReceiver /\ StrayFileMeansDeparture
  BY <1>1, <1>2 DEF Numbered, ReplyHasOneReceiver, OneReceiver,
                    StrayFileMeansDeparture
<1>4. Pausing /\ ReplyOwner /\ FileOwner /\ BufferReleased
  BY DEF Init, Pausing, ReplyOwner, FileOwner, BufferReleased
<1>5. TypeOK
  <2>1. stream \in [Conns -> Seq(Writes)]
    BY <1>1 DEF Init
  <2>2. room \in [Conns -> 0 .. SendRoom]
    BY WireAssumption, SMT DEF Init
  <2>3. done \in [Writers -> 0 .. MaxJobs]
    BY WireAssumption, SMT DEF Init
  <2>4. owner \in [ClientFds -> Conns \cup {NoConn}]
        /\ tcp \in [Conns -> {"none", "up", "closed"}]
    BY DEF Init
  <2>5. job \in Jobs /\ tjob \in Jobs
    BY WireAssumption, SMT DEF Init, NoJob, Jobs, Writers, TypedFds
  <2> QED
    BY <2>1, <2>2, <2>3, <2>4, <2>5, SMT DEF Init, TypeOK
<1> QED
  BY <1>3, <1>4, <1>5 DEF Inv

(* The steps of the network: no stream changes, and no number changes hands   *)
(* while the server thread pauses.                                          *)
LEMMA DrainInv == ASSUME Inv, NEW c \in Conns, Drain(c) PROVE Inv'
<1> USE DEF Inv, Drain, console, thread
<1>1. room' \in [Conns -> 0 .. SendRoom]
  <2>1. PICK n \in 1 .. (SendRoom - room[c]) : room' = [room EXCEPT ![c] = @ + n]
    OBVIOUS
  <2>2. room[c] \in 0 .. SendRoom /\ SendRoom \in Nat
    BY WireAssumption DEF TypeOK
  <2> DEFINE r == room[c]
  <2>3. r + n \in 0 .. SendRoom
    <3>1. r \in 0 .. SendRoom /\ SendRoom \in Nat /\ n \in 1 .. (SendRoom - r)
      BY <2>2
    <3> HIDE DEF r
    <3> QED
      BY <3>1, SMT
  <2> QED
    BY <2>1, <2>3 DEF TypeOK
<1>2. TypeOK'
  BY <1>1 DEF TypeOK
<1>3. Numbered' /\ Pausing' /\ FileOwner' /\ StrayFileMeansDeparture'
  BY DEF Numbered, Pausing, FileOwner, StrayFileMeansDeparture, SameJob, IsOpen
<1>4. ReplyOwner' /\ ReplyHasOneReceiver' /\ BufferReleased'
  BY DEF ReplyOwner, ReplyHasOneReceiver, OneReceiver, SameJob, BufferReleased,
         IsOpen
<1> QED
  BY <1>2, <1>3, <1>4

(* A new connection: the thread is not pausing, so no reply loses its owner. *)
LEMMA AcceptInv ==
  ASSUME Inv, NEW c \in Conns, NEW f \in ClientFds, Accept(c, f) PROVE Inv'
<1> USE DEF Inv, Accept, ThreadIdle, console, thread
<1>1. TypeOK'
  BY DEF TypeOK
<1>2. Numbered' /\ Pausing'
  BY DEF Numbered, Pausing
<1>3. ReplyOwner' /\ ReplyHasOneReceiver' /\ BufferReleased'
  BY DEF ReplyOwner, ReplyHasOneReceiver, OneReceiver, SameJob, BufferReleased
<1>4. \A d \in Conns : tcp[d] = "closed" => tcp'[d] = "closed"
  BY DEF TypeOK
<1>5. FileOwner' /\ StrayFileMeansDeparture'
  <2>1. StrayFileMeansDeparture'
    BY <1>4 DEF StrayFileMeansDeparture, SameJob
  <2>2. IsOpen(job.fd) => owner'[job.fd] = owner[job.fd] /\ IsOpen(job.fd)'
    BY DEF IsOpen, TypeOK
  <2>3. FileOwner'
    BY <1>4, <2>2 DEF FileOwner, SameJob, IsOpen
  <2> QED
    BY <2>1, <2>3
<1> QED
  BY <1>1, <1>2, <1>3, <1>4, <1>5

(* A connection closes: again, never while the thread pauses.               *)
LEMMA CloseInv == ASSUME Inv, NEW f \in ClientFds, Close(f) PROVE Inv'
<1> USE DEF Inv, Close, ThreadIdle, console, thread
<1>1. TypeOK'
  BY DEF TypeOK
<1>2. Numbered' /\ Pausing'
  BY DEF Numbered, Pausing
<1>3. ReplyOwner' /\ ReplyHasOneReceiver' /\ BufferReleased'
  BY DEF ReplyOwner, ReplyHasOneReceiver, OneReceiver, SameJob, BufferReleased
<1>4. /\ \A d \in Conns : tcp[d] = "closed" => tcp'[d] = "closed"
      /\ owner[f] \in Conns => tcp'[owner[f]] = "closed"
  BY DEF TypeOK
<1>5. FileOwner' /\ StrayFileMeansDeparture'
  <2>1. StrayFileMeansDeparture'
    BY <1>4 DEF StrayFileMeansDeparture, SameJob
  <2>2. IsOpen(job.fd) => \/ owner'[job.fd] = owner[job.fd] /\ IsOpen(job.fd)'
                         \/ job.fd = f
    BY DEF IsOpen, TypeOK
  <2>3. FileOwner'
    BY <1>4, <2>2 DEF FileOwner, SameJob, IsOpen
  <2> QED
    BY <2>1, <2>3
<1> QED
  BY <1>1, <1>2, <1>3, <1>4, <1>5

(* A new job of a writer: its number and its type.                          *)
LEMMA NewJob ==
  ASSUME TypeOK, NEW w \in Writers, done[w] < MaxJobs,
         NEW type \in FileCommands \cup {"memo", "weather"},
         NEW f \in TypedFds, NEW n \in FileSizes \cup {0, WeatherSize},
         done' = [done EXCEPT ![w] = @ + 1]
  PROVE  /\ [by |-> w, nr |-> done[w] + 1, type |-> type, fd |-> f, size |-> n] \in Jobs
         /\ done' \in [Writers -> 0 .. MaxJobs] /\ done'[w] = done[w] + 1
         /\ \A v \in Writers : v # w => done'[v] = done[v]
<1> DEFINE d == done[w]
<1>1. d \in 0 .. MaxJobs /\ MaxJobs \in Nat /\ d < MaxJobs
  BY WireAssumption DEF TypeOK
<1>2. d + 1 \in 0 .. MaxJobs
  <2> HIDE DEF d
  <2> QED
    BY <1>1, SMT
<1>3. [by |-> w, nr |-> d + 1, type |-> type, fd |-> f, size |-> n] \in Jobs
  <2> HIDE DEF d
  <2> QED
    BY <1>2 DEF Jobs
<1> QED
  BY <1>2, <1>3 DEF TypeOK

(* Files and the weather have a length.                                     *)
LEMMA JobSize == ASSUME NEW j \in Jobs PROVE j.size \in Nat
<1>1. FileSizes \cup {0, WeatherSize} \subseteq Nat
  BY WireAssumption, SMT
<1>2. j.size \in FileSizes \cup {0, WeatherSize}
  BY SMT DEF Jobs
<1> QED
  BY <1>1, <1>2

(* The weather reply.                                                       *)
LEMMA ReplyHeaderInv == ASSUME Inv, NEW f \in ClientFds, ReplyHeader(f) PROVE Inv'
<1> USE DEF Inv, ReplyHeader, ThreadIdle, console
<1> DEFINE j == tjob'
<1>1. /\ done' = [done EXCEPT !["thread"] = @ + 1]
      /\ j = [by |-> "thread", nr |-> done["thread"] + 1, type |-> "weather",
               fd |-> f, size |-> WeatherSize]
      /\ "thread" \in Writers /\ "console" \in Writers /\ f \in TypedFds
      /\ HeaderSize \in Nat
      /\ tpc' = "payload" /\ owner' = owner /\ tcp' = tcp /\ cpc' = cpc
      /\ job' = job /\ buf' = buf /\ cret' = cret /\ alive' = alive
  BY WireAssumption DEF Writers, TypedFds
<1>2. Write(j, "header", HeaderSize)
  OBVIOUS
<1> HIDE DEF j
<1>3. /\ j \in Jobs /\ j.by = "thread" /\ j.nr = done[j.by] + 1 /\ j.fd = f
      /\ done' \in [Writers -> 0 .. MaxJobs] /\ j.nr = done'["thread"]
      /\ done'["console"] = done["console"]
      /\ done' = [done EXCEPT ![j.by] = @ + 1]
  <2>1. /\ j \in Jobs /\ j.by = "thread" /\ j.nr = done["thread"] + 1 /\ j.fd = f
        /\ done' \in [Writers -> 0 .. MaxJobs]
        /\ done'["thread"] = done["thread"] + 1
        /\ \A v \in Writers : v # "thread" => done'[v] = done[v]
    BY <1>1, NewJob
  <2> QED
    BY <1>1, <2>1
<1>4. stream' \in [Conns -> Seq(Writes)] /\ room' \in [Conns -> 0 .. SendRoom]
  BY <1>1, <1>2, <1>3, WriteEffect
<1>5. TypeOK'
  BY <1>1, <1>3, <1>4 DEF TypeOK, j
<1>6. Numbered' /\ Fresh(j) /\ AddsOnly(j, "header", owner[j.fd])
  BY <1>1, <1>2, <1>3, HeaderWrite
<1>7. Pausing' /\ FileOwner'
  <2>1. cpc = "payload" => ~SameJob(j, job)
    BY <1>3 DEF Pausing, SameJob
  <2>2. FileOwner'
    BY <1>1, <1>6, <2>1 DEF FileOwner, AddsOnly, IsOpen, SameJob
  <2>3. Pausing'
    BY <1>1, <1>3 DEF Pausing, j
  <2> QED
    BY <2>2, <2>3
<1>8. ReplyOwner' /\ StrayFileMeansDeparture'
  <2>1. ReplyOwner'
    BY <1>1, <1>3, <1>6 DEF ReplyOwner, IsOpen, AddsOnly, Fresh, SameJob, j
  <2>2. StrayFileMeansDeparture'
    BY <1>1, <1>6, StrayKept
  <2> QED
    BY <2>1, <2>2
<1>9. ReplyHasOneReceiver'
  <2>1. OneReceiver("thread") /\ HeldBy(j, owner[j.fd])
    BY <1>6 DEF ReplyHasOneReceiver, Fresh, HeldBy
  <2>2. OneReceiver("thread")'
    BY <1>6, <2>1, OneReceiverKept
  <2> QED
    BY <2>2 DEF ReplyHasOneReceiver
<1> QED
  BY <1>1, <1>5, <1>6, <1>7, <1>8, <1>9 DEF BufferReleased

(* The second write of the weather reply: the number still has its owner.    *)
LEMMA ReplyPayloadInv == ASSUME Inv, ReplyPayload PROVE Inv'
<1> USE DEF Inv, ReplyPayload, console
<1>1. /\ tjob \in Jobs /\ tjob.by = "thread" /\ tjob.nr = done[tjob.by]
      /\ done' = done /\ tjob.size \in Nat
      /\ Write(tjob, "payload", tjob.size)
      /\ "thread" \in Writers /\ "console" \in Writers
  <2>1. tjob \in Jobs
    BY DEF TypeOK
  <2>2. tjob.size \in Nat
    BY <2>1, JobSize
  <2> QED
    BY <2>1, <2>2 DEF Pausing, Writers
<1>2. stream' \in [Conns -> Seq(Writes)] /\ room' \in [Conns -> 0 .. SendRoom]
  BY <1>1, WriteEffect
<1>3. TypeOK'
  BY <1>2 DEF TypeOK
<1>4. Numbered' /\ AddsOnly(tjob, "payload", owner[tjob.fd])
  BY <1>1, PayloadWrite
<1>5. Pausing' /\ ReplyOwner' /\ FileOwner' /\ BufferReleased'
  <2>1. cpc = "payload" => ~SameJob(tjob, job)
    BY <1>1 DEF Pausing, SameJob
  <2>2. FileOwner'
    BY <1>4, <2>1 DEF FileOwner, AddsOnly, IsOpen, SameJob
  <2> QED
    BY <2>2 DEF Pausing, ReplyOwner, BufferReleased
<1>6. ReplyHasOneReceiver'
  <2>1. OneReceiver("thread")
    BY DEF ReplyHasOneReceiver
  <2>2. HeldBy(tjob, owner[tjob.fd])
    BY DEF ReplyOwner, HeldBy
  <2>3. OneReceiver("thread")'
    BY <1>4, <2>1, <2>2, OneReceiverKept
  <2> QED
    BY <2>3 DEF ReplyHasOneReceiver
<1>7. StrayFileMeansDeparture'
  <2>1. HeldByOrGone(tjob, owner[tjob.fd])
    BY DEF ReplyOwner, HeldByOrGone
  <2> QED
    BY <1>4, <2>1, StrayKept
<1> QED
  BY <1>3, <1>4, <1>5, <1>6, <1>7

(* The console. What any command that writes leaves in order.                *)
LEMMA CommandInv ==
  ASSUME Inv, NEW type \in FileCommands \cup {"memo"}, NEW f \in TypedFds,
         NEW n \in FileSizes \cup {0}, Command(type, f, n),
         Write(job', "header", HeaderSize)
  PROVE  /\ stream' \in [Conns -> Seq(Writes)] /\ room' \in [Conns -> 0 .. SendRoom]
         /\ job' \in Jobs /\ done' \in [Writers -> 0 .. MaxJobs]
         /\ Numbered' /\ done'["thread"] = done["thread"]
         /\ job'.by = "console" /\ job'.nr = done'["console"]
         /\ Fresh(job') /\ AddsOnly(job', "header", owner[job'.fd])
         /\ ReplyOwner' /\ ReplyHasOneReceiver' /\ StrayFileMeansDeparture'
<1> USE DEF Inv, Command, thread
<1> DEFINE j == job'
<1>1. /\ done' = [done EXCEPT !["console"] = @ + 1]
      /\ j = [by |-> "console", nr |-> done["console"] + 1, type |-> type,
               fd |-> f, size |-> n]
      /\ "thread" \in Writers /\ "console" \in Writers
      /\ HeaderSize \in Nat /\ done["console"] < MaxJobs
      /\ owner' = owner /\ tcp' = tcp /\ tpc' = tpc /\ tjob' = tjob
  BY WireAssumption DEF Writers
<1>2. Write(j, "header", HeaderSize)
  OBVIOUS
<1> HIDE DEF j
<1>3. /\ j \in Jobs /\ j.by = "console" /\ j.nr = done[j.by] + 1
      /\ done' \in [Writers -> 0 .. MaxJobs] /\ j.nr = done'["console"]
      /\ done'["thread"] = done["thread"]
      /\ done' = [done EXCEPT ![j.by] = @ + 1]
  <2>1. /\ j \in Jobs /\ j.by = "console" /\ j.nr = done["console"] + 1
        /\ done' \in [Writers -> 0 .. MaxJobs]
        /\ done'["console"] = done["console"] + 1
        /\ \A v \in Writers : v # "console" => done'[v] = done[v]
    BY <1>1, NewJob
  <2> QED
    BY <1>1, <2>1
<1>4. stream' \in [Conns -> Seq(Writes)] /\ room' \in [Conns -> 0 .. SendRoom]
  BY <1>1, <1>2, <1>3, WriteEffect
<1>5. Numbered' /\ Fresh(j) /\ AddsOnly(j, "header", owner[j.fd])
  BY <1>1, <1>2, <1>3, HeaderWrite
<1>6. StrayFileMeansDeparture'
  BY <1>1, <1>5, StrayKept
<1>7. ReplyOwner'
  <2>1. tpc = "payload" => ~SameJob(j, tjob)
    BY <1>3 DEF Pausing, SameJob
  <2> QED
    BY <1>1, <1>5, <2>1 DEF ReplyOwner, IsOpen, AddsOnly, SameJob
<1>8. ReplyHasOneReceiver'
  <2>1. OneReceiver("thread") /\ j.by # "thread"
    BY <1>3 DEF ReplyHasOneReceiver
  <2>2. OneReceiver("thread")'
    BY <1>5, <2>1, OneReceiverKept
  <2> QED
    BY <2>2 DEF ReplyHasOneReceiver
<1> QED
  BY <1>3, <1>4, <1>5, <1>6, <1>7, <1>8 DEF j

(* A memo: a header, and nothing to pause for.                              *)
LEMMA SendMemoInv == ASSUME Inv, NEW f \in TypedFds, SendMemo(f) PROVE Inv'
<1> USE DEF SendMemo
<1>1. /\ stream' \in [Conns -> Seq(Writes)] /\ room' \in [Conns -> 0 .. SendRoom]
      /\ job' \in Jobs /\ done' \in [Writers -> 0 .. MaxJobs]
      /\ Numbered' /\ done'["thread"] = done["thread"]
      /\ ReplyOwner' /\ ReplyHasOneReceiver' /\ StrayFileMeansDeparture'
  BY CommandInv
<1>2. /\ owner' = owner /\ tcp' = tcp /\ tpc' = tpc /\ tjob' = tjob
      /\ alive' = alive /\ cpc' = cpc /\ buf' = buf /\ cpc = "idle"
  BY DEF Command, thread
<1>3. cret' \in Int
  <2>1. WriteResult(f, HeaderSize) \in Int
    BY WriteResultType, WireAssumption DEF Inv
  <2> QED
    BY <2>1, SMT
<1>4. TypeOK'
  BY <1>1, <1>2, <1>3 DEF Inv, TypeOK
<1>5. Pausing' /\ FileOwner' /\ BufferReleased'
  BY <1>1, <1>2 DEF Inv, Pausing, FileOwner, BufferReleased
<1> QED
  BY <1>1, <1>4, <1>5 DEF Inv

(* A file: the header, then the console pauses.                             *)
LEMMA SendFileHeaderInv ==
  ASSUME Inv, NEW type \in FileCommands, NEW f \in TypedFds, NEW n \in FileSizes,
         SendFileHeader(type, f, n)
  PROVE  Inv'
<1> USE DEF SendFileHeader
<1>1. /\ stream' \in [Conns -> Seq(Writes)] /\ room' \in [Conns -> 0 .. SendRoom]
      /\ job' \in Jobs /\ done' \in [Writers -> 0 .. MaxJobs]
      /\ Numbered' /\ done'["thread"] = done["thread"]
      /\ job'.by = "console" /\ job'.nr = done'["console"]
      /\ Fresh(job') /\ AddsOnly(job', "header", owner[job'.fd])
      /\ ReplyOwner' /\ ReplyHasOneReceiver' /\ StrayFileMeansDeparture'
  BY CommandInv
<1>2. /\ owner' = owner /\ tcp' = tcp /\ tpc' = tpc /\ tjob' = tjob
      /\ alive' = alive /\ cpc' = "payload" /\ buf' = "live" /\ cret' = cret
  BY DEF Command, thread
<1>3. TypeOK'
  BY <1>1, <1>2 DEF Inv, TypeOK
<1>4. Pausing' /\ BufferReleased'
  BY <1>1, <1>2 DEF Inv, Pausing, BufferReleased
<1>5. FileOwner'
  <2> SUFFICES ASSUME NEW c \in Conns, NEW k \in DOMAIN stream'[c],
                      SameJob(stream'[c][k].job, job')
               PROVE  IsOpen(job.fd)' /\ c = owner'[job'.fd]
    BY <1>2 DEF FileOwner
  <2>1. k \notin DOMAIN stream[c] \/ stream'[c][k] # stream[c][k]
    BY <1>1 DEF Fresh
  <2>2. IsOpen(job'.fd) /\ c = owner[job'.fd]
    BY <1>1, <2>1 DEF AddsOnly
  <2> QED
    BY <1>2, <2>2 DEF IsOpen
<1> QED
  BY <1>1, <1>3, <1>4, <1>5 DEF Inv

(* The error paths of server_send_file before its first write.              *)
LEMMA SendFileFailsInv ==
  ASSUME Inv, NEW type \in FileCommands, NEW f \in TypedFds, SendFileFails(type, f)
  PROVE  Inv'
<1> USE DEF Inv, SendFileFails, Command, thread
<1>1. /\ done' = [done EXCEPT !["console"] = @ + 1] /\ done["console"] < MaxJobs
      /\ job' = [by |-> "console", nr |-> done["console"] + 1, type |-> type,
                 fd |-> f, size |-> 0]
      /\ "thread" \in Writers /\ "console" \in Writers
      /\ owner' = owner /\ tcp' = tcp /\ tpc' = tpc /\ tjob' = tjob /\ alive' = alive
      /\ stream' = stream /\ room' = room /\ cpc' = "idle" /\ cpc = "idle"
  BY DEF Writers
<1>2. /\ job' \in Jobs /\ done' \in [Writers -> 0 .. MaxJobs]
      /\ done'["thread"] = done["thread"]
  <2>1. /\ type \in FileCommands \cup {"memo", "weather"}
        /\ 0 \in FileSizes \cup {0, WeatherSize}
    OBVIOUS
  <2> HIDE DEF SendFileFails, Command
  <2>2. TypeOK
    OBVIOUS
  <2> HIDE DEF Inv
  <2>3. /\ [by |-> "console", nr |-> done["console"] + 1, type |-> type,
             fd |-> f, size |-> 0] \in Jobs
        /\ done' \in [Writers -> 0 .. MaxJobs]
        /\ \A v \in Writers : v # "console" => done'[v] = done[v]
    BY <1>1, <2>1, <2>2, NewJob
  <2> QED
    BY <1>1, <2>3
<1>3. cret' \in Int /\ (buf' = buf \/ buf' = "freed")
  BY SMT
<1>4. TypeOK'
  BY <1>1, <1>2, <1>3 DEF TypeOK
<1>5. Numbered'
  BY <1>1, EmptyJob
<1>6. Pausing' /\ FileOwner'
  BY <1>1, <1>2 DEF Pausing, FileOwner
<1>7. ReplyOwner' /\ ReplyHasOneReceiver' /\ StrayFileMeansDeparture'
  BY <1>1 DEF ReplyOwner, ReplyHasOneReceiver, OneReceiver, SameJob, IsOpen,
              StrayFileMeansDeparture
<1>8. BufferReleased'
  BY <1>1, <1>3 DEF BufferReleased
<1> QED
  BY <1>4, <1>5, <1>6, <1>7, <1>8

(* The second write of a file, after which every path has freed the buffer. *)
LEMMA SendFilePayloadInv == ASSUME Inv, SendFilePayload PROVE Inv'
<1> USE DEF Inv, SendFilePayload, thread
<1>1. /\ job \in Jobs /\ job.by = "console" /\ job.nr = done[job.by]
      /\ done' = done /\ job.size \in Nat
      /\ Write(job, "payload", job.size)
      /\ "thread" \in Writers /\ "console" \in Writers
  <2>1. job \in Jobs
    BY DEF TypeOK
  <2>2. job.size \in Nat
    BY <2>1, JobSize
  <2> QED
    BY <2>1, <2>2 DEF Pausing, Writers
<1>2. stream' \in [Conns -> Seq(Writes)] /\ room' \in [Conns -> 0 .. SendRoom]
  BY <1>1, WriteEffect
<1>3. cret' \in Int /\ buf' \in {"twice", "freed"} /\ alive' \in BOOLEAN
  <2>1. CASE WriteResult(job.fd, job.size) < 0
    <3>1. cret' = -4 /\ buf' = "twice" /\ alive' \in BOOLEAN
      BY <2>1
    <3> QED
      BY <3>1, SMT
  <2>2. CASE ~(WriteResult(job.fd, job.size) < 0)
    <3>1. cret' = 0 /\ buf' = "freed" /\ alive' = alive
      BY <2>2
    <3> QED
      BY <3>1 DEF TypeOK
  <2> QED
    BY <2>1, <2>2
<1>4. /\ owner' = owner /\ tcp' = tcp /\ tpc' = tpc /\ tjob' = tjob
      /\ job' = job /\ done' = done /\ cpc' = "idle"
  OBVIOUS
<1>5. TypeOK'
  BY <1>2, <1>3, <1>4 DEF TypeOK
<1>6. Numbered' /\ AddsOnly(job, "payload", owner[job.fd])
  BY <1>1, PayloadWrite
<1>7. Pausing' /\ FileOwner'
  BY <1>4 DEF Pausing, FileOwner
<1>8. ReplyOwner' /\ StrayFileMeansDeparture'
  <2>1. tpc = "payload" => ~SameJob(job, tjob)
    BY <1>1 DEF Pausing, SameJob
  <2>2. HeldByOrGone(job, owner[job.fd])
    BY DEF FileOwner, HeldByOrGone
  <2>3. StrayFileMeansDeparture'
    BY <1>4, <1>6, <2>2, StrayKept
  <2> QED
    BY <1>4, <1>6, <2>1, <2>3 DEF ReplyOwner, IsOpen, AddsOnly, SameJob
<1>9. ReplyHasOneReceiver'
  <2>1. OneReceiver("thread") /\ job.by # "thread"
    BY <1>1 DEF ReplyHasOneReceiver
  <2>2. OneReceiver("thread")'
    BY <1>6, <2>1, OneReceiverKept
  <2> QED
    BY <2>2 DEF ReplyHasOneReceiver
<1>10. BufferReleased'
  BY <1>3 DEF BufferReleased
<1> QED
  BY <1>5, <1>6, <1>7, <1>8, <1>9, <1>10
-----------------------------------------------------------------------------
(* The invariant is inductive.                                              *)
LEMMA NextInv == Inv /\ [Next]_vars => Inv'
<1> SUFFICES ASSUME Inv, [Next]_vars PROVE Inv'
  OBVIOUS
<1>1. ASSUME NEW c \in Conns, Drain(c) PROVE Inv'
  BY <1>1, DrainInv
<1>2. ASSUME NEW c \in Conns, NEW f \in ClientFds, Accept(c, f) PROVE Inv'
  BY <1>2, AcceptInv
<1>3. ASSUME NEW f \in ClientFds, Close(f) PROVE Inv'
  BY <1>3, CloseInv
<1>4. ASSUME NEW f \in ClientFds, ReplyHeader(f) PROVE Inv'
  BY <1>4, ReplyHeaderInv
<1>5. CASE ReplyPayload
  BY <1>5, ReplyPayloadInv
<1>6. ASSUME NEW f \in TypedFds, SendMemo(f) PROVE Inv'
  BY <1>6, SendMemoInv
<1>7. ASSUME NEW type \in FileCommands, NEW f \in TypedFds, SendFileFails(type, f)
      PROVE  Inv'
  BY <1>7, SendFileFailsInv
<1>8. ASSUME NEW type \in FileCommands, NEW f \in TypedFds, NEW n \in FileSizes,
             SendFileHeader(type, f, n)
      PROVE  Inv'
  BY <1>8, SendFileHeaderInv
<1>9. CASE SendFilePayload
  BY <1>9, SendFilePayloadInv
<1>10. CASE UNCHANGED vars
  BY <1>10 DEF Inv, TypeOK, Numbered, Pausing, ReplyOwner, FileOwner, SameJob,
       IsOpen, ReplyHasOneReceiver, OneReceiver, StrayFileMeansDeparture,
       BufferReleased,
       vars, network, console, thread
<1> QED
  BY <1>1, <1>2, <1>3, <1>4, <1>5, <1>6, <1>7, <1>8, <1>9, <1>10
     DEF Next, ThreadNext, ConsoleNext

(* The invariant of the two writers and the connections they write to.       *)
THEOREM InvCorrect == Spec => []Inv
<1> QED
  BY InitInv, NextInv, PTL DEF Spec

(* The connections, the streams and both writers keep their types.           *)
THEOREM TypeCorrect == Spec => []TypeOK
<1>1. Inv => TypeOK
  BY DEF Inv
<1> QED
  BY <1>1, InvCorrect, PTL

(* However server_send_file returns, it has freed its buffer.               *)
THEOREM BufferReleasedCorrect == Spec => []BufferReleased
<1>1. Inv => BufferReleased
  BY DEF Inv
<1> QED
  BY <1>1, InvCorrect, PTL

(* Both writes of a weather reply reach the same device.                    *)
THEOREM ReplyHasOneReceiverCorrect == Spec => []ReplyHasOneReceiver
<1>1. Inv => ReplyHasOneReceiver
  BY DEF Inv
<1> QED
  BY <1>1, InvCorrect, PTL

(* The contents of a file of the console reach another device than the header *)
(* only when the one that got the header has left.                          *)
THEOREM StrayFileMeansDepartureCorrect == Spec => []StrayFileMeansDeparture
<1>1. Inv => StrayFileMeansDeparture
  BY DEF Inv
<1> QED
  BY <1>1, InvCorrect, PTL
=============================================================================
