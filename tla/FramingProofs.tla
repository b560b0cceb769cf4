---------------------------- MODULE FramingProofs ----------------------------
(***************************************************************************)
(* Proofs about Framing, for a buffer and texts of any length: however the      *)
(* stream is cut and merged, the texts that are handled are a subsequence of   *)
(* the texts that were sent.                                                *)
(***************************************************************************)
EXTENDS Framing, FiniteSetTheorems, SequenceTheorems, TLAPS

Byte == [text : Nat, pos : Nat \ {0}]

(* The bytes that were sent and not read, in the order of sending.             *)
Stream == inbox \o transit

Before(a, b) == a.text < b.text \/ (a.text = b.text /\ a.pos < b.pos)

InOrder(s) == \A i, j \in 1 .. Len(s) : i < j => Before(s[i], s[j])

FrameTypes ==
  /\ sent \in Seq(Nat \ {0})
  /\ transit \in Seq(Byte) /\ inbox \in Seq(Byte)
  /\ handled \in Seq(Nat)

(* A text whose first byte is still to be read comes behind the last one that    *)
(* was handled.                                                             *)
Ahead(s) ==
  \A i \in 1 .. Len(s) :
    /\ s[i].text <= Len(sent)
    /\ s[i].pos = 1 /\ handled # << >> => handled[Len(handled)] < s[i].text

FrameInv ==
  /\ FrameTypes
  /\ InOrder(Stream) /\ Ahead(Stream)
  /\ handled # << >> => handled[Len(handled)] <= Len(sent)

(***************************************************************************)
(* Sequences of bytes, and the conversion of at most one text.               *)
(***************************************************************************)
LEMMA ByteOfStream ==
  ASSUME NEW s \in Seq(Byte), NEW i \in 1 .. Len(s)
  PROVE  s[i].text \in Nat /\ s[i].pos \in Nat \ {0}
<1>1. s[i] \in Byte
  BY ElementOfSeq
<1> QED
  BY <1>1 DEF Byte

LEMMA Suffix ==
  ASSUME NEW s \in Seq(Byte), NEW n \in 0 .. Len(s)
  PROVE  /\ SubSeq(s, n + 1, Len(s)) \in Seq(Byte)
         /\ Len(SubSeq(s, n + 1, Len(s))) = Len(s) - n
         /\ \A i \in 1 .. Len(s) - n : SubSeq(s, n + 1, Len(s))[i] = s[n + i]
<1>1. \A i \in n + 1 .. Len(s) : s[i] \in Byte
  OBVIOUS
<1> QED
  BY <1>1, SubSeqProperties

LEMMA Prefix ==
  ASSUME NEW s \in Seq(Byte), NEW n \in 0 .. Len(s)
  PROVE  /\ SubSeq(s, 1, n) \in Seq(Byte)
         /\ Len(SubSeq(s, 1, n)) = n
         /\ \A i \in 1 .. n : SubSeq(s, 1, n)[i] = s[i]
<1>1. \A i \in 1 .. n : s[i] \in Byte
  OBVIOUS
<1> QED
  BY <1>1, SubSeqProperties

LEMMA OneOrNone ==
  /\ SetToSeq({}) = << >>
  /\ \A k \in Nat : SetToSeq({k}) = <<k>>
<1>1. SetToSeq({}) = << >>
  <2>1. << >> \in [1 .. 0 -> {}] /\ \A f \in [1 .. 0 -> {}] : f = << >>
    <3>1. \A f \in [1 .. 0 -> {}] : f \in Seq({}) /\ Len(f) = 0
      OBVIOUS
    <3>2. << >> \in [1 .. 0 -> {}]
      OBVIOUS
    <3> QED
      BY <3>1, <3>2, EmptySeq
  <2>2. IsInjective(<< >>)
    BY DEF IsInjective
  <2> QED
    BY <2>1, <2>2, FS_EmptySet DEF SetToSeq
<1>2. ASSUME NEW k \in Nat PROVE SetToSeq({k}) = <<k>>
  <2>1. \A f : f \in [1 .. 1 -> {k}] <=> f = <<k>>
    OBVIOUS
  <2>2. IsInjective(<<k>>)
    BY DEF IsInjective
  <2> QED
    BY <2>1, <2>2, FS_Singleton DEF SetToSeq
<1> QED
  BY <1>1, <1>2

(* cJSON_Parse finds no text, or one that begins somewhere in the buffer.        *)
LEMMA ParsedInChunk ==
  ASSUME FrameTypes, NEW chunk \in Seq(Byte), chunk # << >>
  PROVE  \/ Parsed(chunk) = {}
         \/ \E i \in 1 .. Len(chunk) :
              /\ chunk[i].pos = 1 /\ chunk[i].text <= Len(sent)
              /\ Parsed(chunk) = {chunk[i].text}
<1> DEFINE rest == Skipped(chunk)
<1>1. \/ rest = << >>
      \/ \E i \in 1 .. Len(chunk) : rest[1] = chunk[i]
  <2>1. CASE rest = chunk
    BY <2>1
  <2>2. CASE rest = Tail(chunk)
    <3>1. rest # << >> => 1 \in 1 .. Len(Tail(chunk)) /\ 2 \in 1 .. Len(chunk)
      BY <2>2, HeadTailProperties
    <3> QED
      BY <2>2, <3>1, HeadTailProperties
  <2> QED
    BY <2>1, <2>2 DEF Skipped
<1>2. ASSUME NEW i \in 1 .. Len(chunk), rest # << >>, rest[1] = chunk[i],
             WholeInFront(rest) # {}
      PROVE  /\ chunk[i].pos = 1 /\ chunk[i].text <= Len(sent)
             /\ WholeInFront(rest) = {chunk[i].text}
  <2> DEFINE b == rest[1]
  <2>1. b = chunk[i] /\ b \in Byte
    BY <1>2
  <2>2. PICK k \in WholeInFront(rest) : TRUE
    BY <1>2
  <2>3. k \in 1 .. Len(sent) /\ b = [text |-> k, pos |-> 1] /\ sent[k] <= Len(rest)
    BY <2>2 DEF WholeInFront
  <2>4. Len(sent) \in Nat
    BY DEF FrameTypes
  <2>5. \A m \in WholeInFront(rest) : b = [text |-> m, pos |-> 1]
    BY DEF WholeInFront
  <2> HIDE DEF rest, b
  <2>6. b.text = k /\ b.pos = 1 /\ \A m \in WholeInFront(rest) : b.text = m
    BY <2>3, <2>5
  <2>7. WholeInFront(rest) = {k}
    BY <2>2, <2>6
  <2> QED
    BY <2>1, <2>3, <2>4, <2>6, <2>7
<1>3. rest = << >> => WholeInFront(rest) = {}
  BY DEF WholeInFront
<1> QED
  BY <1>1, <1>2, <1>3 DEF Parsed

(***************************************************************************)
(* The invariant.                                                          *)
(***************************************************************************)
LEMMA InitFrame == Init => FrameInv
<1> SUFFICES ASSUME Init PROVE FrameInv
  OBVIOUS
<1>1. Stream = << >>
  BY DEF Init, Stream
<1> QED
  BY <1>1 DEF Init, FrameInv, FrameTypes, InOrder, Ahead

(* A step that leaves the stream alone, or drops its end.                     *)
LEMMA StreamPrefix ==
  ASSUME FrameInv, FrameTypes', UNCHANGED <<sent, handled>>,
         NEW n \in 0 .. Len(Stream), Stream' = SubSeq(Stream, 1, n)
  PROVE  FrameInv'
<1>1. Stream \in Seq(Byte)
  BY DEF Stream, FrameInv, FrameTypes
<1>2. Len(Stream') = n /\ \A i \in 1 .. n : Stream'[i] = Stream[i]
  BY <1>1, Prefix
<1> HIDE DEF Stream
<1>3. InOrder(Stream)'
  BY <1>1, <1>2 DEF FrameInv, InOrder
<1>4. Ahead(Stream)'
  BY <1>1, <1>2 DEF FrameInv, Ahead
<1> QED
  BY <1>3, <1>4 DEF FrameInv

(* The bytes of a new text come behind all others.                            *)
LEMMA NewText ==
  ASSUME NEW s \in Seq(Byte), NEW t \in Seq(Byte), NEW k \in Nat, InOrder(s),
         \A i \in 1 .. Len(s) : s[i].text < k,
         \A i \in 1 .. Len(t) : t[i].text = k /\ t[i].pos = i
  PROVE  /\ s \o t \in Seq(Byte)
         /\ InOrder(s \o t)
         /\ \A i \in 1 .. Len(s \o t) :
              \/ i \in 1 .. Len(s) /\ (s \o t)[i] = s[i]
              \/ (s \o t)[i].text = k
<1> DEFINE u == s \o t
           m == Len(s)
           n == Len(t)
<1>1. m \in Nat /\ n \in Nat
  OBVIOUS
<1>2. /\ u \in Seq(Byte) /\ Len(u) = m + n
      /\ \A i \in 1 .. m + n : u[i] = IF i <= m THEN s[i] ELSE t[i - m]
  BY ConcatProperties
<1>3. \A i \in 1 .. m : s[i].text \in Nat /\ s[i].text < k
  BY ByteOfStream
<1>4. \A i, j \in 1 .. m : i < j => Before(s[i], s[j])
  BY DEF InOrder
<1>5. \A i \in 1 .. n : t[i].text = k /\ t[i].pos = i
  OBVIOUS
<1> HIDE DEF u, m, n
<1>6. \A i \in m + 1 .. m + n : u[i].text = k /\ u[i].pos = i - m
  <2> SUFFICES ASSUME NEW i \in m + 1 .. m + n PROVE u[i].text = k /\ u[i].pos = i - m
    OBVIOUS
  <2>1. i - m \in 1 .. n /\ i \in 1 .. m + n /\ ~(i <= m)
    BY <1>1
  <2> QED
    BY <1>2, <1>5, <2>1
<1>7. ASSUME NEW i \in 1 .. m + n, NEW j \in 1 .. m + n, i < j
      PROVE  Before(u[i], u[j])
  <2>1. CASE j <= m
    BY <1>1, <1>2, <1>4, <1>7, <2>1
  <2>2. CASE j > m /\ i <= m
    <3>1. u[i].text < k /\ u[j].text = k
      BY <1>1, <1>2, <1>3, <1>6, <2>2
    <3> QED
      BY <3>1 DEF Before
  <2>3. CASE i > m
    <3>1. u[i].text = k /\ u[j].text = k /\ u[i].pos = i - m /\ u[j].pos = j - m
      BY <1>1, <1>6, <1>7, <2>3
    <3> QED
      BY <1>1, <1>7, <3>1 DEF Before
  <2> QED
    BY <1>1, <2>1, <2>2, <2>3
<1>8. \A i \in 1 .. m + n : (i \in 1 .. m /\ u[i] = s[i]) \/ u[i].text = k
  BY <1>1, <1>2, <1>6
<1> QED
  BY <1>2, <1>7, <1>8 DEF InOrder, u, m

LEMMA SendFrame ==
  ASSUME FrameInv, NEW length \in Lengths, Send(length)
  PROVE  FrameInv'
<1> DEFINE k    == Len(sent) + 1
           n    == BytesSent(length)
           text == [i \in 1 .. n |-> [text |-> k, pos |-> i]]
           s    == Stream
<1>1. n \in Nat /\ length \in Nat \ {0} /\ k \in Nat /\ Len(sent) \in Nat
  BY FramingAssumption DEF BytesSent, FrameInv, FrameTypes
<1>2. /\ text \in Seq(Byte) /\ Len(text) = n
      /\ \A i \in 1 .. n : text[i].text = k /\ text[i].pos = i
  <2>1. \A i \in 1 .. n : [text |-> k, pos |-> i] \in Byte
    BY <1>1 DEF Byte
  <2> HIDE DEF n, k
  <2> QED
    BY <1>1, <2>1
<1>3. UNCHANGED <<inbox, handled>> /\ sent' = Append(sent, length)
      /\ transit' = transit \o text
  BY DEF Send
<1>4. sent' \in Seq(Nat \ {0}) /\ Len(sent') = k
  BY <1>1, <1>3 DEF FrameInv, FrameTypes
<1> HIDE DEF text, n
<1>5. FrameTypes'
  BY <1>2, <1>3, <1>4, ConcatProperties DEF FrameInv, FrameTypes
<1>6. s \in Seq(Byte) /\ Stream' = s \o text
  <2>1. inbox \in Seq(Byte) /\ transit \in Seq(Byte)
    BY DEF FrameInv, FrameTypes
  <2>2. (inbox \o transit) \o text = inbox \o (transit \o text)
    BY <1>2, <2>1, ConcatAssociative
  <2> QED
    BY <1>3, <2>1, <2>2, ConcatProperties DEF Stream
<1> HIDE DEF s
<1>7. \A i \in 1 .. Len(s) :
        /\ s[i].text \in Nat /\ s[i].text < k
        /\ s[i].pos = 1 /\ handled # << >> => handled[Len(handled)] < s[i].text
  <2>1. \A i \in 1 .. Len(s) : s[i].text \in Nat
    BY <1>6, ByteOfStream
  <2>2. \A i \in 1 .. Len(s) :
          /\ s[i].text <= Len(sent)
          /\ s[i].pos = 1 /\ handled # << >> => handled[Len(handled)] < s[i].text
    BY DEF FrameInv, Ahead, s
  <2> QED
    BY <1>1, <2>1, <2>2
<1>8. handled # << >> => handled[Len(handled)] \in Nat /\ handled[Len(handled)] < k
  BY <1>1 DEF FrameInv, FrameTypes
<1>9. InOrder(s)
  BY DEF FrameInv, s
<1> HIDE DEF k
<1>10. /\ InOrder(s \o text)
       /\ \A i \in 1 .. Len(s \o text) :
            \/ i \in 1 .. Len(s) /\ (s \o text)[i] = s[i]
            \/ (s \o text)[i].text = k
  BY <1>1, <1>2, <1>6, <1>7, <1>9, NewText
<1> DEFINE u == s \o text
<1>11. \A i \in 1 .. Len(u) :
         /\ u[i].text <= k
         /\ u[i].pos = 1 /\ handled # << >> => handled[Len(handled)] < u[i].text
  <2> HIDE DEF u
  <2> SUFFICES ASSUME NEW i \in 1 .. Len(u)
               PROVE  /\ u[i].text <= k
                      /\ u[i].pos = 1 /\ handled # << >>
                           => handled[Len(handled)] < u[i].text
    OBVIOUS
  <2>1. CASE i \in 1 .. Len(s) /\ u[i] = s[i]
    BY <1>1, <1>7, <2>1
  <2>2. CASE u[i].text = k
    BY <1>1, <1>8, <2>2
  <2> QED
    BY <1>10, <2>1, <2>2 DEF u
<1> HIDE DEF u
<1>12. Stream' = u
  BY <1>6 DEF u
<1>13. InOrder(Stream)' /\ Ahead(Stream)'
  BY <1>3, <1>4, <1>10, <1>11, <1>12 DEF Ahead, InOrder, u
<1> QED
  BY <1>1, <1>3, <1>4, <1>5, <1>8, <1>13 DEF FrameInv

(* A read takes bytes from the front. The text it handles begins among them, and  *)
(* every other first byte comes behind that one.                               *)
LEMMA ReadFrame ==
  ASSUME FrameInv, Read
  PROVE  /\ FrameInv'
         /\ \/ UNCHANGED <<sent, handled>>
            \/ \E k \in 1 .. Len(sent) :
                 /\ handled # << >> => handled[Len(handled)] < k
                 /\ handled' = Append(handled, k)
                 /\ sent' = sent
<1> DEFINE s     == Stream
           chunk == Chunk(inbox)
           n     == Len(chunk)
<1>1. inbox \in Seq(Byte) /\ transit \in Seq(Byte) /\ inbox # << >> /\ handled \in Seq(Nat)
  BY DEF Read, FrameInv, FrameTypes
<1>2. /\ s \in Seq(Byte) /\ Len(s) = Len(inbox) + Len(transit)
      /\ \A i \in 1 .. Len(inbox) : s[i] = inbox[i]
  BY <1>1, ConcatProperties DEF Stream
<1>3. /\ chunk \in Seq(Byte) /\ n \in 1 .. Len(inbox)
      /\ \A i \in 1 .. n : chunk[i] = inbox[i]
  <2> DEFINE m == IF Len(inbox) < MAX_MSGLEN THEN Len(inbox) ELSE MAX_MSGLEN
  <2>1. m \in 1 .. Len(inbox)
    BY <1>1, FramingAssumption
  <2>2. chunk = SubSeq(inbox, 1, m)
    BY DEF Chunk
  <2> HIDE DEF m, chunk
  <2> QED
    BY <1>1, <2>1, <2>2, Prefix
<1>4. /\ inbox' = SubSeq(inbox, n + 1, Len(inbox)) /\ transit' = transit /\ sent' = sent
      /\ handled' = handled \o SetToSeq(Parsed(chunk))
  BY DEF Read
<1>5. chunk # << >>
  BY <1>3
<1> HIDE DEF chunk, n
<1>6. inbox' \in Seq(Byte) /\ transit' \in Seq(Byte)
  BY <1>1, <1>3, <1>4, Suffix
<1>7. Stream' = SubSeq(s, n + 1, Len(s))
  <2>1. /\ Len(inbox') = Len(inbox) - n
        /\ \A i \in 1 .. Len(inbox) - n : inbox'[i] = inbox[n + i]
    BY <1>1, <1>3, <1>4, Suffix
  <2>2. /\ Stream' \in Seq(Byte)
        /\ Len(Stream') = Len(inbox') + Len(transit)
        /\ \A i \in 1 .. Len(inbox') + Len(transit) :
             Stream'[i] = IF i <= Len(inbox') THEN inbox'[i] ELSE transit[i - Len(inbox')]
    BY <1>1, <1>4, <1>6, ConcatProperties DEF Stream
  <2>3. \A i \in 1 .. Len(inbox) + Len(transit) :
          s[i] = IF i <= Len(inbox) THEN inbox[i] ELSE transit[i - Len(inbox)]
    BY <1>1, ConcatProperties DEF Stream
  <2> DEFINE u == SubSeq(s, n + 1, Len(s))
  <2>4. n \in 0 .. Len(s) /\ Len(inbox) \in Nat /\ Len(transit) \in Nat
    BY <1>1, <1>2, <1>3
  <2> HIDE DEF s
  <2>5. /\ u \in Seq(Byte) /\ Len(u) = Len(s) - n
        /\ \A i \in 1 .. Len(s) - n : u[i] = s[n + i]
    BY <1>2, <2>4, Suffix
  <2> HIDE DEF u
  <2>6. Len(u) = Len(Stream')
    BY <1>2, <1>3, <2>1, <2>2, <2>4, <2>5
  <2>7. ASSUME NEW i \in 1 .. Len(Stream') PROVE Stream'[i] = u[i]
    <3>1. u[i] = s[n + i] /\ n + i \in 1 .. Len(inbox) + Len(transit)
      BY <1>2, <1>3, <2>4, <2>5, <2>6
    <3>2. CASE i <= Len(inbox')
      <4>1. Stream'[i] = inbox[n + i] /\ n + i <= Len(inbox)
        BY <1>3, <2>1, <2>2, <2>4, <3>2
      <4> QED
        BY <2>3, <3>1, <4>1
    <3>3. CASE i > Len(inbox')
      <4>1. Stream'[i] = transit[i - Len(inbox')] /\ n + i > Len(inbox)
            /\ i - Len(inbox') = (n + i) - Len(inbox)
        BY <1>3, <2>1, <2>2, <2>4, <3>3
      <4> QED
        BY <2>3, <2>4, <3>1, <4>1
    <3> QED
      BY <1>3, <2>1, <2>4, <3>2, <3>3
  <2> QED
    BY <2>2, <2>5, <2>6, <2>7, SeqEqual DEF u
<1>8. /\ Len(Stream') = Len(s) - n
      /\ \A i \in 1 .. Len(Stream') : Stream'[i] = s[n + i] /\ n + i \in 1 .. Len(s)
  <2>1. n \in 0 .. Len(s) /\ Len(s) \in Nat /\ Len(inbox) \in Nat
    BY <1>1, <1>2, <1>3
  <2> DEFINE u == SubSeq(s, n + 1, Len(s))
  <2> HIDE DEF s
  <2>2. /\ Len(u) = Len(s) - n
        /\ \A i \in 1 .. Len(s) - n : u[i] = s[n + i]
    BY <1>2, <2>1, Suffix
  <2>3. Stream' = u /\ n \in Nat
    BY <1>3, <1>7
  <2> HIDE DEF u
  <2> QED
    BY <2>1, <2>2, <2>3
<1>9. n \in Nat /\ Len(s) \in Nat
  BY <1>2, <1>3
<1>10. InOrder(s) /\ Ahead(s)
  BY DEF FrameInv
<1> HIDE DEF s
<1>11. InOrder(Stream)'
  BY <1>8, <1>9, <1>10 DEF InOrder
<1>12. CASE Parsed(chunk) = {}
  <2>1. handled' = handled
    BY <1>1, <1>4, <1>12, OneOrNone, ConcatEmptySeq
  <2>2. Ahead(Stream)'
    BY <1>4, <1>8, <1>9, <1>10, <2>1 DEF Ahead
  <2> QED
    BY <1>4, <1>6, <1>11, <2>1, <2>2 DEF FrameInv, FrameTypes
<1>13. ASSUME NEW i \in 1 .. n, chunk[i].pos = 1, chunk[i].text <= Len(sent),
              Parsed(chunk) = {chunk[i].text}
       PROVE  /\ FrameInv'
              /\ \E k \in 1 .. Len(sent) :
                   /\ handled # << >> => handled[Len(handled)] < k
                   /\ handled' = Append(handled, k)
                   /\ sent' = sent
  <2> DEFINE k == chunk[i].text
  <2>1. i \in 1 .. Len(s) /\ s[i] = chunk[i]
    BY <1>2, <1>3, <1>9
  <2>2. k \in Nat
    BY <1>2, <2>1, ByteOfStream
  <2>3. handled' = Append(handled, k)
    <3>1. handled' = handled \o <<k>>
      BY <1>4, <1>13, <2>2, OneOrNone
    <3> QED
      BY <1>1, <2>2, <3>1, AppendIsConcat
  <2>4. handled' \in Seq(Nat) /\ handled' # << >> /\ handled'[Len(handled')] = k
    BY <1>1, <2>2, <2>3, AppendProperties
  <2>5. handled # << >> => handled[Len(handled)] < k
    BY <1>10, <1>13, <2>1 DEF Ahead
  <2>6. k \in 1 .. Len(sent)
    <3>1. Parsed(chunk) \subseteq 1 .. Len(sent)
      BY DEF Parsed, WholeInFront
    <3> QED
      BY <1>13, <3>1
  <2>7. \A j \in 1 .. Len(Stream') :
          Stream'[j].text <= Len(sent) /\ (Stream'[j].pos = 1 => k < Stream'[j].text)
    <3> SUFFICES ASSUME NEW j \in 1 .. Len(Stream')
                 PROVE  /\ Stream'[j].text <= Len(sent)
                        /\ Stream'[j].pos = 1 => k < Stream'[j].text
      OBVIOUS
    <3>1. n + j \in 1 .. Len(s) /\ Stream'[j] = s[n + j] /\ i < n + j
      BY <1>8, <1>9
    <3>2. Before(s[i], s[n + j]) /\ s[n + j].text <= Len(sent)
      BY <1>10, <2>1, <3>1 DEF InOrder, Ahead
    <3>3. s[i].text = k /\ s[i].pos = 1
      BY <1>13, <2>1
    <3> QED
      BY <3>1, <3>2, <3>3 DEF Before
  <2> HIDE DEF k
  <2>8. Ahead(Stream)'
    BY <1>4, <2>4, <2>7 DEF Ahead
  <2>9. FrameInv'
    BY <1>4, <1>6, <1>11, <2>4, <2>6, <2>8 DEF FrameInv, FrameTypes
  <2> QED
    BY <1>4, <2>3, <2>5, <2>6, <2>9
<1>14. \/ Parsed(chunk) = {}
       \/ \E i \in 1 .. n : /\ chunk[i].pos = 1 /\ chunk[i].text <= Len(sent)
                            /\ Parsed(chunk) = {chunk[i].text}
  BY <1>3, <1>5, ParsedInChunk DEF FrameInv, n
<1> QED
  BY <1>4, <1>12, <1>13, <1>14, OneOrNone, ConcatEmptySeq, <1>1

LEMMA ArriveFrame ==
  ASSUME FrameInv, NEW n \in 1 .. Len(transit), Arrive(n)
  PROVE  FrameInv' /\ UNCHANGED <<sent, handled>>
<1>1. inbox \in Seq(Byte) /\ transit \in Seq(Byte)
  BY DEF FrameInv, FrameTypes
<1> DEFINE front == SubSeq(transit, 1, n)
           rest  == SubSeq(transit, n + 1, Len(transit))
<1>2. /\ inbox' = inbox \o front /\ transit' = rest
      /\ UNCHANGED <<sent, handled>>
  BY DEF Arrive
<1>3. front \in Seq(Byte) /\ rest \in Seq(Byte) /\ front \o rest = transit
  <2>1. n \in 0 .. Len(transit) /\ n \in 1 - 1 .. Len(transit)
        /\ 1 \in 1 .. Len(transit) + 1 /\ Len(transit) \in n .. Len(transit)
    BY <1>1
  <2>2. front \in Seq(Byte) /\ rest \in Seq(Byte)
    BY <1>1, <2>1, Prefix, Suffix
  <2>3. front \o rest = SubSeq(transit, 1, Len(transit))
    BY <1>1, <2>1, ConcatAdjacentSubSeq
  <2> QED
    BY <1>1, <2>2, <2>3, SubSeqFull
<1> HIDE DEF front, rest
<1>4. FrameTypes'
  BY <1>1, <1>2, <1>3, ConcatProperties DEF FrameInv, FrameTypes
<1>5. Stream' = Stream
  <2>1. front \in Seq(Byte) /\ rest \in Seq(Byte) /\ inbox \in Seq(Byte)
    BY <1>1, <1>3
  <2>2. (inbox \o front) \o rest = inbox \o (front \o rest)
    BY <2>1, ConcatAssociative
  <2> QED
    BY <1>2, <1>3, <2>2 DEF Stream
<1>6. Stream \in Seq(Byte)
  BY <1>1, ConcatProperties DEF Stream
<1> HIDE DEF Stream
<1>7. Stream' = SubSeq(Stream, 1, Len(Stream)) /\ Len(Stream) \in 0 .. Len(Stream)
  BY <1>5, <1>6, SubSeqFull
<1> QED
  BY <1>2, <1>4, <1>7, StreamPrefix

(* A reset drops what is in transit; nothing else changes in a departure.       *)
LEMMA LeaveFrame ==
  ASSUME FrameInv, Leave \/ ReadIsFatal \/ ReadFails \/ Disconnect \/ UNCHANGED vars
  PROVE  FrameInv' /\ UNCHANGED <<sent, handled>>
<1>1. inbox \in Seq(Byte) /\ transit \in Seq(Byte) /\ << >> \in Seq(Byte)
  BY DEF FrameInv, FrameTypes
<1>2. /\ UNCHANGED <<sent, inbox, handled>>
      /\ transit' = transit \/ transit' = << >>
  BY DEF Leave, ReadIsFatal, ReadFails, Disconnect, vars
<1>3. FrameTypes'
  BY <1>1, <1>2 DEF FrameInv, FrameTypes
<1>4. Stream \in Seq(Byte) /\ Len(Stream) = Len(inbox) + Len(transit)
  BY <1>1, ConcatProperties DEF Stream
<1>5. CASE transit' = transit
  <2>1. Stream' = SubSeq(Stream, 1, Len(Stream)) /\ Len(Stream) \in 0 .. Len(Stream)
    BY <1>2, <1>4, <1>5, SubSeqFull DEF Stream
  <2> QED
    BY <1>2, <1>3, <2>1, StreamPrefix
<1>6. CASE transit' = << >>
  <2>1. Stream' = inbox
    BY <1>1, <1>2, <1>6, ConcatEmptySeq DEF Stream
  <2>2. inbox = SubSeq(Stream, 1, Len(inbox)) /\ Len(inbox) \in 0 .. Len(Stream)
    <3>1. Len(inbox) \in Nat /\ Len(transit) \in Nat
      BY <1>1
    <3>2. CASE inbox = << >>
      BY <1>4, <3>1, <3>2, SubSeqEmpty
    <3>3. CASE inbox # << >>
      <4>1. 1 \in 1 .. Len(inbox) /\ Len(inbox) \in 1 .. Len(inbox)
        BY <1>1, <3>1, <3>3, EmptySeq
      <4>2. SubSeq(Stream, 1, Len(inbox)) = SubSeq(inbox, 1, Len(inbox))
        BY <1>1, <4>1, SubSeqOfConcat1 DEF Stream
      <4> QED
        BY <1>1, <1>4, <3>1, <4>2, SubSeqFull
    <3> QED
      BY <3>2, <3>3
  <2> QED
    BY <1>2, <1>3, <2>1, <2>2, StreamPrefix
<1> QED
  BY <1>2, <1>5, <1>6

(* However TCP cuts and merges the texts of a device, and whatever it puts behind *)
(* them: what client_event_handler parses is a subsequence of what was sent, so  *)
(* that no text is handled twice, out of order, or before it was sent.         *)
THEOREM ImplementsLossyChannelCorrect == Spec => ImplementsLossyChannel
<1>1. Init => Channel!Init
  BY DEF Init, Channel!Init
<1>2. FrameInv /\ [Next]_vars => FrameInv' /\ [Channel!Next]_(Channel!vars)
  <2> SUFFICES ASSUME FrameInv, [Next]_vars
               PROVE  FrameInv' /\ [Channel!Next]_(Channel!vars)
    OBVIOUS
  <2>1. ASSUME NEW length \in Lengths, Send(length)
        PROVE  FrameInv' /\ Channel!Next
    <3>1. FrameInv'
      BY <2>1, SendFrame
    <3>2. Len(sent') = Len(sent) + 1 /\ handled' = handled
      BY <2>1, FramingAssumption DEF Send, FrameInv, FrameTypes
    <3> QED
      BY <3>1, <3>2 DEF Channel!Next, Channel!Offer
  <2>2. ASSUME NEW n \in 1 .. Len(transit), Arrive(n)
        PROVE  FrameInv' /\ UNCHANGED Channel!vars
    BY <2>2, ArriveFrame DEF Channel!vars
  <2>3. CASE Read
    <3>1. FrameInv'
      BY <2>3, ReadFrame
    <3>2. CASE UNCHANGED <<sent, handled>>
      BY <3>1, <3>2 DEF Channel!vars
    <3>3. ASSUME NEW k \in 1 .. Len(sent),
                 handled # << >> => handled[Len(handled)] < k,
                 handled' = Append(handled, k), sent' = sent
          PROVE  Channel!Next
      <4>1. k <= Len(sent)
        BY DEF FrameInv, FrameTypes
      <4> QED
        BY <3>3, <4>1 DEF Channel!Next, Channel!Take
    <3> QED
      BY <2>3, <3>1, <3>2, <3>3, ReadFrame
  <2>4. CASE Leave \/ ReadIsFatal \/ ReadFails \/ Disconnect \/ UNCHANGED vars
    BY <2>4, LeaveFrame DEF Channel!vars
  <2> QED
    BY <2>1, <2>2, <2>3, <2>4 DEF Next, ServerStep
<1> QED
  BY <1>1, <1>2, InitFrame, PTL DEF Spec, ImplementsLossyChannel, Channel!Spec

(***************************************************************************)
(* Types, and the texts that come alone.                                    *)
(***************************************************************************)
LEMMA Cut ==
  ASSUME NEW S, NEW s \in Seq(S), NEW n \in 0 .. Len(s)
  PROVE  SubSeq(s, 1, n) \in Seq(S) /\ SubSeq(s, n + 1, Len(s)) \in Seq(S)
<1>1. /\ \A i \in 1 .. n : s[i] \in S
      /\ \A i \in n + 1 .. Len(s) : s[i] \in S
  OBVIOUS
<1> QED
  BY <1>1, SubSeqProperties

LEMMA ChunkLength ==
  ASSUME inbox # << >>, NEW S, inbox \in Seq(S)
  PROVE  /\ Len(Chunk(inbox)) \in 1 .. Len(inbox)
         /\ Len(inbox) <= MAX_MSGLEN => Len(Chunk(inbox)) = Len(inbox)
         /\ Len(inbox) > MAX_MSGLEN => Len(Chunk(inbox)) = MAX_MSGLEN
         /\ \A i \in 1 .. Len(Chunk(inbox)) : Chunk(inbox)[i] = inbox[i]
<1> DEFINE m == IF Len(inbox) < MAX_MSGLEN THEN Len(inbox) ELSE MAX_MSGLEN
<1>1. /\ m \in 1 .. Len(inbox)
      /\ Len(inbox) <= MAX_MSGLEN => m = Len(inbox)
      /\ Len(inbox) > MAX_MSGLEN => m = MAX_MSGLEN
  BY FramingAssumption
<1>2. Chunk(inbox) = SubSeq(inbox, 1, m)
  BY DEF Chunk
<1> HIDE DEF m
<1>3. /\ Len(SubSeq(inbox, 1, m)) = m
      /\ \A i \in 1 .. m : SubSeq(inbox, 1, m)[i] = inbox[i]
  <2>1. \A i \in 1 .. m : inbox[i] \in S
    BY <1>1
  <2> QED
    BY <1>1, <2>1, SubSeqProperties
<1> QED
  BY <1>1, <1>2, <1>3

LEMMA TypeInit == Init => TypeOK
BY EmptySeq, FramingAssumption DEF Init, TypeOK

LEMMA TypeSend ==
  ASSUME TypeOK, NEW length \in Lengths, Send(length)
  PROVE  TypeOK'
<1> DEFINE k    == Len(sent) + 1
           n    == BytesSent(length)
           text == [i \in 1 .. n |-> [text |-> k, pos |-> i]]
<1>1. n \in Nat /\ Len(sent) \in Nat /\ k \in Texts
  BY FramingAssumption DEF BytesSent, TypeOK, Send, Texts
<1>2. text \in Seq(Bytes)
  <2>1. \A i \in 1 .. n : [text |-> k, pos |-> i] \in Bytes
    BY <1>1 DEF Bytes
  <2> HIDE DEF n, k
  <2> QED
    BY <1>1, <2>1
<1>3. /\ UNCHANGED <<ending, inbox, conn, handled, alone>>
      /\ sent' = Append(sent, length) /\ transit' = transit \o text
      /\ conn = "up" /\ Len(sent) < MaxTexts
  BY DEF Send
<1> HIDE DEF text, n
<1>4. sent' \in Seq(Lengths) /\ Len(sent') = Len(sent) + 1
  BY <1>3 DEF TypeOK
<1>5. transit' \in Seq(Bytes)
  BY <1>2, <1>3, ConcatProperties DEF TypeOK
<1>6. Len(sent') <= MaxTexts /\ alone \subseteq 1 .. Len(sent')
  BY <1>1, <1>3, <1>4, FramingAssumption DEF TypeOK
<1> QED
  BY <1>3, <1>4, <1>5, <1>6 DEF TypeOK

LEMMA TypeArrive ==
  ASSUME TypeOK, NEW n \in 1 .. Len(transit), Arrive(n)
  PROVE  TypeOK'
<1> DEFINE front == SubSeq(transit, 1, n)
           rest  == SubSeq(transit, n + 1, Len(transit))
<1>1. n \in 0 .. Len(transit) /\ transit \in Seq(Bytes) /\ inbox \in Seq(Bytes)
  BY DEF TypeOK
<1>2. front \in Seq(Bytes) /\ rest \in Seq(Bytes)
  BY <1>1, Cut
<1>3. /\ inbox' = inbox \o front /\ transit' = rest
      /\ UNCHANGED <<ending, sent, conn, handled>>
      /\ conn # "closed"
      /\ alone' = alone \cup WholeInFront(front) \/ alone' = alone
  BY DEF Arrive
<1> HIDE DEF front, rest
<1>4. inbox' \in Seq(Bytes) /\ transit' \in Seq(Bytes)
  BY <1>1, <1>2, <1>3, ConcatProperties
<1>5. alone' \subseteq 1 .. Len(sent)
  BY <1>3 DEF TypeOK, WholeInFront
<1> QED
  BY <1>3, <1>4, <1>5 DEF TypeOK

LEMMA TypeRead ==
  ASSUME FrameInv, TypeOK, Read
  PROVE  TypeOK'
<1> DEFINE n == Len(Chunk(inbox))
<1>1. /\ inbox \in Seq(Bytes) /\ inbox # << >> /\ conn # "closed"
      /\ inbox' = SubSeq(inbox, n + 1, Len(inbox))
      /\ UNCHANGED <<ending, sent, transit, conn, alone>>
  BY DEF TypeOK, Read
<1>2. n \in 0 .. Len(inbox)
  BY <1>1, ChunkLength
<1> HIDE DEF n
<1>3. inbox' \in Seq(Bytes)
  BY <1>1, <1>2, Cut
<1>4. handled' \in Seq(Texts)
  <2>1. handled \in Seq(Texts) /\ 1 .. Len(sent) \subseteq Texts
    BY FramingAssumption DEF TypeOK, Texts
  <2> QED
    BY <2>1, ReadFrame, AppendProperties
<1> QED
  BY <1>1, <1>3, <1>4 DEF TypeOK

LEMMA TypeStep == FrameInv /\ TypeOK /\ [Next]_vars => TypeOK'
<1> SUFFICES ASSUME FrameInv, TypeOK, [Next]_vars PROVE TypeOK'
  OBVIOUS
<1>1. CASE Leave \/ ReadIsFatal \/ ReadFails \/ Disconnect \/ UNCHANGED vars
  BY <1>1, EmptySeq DEF TypeOK, Leave, ReadIsFatal, ReadFails, Disconnect, vars
<1> QED
  BY <1>1, TypeSend, TypeArrive, TypeRead DEF Next, ServerStep

(* A text that came alone and fits is handled, or it is what the inbox begins  *)
(* with.                                                                    *)
AloneInv ==
  \A k \in alone :
    /\ k \in 1 .. Len(sent)
    /\ sent[k] <= MAX_MSGLEN => IsHandled(k) \/ k \in WholeInFront(inbox)

(* The parser takes the whole text the inbox begins with, if it fits.          *)
LEMMA FrontIsParsed ==
  ASSUME FrameInv, NEW k \in WholeInFront(inbox), sent[k] <= MAX_MSGLEN
  PROVE  Parsed(Chunk(inbox)) = {k}
<1> DEFINE chunk == Chunk(inbox)
           n     == Len(chunk)
<1>1. /\ k \in 1 .. Len(sent) /\ inbox # << >> /\ inbox \in Seq(Byte)
      /\ inbox[1] = [text |-> k, pos |-> 1] /\ sent[k] <= Len(inbox)
      /\ sent[k] \in Nat \ {0} /\ MAX_MSGLEN \in Nat
  BY FramingAssumption DEF WholeInFront, FrameInv, FrameTypes
<1>2. n \in 1 .. Len(inbox) /\ sent[k] <= n
  BY <1>1, ChunkLength
<1>3. chunk[1] = [text |-> k, pos |-> 1] /\ chunk # << >>
  <2>1. 1 \in 1 .. n
    BY <1>2
  <2>2. chunk[1] = inbox[1]
    BY <1>1, <2>1, ChunkLength
  <2> QED
    BY <1>1, <1>2, <2>2
<1>4. Skipped(chunk) = chunk
  <2> HIDE DEF chunk
  <2> QED
    BY <1>1, <1>3 DEF Skipped, IsEnding
<1> HIDE DEF chunk
<1>5. WholeInFront(chunk) = {k}
  BY <1>1, <1>2, <1>3 DEF WholeInFront, n
<1> QED
  BY <1>4, <1>5 DEF Parsed, chunk

LEMMA AloneSend ==
  ASSUME FrameInv, AloneInv, NEW length \in Lengths, Send(length)
  PROVE  AloneInv'
<1>1. UNCHANGED <<inbox, handled, alone>> /\ sent' = Append(sent, length)
  BY DEF Send
<1>2. /\ Len(sent) \in Nat /\ Len(sent') = Len(sent) + 1
      /\ \A k \in 1 .. Len(sent) : k \in 1 .. Len(sent') /\ sent'[k] = sent[k]
  BY <1>1, FramingAssumption DEF FrameInv, FrameTypes
<1>3. \A k \in WholeInFront(inbox) : k \in WholeInFront(inbox)'
  BY <1>1, <1>2 DEF WholeInFront
<1> QED
  BY <1>1, <1>2, <1>3 DEF AloneInv, IsHandled

LEMMA AloneArrive ==
  ASSUME FrameInv, AloneInv, NEW n \in 1 .. Len(transit), Arrive(n)
  PROVE  AloneInv'
<1> DEFINE front == SubSeq(transit, 1, n)
<1>1. /\ inbox \in Seq(Byte) /\ transit \in Seq(Byte)
      /\ UNCHANGED <<sent, handled>> /\ inbox' = inbox \o front
      /\ alone' = IF inbox = << >> THEN alone \cup WholeInFront(front) ELSE alone
  BY DEF Arrive, FrameInv, FrameTypes
<1>2. front \in Seq(Byte)
  BY <1>1, Cut
<1> HIDE DEF front
<1>3. CASE inbox = << >>
  <2>1. inbox' = front
    BY <1>1, <1>2, <1>3, ConcatEmptySeq
  <2>2. WholeInFront(inbox) = {}
    BY <1>3 DEF WholeInFront
  <2>3. WholeInFront(inbox)' = WholeInFront(front)
    BY <1>1, <2>1 DEF WholeInFront
  <2>4. WholeInFront(front) \subseteq 1 .. Len(sent)
    BY DEF WholeInFront
  <2> QED
    BY <1>1, <1>3, <2>2, <2>3, <2>4 DEF AloneInv, IsHandled
<1>4. CASE inbox # << >>
  <2>1. /\ inbox' # << >> /\ inbox'[1] = inbox[1]
        /\ Len(inbox) \in Nat /\ Len(inbox') \in Nat /\ Len(inbox) <= Len(inbox')
    BY <1>1, <1>2, <1>4, ConcatProperties, EmptySeq
  <2>2. \A k \in 1 .. Len(sent) : sent[k] \in Nat
    BY DEF FrameInv, FrameTypes
  <2>3. \A k \in WholeInFront(inbox) : k \in WholeInFront(inbox)'
    BY <1>1, <2>1, <2>2 DEF WholeInFront
  <2> QED
    BY <1>1, <1>4, <2>3 DEF AloneInv, IsHandled
<1> QED
  BY <1>3, <1>4

LEMMA AloneRead ==
  ASSUME FrameInv, AloneInv, Read
  PROVE  AloneInv'
<1> DEFINE parsed == Parsed(Chunk(inbox))
<1>1. /\ UNCHANGED <<sent, alone>> /\ handled' = handled \o SetToSeq(parsed)
      /\ handled \in Seq(Nat)
  BY DEF Read, FrameInv, FrameTypes
<1>2. handled' \in Seq(Nat) /\ \A k \in Nat : IsHandled(k) => IsHandled(k)'
  <2>1. CASE handled' = handled
    BY <1>1, <2>1 DEF IsHandled
  <2>2. ASSUME NEW k \in Nat, handled' = Append(handled, k)
        PROVE  /\ handled' \in Seq(Nat)
               /\ \A m \in Nat : IsHandled(m) => IsHandled(m)'
    <3>1. /\ handled' \in Seq(Nat) /\ DOMAIN handled \subseteq DOMAIN handled'
          /\ \A i \in DOMAIN handled : handled'[i] = handled[i]
      BY <1>1, <2>2, AppendProperties
    <3> QED
      BY <3>1 DEF IsHandled
  <2>3. Len(sent) \in Nat
    BY DEF FrameInv, FrameTypes
  <2> QED
    BY <2>1, <2>2, <2>3, ReadFrame
<1> HIDE DEF parsed
<1>3. ASSUME NEW k \in WholeInFront(inbox), sent[k] <= MAX_MSGLEN
      PROVE  IsHandled(k)'
  <2>1. parsed = {k} /\ k \in Nat
    BY <1>3, FrontIsParsed DEF parsed, WholeInFront
  <2>2. handled' = Append(handled, k)
    <3>1. SetToSeq(parsed) = <<k>>
      BY <2>1, OneOrNone
    <3> QED
      BY <1>1, <2>1, <3>1, AppendIsConcat
  <2>3. Len(handled') \in DOMAIN handled' /\ handled'[Len(handled')] = k
    <3>1. handled \in Seq(Nat) /\ k \in Nat
      BY <1>1, <2>1
    <3>2. /\ Append(handled, k) \in Seq(Nat)
          /\ Len(Append(handled, k)) = Len(handled) + 1
          /\ Append(handled, k)[Len(handled) + 1] = k
      BY <3>1, AppendProperties
    <3>3. DOMAIN handled' = 1 .. Len(handled') /\ Len(handled') \in Nat \ {0}
      BY <2>2, <3>1, <3>2, LenProperties
    <3> QED
      BY <2>2, <3>2, <3>3
  <2> QED
    BY <2>3 DEF IsHandled
<1> QED
  BY <1>1, <1>2, <1>3 DEF AloneInv

LEMMA AloneStep == FrameInv /\ AloneInv /\ [Next]_vars => AloneInv'
<1> SUFFICES ASSUME FrameInv, AloneInv, [Next]_vars PROVE AloneInv'
  OBVIOUS
<1>1. CASE Leave \/ ReadIsFatal \/ ReadFails \/ Disconnect \/ UNCHANGED vars
  <2>1. UNCHANGED <<sent, inbox, handled, alone>>
    BY <1>1 DEF Leave, ReadIsFatal, ReadFails, Disconnect, vars
  <2> QED
    BY <2>1 DEF AloneInv, IsHandled, WholeInFront
<1> QED
  BY <1>1, AloneSend, AloneArrive, AloneRead DEF Next, ServerStep

LEMMA FrameStep == FrameInv /\ [Next]_vars => FrameInv'
BY SendFrame, ArriveFrame, ReadFrame, LeaveFrame DEF Next, ServerStep

LEMMA FrameInvInvariant == Spec => []FrameInv
BY InitFrame, FrameStep, PTL DEF Spec

(* Every variable keeps its type; once the socket is closed nothing is left     *)
(* to read, and nothing comes any more.                                     *)
THEOREM TypeCorrect == Spec => []TypeOK
<1>1. Init => TypeOK
  BY TypeInit
<1>2. FrameInv /\ TypeOK /\ [Next]_vars => TypeOK'
  BY TypeStep
<1> QED
  BY <1>1, <1>2, FrameInvInvariant, PTL DEF Spec

(* A text that comes in one segment, with nothing unread before it, and fits in  *)
(* the buffer is never lost: it is handled, or the next read hands it to the    *)
(* parser from its first byte, whatever the network puts behind it.           *)
THEOREM LostInCompanyOnlyCorrect == Spec => []LostInCompanyOnly
<1>1. Init => AloneInv
  BY DEF Init, AloneInv
<1>2. FrameInv /\ AloneInv /\ [Next]_vars => AloneInv'
  BY AloneStep
<1>3. FrameInv /\ AloneInv => LostInCompanyOnly
  <2> SUFFICES ASSUME FrameInv, AloneInv, NEW k \in alone, sent[k] <= MAX_MSGLEN,
                      k \in WholeInFront(inbox)
               PROVE  Unread(k)
    BY DEF AloneInv, LostInCompanyOnly
  <2>1. /\ inbox[1] = [text |-> k, pos |-> 1] /\ k \in 1 .. Len(sent)
        /\ inbox # << >> /\ inbox \in Seq(Byte) /\ sent \in Seq(Nat \ {0})
    BY DEF WholeInFront, FrameInv, FrameTypes
  <2>2. 1 \in DOMAIN inbox /\ 1 <= sent[k]
    BY <2>1, EmptySeq, LenProperties
  <2> QED
    BY <2>1, <2>2 DEF Unread
<1> QED
  BY <1>1, <1>2, <1>3, FrameInvInvariant, PTL DEF Spec
==============================================================================
