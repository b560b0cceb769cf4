---------------------------- MODULE Base64Proofs ----------------------------
(***************************************************************************)
(* Proofs about Base64, for inputs of any length: the two loops stay inside  *)
(* their output buffers, and what was encoded is decoded again.             *)
(***************************************************************************)
EXTENDS Base64, SequenceTheorems, TLAPS

Sextet == 0 .. 63

(* The two tables.                                                          *)
LEMMA TableCharByte == ASSUME NEW q \in Sextet PROVE TableChar(q) \in Byte
BY SMT DEF TableChar, Sextet, Byte

LEMMA DecTableRange ==
  ASSUME NEW c \in Byte
  PROVE  DecTable(c) \in Byte /\ (DecTable(c) < 128 => DecTable(c) \in Sextet)
BY SMT DEF DecTable, Byte, Sextet, NUL

(* Sequences of known length.                                               *)
LEMMA QuadType ==
  ASSUME NEW S, NEW w \in S, NEW x \in S, NEW y \in S, NEW z \in S
  PROVE  <<w, x, y, z>> \in Seq(S) /\ Len(<<w, x, y, z>>) = 4
BY SMT

LEMMA Three ==
  ASSUME NEW S, NEW s \in Seq(S), Len(s) = 3
  PROVE  s = <<s[1], s[2], s[3]>> /\ s[1] \in S /\ s[2] \in S /\ s[3] \in S
<1>1. s = <<s[1], s[2], s[3]>>
  BY SMT
<1>2. \A k \in 1 .. 3 : s[k] \in S
  BY ElementOfSeq
<1>3. s[1] \in S /\ s[2] \in S /\ s[3] \in S
  BY <1>2
<1> QED
  BY <1>1, <1>3

LEMMA Four ==
  ASSUME NEW S, NEW s \in Seq(S), Len(s) = 4
  PROVE  /\ s = <<s[1], s[2], s[3], s[4]>>
         /\ s[1] \in S /\ s[2] \in S /\ s[3] \in S /\ s[4] \in S
<1>1. s = <<s[1], s[2], s[3], s[4]>>
  BY SMT
<1>2. \A k \in 1 .. 4 : s[k] \in S
  BY ElementOfSeq
<1>3. s[1] \in S /\ s[2] \in S /\ s[3] \in S /\ s[4] \in S
  BY <1>2
<1> QED
  BY <1>1, <1>2, <1>3, Zenon

LEMMA SubSeqLemma ==
  ASSUME NEW S, NEW s \in Seq(S), NEW k \in 0 .. Len(s)
  PROVE  SubSeq(s, 1, k) \in Seq(S) /\ Len(SubSeq(s, 1, k)) = k
<1>1. k \in Nat /\ k <= Len(s)
  BY LenProperties, SMT
<1>2. \A i \in 1 .. k : s[i] \in S
  BY <1>1, ElementOfSeq, LenProperties, SMT
<1> QED
  BY <1>1, <1>2, SubSeqProperties, LenProperties, SMT

(* Three bytes give four characters.                                        *)
LEMMA CharactersType ==
  ASSUME NEW a \in Byte, NEW b \in Byte, NEW c \in Byte
  PROVE  /\ Characters(<<a, b, c>>) \in Seq(Byte)
         /\ Len(Characters(<<a, b, c>>)) = 4
<1> DEFINE q == Quartet(<<a, b, c>>)
<1>1. q[1] \in Sextet
  BY SMT DEF Quartet, Sextet, Byte
<1>2. q[2] \in Sextet
  BY SMT DEF Quartet, Sextet, Byte
<1>3. q[3] \in Sextet
  BY SMT DEF Quartet, Sextet, Byte
<1>4. q[4] \in Sextet
  BY SMT DEF Quartet, Sextet, Byte
<1>5. /\ TableChar(q[1]) \in Byte /\ TableChar(q[2]) \in Byte
      /\ TableChar(q[3]) \in Byte /\ TableChar(q[4]) \in Byte
  BY <1>1, <1>2, <1>3, <1>4, TableCharByte
<1> HIDE DEF q
<1>6. Characters(<<a, b, c>>) =
        <<TableChar(q[1]), TableChar(q[2]), TableChar(q[3]), TableChar(q[4])>>
  BY DEF Characters, q
<1>7. /\ Characters(<<a, b, c>>) \in Seq(Byte)
      /\ Len(Characters(<<a, b, c>>)) = 4
  <2> DEFINE w == TableChar(q[1])
             x == TableChar(q[2])
             y == TableChar(q[3])
             z == TableChar(q[4])
  <2>1. w \in Byte /\ x \in Byte /\ y \in Byte /\ z \in Byte
    BY <1>5
  <2>2. Characters(<<a, b, c>>) = <<w, x, y, z>>
    BY <1>6
  <2> HIDE DEF w, x, y, z
  <2> QED
    BY <2>1, <2>2, QuadType
<1> QED
  BY <1>7

(* The room base64_encode asks for covers every complete group, one more for *)
(* a rest, and the NUL.                                                     *)
LEMMA NeededCovers ==
  ASSUME NEW n \in Nat, NEW g \in Nat, NEW r \in 0 .. 2, n = 3 * g + r
  PROVE  Needed(n) = 4 * g + (IF r = 0 THEN 0 ELSE 4) + 1
BY SMT DEF Needed

(* Four sextets give at most three bytes.                                   *)
LEMMA BytesType ==
  ASSUME NEW a \in Sextet, NEW b \in Sextet, NEW c \in Sextet, NEW d \in Sextet,
         NEW lastButOne, NEW last
  PROVE  /\ Bytes(<<a, b, c, d>>, lastButOne, last) \in Seq(Byte)
         /\ Len(Bytes(<<a, b, c, d>>, lastButOne, last)) <= 3
<1> DEFINE x == (a * 4 + b \div 16) % 256
           y == ((b * 16) % 256) + c \div 4
           z == ((c * 64) % 256) + d
<1>1. x \in Byte /\ y \in Byte /\ z \in Byte
  BY SMT DEF Sextet, Byte
<1>2. Bytes(<<a, b, c, d>>, lastButOne, last) =
        <<x>> \o (IF lastButOne # PAD THEN <<y>> ELSE << >>)
              \o (IF last # PAD THEN <<z>> ELSE << >>)
  BY SMT DEF Bytes
<1> HIDE DEF x, y, z
<1> DEFINE u == IF lastButOne # PAD THEN <<y>> ELSE << >>
           v == IF last # PAD THEN <<z>> ELSE << >>
<1>3. /\ <<x>> \in Seq(Byte) /\ Len(<<x>>) = 1
      /\ u \in Seq(Byte) /\ Len(u) \in 0 .. 1
      /\ v \in Seq(Byte) /\ Len(v) \in 0 .. 1
  BY <1>1, SMT
<1> HIDE DEF u, v
<1>4. <<x>> \o u \in Seq(Byte) /\ Len(<<x>> \o u) = 1 + Len(u)
  BY <1>3, ConcatProperties
<1>5. /\ (<<x>> \o u) \o v \in Seq(Byte)
      /\ Len((<<x>> \o u) \o v) = 1 + Len(u) + Len(v)
  BY <1>3, <1>4, ConcatProperties
<1>6. Bytes(<<a, b, c, d>>, lastButOne, last) = (<<x>> \o u) \o v
  BY <1>2 DEF u, v
<1>7. 1 + Len(u) + Len(v) <= 3
  <2> DEFINE i == Len(u)
             j == Len(v)
  <2>1. i \in 0 .. 1 /\ j \in 0 .. 1
    BY <1>3
  <2> HIDE DEF i, j
  <2>2. 1 + i + j <= 3
    BY <2>1, SMT
  <2> QED
    BY <2>2 DEF i, j
<1>8. Len((<<x>> \o u) \o v) <= 3
  BY <1>5, <1>7
<1> QED
  BY <1>5, <1>6, <1>8, Zenon

(* A rest of one or two bytes gives four characters.                        *)
LEMMA RestType ==
  ASSUME group \in Seq(Byte), Len(group) \in 1 .. 2
  PROVE  Rest \in Seq(Byte) /\ Len(Rest) = 4
<1> DEFINE filled == group \o <<0, 0>>
           third  == SubSeq(filled, 1, 3)
           pads   == <<PAD, PAD>>
           n      == Len(group)
<1>1. <<0, 0>> \in Seq(Byte) /\ Len(<<0, 0>>) = 2
  BY SMT DEF Byte
<1>2. filled \in Seq(Byte) /\ Len(filled) = n + 2
  <2> DEFINE zeros == <<0, 0>>
  <2> HIDE DEF zeros
  <2>1. zeros \in Seq(Byte) /\ Len(zeros) = 2
    BY <1>1 DEF zeros
  <2>2. group \o zeros \in Seq(Byte) /\ Len(group \o zeros) = Len(group) + Len(zeros)
    BY <2>1, ConcatProperties
  <2> QED
    BY <2>1, <2>2 DEF zeros
<1> HIDE DEF filled
<1>3. third \in Seq(Byte) /\ Len(third) = 3
  BY <1>2, SubSeqLemma
<1> HIDE DEF third
<1>4. /\ third = <<third[1], third[2], third[3]>>
      /\ third[1] \in Byte /\ third[2] \in Byte /\ third[3] \in Byte
  BY <1>3, Three
<1> DEFINE chars == Characters(third)
<1>5. chars \in Seq(Byte) /\ Len(chars) = 4
  BY <1>4, CharactersType
<1>6. pads \in Seq(Byte) /\ Len(pads) = 2
  BY SMT DEF Byte, PAD
<1>7. Rest = SubSeq(chars, 1, n + 1) \o SubSeq(pads, 1, 3 - n)
  BY DEF Rest, third, filled
<1> HIDE DEF chars, pads
<1>8. SubSeq(chars, 1, n + 1) \in Seq(Byte) /\ Len(SubSeq(chars, 1, n + 1)) = n + 1
  BY <1>5, SubSeqLemma
<1>9. SubSeq(pads, 1, 3 - n) \in Seq(Byte) /\ Len(SubSeq(pads, 1, 3 - n)) = 3 - n
  BY <1>6, SubSeqLemma
<1> DEFINE u == SubSeq(chars, 1, n + 1)
           v == SubSeq(pads, 1, 3 - n)
<1>10. u \in Seq(Byte) /\ v \in Seq(Byte) /\ Len(u) = n + 1 /\ Len(v) = 3 - n
  BY <1>8, <1>9, Zenon
<1>11. Rest = u \o v
  BY <1>7
<1> HIDE DEF u, v
<1>12. u \o v \in Seq(Byte) /\ Len(u \o v) = Len(u) + Len(v)
  BY <1>10, ConcatProperties
<1>13. n \in 1 .. 2
  OBVIOUS
<1> HIDE DEF n
<1>14. (n + 1) + (3 - n) = 4
  BY <1>13, SMT
<1> QED
  BY <1>10, <1>11, <1>12, <1>14, Zenon
-----------------------------------------------------------------------------
(* What the loops keep besides their types: complete groups of the input have *)
(* become groups of the output, and the decoder's group is made of sextets.  *)
EncodeInv ==
  /\ mode = "encode" => pos = 0 /\ group = << >> /\ output = << >>
  /\ mode = "encoding" => /\ size >= Needed(Len(input))
                          /\ Len(group) <= 2
                          /\ 3 * Len(output) = 4 * (pos - Len(group))
  /\ mode = "encoded" => /\ group = << >>
                         /\ Len(output) \in 1 .. size

DecodeInv ==
  /\ mode \in {"decoding", "decoded"} => 4 * Len(output) + 3 * Len(group) <= 3 * pos
  /\ mode = "decoding" => group \in Seq(Sextet)

Inv == TypeOK /\ EncodeInv /\ DecodeInv

(* More of the kind, for the steps of the loops.                            *)
LEMMA EmptyType ==
  ASSUME NEW S
  PROVE  << >> \in Seq(S) /\ Len(<< >>) = 0
BY EmptySeq

LEMMA LenNat == ASSUME NEW S, NEW s \in Seq(S) PROVE Len(s) \in Nat
BY LenProperties

(* The numbers the proofs reason about.                                     *)
LEMMA Lengths ==
  ASSUME TypeOK
  PROVE  /\ Len(input) \in Nat /\ Len(output) \in Nat /\ Len(group) \in Nat
         /\ pos \in Nat /\ pos <= Len(input) /\ Len(group) <= 3 /\ size \in Nat
<1>1. Len(input) \in Nat /\ Len(output) \in Nat /\ Len(group) \in Nat
  BY LenNat DEF TypeOK
<1>2. pos \in 0 .. Len(input) /\ Len(group) <= 3 /\ size \in Nat
  BY DEF TypeOK
<1>3. pos \in Nat /\ pos <= Len(input)
  BY <1>1, <1>2, SMT
<1> QED
  BY <1>1, <1>2, <1>3

(* The invariant holds when an activation begins ...                        *)
LEMMA InitInv == Init => Inv
<1> SUFFICES ASSUME Init PROVE Inv
  OBVIOUS
<1> USE Base64Assumption
<1>1. /\ << >> \in Seq(Byte) /\ << >> \in Seq(Sextet) /\ Len(<< >>) = 0
  BY EmptyType
<1>2. input \in Seq(Byte) /\ size \in Nat /\ mode \in {"encode", "decoding"}
  <2>1. CASE mode = "encode" /\ input \in Inputs /\ size \in Sizes
    BY <2>1 DEF Base64Assumption
  <2>2. CASE mode = "decoding" /\ input \in Texts /\ size = 0
    BY <2>2 DEF Base64Assumption
  <2> QED
    BY <2>1, <2>2 DEF Init
<1>3. 0 \in 0 .. Len(input)
  BY <1>2, LenProperties, SMT
<1>4. TypeOK
  BY <1>1, <1>2, <1>3 DEF Init, TypeOK
<1>5. EncodeInv
  BY <1>2 DEF Init, EncodeInv
<1>6. DecodeInv
  BY <1>1, <1>2 DEF Init, DecodeInv
<1> QED
  BY <1>4, <1>5, <1>6 DEF Inv

(* A byte is taken: the third of a group stores four characters.            *)
LEMMA EncodeByteInv == ASSUME Inv, EncodeByte PROVE Inv'
<1> USE DEF Inv, TypeOK, EncodeByte
<1> DEFINE triple == Append(group, input[pos + 1])
           n      == Len(input)
           g      == Len(group)
<1>1. /\ n \in Nat /\ pos \in Nat /\ pos < n
      /\ g \in 0 .. 2
      /\ 3 * Len(output) = 4 * (pos - g) /\ Len(output) \in Nat
  <2>1. mode = "encoding" /\ pos < n
    BY DEF EncodeByte
  <2>2. g <= 2 /\ 3 * Len(output) = 4 * (pos - g)
    BY <2>1 DEF EncodeInv
  <2>3. g \in Nat /\ n \in Nat /\ Len(output) \in Nat /\ pos \in Nat
    BY Lengths
  <2>4. g \in 0 .. 2
    <3> HIDE DEF g
    <3> QED BY <2>2, <2>3, SMT
  <2> QED
    BY <2>1, <2>2, <2>3, <2>4
<1>2. input[pos + 1] \in Byte
  BY <1>1, ElementOfSeq, SMT
<1>3. /\ triple \in Seq(Byte)
      /\ Len(triple) = g + 1
  BY <1>2, AppendProperties
<1>4. pos' = pos + 1 /\ pos' \in 0 .. n /\ mode' = "encoding" /\ mode = "encoding"
      /\ input' = input /\ size' = size /\ plain' = plain
  BY <1>1, SMT
<1>5. CASE Len(triple) = 3
  <2>1. output' = output \o Characters(triple) /\ group' = << >>
    BY <1>5
  <2>2. /\ triple = <<triple[1], triple[2], triple[3]>>
        /\ triple[1] \in Byte /\ triple[2] \in Byte /\ triple[3] \in Byte
    <3> HIDE DEF triple
    <3> QED BY <1>3, <1>5, Three
  <2> HIDE DEF triple
  <2>3. Characters(triple) \in Seq(Byte) /\ Len(Characters(triple)) = 4
    BY <2>2, CharactersType
  <2>4. output' \in Seq(Byte) /\ Len(output') = Len(output) + 4
    <3> DEFINE chars == Characters(triple)
    <3> HIDE DEF chars
    <3>1. chars \in Seq(Byte) /\ Len(chars) = 4 /\ output \in Seq(Byte)
      BY <2>3 DEF chars
    <3>2. output \o chars \in Seq(Byte) /\ Len(output \o chars) = Len(output) + Len(chars)
      BY <3>1, ConcatProperties
    <3>3. output' = output \o chars
      BY <2>1 DEF chars
    <3> QED
      BY <3>1, <3>2, <3>3
  <2>5. group' \in Seq(Byte) /\ Len(group') = 0
    BY <2>1, EmptyType
  <2>6. TypeOK'
    BY <1>4, <2>4, <2>5
  <2>7. 3 * Len(output') = 4 * (pos' - Len(group'))
    BY <1>1, <1>3, <1>4, <1>5, <2>4, <2>5, SMT
  <2>8. EncodeInv'
    BY <1>4, <2>5, <2>7 DEF EncodeInv
  <2>9. DecodeInv'
    BY <1>4 DEF DecodeInv
  <2> QED
    BY <2>6, <2>8, <2>9
<1>6. CASE Len(triple) # 3
  <2>1. output' = output /\ group' = triple
    BY <1>6
  <2>2. Len(group') = g + 1 /\ g + 1 <= 2 /\ group' \in Seq(Byte)
    <3>1. Len(group') = g + 1 /\ group' \in Seq(Byte)
      BY <1>3, <2>1
    <3>2. g + 1 # 3
      BY <1>3, <1>6
    <3> HIDE DEF g
    <3>3. g + 1 <= 2
      BY <1>1, <3>2, SMT
    <3> QED
      BY <3>1, <3>3
  <2> HIDE DEF triple
  <2>3. TypeOK'
    BY <1>1, <1>4, <2>1, <2>2, SMT
  <2>4. 3 * Len(output') = 4 * (pos' - Len(group'))
    BY <1>1, <1>4, <2>1, <2>2, SMT
  <2>5. EncodeInv'
    BY <1>1, <1>4, <2>2, <2>4, SMT DEF EncodeInv
  <2>6. DecodeInv'
    BY <1>4 DEF DecodeInv
  <2> QED
    BY <2>3, <2>5, <2>6
<1> QED
  BY <1>5, <1>6

(* The rest, the padding and the NUL fit because of the test at the start.   *)
LEMMA EncodeEndInv == ASSUME Inv, EncodeEnd PROVE Inv'
<1> USE DEF Inv, TypeOK, EncodeEnd
<1> DEFINE n   == Len(input)
           g   == Len(group)
           L   == Len(output)
           all == IF group = << >> THEN output ELSE output \o Rest
           k   == L - (n - g)
<1>1. /\ n \in Nat /\ pos = n /\ g \in 0 .. 2 /\ L \in Nat
      /\ 3 * L = 4 * (n - g) /\ size \in Nat /\ size >= Needed(n)
      /\ 0 <= n - g
  <2>1. /\ n \in Nat /\ pos = n /\ g \in 0 .. 2 /\ L \in Nat
        /\ 3 * L = 4 * (n - g) /\ size \in Nat /\ size >= Needed(n)
    <3>1. mode = "encoding" /\ pos = n
      OBVIOUS
    <3>2. g <= 2 /\ 3 * L = 4 * (n - g) /\ size >= Needed(n)
      BY <3>1 DEF EncodeInv
    <3>3. g \in Nat /\ n \in Nat /\ L \in Nat /\ size \in Nat
      BY Lengths
    <3>4. g \in 0 .. 2
      <4> HIDE DEF g
      <4> QED BY <3>2, <3>3, SMT
    <3> QED
      BY <3>1, <3>2, <3>3, <3>4
  <2> HIDE DEF n, g, L
  <2> QED
    BY <2>1, SMT
<1>2. /\ all \in Seq(Byte)
      /\ Len(all) = L + (IF g = 0 THEN 0 ELSE 4)
  <2>1. CASE group = << >>
    <3>1. g = 0
      BY <2>1, EmptyType
    <3> QED
      BY <1>1, <2>1, <3>1, SMT
  <2>2. CASE group # << >>
    <3>1. g \in 1 .. 2
      BY <1>1, <2>2, EmptySeq, LenProperties, SMT
    <3>2. Rest \in Seq(Byte) /\ Len(Rest) = 4
      BY <3>1, RestType
    <3>3. /\ output \o Rest \in Seq(Byte)
          /\ Len(output \o Rest) = L + 4
      <4>1. output \in Seq(Byte)
        OBVIOUS
      <4>2. Len(output \o Rest) = Len(output) + Len(Rest)
        BY <3>2, <4>1, ConcatProperties
      <4> QED
        BY <3>2, <4>1, <4>2, ConcatProperties
    <3> QED
      BY <2>2, <3>1, <3>3
  <2> QED
    BY <2>1, <2>2
<1>3. output' = all \o <<NUL>>
  OBVIOUS
<1>4. group' = << >> /\ mode' = "encoded" /\ size' = size /\ pos' = pos
      /\ input' = input /\ plain' = plain
  OBVIOUS
<1> DEFINE nul == <<NUL>>
<1>5. nul \in Seq(Byte) /\ Len(nul) = 1
  BY SMT DEF NUL, Byte
<1>6. output' = all \o nul
  BY <1>3
<1> HIDE DEF all, nul
<1>7. output' \in Seq(Byte) /\ Len(output') = L + (IF g = 0 THEN 0 ELSE 4) + 1
  <2>1. all \o nul \in Seq(Byte) /\ Len(all \o nul) = Len(all) + Len(nul)
    BY <1>2, <1>5, ConcatProperties
  <2> QED
    BY <1>2, <1>5, <1>6, <2>1
<1>8. Len(output') \in 1 .. size
  <2> HIDE DEF n, g, L
  <2>1. k \in Nat /\ n = 3 * k + g /\ L = 4 * k
    BY <1>1, SMT
  <2> HIDE DEF k
  <2>2. Needed(n) = 4 * k + (IF g = 0 THEN 0 ELSE 4) + 1
    BY <1>1, <2>1, NeededCovers
  <2> QED
    BY <1>1, <1>7, <2>1, <2>2, SMT
<1>9. group' \in Seq(Byte) /\ Len(group') = 0
  BY <1>4, EmptyType
<1>10. TypeOK'
  BY <1>4, <1>7, <1>9
<1>11. EncodeInv'
  BY <1>4, <1>8 DEF EncodeInv
<1>12. DecodeInv'
  BY <1>4 DEF DecodeInv
<1> QED
  BY <1>10, <1>11, <1>12

(* The decoder begins on the text without its NUL.                          *)
LEMMA DecodeStartInv == ASSUME Inv, DecodeStart PROVE Inv'
<1> USE DEF Inv, TypeOK, DecodeStart
<1> DEFINE k == Len(output) - 1
<1>1. k \in 0 .. Len(output)
  <2>1. Len(output) \in Nat /\ Len(output) >= 1
    BY LenProperties, SMT DEF EncodeInv
  <2> QED
    BY <2>1, SMT
<1>2. input' \in Seq(Byte) /\ Len(input') = k
  BY <1>1, SubSeqLemma
<1>3. /\ pos' = 0 /\ output' = << >> /\ group' = group /\ mode' = "decoding"
      /\ size' = size /\ plain' = plain /\ group = << >>
  BY DEF EncodeInv
<1>4. /\ << >> \in Seq(Byte) /\ << >> \in Seq(Sextet) /\ Len(<< >>) = 0
  BY EmptyType
<1>5. pos' \in 0 .. Len(input')
  BY <1>1, <1>2, <1>3, SMT
<1>6. TypeOK'
  BY <1>2, <1>3, <1>4, <1>5
<1>7. EncodeInv'
  BY <1>3 DEF EncodeInv
<1>8. DecodeInv'
  BY <1>3, <1>4 DEF DecodeInv
<1> QED
  BY <1>6, <1>7, <1>8

(* Only a group of four stores, and at most three bytes.                    *)
LEMMA DecodeCharInv == ASSUME Inv, DecodeChar PROVE Inv'
<1> USE DEF Inv, TypeOK, DecodeChar
<1> DEFINE c    == input[pos + 1]
           quad == Append(group, DecTable(c))
<1>1. /\ Len(input) \in Nat /\ pos \in Nat /\ pos < Len(input)
      /\ Len(group) \in 0 .. 3 /\ Len(output) \in Nat
      /\ 4 * Len(output) + 3 * Len(group) <= 3 * pos
      /\ group \in Seq(Sextet)
  <2>1. mode = "decoding" /\ pos < Len(input)
    OBVIOUS
  <2>2. 4 * Len(output) + 3 * Len(group) <= 3 * pos /\ group \in Seq(Sextet)
    BY <2>1 DEF DecodeInv
  <2>3. /\ Len(input) \in Nat /\ Len(output) \in Nat /\ Len(group) \in Nat
        /\ pos \in Nat /\ Len(group) <= 3
    BY Lengths
  <2>4. Len(group) \in 0 .. 3
    <3> DEFINE g == Len(group)
    <3>1. g \in Nat /\ g <= 3
      BY <2>3
    <3> HIDE DEF g
    <3>2. g \in 0 .. 3
      BY <3>1, SMT
    <3> QED
      BY <3>2 DEF g
  <2> QED
    BY <2>1, <2>2, <2>3, <2>4
<1>2. c \in Byte
  BY <1>1, ElementOfSeq, SMT
<1>3. /\ pos' = pos + 1 /\ pos' \in 0 .. Len(input) /\ mode' = "decoding"
      /\ mode = "decoding" /\ input' = input /\ size' = size /\ plain' = plain
  BY <1>1, SMT
<1>4. EncodeInv'
  BY <1>3 DEF EncodeInv
<1>5. DecTable(c) \in Byte
  BY <1>2, DecTableRange
<1>6. CASE DecTable(c) >= 128
  <2>1. group' = group /\ output' = output
    BY <1>6
  <2>2. 4 * Len(output') + 3 * Len(group') <= 3 * pos'
    BY <1>1, <1>3, <2>1, SMT
  <2>3. TypeOK' /\ DecodeInv'
    BY <1>1, <1>3, <2>1, <2>2 DEF DecodeInv
  <2> QED
    BY <1>4, <2>3
<1>7. CASE ~(DecTable(c) >= 128)
  <2>1. DecTable(c) \in Sextet
    <3>1. DecTable(c) < 128
      <4> DEFINE t == DecTable(c)
      <4>1. t \in 0 .. 255 /\ ~(t >= 128)
        BY <1>5, <1>7 DEF Byte
      <4> HIDE DEF t
      <4>2. t < 128
        BY <4>1, SMT
      <4> QED
        BY <4>2 DEF t
    <3> QED
      BY <1>2, <3>1, DecTableRange
  <2>2. /\ quad \in Seq(Sextet)
        /\ Len(quad) = Len(group) + 1
    BY <1>1, <2>1, AppendProperties
  <2>3. CASE Len(quad) = 4
    <3>1. /\ output' = output \o Bytes(quad, input[pos], input[pos + 1])
          /\ group' = << >>
      BY <1>7, <2>3 DEF GroupAfter
    <3>2. /\ quad = <<quad[1], quad[2], quad[3], quad[4]>>
          /\ quad[1] \in Sextet /\ quad[2] \in Sextet
          /\ quad[3] \in Sextet /\ quad[4] \in Sextet
      <4> HIDE DEF quad
      <4> QED BY <2>2, <2>3, Four
    <3> DEFINE b == Bytes(quad, input[pos], input[pos + 1])
    <3> HIDE DEF quad
    <3>3. b \in Seq(Byte) /\ Len(b) <= 3
      BY <3>2, BytesType
    <3>4. output' = output \o b
      BY <3>1
    <3> HIDE DEF b
    <3>5. output' \in Seq(Byte) /\ Len(output') = Len(output) + Len(b) /\ Len(b) \in Nat
      BY <3>3, <3>4, ConcatProperties, LenProperties
    <3>6. /\ group' \in Seq(Byte) /\ group' \in Seq(Sextet) /\ Len(group') = 0
      BY <3>1, EmptyType
    <3>7. 4 * Len(output') + 3 * Len(group') <= 3 * pos'
      <4> DEFINE L == Len(output)
                 g == Len(group)
                 k == Len(b)
      <4>1. /\ L \in Nat /\ g \in 0 .. 3 /\ k \in Nat /\ k <= 3 /\ pos \in Nat
            /\ 4 * L + 3 * g <= 3 * pos /\ g + 1 = 4
        BY <1>1, <2>2, <2>3, <3>3, <3>5
      <4>2. Len(output') = L + k /\ Len(group') = 0 /\ pos' = pos + 1
        BY <1>3, <3>5, <3>6
      <4> HIDE DEF L, g, k
      <4>3. 4 * (L + k) + 3 * 0 <= 3 * (pos + 1)
        BY <4>1, SMT
      <4> QED
        BY <4>2, <4>3
    <3>8. TypeOK' /\ DecodeInv'
      BY <1>3, <3>5, <3>6, <3>7 DEF DecodeInv
    <3> QED
      BY <1>4, <3>8
  <2>4. CASE Len(quad) # 4
    <3>1. group' = quad /\ output' = output
      BY <1>7, <2>4
    <3> HIDE DEF quad
    <3>2. Len(group') = Len(group) + 1 /\ Len(group') <= 3
      BY <1>1, <2>2, <2>4, <3>1, SMT
    <3>3. 4 * Len(output') + 3 * Len(group') <= 3 * pos'
      BY <1>1, <1>3, <3>1, <3>2, SMT
    <3>4. group' \in Seq(Byte)
      <4>1. Sextet \subseteq Byte
        BY SMT DEF Sextet, Byte
      <4> QED
        BY <2>2, <3>1, <4>1, SeqDef
    <3>5. TypeOK' /\ DecodeInv'
      BY <1>3, <2>2, <3>1, <3>2, <3>3, <3>4 DEF DecodeInv
    <3> QED
      BY <1>4, <3>5
  <2> QED
    BY <2>3, <2>4
<1> QED
  BY <1>6, <1>7

(* ... and every step keeps it.                                             *)
LEMMA NextInv == Inv /\ [Next]_vars => Inv'
<1> SUFFICES ASSUME Inv, [Next]_vars PROVE Inv'
  OBVIOUS
<1>1. CASE EncodeReject
  BY <1>1 DEF Inv, TypeOK, EncodeInv, DecodeInv, EncodeReject
<1>2. CASE EncodeStart
  <2>1. Len(input) \in Nat /\ Len(group) = 0 /\ Len(output) = 0 /\ pos = 0
    BY <1>2, LenProperties, EmptyType DEF Inv, TypeOK, EncodeInv, EncodeStart
  <2>2. 3 * Len(output) = 4 * (pos - Len(group)) /\ Len(group) <= 2
    BY <2>1, SMT
  <2> QED
    BY <1>2, <2>2 DEF Inv, TypeOK, EncodeInv, DecodeInv, EncodeStart
<1>3. CASE EncodeByte
  BY <1>3, EncodeByteInv
<1>4. CASE EncodeEnd
  BY <1>4, EncodeEndInv
<1>5. CASE DecodeStart
  BY <1>5, DecodeStartInv
<1>6. CASE DecodeChar
  BY <1>6, DecodeCharInv
<1>7. CASE DecodeEnd
  BY <1>7 DEF Inv, TypeOK, EncodeInv, DecodeInv, DecodeEnd
<1>8. CASE UNCHANGED vars
  BY <1>8 DEF Inv, TypeOK, EncodeInv, DecodeInv, vars
<1> QED
  BY <1>1, <1>2, <1>3, <1>4, <1>5, <1>6, <1>7, <1>8 DEF Next

(* The invariant of the two loops holds throughout.                         *)
THEOREM InvCorrect == Spec => []Inv
<1> QED
  BY InitInv, NextInv, PTL DEF Spec

(* The state of base64_encode and base64_decode keeps its types.            *)
THEOREM TypeCorrect == Spec => []TypeOK
<1>1. Inv => TypeOK
  BY DEF Inv
<1> QED
  BY <1>1, InvCorrect, PTL

(* base64_encode never stores outside its buffer, for any input and size.    *)
THEOREM EncodeFitsCorrect == Spec => []EncodeFits
<1>1. Inv => EncodeFits
  <2> SUFFICES ASSUME Inv, mode \in {"encoding", "encoded"} PROVE Len(output) <= size
    BY DEF EncodeFits
  <2> DEFINE n == Len(input)
             g == Len(group)
             L == Len(output)
             k == L - (pos - g)
  <2>1. CASE mode = "encoding"
    <3>1. /\ n \in Nat /\ pos \in 0 .. n /\ g \in 0 .. 2 /\ L \in Nat
          /\ 3 * L = 4 * (pos - g) /\ size \in Nat /\ size >= Needed(n)
      <4>1. g <= 2 /\ 3 * L = 4 * (pos - g) /\ size >= Needed(n)
        BY <2>1 DEF Inv, EncodeInv
      <4>2. /\ g \in Nat /\ n \in Nat /\ L \in Nat /\ size \in Nat
            /\ pos \in Nat /\ pos <= n
        BY Lengths DEF Inv
      <4> HIDE DEF g, n, L
      <4>3. g \in 0 .. 2 /\ pos \in 0 .. n
        BY <4>1, <4>2, SMT
      <4> QED
        BY <4>1, <4>2, <4>3
    <3> HIDE DEF n, g, L
    <3>2. L <= size
      BY <3>1, SMT DEF Needed
    <3> QED
      BY <3>2 DEF L
  <2>2. CASE mode = "encoded"
    BY <2>2, SMT DEF Inv, EncodeInv
  <2> QED
    BY <2>1, <2>2
<1> QED
  BY <1>1, InvCorrect, PTL

(* base64_decode stores at most three bytes for four characters it has read,  *)
(* whatever text it is given.                                               *)
THEOREM DecodeFitsCorrect == Spec => []DecodeFits
<1>1. Inv => DecodeFits
  <2> SUFFICES ASSUME Inv, mode \in {"decoding", "decoded"}
               PROVE  4 * Len(output) <= 3 * pos
    BY DEF DecodeFits
  <2> DEFINE g == Len(group)
             L == Len(output)
  <2>1. pos \in Nat /\ g \in Nat /\ L \in Nat /\ 4 * L + 3 * g <= 3 * pos
    BY LenProperties, SMT DEF Inv, TypeOK, DecodeInv
  <2> HIDE DEF g, L
  <2>2. 4 * L <= 3 * pos
    BY <2>1, SMT
  <2> QED
    BY <2>2 DEF L
<1> QED
  BY <1>1, InvCorrect, PTL

(***************************************************************************)
(* The round trip. A byte string p is encoded in groups of three; group k has    *)
(* the characters 4k+1 .. 4k+4.                                              *)
(***************************************************************************)
ByteAt(p, i) == IF i <= Len(p) THEN p[i] ELSE 0

Triple(p, k) == <<ByteAt(p, 3 * k + 1), ByteAt(p, 3 * k + 2), ByteAt(p, 3 * k + 3)>>

Char(p, k, j) == IF 3 * k + j - 1 <= Len(p) THEN Characters(Triple(p, k))[j] ELSE PAD

(* The decoding table undoes the encoding table.                               *)
LEMMA TableInverse ==
  ASSUME NEW q \in Sextet
  PROVE  DecTable(TableChar(q)) = q /\ TableChar(q) # PAD /\ TableChar(q) # NUL
<1>1. CASE q \in 0 .. 25
  BY <1>1, SMT DEF TableChar, DecTable, Sextet, PAD, NUL
<1>2. CASE q \in 26 .. 51
  BY <1>2, SMT DEF TableChar, DecTable, Sextet, PAD, NUL
<1>3. CASE q \in 52 .. 61
  BY <1>3, SMT DEF TableChar, DecTable, Sextet, PAD, NUL
<1>4. CASE q \in 62 .. 63
  BY <1>4, SMT DEF TableChar, DecTable, Sextet, PAD, NUL
<1> QED
  BY <1>1, <1>2, <1>3, <1>4, SMT DEF Sextet

(* The bytes come back from their four sextets.                                *)
LEMMA Unpack ==
  ASSUME NEW a \in Byte, NEW b \in Byte, NEW c \in Byte
  PROVE  LET q == Quartet(<<a, b, c>>)
         IN /\ q[1] \in Sextet /\ q[2] \in Sextet /\ q[3] \in Sextet /\ q[4] \in Sextet
            /\ (q[1] * 4 + q[2] \div 16) % 256 = a
            /\ ((q[2] * 16) % 256) + q[3] \div 4 = b
            /\ ((q[3] * 64) % 256) + q[4] = c
            /\ c = 0 => q[4] = 0
            /\ b = 0 /\ c = 0 => q[3] = 0
<1> DEFINE q == Quartet(<<a, b, c>>)
           a1 == a \div 4
           a0 == a % 4
           b1 == b \div 16
           b0 == b % 16
           c1 == c \div 64
           c0 == c % 64
<1>1. /\ a1 \in 0 .. 63 /\ a0 \in 0 .. 3 /\ a = 4 * a1 + a0
      /\ b1 \in 0 .. 15 /\ b0 \in 0 .. 15 /\ b = 16 * b1 + b0
      /\ c1 \in 0 .. 3 /\ c0 \in 0 .. 63 /\ c = 64 * c1 + c0
  BY SMT DEF Byte
<1>2. /\ q[1] = a1 /\ q[2] = a0 * 16 + b1 /\ q[3] = b0 * 4 + c1 /\ q[4] = c0
  BY DEF Quartet
<1> HIDE DEF q, a1, a0, b1, b0, c1, c0
<1>3. q[1] \in Sextet /\ q[2] \in Sextet /\ q[3] \in Sextet /\ q[4] \in Sextet
  BY <1>1, <1>2, SMT DEF Sextet
<1>4. (q[1] * 4 + q[2] \div 16) % 256 = a
  <2>1. (a0 * 16 + b1) \div 16 = a0
    BY <1>1, SMT
  <2>2. (a1 * 4 + a0) % 256 = a1 * 4 + a0
    BY <1>1, SMT
  <2> QED
    BY <1>1, <1>2, <2>1, <2>2
<1>5. ((q[2] * 16) % 256) + q[3] \div 4 = b
  <2>1. (b0 * 4 + c1) \div 4 = b0
    BY <1>1, SMT
  <2>2. ((a0 * 16 + b1) * 16) % 256 = 16 * b1
    BY <1>1, SMT
  <2> QED
    BY <1>1, <1>2, <2>1, <2>2
<1>6. ((q[3] * 64) % 256) + q[4] = c
  <2>1. ((b0 * 4 + c1) * 64) % 256 = 64 * c1
    BY <1>1, SMT
  <2> QED
    BY <1>1, <1>2, <2>1
<1>7. (c = 0 => q[4] = 0) /\ (b = 0 /\ c = 0 => q[3] = 0)
  BY <1>1, <1>2, SMT
<1> QED
  BY <1>3, <1>4, <1>5, <1>6, <1>7 DEF q

LEMMA TripleType ==
  ASSUME NEW p \in Seq(Byte), NEW k \in Nat
  PROVE  /\ \A i \in Nat \ {0} : ByteAt(p, i) \in Byte
         /\ ByteAt(p, 3 * k + 1) \in Byte /\ ByteAt(p, 3 * k + 2) \in Byte
         /\ ByteAt(p, 3 * k + 3) \in Byte
<1>1. ASSUME NEW i \in Nat \ {0} PROVE ByteAt(p, i) \in Byte
  <2>1. CASE i <= Len(p)
    <3>1. i \in 1 .. Len(p)
      BY <2>1, LenNat, SMT
    <3> QED
      BY <2>1, <3>1, ElementOfSeq DEF ByteAt
  <2>2. CASE ~(i <= Len(p))
    BY <2>2, SMT DEF ByteAt, Byte
  <2> QED
    BY <2>1, <2>2
<1>2. 3 * k + 1 \in Nat \ {0} /\ 3 * k + 2 \in Nat \ {0} /\ 3 * k + 3 \in Nat \ {0}
  BY SMT
<1> QED
  BY <1>1, <1>2

(* A character of the encoding is no NUL, and the table gives its sextet, also    *)
(* for the padding, which stands where the sextet is zero.                     *)
LEMMA CharFacts ==
  ASSUME NEW p \in Seq(Byte), NEW k \in Nat, 3 * k < Len(p), NEW j \in 1 .. 4
  PROVE  /\ Char(p, k, j) # NUL
         /\ DecTable(Char(p, k, j)) = Quartet(Triple(p, k))[j]
         /\ DecTable(Char(p, k, j)) \in Sextet
         /\ Char(p, k, j) = PAD <=> 3 * k + j - 1 > Len(p)
<1> DEFINE a == ByteAt(p, 3 * k + 1)
           b == ByteAt(p, 3 * k + 2)
           c == ByteAt(p, 3 * k + 3)
           n == Len(p)
           q == Quartet(Triple(p, k))
           x == q[j]
<1>1. a \in Byte /\ b \in Byte /\ c \in Byte /\ Triple(p, k) = <<a, b, c>>
  BY TripleType DEF Triple
<1>2. n \in Nat
  BY LenNat
<1>3. (n < 3 * k + 2 => b = 0) /\ (n < 3 * k + 3 => c = 0)
  BY <1>2, SMT DEF ByteAt
<1> HIDE DEF a, b, c
<1>4. /\ q[1] \in Sextet /\ q[2] \in Sextet /\ q[3] \in Sextet /\ q[4] \in Sextet
      /\ c = 0 => q[4] = 0
      /\ b = 0 /\ c = 0 => q[3] = 0
  BY <1>1, Unpack
<1> HIDE DEF q, n
<1>5. j = 1 \/ j = 2 \/ j = 3 \/ j = 4
  BY SMT
<1>6. x \in Sextet
  BY <1>4, <1>5
<1>7. 3 * k + j - 1 > n => x = 0
  <2>1. CASE j = 1 \/ j = 2
    BY <2>1, <1>2, SMT DEF n
  <2>2. CASE j = 3
    BY <2>2, <1>2, <1>3, <1>4, SMT
  <2>3. CASE j = 4
    BY <2>3, <1>2, <1>3, <1>4, SMT
  <2> QED
    BY <1>5, <2>1, <2>2, <2>3
<1>8. CASE 3 * k + j - 1 <= n
  <2>1. Char(p, k, j) = Characters(Triple(p, k))[j]
    BY <1>8 DEF Char, n
  <2>2. Characters(Triple(p, k))[j] = TableChar(x)
    BY <1>5 DEF Characters, q
  <2> HIDE DEF x
  <2>3. ~(3 * k + j - 1 > n)
    BY <1>2, <1>8, SMT
  <2> QED
    BY <1>6, <2>1, <2>2, <2>3, TableInverse DEF n, x, q
<1>9. CASE ~(3 * k + j - 1 <= n)
  <2>1. 3 * k + j - 1 > n
    BY <1>2, <1>9, SMT
  <2>2. Char(p, k, j) = PAD
    BY <1>9 DEF Char, n
  <2>3. DecTable(PAD) = 0 /\ PAD # NUL
    BY SMT DEF DecTable, PAD, NUL
  <2> QED
    BY <1>6, <1>7, <2>1, <2>2, <2>3 DEF n, x, q
<1> QED
  BY <1>8, <1>9

(* One, two or three elements put together.                                    *)
LEMMA Joined ==
  ASSUME NEW S, NEW a \in S, NEW b \in S, NEW c \in S
  PROVE  /\ (<<a>> \o << >>) \o << >> = <<a>>
         /\ (<<a>> \o <<b>>) \o << >> = <<a, b>>
         /\ (<<a>> \o <<b>>) \o <<c>> = <<a, b, c>>
         /\ <<a>> \in Seq(S) /\ <<a, b>> \in Seq(S) /\ <<a, b, c>> \in Seq(S)
<1>1. <<a>> \in Seq(S) /\ <<a, b>> \in Seq(S) /\ <<a, b, c>> \in Seq(S)
  BY SMT
<1>2. (<<a>> \o << >>) \o << >> = <<a>>
  BY <1>1, ConcatEmptySeq
<1>3. <<a>> \o <<b>> = <<a, b>>
  <2>1. Append(<<a>>, b) = <<a>> \o <<b>>
    BY <1>1, AppendIsConcat
  <2> DEFINE u == Append(<<a>>, b)
             v == <<a, b>>
  <2>2. u \in Seq(S) /\ Len(u) = 2 /\ u[1] = a /\ u[2] = b
    <3>1. Len(<<a>>) = 1 /\ <<a>>[1] = a
      OBVIOUS
    <3> QED
      BY <1>1, <3>1, AppendProperties
  <2>3. v \in Seq(S) /\ Len(v) = 2 /\ v[1] = a /\ v[2] = b
    BY <1>1
  <2> HIDE DEF u, v
  <2>4. u = v
    BY <2>2, <2>3, SeqEqual
  <2> QED
    BY <2>1, <2>4 DEF u, v
<1>4. <<a, b>> \o << >> = <<a, b>>
  BY <1>1, ConcatEmptySeq
<1>5. <<a, b>> \o <<c>> = <<a, b, c>>
  <2>1. Append(<<a, b>>, c) = <<a, b>> \o <<c>>
    BY <1>1, AppendIsConcat
  <2> DEFINE u == Append(<<a, b>>, c)
             v == <<a, b, c>>
  <2>2. u \in Seq(S) /\ Len(u) = 3 /\ u[1] = a /\ u[2] = b /\ u[3] = c
    <3>1. Len(<<a, b>>) = 2 /\ <<a, b>>[1] = a /\ <<a, b>>[2] = b
      OBVIOUS
    <3> QED
      BY <1>1, <3>1, AppendProperties
  <2>3. v \in Seq(S) /\ Len(v) = 3 /\ v[1] = a /\ v[2] = b /\ v[3] = c
    BY <1>1
  <2> HIDE DEF u, v
  <2>4. u = v
    BY <2>2, <2>3, SeqEqual
  <2> QED
    BY <2>1, <2>4 DEF u, v
<1> QED
  BY <1>1, <1>2, <1>3, <1>4, <1>5

(* The decoder gives the bytes of a group back, as many as it has.               *)
LEMMA GroupBytes ==
  ASSUME NEW p \in Seq(Byte), NEW k \in Nat, 3 * k < Len(p), NEW quad,
         quad = <<DecTable(Char(p, k, 1)), DecTable(Char(p, k, 2)),
                  DecTable(Char(p, k, 3)), DecTable(Char(p, k, 4))>>
  PROVE  LET w == Bytes(quad, Char(p, k, 3), Char(p, k, 4))
         IN /\ w \in Seq(Byte)
            /\ Len(w) = IF 3 * k + 3 <= Len(p) THEN 3 ELSE Len(p) - 3 * k
            /\ \A i \in 1 .. Len(w) : w[i] = p[3 * k + i]
<1> DEFINE a == ByteAt(p, 3 * k + 1)
           b == ByteAt(p, 3 * k + 2)
           c == ByteAt(p, 3 * k + 3)
           n == Len(p)
           q == Quartet(Triple(p, k))
           third  == Char(p, k, 3)
           fourth == Char(p, k, 4)
           w == Bytes(quad, third, fourth)
<1>1. a \in Byte /\ b \in Byte /\ c \in Byte /\ q = Quartet(<<a, b, c>>)
  BY TripleType DEF Triple
<1>2. n \in Nat /\ 3 * k < n
  BY LenNat
<1>3. /\ a = p[3 * k + 1]
      /\ 3 * k + 2 <= n => b = p[3 * k + 2]
      /\ 3 * k + 3 <= n => c = p[3 * k + 3]
  BY <1>2, SMT DEF ByteAt
<1>4. quad = <<q[1], q[2], q[3], q[4]>>
  BY CharFacts
<1>5. (third = PAD <=> 3 * k + 2 > n) /\ (fourth = PAD <=> 3 * k + 3 > n)
  <2>1. 3 * k + 3 - 1 = 3 * k + 2 /\ 3 * k + 4 - 1 = 3 * k + 3
    BY SMT
  <2>2. third = PAD <=> 3 * k + 3 - 1 > n
    BY CharFacts
  <2>3. fourth = PAD <=> 3 * k + 4 - 1 > n
    BY CharFacts
  <2> QED
    BY <2>1, <2>2, <2>3
<1> HIDE DEF a, b, c, n, q, third, fourth
<1>6. /\ (q[1] * 4 + q[2] \div 16) % 256 = a
      /\ ((q[2] * 16) % 256) + q[3] \div 4 = b
      /\ ((q[3] * 64) % 256) + q[4] = c
  BY <1>1, Unpack
<1>7. w = <<a>> \o (IF third # PAD THEN <<b>> ELSE << >>)
                \o (IF fourth # PAD THEN <<c>> ELSE << >>)
  <2> DEFINE x == (quad[1] * 4 + quad[2] \div 16) % 256
             y == ((quad[2] * 16) % 256) + quad[3] \div 4
             z == ((quad[3] * 64) % 256) + quad[4]
  <2>1. quad[1] = q[1] /\ quad[2] = q[2] /\ quad[3] = q[3] /\ quad[4] = q[4]
    BY <1>4
  <2>2. x = a /\ y = b /\ z = c
    BY <1>6, <2>1
  <2>3. w = <<x>> \o (IF third # PAD THEN <<y>> ELSE << >>)
                  \o (IF fourth # PAD THEN <<z>> ELSE << >>)
    BY DEF Bytes
  <2> HIDE DEF w, x, y, z
  <2> QED
    BY <2>2, <2>3, Zenon
<1> HIDE DEF w
<1>8. CASE 3 * k + 3 <= n
  <2>1. 3 * k + 2 <= n /\ third # PAD /\ fourth # PAD
    BY <1>2, <1>5, <1>8, SMT
  <2>2. w = <<a, b, c>>
    <3>1. w = (<<a>> \o <<b>>) \o <<c>>
      BY <1>7, <2>1, Zenon
    <3> QED
      BY <1>1, <3>1, Joined
  <2>3. w \in Seq(Byte)
    BY <1>1, <2>2, Joined
  <2>4. Len(w) = 3 /\ w[1] = a /\ w[2] = b /\ w[3] = c
    BY <2>2
  <2>5. ASSUME NEW i \in 1 .. Len(w) PROVE w[i] = p[3 * k + i]
    <3>1. i = 1 \/ i = 2 \/ i = 3
      BY <2>4, SMT
    <3> QED
      BY <1>3, <1>8, <2>1, <2>4, <3>1
  <2> QED
    BY <1>8, <2>1, <2>3, <2>4, <2>5 DEF w, n, third, fourth
<1>9. CASE 3 * k + 2 = n
  <2>1. ~(3 * k + 3 <= n) /\ third # PAD /\ fourth = PAD /\ n - 3 * k = 2
        /\ 3 * k + 2 <= n
    BY <1>2, <1>5, <1>9, SMT
  <2>2. w = <<a, b>>
    <3>1. w = (<<a>> \o <<b>>) \o << >>
      BY <1>7, <2>1, Zenon
    <3>2. (<<a>> \o <<b>>) \o << >> = <<a, b>>
      BY <1>1, Joined
    <3> QED
      BY <3>1, <3>2, Zenon
  <2>3. w \in Seq(Byte)
    BY <1>1, <2>2, Joined
  <2>4. Len(w) = 2 /\ w[1] = a /\ w[2] = b
    BY <2>2
  <2>5. ASSUME NEW i \in 1 .. Len(w) PROVE w[i] = p[3 * k + i]
    <3>1. i = 1 \/ i = 2
      BY <2>4, SMT
    <3> QED
      BY <1>3, <2>1, <2>4, <3>1
  <2> QED
    BY <2>1, <2>3, <2>4, <2>5 DEF w, n, third, fourth
<1>10. CASE 3 * k + 1 = n
  <2>1. ~(3 * k + 3 <= n) /\ third = PAD /\ fourth = PAD /\ n - 3 * k = 1
    BY <1>2, <1>5, <1>10, SMT
  <2>2. w = <<a>>
    <3>1. w = (<<a>> \o << >>) \o << >>
      BY <1>7, <2>1, Zenon
    <3> QED
      BY <1>1, <3>1, Joined
  <2>3. w \in Seq(Byte)
    BY <1>1, <2>2, Joined
  <2>4. Len(w) = 1 /\ w[1] = a
    BY <2>2
  <2>5. ASSUME NEW i \in 1 .. Len(w) PROVE w[i] = p[3 * k + i]
    <3>1. i = 1
      BY <2>4, SMT
    <3> QED
      BY <1>3, <2>1, <2>4, <3>1
  <2> QED
    BY <2>1, <2>3, <2>4, <2>5 DEF w, n, third, fourth
<1>11. 3 * k + 3 <= n \/ 3 * k + 2 = n \/ 3 * k + 1 = n
  BY <1>2, SMT
<1> QED
  BY <1>8, <1>9, <1>10, <1>11

(***************************************************************************)
(* What holds while a byte string is encoded and decoded: the text so far is      *)
(* the encoding of the bytes taken, and the bytes so far are those encoded.      *)
(***************************************************************************)
Encodes(text, len, p) ==
  \A k \in 0 .. len, j \in 1 .. 4 : 4 * k + j <= len => text[4 * k + j] = Char(p, k, j)

(* len is the length of the encoding of n bytes.                               *)
Complete(len, n) == \E m \in 0 .. len : len = 4 * m /\ n <= 3 * m /\ 3 * m < n + 3

(* The bytes of n that k groups of characters give.                            *)
Written(k, n) == IF 3 * k <= n THEN 3 * k ELSE n

Encoding ==
  /\ plain = input /\ Len(plain) > 0
  /\ \E k \in 0 .. pos :
       /\ pos = 3 * k + Len(group)
       /\ Len(output) = 4 * k
       /\ Encodes(output, 4 * k, plain)
       /\ \A i \in 1 .. Len(group) : group[i] = plain[3 * k + i]

Encoded ==
  /\ Len(plain) > 0
  /\ Complete(Len(output) - 1, Len(plain))
  /\ Encodes(output, Len(output) - 1, plain)

Decoding ==
  /\ Complete(Len(input), Len(plain))
  /\ Encodes(input, Len(input), plain)
  /\ \E k \in 0 .. pos :
       /\ pos = 4 * k + Len(group)
       /\ \A j \in 1 .. Len(group) : group[j] = DecTable(input[4 * k + j])
       /\ Len(output) = Written(k, Len(plain))
       /\ \A i \in 1 .. Len(output) : output[i] = plain[i]

RoundInv ==
  /\ mode \in {"encode", "rejected"} => plain = << >>
  /\ mode = "encoding" => Encoding
  /\ mode = "encoded" => Encoded
  /\ mode \in {"decoding", "decoded"} /\ plain # << >> => Decoding
  /\ mode = "decoded" /\ plain # << >> => pos = Len(input)

(* Where an element stands in a concatenation.                                 *)
LEMMA ConcatAt ==
  ASSUME NEW S, NEW s \in Seq(S), NEW t \in Seq(S)
  PROVE  /\ s \o t \in Seq(S) /\ Len(s \o t) = Len(s) + Len(t)
         /\ \A i \in 1 .. Len(s) : (s \o t)[i] = s[i]
         /\ \A i \in 1 .. Len(t) : (s \o t)[Len(s) + i] = t[i]
<1> DEFINE m == Len(s)
           n == Len(t)
           u == s \o t
<1>1. m \in Nat /\ n \in Nat
  BY LenNat
<1>2. /\ u \in Seq(S) /\ Len(u) = m + n
      /\ \A i \in 1 .. m + n : u[i] = IF i <= m THEN s[i] ELSE t[i - m]
  BY ConcatProperties
<1> HIDE DEF m, n, u
<1>3. ASSUME NEW i \in 1 .. m PROVE u[i] = s[i]
  <2>1. i \in 1 .. m + n /\ i <= m
    BY <1>1, SMT
  <2> QED
    BY <1>2, <2>1
<1>4. ASSUME NEW i \in 1 .. n PROVE u[m + i] = t[i]
  <2>1. m + i \in 1 .. m + n /\ ~(m + i <= m) /\ (m + i) - m = i
    BY <1>1, SMT
  <2> QED
    BY <1>2, <2>1
<1> QED
  BY <1>2, <1>3, <1>4 DEF m, n, u

(* Four characters more: the encoding is one group longer.                      *)
LEMMA EncodesMore ==
  ASSUME NEW p, NEW k \in Nat, NEW s, Encodes(s, 4 * k, p),
         NEW u, \A i \in 1 .. 4 * k : u[i] = s[i],
         \A j \in 1 .. 4 : u[4 * k + j] = Char(p, k, j)
  PROVE  Encodes(u, 4 * k + 4, p)
<1> SUFFICES ASSUME NEW l \in 0 .. 4 * k + 4, NEW j \in 1 .. 4, 4 * l + j <= 4 * k + 4
             PROVE  u[4 * l + j] = Char(p, l, j)
  BY DEF Encodes
<1>1. CASE l = k
  BY <1>1
<1>2. CASE l # k
  <2>1. l \in 0 .. 4 * k /\ 4 * l + j \in 1 .. 4 * k /\ 4 * l + j <= 4 * k
    BY <1>2, SMT
  <2> QED
    BY <2>1 DEF Encodes
<1> QED
  BY <1>1, <1>2

LEMMA EncodesLonger ==
  ASSUME NEW p, NEW k \in Nat, NEW s \in Seq(Byte), NEW t \in Seq(Byte),
         Len(s) = 4 * k, Encodes(s, 4 * k, p), Len(t) = 4,
         \A j \in 1 .. 4 : t[j] = Char(p, k, j)
  PROVE  /\ s \o t \in Seq(Byte) /\ Len(s \o t) = 4 * k + 4
         /\ Encodes(s \o t, 4 * k + 4, p)
<1> DEFINE u == s \o t
<1>1. u \in Seq(Byte) /\ Len(u) = Len(s) + Len(t)
  BY ConcatAt
<1>2. \A i \in 1 .. Len(s) : u[i] = s[i]
  BY ConcatAt
<1>3. \A i \in 1 .. Len(t) : u[Len(s) + i] = t[i]
  BY ConcatAt
<1> HIDE DEF u
<1>4. \A i \in 1 .. 4 * k : u[i] = s[i]
  BY <1>2
<1>5. \A j \in 1 .. 4 : u[4 * k + j] = Char(p, k, j)
  BY <1>3
<1>6. Encodes(u, 4 * k + 4, p)
  BY <1>4, <1>5, EncodesMore
<1> QED
  BY <1>1, <1>6 DEF u

LEMMA EncodesSame ==
  ASSUME NEW p, NEW len \in Nat, NEW s, Encodes(s, len, p),
         NEW u, \A i \in 1 .. len : u[i] = s[i]
  PROVE  Encodes(u, len, p)
<1> SUFFICES ASSUME NEW l \in 0 .. len, NEW j \in 1 .. 4, 4 * l + j <= len
             PROVE  u[4 * l + j] = Char(p, l, j)
  BY DEF Encodes
<1>1. 4 * l + j \in 1 .. len
  BY SMT
<1> QED
  BY <1>1 DEF Encodes

(* A prefix of a sequence.                                                      *)
LEMMA PrefixAt ==
  ASSUME NEW S, NEW s \in Seq(S), NEW k \in 0 .. Len(s)
  PROVE  /\ SubSeq(s, 1, k) \in Seq(S) /\ Len(SubSeq(s, 1, k)) = k
         /\ \A i \in 1 .. k : SubSeq(s, 1, k)[i] = s[i]
<1> DEFINE u == SubSeq(s, 1, k)
<1>1. u \in Seq(S) /\ Len(u) = k
  BY SubSeqLemma
<1>2. k \in Int /\ \A i \in 1 .. k : s[i] \in S
  <2>1. Len(s) \in Nat
    BY LenNat
  <2>2. \A i \in 1 .. k : i \in 1 .. Len(s)
    BY <2>1, SMT
  <2> QED
    BY <2>1, <2>2, ElementOfSeq, SMT
<1>3. \A i \in 1 .. k - 1 + 1 : u[i] = s[1 + i - 1]
  BY <1>2, SubSeqProperties
<1> HIDE DEF u
<1>4. \A i \in 1 .. k : u[i] = s[i]
  <2>1. ASSUME NEW i \in 1 .. k PROVE u[i] = s[i]
    <3>1. i \in 1 .. k - 1 + 1 /\ 1 + i - 1 = i
      BY <1>2, SMT
    <3> QED
      BY <1>3, <3>1
  <2> QED
    BY <2>1
<1> QED
  BY <1>1, <1>4 DEF u

(* The rest and its padding are the characters of the last group.               *)
LEMMA RestChars ==
  ASSUME NEW p \in Seq(Byte), NEW k \in Nat, group \in Seq(Byte), Len(group) \in 1 .. 2,
         Len(p) = 3 * k + Len(group), \A i \in 1 .. Len(group) : group[i] = p[3 * k + i]
  PROVE  Rest \in Seq(Byte) /\ Len(Rest) = 4 /\ \A j \in 1 .. 4 : Rest[j] = Char(p, k, j)
<1> DEFINE n      == Len(group)
           zeros  == <<0, 0>>
           filled == group \o zeros
           third  == SubSeq(filled, 1, 3)
           chars  == Characters(third)
           pads   == <<PAD, PAD>>
           front  == SubSeq(chars, 1, n + 1)
           back   == SubSeq(pads, 1, 3 - n)
<1>1. n \in 1 .. 2 /\ Len(p) = 3 * k + n
  OBVIOUS
<1>2. /\ zeros \in Seq(Byte) /\ Len(zeros) = 2 /\ zeros[1] = 0 /\ zeros[2] = 0
      /\ pads \in Seq(Byte) /\ Len(pads) = 2 /\ pads[1] = PAD /\ pads[2] = PAD
  BY SMT DEF Byte, PAD
<1>3. Rest = front \o back
  BY DEF Rest
<1> HIDE DEF zeros, pads
<1>4. /\ filled \in Seq(Byte) /\ Len(filled) = n + 2
      /\ \A i \in 1 .. n : filled[i] = group[i]
      /\ filled[n + 1] = 0 /\ filled[n + 2] = 0
  <2>1. filled \in Seq(Byte) /\ Len(filled) = Len(group) + Len(zeros)
    BY <1>2, ConcatAt
  <2>2. \A i \in 1 .. Len(group) : filled[i] = group[i]
    BY <1>2, ConcatAt
  <2>3. \A i \in 1 .. Len(zeros) : filled[Len(group) + i] = zeros[i]
    <3>1. zeros \in Seq(Byte)
      BY <1>2
    <3> HIDE DEF n
    <3> QED
      BY <3>1, ConcatAt
  <2> HIDE DEF filled
  <2>4. 1 \in 1 .. Len(zeros) /\ 2 \in 1 .. Len(zeros)
    BY <1>2
  <2> QED
    BY <1>2, <2>1, <2>2, <2>3, <2>4
<1> HIDE DEF filled
<1>5. 3 \in 0 .. Len(filled)
  <2> HIDE DEF n
  <2> QED
    BY <1>1, <1>4
<1>6. /\ third \in Seq(Byte) /\ Len(third) = 3
      /\ \A i \in 1 .. 3 : third[i] = filled[i]
  BY <1>4, <1>5, PrefixAt
<1>7. third[1] = ByteAt(p, 3 * k + 1) /\ third[2] = ByteAt(p, 3 * k + 2)
      /\ third[3] = ByteAt(p, 3 * k + 3)
  <2>1. \A i \in 1 .. n : filled[i] = p[3 * k + i]
    BY <1>4
  <2> HIDE DEF third, n
  <2>2. CASE n = 1
    BY <1>1, <1>4, <1>6, <2>1, <2>2 DEF ByteAt
  <2>3. CASE n = 2
    BY <1>1, <1>4, <1>6, <2>1, <2>3 DEF ByteAt
  <2> QED
    BY <1>1, <2>2, <2>3
<1>8. third = Triple(p, k) /\ third[1] \in Byte /\ third[2] \in Byte /\ third[3] \in Byte
      /\ third = <<third[1], third[2], third[3]>>
  BY <1>6, <1>7, Three DEF Triple
<1>9. chars \in Seq(Byte) /\ Len(chars) = 4
  <2> HIDE DEF third
  <2>1. Characters(<<third[1], third[2], third[3]>>) \in Seq(Byte)
        /\ Len(Characters(<<third[1], third[2], third[3]>>)) = 4
    BY <1>8, CharactersType
  <2> QED
    BY <1>8, <2>1
<1> HIDE DEF third
<1>10. /\ front \in Seq(Byte) /\ Len(front) = n + 1
       /\ \A i \in 1 .. n + 1 : front[i] = chars[i]
  <2> HIDE DEF chars, n
  <2>1. n + 1 \in 0 .. Len(chars)
    BY <1>1, <1>9
  <2> QED
    BY <1>9, <2>1, PrefixAt
<1>11. /\ back \in Seq(Byte) /\ Len(back) = 3 - n
       /\ \A i \in 1 .. 3 - n : back[i] = pads[i]
  <2> HIDE DEF n
  <2>1. 3 - n \in 0 .. Len(pads)
    BY <1>1, <1>2
  <2> QED
    BY <1>2, <2>1, PrefixAt
<1> HIDE DEF front, back, n
<1>12. /\ Rest \in Seq(Byte) /\ Len(Rest) = Len(front) + Len(back)
       /\ \A i \in 1 .. Len(front) : Rest[i] = front[i]
       /\ \A i \in 1 .. Len(back) : Rest[Len(front) + i] = back[i]
  <2> DEFINE u == front \o back
  <2>1. u \in Seq(Byte) /\ Len(u) = Len(front) + Len(back)
    BY <1>10, <1>11, ConcatAt
  <2>2. \A i \in 1 .. Len(front) : u[i] = front[i]
    BY <1>10, <1>11, ConcatAt
  <2>3. \A i \in 1 .. Len(back) : u[Len(front) + i] = back[i]
    BY <1>10, <1>11, ConcatAt
  <2> QED
    BY <1>3, <2>1, <2>2, <2>3
<1>13. Len(Rest) = 4
  BY <1>1, <1>10, <1>11, <1>12
<1>14. ASSUME NEW j \in 1 .. 4 PROVE Rest[j] = Char(p, k, j)
  <2>1. CASE j <= n + 1
    <3>1. j \in 1 .. n + 1 /\ 3 * k + j - 1 <= Len(p)
      BY <1>1, <2>1, SMT
    <3>2. Rest[j] = chars[j]
      BY <3>1, <1>10, <1>12
    <3> QED
      BY <3>1, <3>2, <1>8 DEF Char, chars
  <2>2. CASE ~(j <= n + 1)
    <3> DEFINE i == j - (n + 1)
    <3>1. i \in 1 .. 3 - n /\ j = (n + 1) + i /\ i \in 1 .. 2 /\ ~(3 * k + j - 1 <= Len(p))
      BY <1>1, <2>2, SMT
    <3> HIDE DEF i
    <3>2. Rest[j] = pads[i]
      BY <3>1, <1>10, <1>11, <1>12
    <3>3. pads[i] = PAD
      BY <3>1, <1>2
    <3> QED
      BY <3>1, <3>2, <3>3 DEF Char
  <2> QED
    BY <2>1, <2>2
<1> QED
  BY <1>12, <1>13, <1>14

LEMMA RoundInit == Init => RoundInv
  BY DEF Init, RoundInv

LEMMA RoundStart == ASSUME Inv, RoundInv, EncodeStart PROVE RoundInv'
<1>1. /\ pos' = 0 /\ group' = << >> /\ output' = << >> /\ plain' = input /\ input' = input
      /\ Len(input) > 0 /\ mode' = "encoding"
  BY DEF Inv, EncodeInv, EncodeStart
<1>2. Encodes(output', 4 * 0, plain')
  BY SMT DEF Encodes
<1>3. Len(group') = 0 /\ Len(output') = 0
  BY <1>1
<1>4. 0 \in 0 .. pos' /\ pos' = 3 * 0 + Len(group') /\ Len(output') = 4 * 0
  BY <1>1, <1>3
<1>5. \A i \in 1 .. Len(group') : group'[i] = plain'[3 * 0 + i]
  BY <1>3
<1>6. Encoding'
  BY <1>1, <1>2, <1>4, <1>5 DEF Encoding
<1> QED
  BY <1>1, <1>6 DEF RoundInv

(* A byte more in the group; the third completes four characters.               *)
LEMMA RoundEncodeByte == ASSUME Inv, RoundInv, EncodeByte PROVE RoundInv'
<1> DEFINE n == Len(plain)
           g == Len(group)
           b == input[pos + 1]
           triple == Append(group, b)
<1>1. /\ mode = "encoding" /\ pos < Len(input) /\ pos' = pos + 1 /\ mode' = mode
      /\ plain' = plain /\ input' = input
  BY DEF EncodeByte
<1>2. Encoding
  BY <1>1 DEF RoundInv
<1>3. plain = input /\ n > 0 /\ plain \in Seq(Byte) /\ group \in Seq(Byte)
      /\ output \in Seq(Byte)
  BY <1>2 DEF Encoding, Inv, TypeOK
<1>4. PICK k \in 0 .. pos :
        /\ pos = 3 * k + g
        /\ Len(output) = 4 * k
        /\ Encodes(output, 4 * k, plain)
        /\ \A i \in 1 .. g : group[i] = plain[3 * k + i]
  BY <1>2 DEF Encoding
<1>5. n \in Nat /\ pos \in Nat /\ pos < n /\ g \in 0 .. 2
  <2>1. g <= 2
    BY <1>1 DEF Inv, EncodeInv
  <2>2. g \in Nat /\ n \in Nat /\ pos \in Nat
    BY <1>3, LenNat, Lengths DEF Inv
  <2> HIDE DEF g
  <2> QED
    BY <1>1, <1>3, <2>1, <2>2
<1>6. k \in Nat
  BY <1>5
<1>7. b \in Byte /\ b = plain[3 * k + g + 1]
  <2>1. pos + 1 \in 1 .. Len(input) /\ pos + 1 = 3 * k + g + 1
    BY <1>3, <1>4, <1>5, <1>6
  <2> QED
    BY <1>3, <2>1, ElementOfSeq
<1>8. triple \in Seq(Byte) /\ Len(triple) = g + 1
  BY <1>3, <1>7, AppendProperties
<1>9. \A i \in 1 .. g : triple[i] = group[i]
  BY <1>3, <1>7, AppendProperties
<1>10. triple[g + 1] = b
  BY <1>3, <1>7, AppendProperties
<1>11. \A i \in 1 .. g + 1 : triple[i] = plain[3 * k + i]
  <2> HIDE DEF triple, b, g
  <2>1. ASSUME NEW i \in 1 .. g + 1 PROVE triple[i] = plain[3 * k + i]
    <3>1. CASE i = g + 1
      <4>1. 3 * k + i = 3 * k + g + 1
        BY <1>5, <1>6, <3>1
      <4> QED
        BY <1>7, <1>10, <3>1, <4>1, Zenon
    <3>2. CASE i # g + 1
      <4>1. i \in 1 .. g
        BY <1>5, <3>2
      <4> QED
        BY <1>4, <1>9, <4>1, Zenon
    <3> QED
      BY <3>1, <3>2
  <2> QED
    BY <2>1
<1>12. CASE Len(triple) = 3
  <2>1. output' = output \o Characters(triple) /\ group' = << >>
    BY <1>12 DEF EncodeByte
  <2> DEFINE chars == Characters(triple)
  <2>2. g = 2
    <3>1. g + 1 = 3
      BY <1>8, <1>12
    <3> HIDE DEF g
    <3> QED
      BY <1>5, <3>1
  <2>3. 3 * k + 3 <= n
    <3> HIDE DEF g, n
    <3> QED
      BY <1>4, <1>5, <1>6, <2>2
  <2>4. triple = <<triple[1], triple[2], triple[3]>>
        /\ triple[1] \in Byte /\ triple[2] \in Byte /\ triple[3] \in Byte
    <3> HIDE DEF triple
    <3> QED
      BY <1>8, <1>12, Three
  <2>5. triple[1] = ByteAt(plain, 3 * k + 1) /\ triple[2] = ByteAt(plain, 3 * k + 2)
        /\ triple[3] = ByteAt(plain, 3 * k + 3)
    <3> HIDE DEF triple, g, n
    <3> QED
      BY <1>5, <1>6, <1>11, <2>2, <2>3 DEF ByteAt, n
  <2>6. triple = Triple(plain, k)
    BY <2>4, <2>5 DEF Triple
  <2> HIDE DEF triple
  <2>7. chars \in Seq(Byte) /\ Len(chars) = 4
    <3>1. Characters(<<triple[1], triple[2], triple[3]>>) \in Seq(Byte)
          /\ Len(Characters(<<triple[1], triple[2], triple[3]>>)) = 4
      BY <2>4, CharactersType
    <3> QED
      BY <2>4, <3>1
  <2>8. \A j \in 1 .. 4 : chars[j] = Char(plain, k, j)
    <3>1. ASSUME NEW j \in 1 .. 4 PROVE 3 * k + j - 1 <= Len(plain)
      BY <1>5, <1>6, <2>3
    <3> QED
      BY <3>1, <2>6 DEF Char
  <2>9. output' = output \o chars
    BY <2>1
  <2> HIDE DEF chars
  <2>10. Len(output') = 4 * k + 4 /\ Encodes(output', 4 * k + 4, plain)
    <3>1. output \in Seq(Byte) /\ Len(output) = 4 * k /\ Encodes(output, 4 * k, plain)
      BY <1>3, <1>4
    <3>2. Len(output \o chars) = 4 * k + 4
      BY <1>6, <2>7, <2>8, <3>1, EncodesLonger
    <3>3. Encodes(output \o chars, 4 * k + 4, plain)
      BY <1>6, <2>7, <2>8, <3>1, EncodesLonger
    <3> QED
      BY <2>9, <3>2, <3>3
  <2>11. Len(group') = 0
    BY <2>1
  <2>12. k + 1 \in 0 .. pos' /\ pos' = 3 * (k + 1) + Len(group')
         /\ 4 * k + 4 = 4 * (k + 1)
    <3> HIDE DEF g
    <3> QED
      BY <1>1, <1>4, <1>5, <1>6, <2>2, <2>11
  <2>13. \A i \in 1 .. Len(group') : group'[i] = plain[3 * (k + 1) + i]
    BY <2>11
  <2>14. Encoding'
    BY <1>1, <1>3, <2>10, <2>12, <2>13 DEF Encoding
  <2> QED
    BY <1>1, <2>14 DEF RoundInv
<1>13. CASE Len(triple) # 3
  <2>1. output' = output /\ group' = triple
    BY <1>13 DEF EncodeByte
  <2>2. k \in 0 .. pos' /\ pos' = 3 * k + Len(group')
    <3> HIDE DEF triple, g
    <3> QED
      BY <1>1, <1>4, <1>5, <1>6, <1>8, <2>1
  <2>3. \A i \in 1 .. Len(group') : group'[i] = plain[3 * k + i]
    BY <1>8, <1>11, <2>1
  <2> HIDE DEF triple
  <2>4. Encoding'
    BY <1>1, <1>3, <1>4, <2>1, <2>2, <2>3 DEF Encoding
  <2> QED
    BY <1>1, <2>4 DEF RoundInv
<1> QED
  BY <1>12, <1>13

(* The rest completes the encoding; the NUL stands behind it.                    *)
LEMMA RoundEncodeEnd == ASSUME Inv, RoundInv, EncodeEnd PROVE RoundInv'
<1> DEFINE n   == Len(plain)
           g   == Len(group)
           all == IF group = << >> THEN output ELSE output \o Rest
           nul == <<NUL>>
<1>1. /\ mode = "encoding" /\ pos = Len(input) /\ output' = all \o nul
      /\ mode' = "encoded" /\ plain' = plain /\ input' = input
  BY DEF EncodeEnd
<1>2. Encoding
  BY <1>1 DEF RoundInv
<1>3. plain = input /\ n > 0 /\ plain \in Seq(Byte) /\ group \in Seq(Byte)
      /\ output \in Seq(Byte)
  BY <1>2 DEF Encoding, Inv, TypeOK
<1>4. PICK k \in 0 .. pos :
        /\ pos = 3 * k + g
        /\ Len(output) = 4 * k
        /\ Encodes(output, 4 * k, plain)
        /\ \A i \in 1 .. g : group[i] = plain[3 * k + i]
  BY <1>2 DEF Encoding
<1>5. n \in Nat /\ pos = n /\ g \in 0 .. 2
  <2>1. g <= 2
    BY <1>1 DEF Inv, EncodeInv
  <2>2. g \in Nat /\ n \in Nat
    BY <1>3, LenNat, Lengths DEF Inv
  <2> HIDE DEF g
  <2> QED
    BY <1>1, <1>3, <2>1, <2>2
<1>6. k \in Nat /\ n = 3 * k + g
  BY <1>4, <1>5
<1>7. /\ all \in Seq(Byte)
      /\ \E m \in Nat : Len(all) = 4 * m /\ n <= 3 * m /\ 3 * m < n + 3
      /\ Encodes(all, Len(all), plain)
  <2>1. CASE group = << >>
    <3>1. all = output /\ g = 0
      BY <2>1
    <3>2. Len(all) = 4 * k /\ n <= 3 * k /\ 3 * k < n + 3
      <4> HIDE DEF g, n
      <4> QED
        BY <1>4, <1>6, <3>1
    <3> QED
      BY <1>3, <1>4, <1>6, <3>1, <3>2
  <2>2. CASE group # << >>
    <3>1. g \in 1 .. 2
      BY <1>3, <1>5, <2>2, EmptySeq, LenProperties, SMT
    <3>2. Rest \in Seq(Byte) /\ Len(Rest) = 4 /\ \A j \in 1 .. 4 : Rest[j] = Char(plain, k, j)
      BY <1>3, <1>4, <1>6, <3>1, RestChars
    <3>3. all = output \o Rest
      BY <2>2
    <3> HIDE DEF all
    <3>4. all \in Seq(Byte) /\ Len(all) = 4 * k + 4 /\ Encodes(all, 4 * k + 4, plain)
      <4>1. output \in Seq(Byte) /\ Len(output) = 4 * k /\ Encodes(output, 4 * k, plain)
        BY <1>3, <1>4
      <4>2. output \o Rest \in Seq(Byte) /\ Len(output \o Rest) = 4 * k + 4
        BY <1>6, <3>2, <4>1, EncodesLonger
      <4>3. Encodes(output \o Rest, 4 * k + 4, plain)
        BY <1>6, <3>2, <4>1, EncodesLonger
      <4> QED
        BY <3>3, <4>2, <4>3
    <3>5. k + 1 \in Nat /\ 4 * k + 4 = 4 * (k + 1) /\ n <= 3 * (k + 1)
          /\ 3 * (k + 1) < n + 3
      <4> HIDE DEF g, n
      <4> QED
        BY <1>6, <3>1
    <3> QED
      BY <3>4, <3>5
  <2> QED
    BY <2>1, <2>2
<1>8. nul \in Seq(Byte) /\ Len(nul) = 1
  BY SMT DEF NUL, Byte
<1> HIDE DEF all, nul
<1>9. output' \in Seq(Byte) /\ Len(output') = Len(all) + Len(nul)
  BY <1>1, <1>7, <1>8, ConcatAt
<1>10. \A i \in 1 .. Len(all) : output'[i] = all[i]
  BY <1>1, <1>7, <1>8, ConcatAt
<1>11. Len(all) \in Nat /\ Len(output') - 1 = Len(all)
  <2>1. Len(all) \in Nat
    BY <1>7, LenNat
  <2> QED
    BY <1>8, <1>9, <2>1
<1>12. Encodes(output', Len(output') - 1, plain)
  BY <1>7, <1>10, <1>11, EncodesSame
<1>13. Complete(Len(output') - 1, n)
  <2>1. PICK m \in Nat : Len(all) = 4 * m /\ n <= 3 * m /\ 3 * m < n + 3
    BY <1>7
  <2>2. m \in 0 .. Len(all)
    BY <1>11, <2>1
  <2> QED
    BY <1>11, <2>1, <2>2 DEF Complete
<1>14. Encoded'
  BY <1>1, <1>3, <1>12, <1>13 DEF Encoded
<1> QED
  BY <1>1, <1>14 DEF RoundInv

(* The decoder begins with the characters and without the NUL.                   *)
LEMMA RoundDecodeStart == ASSUME Inv, RoundInv, DecodeStart PROVE RoundInv'
<1> DEFINE len == Len(output) - 1
<1>1. /\ mode' = "decoding" /\ input' = SubSeq(output, 1, len) /\ pos' = 0
      /\ output' = << >> /\ plain' = plain /\ group' = group /\ mode = "encoded"
  BY DEF DecodeStart
<1>2. group = << >> /\ output \in Seq(Byte) /\ len \in 0 .. Len(output)
  <2>1. group = << >> /\ Len(output) >= 1 /\ output \in Seq(Byte)
    BY <1>1 DEF Inv, EncodeInv, TypeOK
  <2>2. Len(output) \in Nat
    BY <2>1, LenNat
  <2> QED
    BY <2>1, <2>2
<1>3. Complete(len, Len(plain)) /\ Encodes(output, len, plain)
  BY <1>1 DEF RoundInv, Encoded
<1> HIDE DEF len
<1>4. Len(input') = len /\ \A i \in 1 .. len : input'[i] = output[i]
  BY <1>1, <1>2, PrefixAt
<1>5. len \in Nat /\ Encodes(input', len, plain)
  <2>1. len \in Nat
    BY <1>2, LenNat
  <2> QED
    BY <1>3, <1>4, <2>1, EncodesSame
<1>6. Len(plain) \in Nat
  BY LenNat DEF Inv, TypeOK
<1>7. Len(group') = 0 /\ Len(output') = 0 /\ Written(0, Len(plain)) = 0
  BY <1>1, <1>2, <1>6 DEF Written
<1>8. /\ 0 \in 0 .. pos' /\ pos' = 4 * 0 + Len(group')
      /\ Len(output') = Written(0, Len(plain))
  BY <1>1, <1>7
<1>9. /\ \A j \in 1 .. Len(group') : group'[j] = DecTable(input'[4 * 0 + j])
      /\ \A i \in 1 .. Len(output') : output'[i] = plain[i]
  BY <1>7
<1>10. Decoding'
  BY <1>1, <1>3, <1>4, <1>5, <1>8, <1>9 DEF Decoding
<1> QED
  BY <1>1, <1>10 DEF RoundInv

(* Where the decoder stands while characters are left.                          *)
LEMMA PlaceInEncoding ==
  ASSUME Inv, plain # << >>, Decoding, pos < Len(input), NEW k \in Nat,
         pos = 4 * k + Len(group)
  PROVE  /\ Len(group) \in 0 .. 3
         /\ 3 * k < Len(plain)
         /\ input[pos + 1] = Char(plain, k, Len(group) + 1)
         /\ \A j \in 1 .. Len(group) + 1 : input[4 * k + j] = Char(plain, k, j)
<1> DEFINE g == Len(group)
           n == Len(plain)
           len == Len(input)
<1>1. len \in Nat /\ g \in 0 .. 3 /\ n \in Nat /\ pos \in Nat
  <2>1. len \in Nat /\ g \in Nat /\ g <= 3 /\ pos \in Nat
    BY Lengths DEF Inv
  <2>2. n \in Nat
    BY LenNat DEF Inv, TypeOK
  <2> HIDE DEF len, g, n
  <2> QED
    BY <2>1, <2>2
<1>2. PICK m \in 0 .. len : len = 4 * m /\ n <= 3 * m /\ 3 * m < n + 3
  BY DEF Decoding, Complete
<1>3. pos = 4 * k + g /\ pos < len /\ Encodes(input, len, plain)
  BY DEF Decoding
<1> HIDE DEF g, n, len
<1>4. 3 * k < n
  <2>1. k < m /\ m \in Nat
    BY <1>1, <1>2, <1>3
  <2> QED
    BY <1>1, <1>2, <2>1
<1>5. ASSUME NEW j \in 1 .. g + 1 PROVE input[4 * k + j] = Char(plain, k, j)
  <2>1. j \in 1 .. 4 /\ k \in 0 .. len /\ 4 * k + j <= len
    BY <1>1, <1>3
  <2> QED
    BY <1>3, <2>1 DEF Encodes
<1>6. g + 1 \in 1 .. g + 1 /\ pos + 1 = 4 * k + (g + 1)
  BY <1>1, <1>3
<1>7. input[pos + 1] = Char(plain, k, g + 1)
  BY <1>5, <1>6
<1> QED
  BY <1>1, <1>4, <1>5, <1>7 DEF g, n

(* A character more in the group; the fourth gives the bytes of the group back.   *)
LEMMA RoundDecodeChar == ASSUME Inv, RoundInv, DecodeChar PROVE RoundInv'
<1> DEFINE n == Len(plain)
           g == Len(group)
           c == input[pos + 1]
           quad == Append(group, DecTable(c))
<1>1. /\ mode = "decoding" /\ pos < Len(input) /\ pos' = pos + 1 /\ mode' = mode
      /\ plain' = plain /\ input' = input
  BY DEF DecodeChar
<1> SUFFICES ASSUME plain # << >> PROVE Decoding'
  BY <1>1 DEF RoundInv
<1>2. Decoding
  BY <1>1 DEF RoundInv
<1>3. PICK k \in 0 .. pos :
        /\ pos = 4 * k + g
        /\ \A j \in 1 .. g : group[j] = DecTable(input[4 * k + j])
        /\ Len(output) = Written(k, n)
        /\ \A i \in 1 .. Len(output) : output[i] = plain[i]
  BY <1>2 DEF Decoding
<1>4. /\ plain \in Seq(Byte) /\ output \in Seq(Byte) /\ group \in Seq(Sextet)
      /\ n \in Nat /\ pos \in Nat /\ k \in Nat
  <2>1. plain \in Seq(Byte) /\ output \in Seq(Byte) /\ group \in Seq(Sextet)
    BY <1>1 DEF Inv, TypeOK, DecodeInv
  <2>2. n \in Nat /\ pos \in Nat
    BY <2>1, LenNat, Lengths DEF Inv
  <2> QED
    BY <2>1, <2>2
<1>5. /\ g \in 0 .. 3 /\ 3 * k < n
      /\ c = Char(plain, k, g + 1)
      /\ \A j \in 1 .. g + 1 : input[4 * k + j] = Char(plain, k, j)
  BY <1>1, <1>2, <1>3, <1>4, PlaceInEncoding
<1>6. DecTable(c) \in Sextet
  <2>1. g + 1 \in 1 .. 4
    <3> HIDE DEF g
    <3> QED
      BY <1>5
  <2> QED
    BY <1>4, <1>5, <2>1, CharFacts
<1>7. ~(DecTable(c) >= 128)
  <2> DEFINE d == DecTable(c)
  <2>1. d \in Sextet
    BY <1>6
  <2> HIDE DEF d
  <2>2. ~(d >= 128)
    BY <2>1 DEF Sextet
  <2> QED
    BY <2>2 DEF d
<1>8. quad \in Seq(Sextet) /\ Len(quad) = g + 1
  BY <1>4, <1>6, AppendProperties
<1>9. \A j \in 1 .. g : quad[j] = group[j]
  BY <1>4, <1>6, AppendProperties
<1>10. quad[g + 1] = DecTable(c)
  BY <1>4, <1>6, AppendProperties
<1>11. \A j \in 1 .. g + 1 : quad[j] = DecTable(input[4 * k + j])
  <2>1. c = input[4 * k + (g + 1)]
    <3>1. pos + 1 = 4 * k + (g + 1)
      <4> HIDE DEF g
      <4> QED
        BY <1>3, <1>4, <1>5
    <3> QED
      BY <3>1
  <2> HIDE DEF quad, g, c
  <2> QED
    BY <1>3, <1>5, <1>9, <1>10, <2>1
<1>12. CASE Len(quad) # 4
  <2>1. output' = output /\ group' = quad
    BY <1>7, <1>12 DEF DecodeChar
  <2>2. k \in 0 .. pos' /\ pos' = 4 * k + Len(group')
    <3>1. Len(group') = g + 1
      BY <1>8, <2>1
    <3> HIDE DEF g
    <3> QED
      BY <1>1, <1>3, <1>4, <1>5, <3>1
  <2>3. \A j \in 1 .. Len(group') : group'[j] = DecTable(input'[4 * k + j])
    BY <1>1, <1>8, <1>11, <2>1
  <2>4. Len(output') = Written(k, Len(plain'))
        /\ \A i \in 1 .. Len(output') : output'[i] = plain'[i]
    BY <1>1, <1>3, <2>1
  <2>5. Complete(Len(input'), Len(plain')) /\ Encodes(input', Len(input'), plain')
    BY <1>1, <1>2 DEF Decoding
  <2> QED
    BY <2>2, <2>3, <2>4, <2>5 DEF Decoding
<1>13. CASE Len(quad) = 4
  <2> DEFINE w == Bytes(quad, input[pos], c)
  <2>1. output' = output \o w /\ group' = << >>
    BY <1>7, <1>13 DEF DecodeChar, GroupAfter
  <2>2. g = 3
    <3>1. g + 1 = 4
      BY <1>8, <1>13
    <3> HIDE DEF g
    <3> QED
      BY <1>5, <3>1
  <2>3. /\ c = Char(plain, k, 4) /\ input[pos] = Char(plain, k, 3)
    <3>1. pos = 4 * k + 3 /\ 3 \in 1 .. g + 1
      BY <1>3, <2>2
    <3> QED
      BY <1>5, <2>2, <3>1
  <2>4. quad = <<DecTable(Char(plain, k, 1)), DecTable(Char(plain, k, 2)),
                 DecTable(Char(plain, k, 3)), DecTable(Char(plain, k, 4))>>
    <3> HIDE DEF quad, g, c
    <3>1. \A j \in 1 .. 4 : quad[j] = DecTable(Char(plain, k, j))
      <4>1. ASSUME NEW j \in 1 .. 4 PROVE quad[j] = DecTable(Char(plain, k, j))
        <5>1. j \in 1 .. g + 1
          BY <2>2
        <5> QED
          BY <1>5, <1>11, <5>1
      <4> QED
        BY <4>1
    <3>2. quad = <<quad[1], quad[2], quad[3], quad[4]>>
      BY <1>8, <1>13, Four
    <3>3. /\ quad[1] = DecTable(Char(plain, k, 1)) /\ quad[2] = DecTable(Char(plain, k, 2))
          /\ quad[3] = DecTable(Char(plain, k, 3)) /\ quad[4] = DecTable(Char(plain, k, 4))
      BY <3>1
    <3> QED
      BY <3>2, <3>3, Zenon
  <2>5. /\ w \in Seq(Byte)
        /\ Len(w) = IF 3 * k + 3 <= n THEN 3 ELSE n - 3 * k
        /\ \A i \in 1 .. Len(w) : w[i] = plain[3 * k + i]
    <3> DEFINE v == Bytes(quad, Char(plain, k, 3), Char(plain, k, 4))
    <3>1. w = v
      BY <2>3
    <3> HIDE DEF quad, w, c
    <3>2. /\ v \in Seq(Byte)
          /\ Len(v) = IF 3 * k + 3 <= Len(plain) THEN 3 ELSE Len(plain) - 3 * k
          /\ \A i \in 1 .. Len(v) : v[i] = plain[3 * k + i]
      <4>1. plain \in Seq(Byte) /\ k \in Nat /\ 3 * k < Len(plain)
        BY <1>4, <1>5
      <4> QED
        BY <4>1, <2>4, GroupBytes, Zenon
    <3> QED
      BY <3>1, <3>2
  <2> HIDE DEF w, quad, c
  <2>6. Len(output') = Len(output) + Len(w)
    BY <1>4, <2>1, <2>5, ConcatAt
  <2>7. \A i \in 1 .. Len(output) : output'[i] = output[i]
    BY <1>4, <2>1, <2>5, ConcatAt
  <2>8. \A i \in 1 .. Len(w) : output'[Len(output) + i] = w[i]
    <3>1. output \in Seq(Byte) /\ w \in Seq(Byte)
      BY <1>4, <2>5
    <3>2. \A i \in 1 .. Len(w) : (output \o w)[Len(output) + i] = w[i]
      BY <3>1, ConcatAt, SMTT(30)
    <3> QED
      BY <2>1, <3>2, Zenon
  <2>9. Len(output) = 3 * k
    BY <1>3, <1>4, <1>5 DEF Written
  <2>10. Len(output') = Written(k + 1, n)
    <3> HIDE DEF n
    <3> QED
      BY <1>4, <1>5, <2>5, <2>6, <2>9 DEF Written
  <2>11. Len(w) \in Nat
    BY <2>5, LenNat
  <2>12. ASSUME NEW i \in 1 .. Len(output') PROVE output'[i] = plain[i]
    <3>1. CASE i <= 3 * k
      <4>1. i \in 1 .. Len(output)
        BY <1>4, <2>9, <3>1
      <4> QED
        BY <1>3, <2>7, <4>1
    <3>2. CASE ~(i <= 3 * k)
      <4> DEFINE j == i - 3 * k
      <4>1. j \in 1 .. Len(w) /\ i = 3 * k + j
        BY <1>4, <2>6, <2>9, <2>11, <3>2
      <4> HIDE DEF j
      <4> QED
        BY <2>5, <2>8, <2>9, <4>1
    <3> QED
      BY <3>1, <3>2
  <2>13. Len(group') = 0
    BY <2>1
  <2>14. k + 1 \in 0 .. pos' /\ pos' = 4 * (k + 1) + Len(group')
    <3> HIDE DEF g
    <3> QED
      BY <1>1, <1>3, <1>4, <2>2, <2>13
  <2>15. \A j \in 1 .. Len(group') : group'[j] = DecTable(input'[4 * (k + 1) + j])
    BY <2>13
  <2>16. Complete(Len(input'), Len(plain')) /\ Encodes(input', Len(input'), plain')
    BY <1>1, <1>2 DEF Decoding
  <2>17. Len(output') = Written(k + 1, Len(plain'))
         /\ \A i \in 1 .. Len(output') : output'[i] = plain'[i]
    BY <1>1, <2>10, <2>12
  <2> QED
    BY <2>14, <2>15, <2>16, <2>17 DEF Decoding
<1> QED
  BY <1>12, <1>13

(* No character of the encoding is a NUL: the loop ends at its end.               *)
LEMMA RoundDecodeEnd == ASSUME Inv, RoundInv, DecodeEnd PROVE RoundInv'
<1>1. /\ mode = "decoding" /\ mode' = "decoded" /\ plain' = plain /\ input' = input
      /\ pos' = pos /\ group' = group /\ output' = output
      /\ pos < Len(input) => input[pos + 1] = NUL
  BY DEF DecodeEnd
<1> SUFFICES ASSUME plain # << >> PROVE Decoding' /\ pos' = Len(input')
  BY <1>1 DEF RoundInv
<1>2. Decoding
  BY <1>1 DEF RoundInv
<1>3. Decoding'
  BY <1>1, <1>2 DEF Decoding
<1>4. ~(pos < Len(input))
  <2> SUFFICES ASSUME pos < Len(input) PROVE FALSE
    OBVIOUS
  <2>1. PICK k \in 0 .. pos : pos = 4 * k + Len(group)
    BY <1>2 DEF Decoding
  <2>2. k \in Nat /\ plain \in Seq(Byte)
    BY Lengths DEF Inv, TypeOK
  <2> DEFINE j == Len(group) + 1
  <2>3. Len(group) \in 0 .. 3 /\ 3 * k < Len(plain) /\ input[pos + 1] = Char(plain, k, j)
    BY <1>2, <2>1, <2>2, PlaceInEncoding
  <2>4. j \in 1 .. 4
    <3> DEFINE g == Len(group)
    <3>1. g \in 0 .. 3
      BY <2>3
    <3> HIDE DEF g
    <3>2. g + 1 \in 1 .. 4
      BY <3>1
    <3> QED
      BY <3>2 DEF g
  <2> HIDE DEF j
  <2>5. input[pos + 1] # NUL
    BY <2>2, <2>3, <2>4, CharFacts
  <2> QED
    BY <1>1, <2>5
<1>5. pos = Len(input)
  BY <1>4, Lengths DEF Inv
<1> QED
  BY <1>1, <1>3, <1>5

LEMMA RoundStep == Inv /\ RoundInv /\ [Next]_vars => RoundInv'
<1> SUFFICES ASSUME Inv, RoundInv, [Next]_vars PROVE RoundInv'
  OBVIOUS
<1>1. CASE EncodeReject
  BY <1>1 DEF EncodeReject, RoundInv
<1>2. CASE UNCHANGED vars
  BY <1>2 DEF vars, RoundInv, Encoding, Encoded, Decoding
<1> QED
  BY <1>1, <1>2, RoundStart, RoundEncodeByte, RoundEncodeEnd, RoundDecodeStart,
     RoundDecodeChar, RoundDecodeEnd DEF Next

(* What was encoded comes back: for a byte string of any length and any bytes.      *)
THEOREM RoundTripCorrect == Spec => []RoundTrip
<1>1. Inv /\ RoundInv => RoundTrip
  <2> SUFFICES ASSUME Inv, RoundInv, mode = "decoded", plain # << >> PROVE output = plain
    BY DEF RoundTrip
  <2> DEFINE n == Len(plain)
             g == Len(group)
             len == Len(input)
  <2>1. Decoding /\ pos = len
    BY DEF RoundInv
  <2>2. PICK m \in 0 .. len : len = 4 * m /\ n <= 3 * m /\ 3 * m < n + 3
    BY <2>1 DEF Decoding, Complete
  <2>3. PICK k \in 0 .. pos : /\ pos = 4 * k + g
                              /\ Len(output) = Written(k, n)
                              /\ \A i \in 1 .. Len(output) : output[i] = plain[i]
    BY <2>1 DEF Decoding
  <2>4. len \in Nat /\ g \in Nat /\ g <= 3 /\ pos \in Nat
    BY Lengths DEF Inv
  <2>5. plain \in Seq(Byte) /\ output \in Seq(Byte) /\ n \in Nat
    BY LenNat DEF Inv, TypeOK
  <2>6. k = m
    <3> HIDE DEF n, g, len
    <3> QED
      BY <2>1, <2>2, <2>3, <2>4
  <2>7. Written(k, n) = n
    <3> HIDE DEF n, len
    <3> QED
      BY <2>2, <2>4, <2>5, <2>6 DEF Written
  <2>8. Len(output) = Len(plain)
    BY <2>3, <2>7
  <2> QED
    BY <2>3, <2>5, <2>8, SeqEqual
<1>2. Inv /\ RoundInv /\ [Next]_vars => RoundInv'
  BY RoundStep
<1> QED
  BY <1>1, <1>2, InvCorrect, RoundInit, PTL DEF Spec
=============================================================================
