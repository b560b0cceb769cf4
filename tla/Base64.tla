------------------------------- MODULE Base64 -------------------------------
(***************************************************************************)
(* common/common.c: base64_encode and base64_decode, a byte or character a   *)
(* step, as the loops take them. Characters are their ASCII codes. An        *)
(* activation encodes a byte string into a buffer of a given size, and may   *)
(* be followed by the decoding of what it produced; or it decodes a text     *)
(* that came from elsewhere.                                                *)
(***************************************************************************)
EXTENDS Integers, Sequences

CONSTANTS
  Inputs,      \* byte strings to encode
  Texts,       \* texts to decode
  Sizes        \* values of output_size

Byte == 0 .. 255

ASSUME Base64Assumption ==
  /\ Inputs \subseteq Seq(Byte)
  /\ Texts \subseteq Seq(Byte)
  /\ Sizes \subseteq Nat

VARIABLES
  mode,      \* "encode", "encoding", "encoded", "decoding", "decoded", "rejected"
  plain,     \* the byte string that was encoded; empty if none was
  input,     \* what the present loop reads
  pos,       \* elements of it consumed
  group,     \* triple[0..i-1] or quad[0..quad_index-1]
  output,    \* elements stored in the output buffer
  size       \* output_size

vars == <<mode, plain, input, pos, group, output, size>>

PAD == 61    \* '='
NUL == 0
------------------------------------------------------------------------------
(* base64_table[q].                                                        *)
TableChar(q) == CASE q < 26 -> 65 + q
                  [] q \in 26 .. 51 -> 71 + q
                  [] q \in 52 .. 61 -> q - 4
                  [] q = 62 -> 43
                  [] OTHER -> 47

(* base64_dec_table[c]: 128 for the one character the initializer names, 0   *)
(* for '=' and for every character base64_init does not assign.              *)
DecTable(c) == CASE c = NUL -> 128
                 [] c \in 65 .. 90 -> c - 65
                 [] c \in 97 .. 122 -> c - 71
                 [] c \in 48 .. 57 -> c + 4
                 [] c = 43 -> 62
                 [] c = 47 -> 63
                 [] OTHER -> 0

(* The four sextets of three bytes ...                                      *)
Quartet(t) == <<t[1] \div 4,
                (t[1] % 4) * 16 + (t[2] \div 16),
                (t[2] % 16) * 4 + t[3] \div 64,
                t[3] % 64>>

Characters(t) == LET q == Quartet(t)
                 IN <<TableChar(q[1]), TableChar(q[2]), TableChar(q[3]), TableChar(q[4])>>

(* ... and the bytes of four sextets. last and lastButOne are the characters *)
(* input[i-1] and input[i-2].                                               *)
BytesNotMasked(q, lastButOne, last) ==
  <<q[1] * 4 + q[2] \div 16>>
    \o (IF lastButOne # PAD THEN <<q[2] * 16 + q[3] \div 4>> ELSE << >>)
    \o (IF last # PAD THEN <<q[3] * 64 + q[4]>> ELSE << >>)

Bytes(q, lastButOne, last) ==
  <<(q[1] * 4 + q[2] \div 16) % 256>>
    \o (IF lastButOne # PAD THEN <<((q[2] * 16) % 256) + q[3] \div 4>> ELSE << >>)
    \o (IF last # PAD THEN <<((q[3] * 64) % 256) + q[4]>> ELSE << >>)

(* The size base64_encode asks for.                                         *)
NeededWithoutNul(length) == ((length + 2) \div 3) * 4

Needed(length) == ((length + 2) \div 3) * 4 + 1
------------------------------------------------------------------------------
Init ==
  /\ pos = 0 /\ group = << >> /\ output = << >> /\ plain = << >>
  /\ \/ mode = "encode" /\ input \in Inputs /\ size \in Sizes
     \/ mode = "decoding" /\ input \in Texts /\ size = 0

EncodeReject ==
  /\ mode = "encode"
  /\ Len(input) = 0 \/ size < Needed(Len(input))
  /\ mode' = "rejected"
  /\ UNCHANGED <<plain, input, pos, group, output, size>>

EncodeStart ==
  /\ mode = "encode"
  /\ Len(input) > 0 /\ size >= Needed(Len(input))
  /\ mode' = "encoding"
  /\ plain' = input
  /\ UNCHANGED <<input, pos, group, output, size>>

(* while (length--).                                                       *)
EncodeByte ==
  /\ mode = "encoding" /\ pos < Len(input)
  /\ LET triple == Append(group, input[pos + 1])
     IN IF Len(triple) = 3
          THEN output' = output \o Characters(triple) /\ group' = << >>
          ELSE group' = triple /\ UNCHANGED output
  /\ pos' = pos + 1
  /\ UNCHANGED <<mode, plain, input, size>>

(* The rest of one or two bytes, filled up with zeros, and the NUL.         *)
RestUnpadded ==
  LET filled == group \o <<0, 0>>
  IN SubSeq(Characters(SubSeq(filled, 1, 3)), 1, Len(group) + 1)

Rest ==
  LET filled == group \o <<0, 0>>
  IN SubSeq(Characters(SubSeq(filled, 1, 3)), 1, Len(group) + 1)
       \o SubSeq(<<PAD, PAD>>, 1, 3 - Len(group))

EncodeEnd ==
  /\ mode = "encoding" /\ pos = Len(input)
  /\ output' = (IF group = << >> THEN output ELSE output \o Rest) \o <<NUL>>
  /\ mode' = "encoded"
  /\ group' = << >>
  /\ UNCHANGED <<plain, input, pos, size>>

(* base64_decode(output, strlen(output), ...).                              *)
DecodeStart ==
  /\ mode = "encoded"
  /\ mode' = "decoding"
  /\ input' = SubSeq(output, 1, Len(output) - 1)
  /\ pos' = 0
  /\ output' = << >>
  /\ UNCHANGED <<plain, group, size>>

(* quad_index after a group is complete.                                    *)
GroupAfterResetToOne(quad) == <<quad[1]>>

GroupAfter(quad) == << >>

(* A character of a group; a NUL ends the loop and nothing is ever skipped.  *)
DecodeChar ==
  /\ mode = "decoding" /\ pos < Len(input) /\ input[pos + 1] # NUL
  /\ pos' = pos + 1
  /\ IF DecTable(input[pos + 1]) >= 128
       THEN UNCHANGED <<group, output>>
       ELSE LET quad == Append(group, DecTable(input[pos + 1]))
            IN IF Len(quad) = 4
                 THEN /\ output' = output \o Bytes(quad, input[pos], input[pos + 1])
                      /\ group' = GroupAfter(quad)
                 ELSE group' = quad /\ UNCHANGED output
  /\ UNCHANGED <<mode, plain, input, size>>

DecodeEnd ==
  /\ mode = "decoding"
  /\ pos < Len(input) => input[pos + 1] = NUL
  /\ mode' = "decoded"
  /\ UNCHANGED <<plain, input, pos, group, output, size>>

Next == EncodeReject \/ EncodeStart \/ EncodeByte \/ EncodeEnd
          \/ DecodeStart \/ DecodeChar \/ DecodeEnd

Spec == Init /\ [][Next]_vars
------------------------------------------------------------------------------
TypeOK ==
  /\ mode \in {"encode", "encoding", "encoded", "decoding", "decoded", "rejected"}
  /\ plain \in Seq(Byte) /\ input \in Seq(Byte)
  /\ pos \in 0 .. Len(input)
  /\ group \in Seq(Byte) /\ Len(group) <= 3
  /\ output \in Seq(Byte)
  /\ size \in Nat

(* The length test of base64_encode is enough: no store of the loop, of the   *)
(* padding or of the NUL lies outside the output buffer.                    *)
EncodeFits == mode \in {"encoding", "encoded"} => Len(output) <= size

(* base64_decode has no size to test: it never stores more than three bytes   *)
(* for four characters, padded or not.                                      *)
DecodeFits == mode \in {"decoding", "decoded"} => 4 * Len(output) <= 3 * pos

(* What was encoded is what the decoder returns.                            *)
RoundTrip == mode = "decoded" /\ plain # << >> => output = plain
------------------------------------------------------------------------------
(* "Skip illegal characters, such as newlines and spaces" (common.c:225):     *)
(* the groups are made of the characters of the alphabet only.              *)
Separators == {9, 10, 13, 32}

SeparatorsSkipped ==
  [][(/\ mode = "decoding" /\ mode' = "decoding"
      /\ input[pos + 1] \in Separators)
     => UNCHANGED <<group, output>>]_vars
==============================================================================
