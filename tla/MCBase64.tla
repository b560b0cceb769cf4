------------------------------ MODULE MCBase64 ------------------------------
(***************************************************************************)
(* Instances of Base64 for TLC: byte strings of every residue modulo three,  *)
(* of bytes at the ends of their range and with single bits set; texts with  *)
(* padding, separators and NULs anywhere.                                   *)
(***************************************************************************)
EXTENDS Base64

Strings(S, n) == UNION {[1 .. k -> S] : k \in 0 .. n}

MCInputs == Strings({0, 1, 128, 255}, 4) \cup Strings({61, 254}, 7)
MCTexts  == Strings({47, 65, PAD, 10, NUL}, 5)
MCSizes  == {4, 5, 9, 13}
=============================================================================
