----------------------------- MODULE MCFraming -----------------------------
(***************************************************************************)
(* An instance of Framing for TLC: texts shorter than the buffer, as long as  *)
(* it, and longer.                                                          *)
(***************************************************************************)
EXTENDS Framing

MCLengths == {1, 2, 3, 4}
=============================================================================
