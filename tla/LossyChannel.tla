---------------------------- MODULE LossyChannel ----------------------------
(***************************************************************************)
(* What a device may rely on for the texts it sends over one connection:     *)
(* each is handled at most once and in the order of sending; any may be lost. *)
(***************************************************************************)
EXTENDS Naturals, Sequences

VARIABLES
  offered,    \* the number of texts sent
  taken       \* the texts handled, by their numbers

vars == <<offered, taken>>

Init == offered = 0 /\ taken = << >>

Offer == offered' = offered + 1 /\ UNCHANGED taken

Take(k) ==
  /\ k <= offered
  /\ taken # << >> => taken[Len(taken)] < k
  /\ taken' = Append(taken, k)
  /\ UNCHANGED offered

Next == Offer \/ \E k \in 1 .. offered : Take(k)

Spec == Init /\ [][Next]_vars
=============================================================================
