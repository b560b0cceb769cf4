---------------------------- MODULE MCLifecycle ----------------------------
(***************************************************************************)
(* Instances of Lifecycle for TLC.                                          *)
(***************************************************************************)
EXTENDS Lifecycle, TLC

AllOutcomes == {"ok", "socket", "bind", "users"}
OkOnly      == {"ok"}
Symmetry    == Permutations(Conns) \cup Permutations(ClientFds)
=============================================================================
