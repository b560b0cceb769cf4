------------------------------- MODULE MCWire -------------------------------
(***************************************************************************)
(* Instances of Wire for TLC. Sizes are in units, two of which fill a send *)
(* buffer; a file of two does not fit in it beside its header.            *)
(***************************************************************************)
EXTENDS Wire, TLC

MCCommands   == {"memo", "sendfile"}
UpdateOnly   == {"csupdate"}
MCFileSizes  == {0, 2}
SmallFile    == {1}
Symmetry     == Permutations(Conns) \cup Permutations(ClientFds)
=============================================================================
