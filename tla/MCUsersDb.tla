----------------------------- MODULE MCUsersDb -----------------------------
(***************************************************************************)
(* Instances of UsersDb for TLC: announcements that claim one name, outright  *)
(* and through the cut to the field's size, one that is rejected, and names   *)
(* and passwords that are not plain.                                         *)
(***************************************************************************)
EXTENDS UsersDb, MCDocs, TLC

MCMessageDocs == {Info(<<"a", "b">>, <<"b">>),
                  [Info(<<"b">>, <<"b">>) EXCEPT !.sensor = FALSE],
                  Info(<<"'">>, <<"a">>), Info(<<"a">>, <<"'">>),
                  Chat(<<"a">>), Chat(<<"'">>)}

Symmetry == Permutations(Procs)
=============================================================================
