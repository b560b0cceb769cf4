---------------------------- MODULE MCServerLoop ----------------------------
(***************************************************************************)
(* Instances of ServerLoop for TLC.                                         *)
(***************************************************************************)
EXTENDS ServerLoop, MCDocs, TLC

(* Two clients that may claim one name, also through the cut to the field's  *)
(* size, a chat with a name that is not plain, and a text of another type.   *)
TableDocs == {Info(<<"a">>, <<"a">>), Info(<<"a", "b">>, <<"b">>),
              Chat(<<"'">>), Blank}

(* An announcement whose password is not plain, and a text that the parser    *)
(* does not survive.                                                        *)
ServeDocs == {Info(<<"a">>, <<"'">>), Cheat("partial")}

(* One announcement: enough where only the table is of interest.             *)
OneDoc == {Info(<<"a">>, <<"a">>)}

Symmetry == Permutations(Conns) \cup Permutations(ClientFds)
=============================================================================
