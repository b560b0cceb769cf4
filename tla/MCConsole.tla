----------------------------- MODULE MCConsole -----------------------------
(***************************************************************************)
(* An instance of Console for TLC. args has room for two words of a memo;      *)
(* lines have up to one word more than it. raw_msg has room for two short     *)
(* words.                                                                   *)
(***************************************************************************)
EXTENDS Console

MCWords == Keywords \cup {"7", "8", "x", "longest"}

MCSize   == [w \in MCWords |-> IF w = "longest" THEN 7 ELSE 1]
MCNumber == [w \in MCWords |-> CASE w = "7" -> 7 [] w = "8" -> 8 [] OTHER -> 0]

MCFragments == {"", "s", "se", "h", "x"}
MCBegins == {<<"", w>> : w \in MCWords}
              \cup {<<"s", w>> : w \in {"status", "sendfile", "send", "server"}}
              \cup {<<"se", w>> : w \in {"sendfile", "send", "server"}}
              \cup {<<"h", "help">>, <<"x", "x">>}

SeqsUpTo(S, n) == UNION {[1 .. k -> S] : k \in 0 .. n}

(* Commands with fewer words than they need, enough, and too many.           *)
MCLines ==
  {<<w>> : w \in {"help", "exit", "users", "x"}}
    \cup {<<"csupdate">> \o s : s \in {<< >>, <<"7">>, <<"7", "x">>, <<"x", "7">>}}
    \cup {<<"bgimage", "8">>, <<"bgimage", "8", "longest">>}
    \cup {<<"status">>, <<"status", "clients">>, <<"status", "x">>}
    \cup {<<"memo">>, <<"memo", "help">>, <<"memo", "send">>, <<"memo", "send", "8">>}
    \cup {<<"memo", "send", "7">> \o s : s \in SeqsUpTo({"x", "longest"}, 3)}
=============================================================================
