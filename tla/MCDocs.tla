------------------------------- MODULE MCDocs -------------------------------
(***************************************************************************)
(* JSON texts for the instances of the modules that parse them.              *)
(***************************************************************************)
EXTENDS ClientMsg

MCChars == {"a", "b", "'"}
MCQuotes == {"'"}

(* What a text that is not plain leaves of the table, when not all of it.     *)
NoRows == {<< >>}

(* A text with everything absent, and the texts built from it.              *)
Blank == [json |-> TRUE, typed |-> TRUE, msgtype |-> 0, sensor |-> TRUE,
          cfg |-> TRUE, username |-> << >>, passwd |-> << >>,
          cheat |-> "absent", target |-> << >>]

Info(name, passwd) == [Blank EXCEPT !.msgtype = EMT_CLIENTMSG_INFO,
                                    !.username = name, !.passwd = passwd]
Cheat(how) == [Blank EXCEPT !.msgtype = EMT_CLIENTMSG_CHEAT, !.cheat = how]
Chat(target) == [Cheat("full") EXCEPT !.target = target]
=============================================================================
