----------------------------- MODULE SessionPool -----------------------------
(***************************************************************************)
(* What the connection table of the server promises, without slots,         *)
(* descriptors, poll or the kernel: a bounded set of sessions and the user   *)
(* name each one goes by.                                                   *)
(***************************************************************************)
EXTENDS Integers, FiniteSets

CONSTANTS
  Conns,       \* connections that may become sessions
  Capacity,    \* sessions at a time
  Names,       \* that sessions may announce
  Anonymous    \* the name of a session that has announced none

VARIABLES sessions, ident

poolVars == <<sessions, ident>>

Init == /\ sessions = {}
        /\ ident = [c \in Conns |-> Anonymous]

(* A new session has no name yet, whoever was served before it.             *)
Open(c) == /\ c \in Conns \ sessions
           /\ Cardinality(sessions) < Capacity
           /\ sessions' = sessions \cup {c}
           /\ ident[c] = Anonymous
           /\ UNCHANGED ident

End(c) == /\ c \in sessions
          /\ sessions' = sessions \ {c}
          /\ ident' = [ident EXCEPT ![c] = Anonymous]

(* A session announces a name, the first or another one.                    *)
Announce(c, name) ==
  /\ c \in sessions
  /\ ident' = [ident EXCEPT ![c] = name]
  /\ UNCHANGED sessions

(* The process stops: all sessions end.                                     *)
EndAll == /\ sessions' = {}
          /\ ident' = [c \in Conns |-> Anonymous]

Next == \/ \E c \in Conns : \/ Open(c)
                            \/ End(c)
                            \/ \E n \in Names : Announce(c, n)
        \/ EndAll

Spec == Init /\ [][Next]_poolVars
==============================================================================
