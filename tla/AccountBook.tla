---------------------------- MODULE AccountBook ----------------------------
(***************************************************************************)
(* What users/users.c promises of the table "users": rows are added at the   *)
(* end, one at a time, each with an announced name that no row had before,   *)
(* unless two processes ran on the database at a time; and nothing else      *)
(* happens to it, unless a text arrived that ends its literal of SQL early.  *)
(***************************************************************************)
EXTENDS Sequences

CONSTANTS
  Announced,   \* the names and passwords, free of quotes, that clients announce
  Tables       \* what other texts may make of the table

VARIABLES
  users,
  rewritten,   \* such another text has reached the database
  overlapped   \* two processes ran on the database at a time

bookVars == <<users, rewritten, overlapped>>

Init == users = << >> /\ rewritten = FALSE /\ overlapped = FALSE

Register(account) ==
  /\ ~overlapped => \A k \in DOMAIN users : users[k].name # account.name
  /\ users' = Append(users, account)
  /\ UNCHANGED <<rewritten, overlapped>>

Rewrite == /\ users' \in Tables \cup {users}
           /\ rewritten' = TRUE
           /\ UNCHANGED overlapped

Overlap == /\ overlapped' = TRUE
           /\ UNCHANGED <<users, rewritten>>

Next == \/ \E account \in Announced : Register(account)
        \/ Rewrite
        \/ Overlap

Spec == Init /\ [][Next]_bookVars
=============================================================================
