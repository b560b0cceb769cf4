-------------------------------- MODULE Users --------------------------------
(***************************************************************************)
(* users/users.c: the table "users" of users.db, which outlives the process. *)
(* A row is a name and a password; the column name is not declared UNIQUE.  *)
(* Every statement may fail in SQLite (I/O error, lock, malformed text).    *)
(*                                                                         *)
(* snprintf pastes names and passwords between apostrophes, as they are, and *)
(* sqlite3_exec runs every statement of the text it is given. An apostrophe  *)
(* inside a name or a password ends the literal there, and what comes behind *)
(* it is read as SQL: such a text may do anything to the table. A plain text *)
(* has none and does what the statement says.                               *)
(***************************************************************************)
EXTENDS ClientMsg

CONSTANTS
  Quotes,   \* the characters that end a literal of SQL
  Tables    \* bound: what texts that are not plain may make of the table

Rows == [name : Strings, password : Strings]

ASSUME TablesAssumption == Tables \subseteq Seq(Rows)

VARIABLES
  users,      \* the rows in the order of their ids
  rewritten   \* a statement with a text that is not plain has run

accounts == <<users, rewritten>>

Plain(s) == \A i \in DOMAIN s : s[i] \notin Quotes

Rewrite == users' \in Tables \cup {users} /\ rewritten' = TRUE

HasRow(name) == \E k \in DOMAIN users : users[k].name = name

(* users_name_exist: what it may return, ran telling whether SQLite took the *)
(* text. The "return -1" of the error path is converted to true. The first   *)
(* form converts it to false.                                              *)
UsersNameExistOnlyIfSeen(name, ran) ==
  IF ~ran THEN {FALSE} ELSE IF Plain(name) THEN {HasRow(name)} ELSE BOOLEAN

UsersNameExist(name, ran) ==
  IF ~ran THEN {TRUE} ELSE IF Plain(name) THEN {HasRow(name)} ELSE BOOLEAN

(* What its SELECT does to the table.                                       *)
SelectName(name, ran) ==
  IF ran /\ ~Plain(name) THEN Rewrite ELSE UNCHANGED accounts

(* The INSERT of users_add, with the value returned: 0, or -3 when it fails. *)
InsertRow(name, password, ret) ==
  \/ /\ Plain(name) /\ Plain(password)
     /\ \/ ret = -3 /\ UNCHANGED users
        \/ ret = 0 /\ users' = Append(users, [name |-> name, password |-> password])
     /\ UNCHANGED rewritten
  \/ /\ ~Plain(name) \/ ~Plain(password)
     /\ ret \in {-3, 0}
     /\ Rewrite

(* users_add, with its return value: -1 for a name taken to exist. An INSERT *)
(* that runs after a SELECT with a name that is not plain has the same name. *)
(* The first form replaces the row of a name that exists.                   *)
UsersAddOrReplace(name, password, ret) ==
  IF HasRow(name)
    THEN /\ ret = 0
         /\ users' = [k \in DOMAIN users |->
                       IF users[k].name = name
                         THEN [name |-> name, password |-> password] ELSE users[k]]
         /\ UNCHANGED rewritten
    ELSE InsertRow(name, password, ret)

UsersAdd(name, password, ret) ==
  \E ran \in BOOLEAN : \E exists \in UsersNameExist(name, ran) :
    IF exists THEN ret = -1 /\ SelectName(name, ran)
              ELSE InsertRow(name, password, ret)
------------------------------------------------------------------------------
(* As long as only plain texts have come, a name is stored once, whatever    *)
(* the order of INFO messages, failed statements and restarts: the           *)
(* uniqueness rests on users_add looking before it inserts, not on the       *)
(* schema.                                                                  *)
NamesStoredOnce ==
  ~rewritten => \A j, k \in DOMAIN users : users[j].name = users[k].name => j = k
==============================================================================
