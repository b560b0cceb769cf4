------------------------------ MODULE UsersDb ------------------------------
(***************************************************************************)
(* users/users.c and its callers, a SQL statement or a call of SQLite a      *)
(* step: users_init in ele_ds_server_init, users_add and the lookup of a     *)
(* chat's receiver in the server thread, users_list in the console thread of *)
(* the same process, and several processes of the program, started and       *)
(* killed at any time, on one users.db. sqlite3_exec holds the lock of the   *)
(* connection, so that the statements of two threads do not overlap; nothing *)
(* holds it between the SELECT and the INSERT of users_add. Every statement  *)
(* may fail.                                                                *)
(***************************************************************************)
EXTENDS Users

CONSTANTS
  Procs,             \* processes that run the program in one directory
  NoProc,
  MessageDocs        \* the texts clients send

ASSUME UsersDbAssumption ==
  /\ NoProc \notin Procs
  /\ \A doc \in MessageDocs : doc \in Docs

VARIABLES
  stage,    \* where a process is between its start and its end
  port,     \* the process whose socket has SERVER_PORT
  handle,   \* server_t.users_db of a process
  call,     \* the users_add its server thread is in
  overlapped  \* history: a process got the port from one that was "closing"

vars == <<accounts, stage, port, handle, call, overlapped>>

(* "opening" and "creating": in users_init. "serving": with both threads.    *)
(* "console": the start failed and main goes on without the server thread.   *)
(* "closing": server_close is through, the server thread is not.             *)
Stages == {"down", "opening", "creating", "serving", "console", "closing"}

(* "null"; "sick": sqlite3_open failed and left a handle; "closed": closed by *)
(* users_init; "dropped": closed by users_list. The pointer stays.           *)
Handles == {"null", "sick", "open", "closed", "dropped"}

NoCall == [step |-> "none", name |-> << >>, password |-> << >>]

HasThread(p) == stage[p] \in {"serving", "closing"}

Init ==
  /\ users = << >> /\ rewritten = FALSE
  /\ overlapped = FALSE
  /\ stage = [p \in Procs |-> "down"]
  /\ port = NoProc
  /\ handle = [p \in Procs |-> "null"]
  /\ call = [p \in Procs |-> NoCall]
------------------------------------------------------------------------------
(* The end of a process by SIGSEGV, SIGPIPE or a kill, at any time: a         *)
(* statement has been committed or has not.                                 *)
Die(p) ==
  /\ stage[p] # "down"
  /\ stage' = [stage EXCEPT ![p] = "down"]
  /\ port' = IF port = p THEN NoProc ELSE port
  /\ handle' = [handle EXCEPT ![p] = "null"]
  /\ call' = [call EXCEPT ![p] = NoCall]
  /\ UNCHANGED <<accounts, overlapped>>

(* ele_ds_server_init up to users_init, which it does not reach when another  *)
(* process listens on the port. A process that is "closing" has given up the  *)
(* port and may still be in users_add. The first form goes on in any case.   *)
Overlaps == \E q \in Procs : stage[q] = "closing"

StartWithoutPort(p) ==
  /\ stage[p] = "down"
  /\ stage' = [stage EXCEPT ![p] = "opening"]
  /\ port' = IF port = NoProc THEN p ELSE port
  /\ overlapped' = (overlapped \/ (port = NoProc /\ Overlaps))
  /\ UNCHANGED <<accounts, handle, call>>

Start(p) ==
  /\ stage[p] = "down"
  /\ IF port = NoProc
       THEN /\ stage' = [stage EXCEPT ![p] = "opening"] /\ port' = p
            /\ overlapped' = (overlapped \/ Overlaps)
       ELSE /\ stage' = [stage EXCEPT ![p] = "console"]
            /\ UNCHANGED <<port, overlapped>>
  /\ UNCHANGED <<accounts, handle, call>>

(* users_init.                                                             *)
OpenDb(p) ==
  /\ stage[p] = "opening"
  /\ \/ /\ handle' = [handle EXCEPT ![p] = "open"]
        /\ stage' = [stage EXCEPT ![p] = "creating"]
     \/ /\ \E left \in {"null", "sick"} : handle' = [handle EXCEPT ![p] = left]
        /\ stage' = [stage EXCEPT ![p] = "console"]
  /\ UNCHANGED <<accounts, port, call, overlapped>>

(* CREATE TABLE IF NOT EXISTS; the server thread is created only if it ran.   *)
(* The first form drops an old table, the second ignores the result.         *)
CreateTableAfresh(p) ==
  /\ stage[p] = "creating"
  /\ \/ /\ stage' = [stage EXCEPT ![p] = "serving"]
        /\ users' = << >>
        /\ UNCHANGED handle
     \/ /\ handle' = [handle EXCEPT ![p] = "closed"]
        /\ stage' = [stage EXCEPT ![p] = "console"]
        /\ UNCHANGED users
  /\ UNCHANGED <<rewritten, port, call, overlapped>>

CreateTableUnchecked(p) ==
  /\ stage[p] = "creating"
  /\ \/ UNCHANGED handle
     \/ handle' = [handle EXCEPT ![p] = "closed"]
  /\ stage' = [stage EXCEPT ![p] = "serving"]
  /\ UNCHANGED <<accounts, port, call, overlapped>>

CreateTable(p) ==
  /\ stage[p] = "creating"
  /\ \/ /\ stage' = [stage EXCEPT ![p] = "serving"]
        /\ UNCHANGED handle
     \/ /\ handle' = [handle EXCEPT ![p] = "closed"]
        /\ stage' = [stage EXCEPT ![p] = "console"]
  /\ UNCHANGED <<accounts, port, call, overlapped>>
------------------------------------------------------------------------------
(* The server thread enters users_add for an announcement. Its message is     *)
(* used whatever the parser returned.                                        *)
Announce(p, doc) ==
  /\ HasThread(p) /\ call[p] = NoCall
  /\ ~ParserFaults(doc)
  /\ LET msg == Deserialize(doc)
     IN /\ msg.msgtype = EMT_CLIENTMSG_INFO
        /\ call' = [call EXCEPT ![p] = [step |-> "select", name |-> msg.username,
                                        password |-> msg.passwd]]
  /\ UNCHANGED <<accounts, stage, port, handle, overlapped>>

(* A statement on a closed handle fails, if the process survives it.          *)
Usable(p) == handle[p] = "open"

(* users_name_exist, for users_add.                                         *)
Select(p) ==
  /\ call[p].step = "select"
  /\ \E ran \in BOOLEAN : \E exists \in UsersNameExist(call[p].name, ran) :
       /\ ran => Usable(p)
       /\ SelectName(call[p].name, ran)
       /\ call' = [call EXCEPT ![p] =
                     IF exists THEN NoCall ELSE [@ EXCEPT !.step = "insert"]]
  /\ UNCHANGED <<stage, port, handle, overlapped>>

(* The INSERT, and the return from users_add.                               *)
Insert(p) ==
  /\ call[p].step = "insert"
  /\ \/ /\ Usable(p)
        /\ \E ret \in {-3, 0} : InsertRow(call[p].name, call[p].password, ret)
     \/ UNCHANGED accounts
  /\ call' = [call EXCEPT ![p] = NoCall]
  /\ UNCHANGED <<stage, port, handle, overlapped>>

(* The server thread looks for the receiver of a chat message.                *)
LookUp(p, doc) ==
  /\ HasThread(p) /\ call[p] = NoCall
  /\ ~ParserFaults(doc)
  /\ LET msg == Deserialize(doc)
     IN /\ msg.msgtype = EMT_CLIENTMSG_CHEAT
        /\ \E ran \in BOOLEAN : (ran => Usable(p)) /\ SelectName(msg.target, ran)
  /\ UNCHANGED <<stage, port, handle, call, overlapped>>
------------------------------------------------------------------------------
(* The command "users": users_list closes the handle when its SELECT fails,   *)
(* and leaves the pointer to it in server_t.                                *)
ListFails(p) ==
  /\ stage[p] \in {"serving", "console"}
  /\ handle[p] \in {"open", "sick"}
  /\ handle' = [handle EXCEPT ![p] = IF @ = "open" THEN "dropped" ELSE "closed"]
  /\ UNCHANGED <<accounts, stage, port, call, overlapped>>

(* The command "exit": server_close, then pthread_join. A thread that is in   *)
(* a round finishes it, after the port is free again.                       *)
ExitCommand(p) ==
  /\ stage[p] \in {"serving", "console"}
  /\ stage' = [stage EXCEPT ![p] = IF @ = "serving" THEN "closing" ELSE "down"]
  /\ port' = IF port = p THEN NoProc ELSE port
  /\ handle' = [handle EXCEPT ![p] = IF stage[p] = "serving" THEN @ ELSE "null"]
  /\ UNCHANGED <<accounts, call, overlapped>>

ThreadEnds(p) ==
  /\ stage[p] = "closing" /\ call[p] = NoCall
  /\ stage' = [stage EXCEPT ![p] = "down"]
  /\ handle' = [handle EXCEPT ![p] = "null"]
  /\ UNCHANGED <<accounts, port, call, overlapped>>
------------------------------------------------------------------------------
ThreadStep(p) == \/ \E doc \in MessageDocs : Announce(p, doc) \/ LookUp(p, doc)
                 \/ Select(p)
                 \/ Insert(p)

Next == \E p \in Procs :
          \/ Start(p) \/ OpenDb(p) \/ CreateTable(p)
          \/ ThreadStep(p)
          \/ ListFails(p)
          \/ ExitCommand(p) \/ ThreadEnds(p) \/ Die(p)

Spec == Init /\ [][Next]_vars
------------------------------------------------------------------------------
TypeOK ==
  /\ users \in Seq(Rows) /\ rewritten \in BOOLEAN /\ overlapped \in BOOLEAN
  /\ stage \in [Procs -> Stages]
  /\ port \in Procs \cup {NoProc}
  /\ handle \in [Procs -> Handles]
  /\ call \in [Procs -> [step : {"none", "select", "insert"},
                         name : Strings, password : Strings]]
  /\ \A p \in Procs : Len(call[p].name) < USER_NAME_SIZE

(* What the SELECT of users_add has found is still true when the INSERT runs, *)
(* though no transaction holds the two together: the port keeps a second      *)
(* process from opening the database, whoever is killed, ends or is started,  *)
(* as long as nobody is started between the moment another process gives up   *)
(* the port and its end.                                                    *)
SelectStillTrue ==
  ~overlapped =>
    \A p \in Procs : (call[p].step = "insert" /\ Plain(call[p].name))
                        => ~HasRow(call[p].name)

(* The server thread never runs on a database that users_init failed to open  *)
(* or closed: only the command "users" takes the handle from under it.       *)
ThreadHasDatabase ==
  \A p \in Procs : HasThread(p) => handle[p] \in {"open", "dropped"}

(* As long as only plain texts have come: a text the parser rejects leaves a  *)
(* row with an empty name at most, and a name is stored only if a text that   *)
(* was accepted announced it.                                               *)
OnlyAcceptedNamesStored ==
  ~rewritten =>
    \A k \in DOMAIN users :
      \/ users[k].name = << >>
      \/ \E doc \in MessageDocs : /\ DeserializeRet(doc) >= 0
                                  /\ Field(doc.username) = users[k].name

(* users_add in its three steps, in processes that overlap and die, adds to   *)
(* the table as if it were one step.                                        *)
Announced ==
  {account \in {[name |-> Deserialize(doc).username,
                 password |-> Deserialize(doc).passwd] : doc \in MessageDocs} :
     Plain(account.name) /\ Plain(account.password)}

Book == INSTANCE AccountBook

ImplementsAccountBook == Book!Spec
------------------------------------------------------------------------------
(* What comments of the code say and the code does not do.                  *)

(* "Add the user to the data if it does not exist" (server.c:380), even when  *)
(* a process is started while another one is ending.                         *)
AddedIfAbsent ==
  ~rewritten => \A j, k \in DOMAIN users : users[j].name = users[k].name => j = k
=============================================================================
