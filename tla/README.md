# Formal models of ele_ds_server

`ele_ds_server` is a C server for small e-ink desk displays. The displays keep a TCP
connection to it, announce themselves with a JSON text, and get weather, memos, background
images and firmware from it. An operator drives it from a console. This directory holds TLA+
models of the program, TLC configurations that check them, and TLAPS proofs about them.

Paths and line numbers below are relative to `src/`.

1. [Inventory](#1-inventory)
2. [Modules and how they correspond to the code](#2-modules-and-how-they-correspond-to-the-code)
3. [Runs](#3-runs)
4. [Fairness](#4-fairness)
5. [Proofs](#5-proofs)
6. [What does not hold](#6-what-does-not-hold)
7. [What is not modelled](#7-what-is-not-modelled)
8. [Plan](#8-plan)

## 1. Inventory

| Component | Source | State | Operations |
|---|---|---|---|
| Connection table and server thread | `server/server.c`, `main.c` | `server_t`: 31 pollfds, 31 user names, `client_count`; the index of the scan | `server_init`, `server_handle_clients` (poll and scan), `server_events` (accept), `client_events` (read), `handle_client_msg`, `close_client_connection` |
| Inbound protocol | `client/client.c`, the read of `server/server.c` | the read buffer, for one read; fills an `ele_msg_t` | `client_event_handler`, `client_deserialize_from_json`, `client_analysis_*` |
| User accounts | `users/users.c` | table `users` of `users.db`; the SQLite handle | `users_init`, `users_add`, `users_name_exist`, `users_list` |
| Outbound protocol | `server/server.c`, `client/client.c` | bytes in a socket's send buffer | `msg_send`, `server_send_memo`, `server_send_file`, the weather reply |
| Operator console | `command/command.c`, `main.c` | token array, static state of the completion generators | `execute_command`, `handle_*`, `command_completion` |
| Start and shutdown | `main.c`, `server/server.c` | `exitflag`, the thread handle | `ele_ds_server_init`, `signal_handler`, `server_close`, `pthread_join` |
| Weather client | `weather/weather.c`, `common/common.c` | answer buffer, curl handle, seven day records | `get_weather_ex`, `get_data_byurl`, `get_weather_cb`, `parse_7day_weather_json` |
| Base64 | `common/common.c` | decode table | `base64_encode`, `base64_decode` |
| CRC, logging, hex dump, `resource/test.c` | | | not modelled, see section 7 |

### Interactions

- Two threads. `main` reads console lines and runs the commands; the server thread runs
  `server_handle_clients` until `exitflag` is set. They share `server_t` and the sockets and
  take no lock.
- The server thread is the only one that accepts, reads and closes connections, until
  `server_close` runs in `main` at the exit, beside it.
- Both threads write to devices: the server thread answers an announcement with the weather,
  the console sends memos and files to a descriptor number the operator types.
- The weather request is made inside the server thread, in the middle of the scan, and has no
  time limit.
- `users.db` outlives the process; everything else is lost with it. Several processes may be
  started on it; only the one that has the port opens it. The port is given up before the
  server thread has ended.
- Names and passwords that clients send are pasted unescaped into the text that `sqlite3_exec`
  runs; it runs every statement it finds there.
- The console's `users` command uses the SQLite handle of the server thread, and closes it when
  its SELECT fails.
- Readline calls the completion generators until they return NULL; they keep their position in
  static variables.

### Hard behaviours

- A table with holes whose used length is taken from a counter.
- Poll results kept in the table over rounds in which poll does not look at the slot.
- Header and payload as two writes, 100 ms apart, by two threads to one socket.
- Descriptor numbers that change hands while somebody holds on to them.
- Clients that leave, reset or half-close at any moment; SIGPIPE and SIGSEGV end the process.
- `server_close` and the thread on the same slots, and on a counter that both change with `++` and `--`.
- Answers that arrive in pieces, partial and failing writes, failing SQL statements.
- A byte stream that is cut and merged anywhere, read without a buffer that outlives the read.
- A SELECT and an INSERT that belong together, in no transaction.
- Texts that end a literal of SQL before its end.
- An array of words on the stack that is not cleared between lines.

### What makes each component correct

| Component | Correct when |
|---|---|
| Connection table | count, table and sockets agree; a descriptor belongs to one slot and one client; poll results belong to the client in the slot; a free slot is used; accepted clients are served |
| Inbound protocol | what the parser rejects stores no name, what it accepts is cut to the fields' sizes; a text that comes alone is handled; none is handled twice or out of order |
| User accounts | a name is stored once, a row stays, over failures, restarts and second processes, as long as the texts hold no apostrophe and no process starts while another is ending; the thread has a database |
| Outbound protocol | a header is followed by its payload, on one connection, entirely or with an error reported; the file buffer is released once |
| Console | the right device is addressed, with the words of this line; a line is split within its arrays; completion offers every match |
| Start and shutdown | an exit ends; all clients are disconnected; the thread is gone when `main` returns |
| Weather client | what the parser sees is the answer; failures leave no trace and no handle |
| Base64 | no store outside the buffers; decoding inverts encoding |

## 2. Modules and how they correspond to the code

| Module | Models | EXTENDS / composes |
|---|---|---|
| `ClientMsg` | the parser as operators on JSON texts (records of the facts it branches on) | |
| `Users` | `users.db`, its SELECT and INSERT, and `users_add` as one step | |
| `UsersDb` | the same statement by statement, `users_init`, `users_list`, the life of the handle, several processes on one file | composes `ClientMsg` and `Users`; INSTANCE of `AccountBook` |
| `AccountBook` | abstract: accounts are added, one at a time, under free names; what an overlap of two processes and a text that is not plain may do beside that | |
| `Framing` | one connection's bytes: texts, segments, reads | INSTANCE of `LossyChannel` |
| `LossyChannel` | abstract: texts are handled at most once, in order; any may be lost | |
| `ServerLoop` | the table, the server thread, kernel and clients, crash and restart | composes `ClientMsg` and `Users`; INSTANCE of `SessionPool` |
| `SessionPool` | abstract: a bounded set of sessions with the names they announced | |
| `Wire` | what the console and the server thread write to the devices | |
| `Lifecycle` | start, console loop, SIGINT, `server_close` beside the thread, which may wait for the weather service; join | |
| `Console` | the splitting of a line, the handlers up to their call, completion | |
| `Weather` | one request after the other, from `get_weather_ex` to the stored days | |
| `Base64` | encoding and decoding, a loop pass a step | |
| `MC*` | instances for TLC; `MCDocs` has the texts they share | their component |
| `ServerLoopProofs`, `WireProofs`, `Base64Proofs`, `UsersDbProofs`, `WeatherProofs`, `LifecycleProofs`, `ConsoleProofs`, `FramingProofs` | theorems | their component |

The one program is looked at several times, with a different grain each time, because no
single model with all of the interleavings could be checked:

- **`ServerLoop`** takes one pass of the scan as one step. Nothing else writes the table while
  the server is running, so that this loses no interleaving of the table; the kernel and the
  clients act between any two steps. `handle_client_msg` is split where the outside world
  gets a turn: `fetch` (waiting for the weather service) and `payload` (the 100 ms pause).
  Socket states are those the calls show: `fin` (read returns 0), `rst` (the next call
  fails), `closed` (the next write raises SIGPIPE). A message counts as one unit, and one
  read takes up to `MAX_MSGLEN` of them, of which the parser sees the first.
  `pc = "dead"` is the end of the process by SIGPIPE or SIGSEGV; `Restart` begins again with
  the same `users.db`.
- **`Wire`** adds the console thread, and makes each `write` a step. It has no table: it has
  descriptor numbers, their owners, send buffers of limited room, and the streams the
  connections were given.
- **`Lifecycle`** makes each read and each write of shared memory, and each system call, a step, with one
  activation record of `close_client_connection` for each thread. `client_count++` and
  `client_count--` are a read and a write; the search for a free slot reads one slot a step.
  Three things are not taken apart: the reads by which the thread chooses what to do at a slot
  are one step with the `accept` or `read` that follows (`AtSlot`: main can meanwhile only close, and store
  -1 or 0, upon which the call fails, as when main was first); the words of a slot that
  `poll` copies; and the variables that only record history. Of a message it has what
  concerns the exit: the thread has read a text (`ReadText`), may wait for the weather service
  (`tpc = "fetch"`), and writes to the number it noted (`Answer`), which `main` may have closed
  meanwhile. A write to a connection that is gone, by the
  thread or by the sweep's own text, may end the process by SIGPIPE.
- **`UsersDb`** makes each SQL statement a step, for the thread and the console of every process.
  What `ServerLoop` and `Users` do in one step takes three here; `AccountBook` says that this
  makes no difference, unless two processes overlap. Names and passwords are texts over a few
  characters, one of them the apostrophe. A *plain* text has none, and its statement does what it says.
  Any other text may leave the table as it is or make of it what the constant `Tables` allows
  (`Rewrite`), and `rewritten` records that one has come.
- **`Framing`** gives a text a length. `ServerLoop` counts texts as units and lets a read take
  up to `MAX_MSGLEN` of them.
- **`Console`** ends where a handler calls an operation; `Wire` (sending), `Lifecycle` (exit) and
  `UsersDb` (users) begin there.
- **`Weather`** is the request that `ServerLoop` takes as a choice (`WeatherFailed`,
  `SendHeader`).

| Code | Definition |
|---|---|
| `server_init`, the fill loop :187-202 | `ServerLoop!Init`, `FreshFd`, `FreshEvents` |
| `server_handle_clients` :500-528 | `Poll`, `SkipSlot`, `NextIteration` |
| `server_events` :281-330 | `NothingAccepted`, `AcceptIntoSlot`, `AcceptWithoutSlot`; `Lifecycle!Accept`, `CheckLimit`, `Search`, `Put`, `LoadCount`, `AddOne` |
| `client_events` :447-493 | `Disconnect`, `FailedRead`, `ReadMessage` |
| `handle_client_msg` :361-439 | `InfoMessage`, `ChatMessage`, `OtherMessage`, `WeatherFailed`, `SendHeader`, `SendPayload` |
| `close_client_connection` :531-545 | `ServerLoop!ClearSlot`; `Lifecycle!CloseEnter` ... `CloseReset` |
| `client_events`, `client_event_handler`, as bytes | `Framing!Chunk`, `Skipped`, `Parsed`, `Read`, `ReadFails`, `Disconnect` |
| `users_name_exist`, `users_add` | `UsersNameExist`, `SelectName`, `InsertRow`, `UsersAdd`; `UsersDb!Announce`, `Select`, `Insert`, `LookUp` |
| `users_init`, `users_list` | `UsersDb!OpenDb`, `CreateTable`, `ListFails` |
| `execute_command`, `handle_*` | `Console!Argc`, `Args`, `Execute`, `Memo`, `File`, `Idle` |
| `command_completion`, `command_generator`, `param_generator` | `Console!Tab`, `Generator`, `Generate`, `Index`, `List` |
| `client_deserialize_from_json` | `DeserializeRet` (value), `Deserialize` (structure), `ParserFaults` |
| `msg_send`, `server_send_memo`, `server_send_file` | `Wire!Write`, `SendMemo`, `SendFileFails`, `SendFileHeader`, `SendFilePayload` |
| `main`, `signal_handler`, `server_close` | `ReadLine`, `Interrupt`, `Sweep`, `SendShutdown`, `ZeroCount` ... `ResetFirst`, `Join` |
| `server_thread` | `ServerLoop!ThreadStep`, `Lifecycle!TestFlag` ... `PassSlot` |
| `get_data_byurl`, `get_weather_cb`, `parse_7day_weather_json` | `Request`, `NoHandle`, `Piece`, `PerformFails`, `PerformEnds`, `Parse*` |

The full list, with line numbers, is the `map` of `PROJECT.json`. Definitions that stand for
the kernel, libcurl or the clients are marked external there.

A definition whose name extends that of the next one (`ClearSlotKeepingFd` before
`ClearSlot`, `NeededWithoutNul` before `Needed`) is a mutant: the code with one plausible
mistake in it. It is used nowhere. `PROJECT.json` names for every property of a passing
run the mutant that violates it.

## 3. Runs

All runs are `tlc -config <name>.cfg <module>`.

### Passing

| Run | Module | Checks |
|---|---|---|
| `table` | `MCServerLoop` | `TypeOK`; `CountMatchesTable`, `SlotsOwnSockets`, `PollResultsHaveOwner`, `NamesStoredOnce`; `FreeSlotIsTaken`, `AccountsKept`; `ImplementsSessionPool` |
| `serve` | `MCServerLoop` | `PendingIsAccepted`, `PolledIsServed` (liveness) |
| `usersdb` | `MCUsersDb` | `TypeOK`, `SelectStillTrue`, `ThreadHasDatabase`, `OnlyAcceptedNamesStored`; `ImplementsAccountBook` |
| `framing` | `MCFraming` | `TypeOK`, `LostInCompanyOnly`; `ImplementsLossyChannel`; `LoneTextIsHandled` (liveness) |
| `wire` | `MCWire` | `TypeOK`, `BufferReleased`, `ReplyHasOneReceiver`, `StrayFileMeansDeparture` |
| `console` | `MCConsole` | `TypeOK`, `MemoAsTyped`, `FileAsTyped`, `EveryMatchOffered`, `OffersAreKnown` |
| `weather` | `MCWeather` | `TypeOK`, `TextIsTerminated`, `RecordsOfSuccessOnly`, `OnePieceUnderstood` |
| `exit` | `MCLifecycle` | `TypeOK`, `ClientsAtExitClosed`; `ExitShrinks`; `ExitCompletes` (liveness) |
| `base64` | `MCBase64` | `TypeOK`, `EncodeFits`, `DecodeFits`, `RoundTrip` |

What they show:

- `table`: three clients, three descriptors, a table with two usable slots (so that it
  fills, and one client has to be kept out), each sending one text. Over every order of connecting,
  sending, leaving, resetting, crash and restart, the counter equals the occupied slots, no
  slot keeps a closed number, and a slot without a client has no stale poll result, although
  poll looks only at a prefix. `ImplementsSessionPool` is the refinement: a new session
  never inherits the name of the one before it in the slot, the pool never exceeds
  `MAX_CLIENTNUM - 1`. The clients announce names that collide
  outright or through the cut to the field's size, with failing SELECTs and INSERTs; one sends a
  chat to a receiver whose name is not plain. As long as only plain texts have come
  (`~rewritten`), a name is stored once (`NamesStoredOnce`) and rows stay (`AccountsKept`). The
  uniqueness hangs on one conversion, the error value -1 of
  `users_name_exist` that becomes `true`, "exists". With any other text both are lost: it is
  pasted into the SQL as it is.
- `serve`: given a server thread that is scheduled and a weather service that always answers
  sooner or later, a pending connection is accepted (or no descriptor is left), and what lies
  in the polled prefix is served. The qualification "polled prefix" is necessary: see `starve`.
- `usersdb`: three processes on one `users.db`, started, killed and ended at any time, every
  statement failing or not, the console's `users` closing the handle under the thread, with
  announcements and chats that are plain and not. SELECT
  and INSERT are separate, so that their agreement (`SelectStillTrue`) is not given by the
  code of `users_add`; it comes from `bind` in `server_init`, before `users_init`. It has one
  exception, which the model does not cut away but records (`overlapped`): a process started
  between `server_close` of another one, which frees the port (`main.c:164`), and its
  `pthread_join` (:165) shares the table with the old thread. `ImplementsAccountBook` holds
  in every behaviour; the book says what is left of the promise after an overlap and after a
  text that is not plain.
- `framing`: every way to cut and merge three texts shorter than the read buffer, as long and
  longer, with nothing, a NUL or a newline behind a text, and every end of the connection. What is handled is a
  subsequence of what was sent; and a text that comes in one segment when everything before it
  has been read is handled, also when the device closes at once. The latter is what a device
  has to do (and all it has to do) to be heard.
- `console`: every sequence of lines with too few words, enough, and more than `args` holds, in
  any order with completions that are left half-way. The array is not cleared between lines
  and the generators' variables are static; neither shows.
- `wire`: both threads with two jobs each, on two descriptors that may be closed and reused at any time,
  with send buffers smaller than a file and its header. A weather reply has one receiver. A file
  has not (`FileHasOneReceiver`, section 6), but it goes astray only when the
  device that got its header is gone (`StrayFileMeansDeparture`): none that is still connected
  waits for contents that went elsewhere. That takes the kernel's choice of numbers, the
  pause of one thread and the accepts and closes of the other together.
- `weather`: answers of one to five pieces, legal and too big, of every kind the parser tells
  apart, three requests in a row into the same buffer.
- `exit`: the sweep of `server_close` beside the thread, from every outcome of the start.
  Although both threads close, clear and refill the same slots and lose updates of the count,
  and the thread may be in a weather request when the exit begins, the clients of the table
  at the exit are disconnected, and the exit comes to an end (in a return, or in SIGPIPE: see `departure`). `TypeOK` bounds what the updates lost between
  `++` and `--` of the two threads can make of
  the count, and with it what `poll` is given: never more entries than the table has.
  With two clients the search never finds the table full and the limit test never refuses; the
  runs of `ServerLoop` meet a full table, and the theorems about `Lifecycle` cover it for every size.
  `ExitShrinks` says why the exit ends: every step of either thread uses up some of a
  bounded amount of work, so that neither can make the other begin again.
- `base64`: all byte strings of length up to 4 over {0, 1, 128, 255} and up to 7 over two
  values, all texts of length up to 5 over letters, padding, newline and NUL.

### Violated on purpose

Each of these states what a comment says of the code, and TLC shows that the code does not do it.

| Run | Property | Claim | Counterexample |
|---|---|---|---|
| `starve` | `EveryClientServed` | `server.c:515` "handle client events" for every slot | two clients; the first leaves; the second sits in slot 2 and poll is given slots 0 and 1 |
| `departure` | `SurvivesDepartures` | `server.c:359` "-3 processing failed" | a client announces itself and closes; the header draws a RST, the payload SIGPIPE |
| `mixed` | `HeaderThenPayload` | `server.c:402`, `client.c:316`: header and data can be told apart | the console writes a message between the header and the payload of a weather reply |

### Bounds and why they are enough

| Bound | Value | Why |
|---|---|---|
| `MAX_CLIENTNUM` | 3 | two usable slots are the fewest in which a hole can lie before a used slot and the table can be full; the last, unusable slot and slot 0 are there as in the code |
| `Conns`, `ClientFds` | 2 or 3 | in `table` one more client than usable slots, so that a slot and a number are used again; in `exit` a client in the table and one that is accepted behind the sweep |
| `MaxSent` | 1 or 2 texts a connection | two allow a re-announcement and two texts in one read |
| `Senders` | one of two clients | one is enough to have the thread in a request at every moment of the sweep |
| `MAX_MSGLEN` | 1 or 2 unit texts; in `framing` 3 bytes | 2: a read with two texts; 1: the rest of the input stays for the next round; 3: two short texts, or one with its ending, fit in a read |
| `Lengths`, `MaxTexts` | 1..4; 3 | shorter than the buffer, as long, longer; a lost text between two others |
| `Procs` | 3 | one process ending, one serving, one starting |
| `MAX_ARGS`, `RawMsgSize` | 5, 8 | two words of a memo fit in `args`, a third is dropped; a long word does not fit in the text |
| `USER_NAME_SIZE` | 2 | one character fits; a name of two collides with its first character |
| `Quotes`, `Tables` | the apostrophe; the empty table | a text that is not plain empties the table or leaves it; the theorems hold for any set of tables |
| `MaxJobs` | 2 for each writer | two jobs of one writer and two of the other around them |
| `SendRoom`, `FileSizes` | 2; 0 and 2 | full writes, partial writes, EAGAIN, empty files |
| `PieceLimit`, `BufferSize` | 2, 7 | three largest pieces and a rest, as 14096 with 4096 |
| `MaxRequests` | 3 | an earlier request can fail or leave data behind, twice |

Symmetry (of connections and descriptors, in `usersdb` of processes) is used in the safety runs
`table`, `wire` and `usersdb` only; no liveness run has it. `CHECK_DEADLOCK FALSE` stands where
the modelled activity ends: by its bounds (`wire`, `mixed`, `weather`, `framing`), at the end of
the data (`base64`) or with the exit of the process (`console`). The server loop never stops, a
process of `usersdb` can always be started again, and `Lifecycle` has an explicit step for the
ended process, so that deadlock is checked there.

## 4. Fairness

- `ServerLoop`: weak fairness of `ThreadStep`, the steps of a runnable thread. Every one of
  its system calls is non-blocking or limited (`poll` 500 ms, `usleep` 100 ms). The steps that wait for the
  weather service are **not** fair: `curl_easy_perform` is called without a timeout
  (`common.c:60-79`). The liveness properties therefore have the premise `WeatherAnswers`, that the
  thread is not in that wait for ever; without it one unanswered request stops the service
  for everybody. Nothing is assumed of the clients.
- `Framing`: weak fairness of `ServerStep`, the reads of a thread that is scheduled. Nothing is
  assumed of the network and the device. This is a connection the thread gets to: one inside
  the polled prefix (see `starve`), with a weather service that answers (see `serve`).
- `Lifecycle`: weak fairness of each of the two threads after the start. `Answer`, the end of a
  request, is not fair, and `ExitCompletes` has the premise `WeatherAnswers`: an exit during a
  request that is never answered waits for ever in `pthread_join`. `readline` is not
  fair (the operator may never type `exit`), so `ExitCompletes` begins when the command
  has been read. `PollReturn` is enabled in every wait because of the time limit; the mutant that
  lets poll wake on events only violates `ExitCompletes`, because after the sweep there
  may be nothing left to wake it.

## 5. Proofs

Checked by `tlapm`, for all values of the constants that satisfy the named assumptions
(`TableAssumption`, `TablesAssumption`, `DocsAssumption`, `FieldSizeAssumption`, `UsersDbAssumption`,
`FramingAssumption`, `WireAssumption`, `ConsoleAssumption`, `WeatherAssumption`,
`LifecycleAssumption`, `Base64Assumption`). These say that the constants are of their types, that
the special descriptors differ from each other and from the client descriptors, that the set of
client descriptors is finite, that a table a text may leave has rows of names and passwords, and that a
piece fits in the weather buffer.

| Theorem | Statement |
|---|---|
| `ServerLoopProofs!TypeCorrect` | `Spec => []TypeOK` |
| `CountCorrect` | `client_count` is the number of occupied slots |
| `SocketsCorrect` | descriptors, slots and connections correspond one to one |
| `PollResultsCorrect` | poll results belong to clients |
| `FreeSlotIsTakenCorrect` | the next client gets a slot while fewer than `MAX_CLIENTNUM - 1` are in the table |
| `NamesStoredOnceCorrect`, `AccountsKeptCorrect` | names are unique, rows stay, as long as only plain texts have come |
| `ImplementsSessionPoolCorrect` | `Spec => Pool!Spec` |
| `WireProofs!TypeCorrect` | `Spec => []TypeOK` |
| `BufferReleasedCorrect` | every path of `server_send_file` frees the buffer |
| `ReplyHasOneReceiverCorrect` | both writes of a weather reply reach one connection |
| `StrayFileMeansDepartureCorrect` | a file goes astray only when the receiver of its header is gone |
| `Base64Proofs!TypeCorrect` | what the decoder stores are bytes |
| `EncodeFitsCorrect`, `DecodeFitsCorrect` | the loops stay in their buffers, for any length |
| `RoundTripCorrect` | decoding what was encoded gives the bytes back, for any length |
| `UsersDbProofs!TypeCorrect` | `Spec => []TypeOK`, with the bound of a field on every name |
| `ThreadHasDatabaseCorrect` | only `users` takes the database from under the thread |
| `SelectStillTrueCorrect` | what the SELECT found holds at the INSERT, unless two processes overlapped |
| `OnlyAcceptedNamesStoredCorrect` | a rejected text stores an empty name at most, as long as only plain texts have come |
| `ImplementsAccountBookCorrect` | `Spec => Book!Spec`, overlaps and other texts included |
| `FramingProofs!TypeCorrect` | `Spec => []TypeOK` |
| `LostInCompanyOnlyCorrect` | a text is lost only beside another one under way |
| `ImplementsLossyChannelCorrect` | `Spec => Channel!Spec` |
| `ConsoleProofs!TypeCorrect` | `Spec => []TypeOK` |
| `MemoAsTypedCorrect`, `FileAsTypedCorrect` | nothing of an earlier line is sent |
| `OffersAreKnownCorrect` | completion offers what the handlers know |
| `EveryMatchOfferedCorrect` | completion offers the candidates that fit, each once, in order |
| `WeatherProofs!TypeCorrect` | `Spec => []TypeOK` |
| `TextIsTerminatedCorrect` | the parser's text ends in the buffer |
| `RecordsOfSuccessOnlyCorrect` | records are those of a successful request |
| `OnePieceUnderstoodCorrect` | an answer in one piece is understood, whatever came before |
| `LifecycleProofs!TypeCorrect` | `Spec => []TypeOK`, with the bounds of the count and of what `poll` is given |
| `ClientsAtExitClosedCorrect` | `server_close` disconnects every client it found |
| `ExitShrinksCorrect` | each step of the exit uses up some of a bounded amount of work |

**The server loop.** `CountMatchesTable` is not inductive: the count goes down in
`ClearSlot` whether or not the slot holds a descriptor, so one has to know that
`client_events` runs for occupied slots only, which is `PollResultsHaveOwner`; and that
depends on where descriptor 0 and -1 may stand. `IInv` is `TypeOK` and `TableInv`:

- `DescriptorsInPlace`: slot 0 has the listening socket, the last slot descriptor 0, and the
  others a client's descriptor or -1. The last slot is never taken and never polled into an event;
- `ConnectionsInOnePlace`: a connection is in the accept queue at most once, or behind one descriptor,
  never both, so that accept cannot give one connection two numbers;
- `CountMatchesTable`, `SlotsOwnSockets`, `PollResultsHaveOwner`, which support each other.

`FreeSlotIsTaken` is an action property and uses a pigeonhole argument over the slots
`1..MAX_CLIENTNUM-1`. The two theorems about `users.db` have an invariant of their own.

The refinement of `SessionPool` needs `IInv` and, as `PoolInv` adds, that a slot
without a client has no name (`FreeSlotsNameless`: `close_client_connection` empties it,
server.c:543, so that the next session does not inherit it). Then the name in an occupied slot is
its session's, and a client without a session has none (`SessionsNamed`). An accept into a slot is then the beginning of a session, a cleared
slot its end, a stored name an announcement; a crash ends all sessions; every other step of the
server is a stutter of the pool.

**The wire.** Each writer numbers its jobs. The invariant `Inv` says that no number in a stream is
ahead of the writer (`Numbered`), that only the header of the
present job is out while its writer pauses (`Pausing`), and who has the number meanwhile. For a
reply it is the connection the header went to (`ReplyOwner`), by the guard that accepting and
closing is the work of the pausing thread itself. For a file it is that connection or the
connection is closed (`FileOwner`): the number can only change hands through a close. So the payload
either follows the header to the same connection or comes after the end of that connection; and a
job that is over writes no more, because of the numbers.

**Base64.** The invariant ties the length of the output to the position and the group: encoding has
stored four characters for each three bytes consumed, decoding at most three bytes for four
characters. The round trip says the same of the contents (`RoundInv`): after `k` whole groups the
output of the encoder is the characters `4k` of the plain bytes (`Encodes`) and the group holds the
next ones (`Encoding`); when it has ended, the characters of the last, padded group are there too
(`Encoded`); and the decoder, after `k` groups of those characters, has stored the first `3k`
plain bytes (`Decoding`). The reasoning about data is in `Unpack` (the shifts of one group undo
each other, by case over the two-bit parts) and `TableInverse` (`decode_table` is the inverse of
`encode_table`); the induction over the length is the one over the steps.

**The accounts.** Neither `SelectStillTrue` nor the refinement has an argument in `users_add`
itself. `OneWriter` is the invariant they need: a process between `bind` and its end of serving
has the port or is ending (`ActiveHasPort`), there is one such process (`OneActive`), and only
the thread of such a process is in `users_add` (`CallsOfThreads`). A process started while another
is ending breaks `OneActive`, and nothing restores it, since the old thread may already be behind its
SELECT; so the invariant is `WriterInv`: `~overlapped => OneWriter /\ SelectStillTrue`. Without an overlap no
other statement runs between the two, not even one with a text that is not plain.
The refinement adds that a call carries an announced account
(`CallsAnnounced`): an INSERT of plain texts is then a `Register`, any other statement a `Rewrite`
or a stutter, a start during an exit an `Overlap`.

**Framing.** The bytes sent and not read (`Stream`, the inbox followed by what is in transit) stay
in the order of text and position under every step: a segment moves their boundary, a read
takes them from the front, a reset drops their end. The invariant `FrameInv` adds that each text
whose first byte is among them is later than the last one handled (`Ahead`). A read parses at most one text,
which begins in the bytes it takes; so it is later than every handled text and earlier than
every text still to begin. `LostInCompanyOnly` adds what holds of a text that came alone in one segment and fits
(`AloneInv`): it has been handled, or the inbox begins with the whole of it, and then the next
`read` takes exactly this text.

**The console.** Entries of the array below `argc` are words of this line (`ArgsOfLine`), and the
handlers look at no other, by their tests of `argc`. For completion the invariant
`ParamMatches` says that the second and later calls of the generator find the list of this
completion in `param_list`: the one with state 0 has set it. `EveryMatchOffered` needs how far the
generator is (`OfferInv`): the candidates before its index that fit are exactly those offered, so
that their number, `Cardinality(FitsUpTo(i))`, is the number of offers (`OfferedUpTo`).

**The weather.** `RestIsZero`: from `PieceLimit` on the buffer is zero, because every piece is
copied to its beginning, no piece is longer than that, and the `memset` of the request cleared the rest.
So a terminator stands behind whatever the pieces left. An answer in one piece lies at the
front of the buffer, followed by what the `memset` left (`OnePieceInv`); for that `offset`, the
bytes handed over, has to be the sum of the pieces (`BytesInv`).

**The sweep.** What `server_close` achieves beside the thread is the invariant `SweepInv`. A client of the
table at the exit is closed or waits in a slot the sweep has still to visit, or whose number
`main` has in hand (`AtExitClosedOrAhead`). The thread cannot take the client out of the
sweep's way: while it closes a client, its slot holds the number it read or -1
(`ThreadCloses`), because it is the only one that stores, so it never clears an open
connection; and a number stands for one open connection (`Owners`). A slot it has found free stays free
until it has stored the new number there (`Accepting`): main stores no
number. `client_count` does not
occur: the threads lose each other's updates of it, and nothing here depends on it.

**The count beside the sweep.** An interleaving can make `client_count` too large (main stores what it read
before the thread closed somebody) or too small (it overwrites an accept). What keeps it
within bounds is in four invariants. Until the exit it is the number of occupied slots (`Busy`), less the
client the thread has taken off the count and not yet out of its slot (`Taken`), less the one it has put
in a slot and not yet in the count (`Added`): that is `Counted`, and it keeps the count between 0 and
`MAX_CLIENTNUM - 1`, since the last slot still
has descriptor 0. From the exit on, every value stored is a value the count has had, less
one for a close and more one for an accept. Main closes `MAX_CLIENTNUM` slots once each (`MainDone`), and the flag leaves
the thread the rest of one round, in which it closes at each slot once (`ThreadDone`) and accepts at
most one client, since only slot 0 has the listening socket (`MayStore`). So
`Miscounted`: the count, each count a close has read and not yet stored, and the count the accept has
read are at least
`-(MainDone + ThreadDone)`, and with the client to come at most `MAX_CLIENTNUM`. The values that
were read for `poll` and for the increment keep the same bounds (`CountsRead`). Therefore `poll`
never gets more entries than the table has, and the limit test in `server_events` never matters. The weaker
argument, that lost updates are few because there are few clients, would be wrong for
large tables: only the flag and the single round bound them.

**The exit ends.** `MainLeft` and `ThreadLeft` count the steps the two threads still have to take;
`ExitShrinksCorrect` shows that each step of a thread lowers its own number and leaves the other's
alone. It uses that the flag is set when the sweep begins (`Places`), so that the test after the round is the last.
`MainLeft` is at most `9 * MAX_CLIENTNUM + 6`; the thread may have to search the whole table at a
slot and to close the client of it (`SlotWork`, `MAX_CLIENTNUM + 8` steps), so that
`ThreadLeft` is at most `SlotWork * (MAX_CLIENTNUM + 1) + 4`. `ExitCompletes` adds that the
steps are taken, which is fairness.

Only model-checked: liveness (`PendingIsAccepted`, `PolledIsServed`, `LoneTextIsHandled`,
`ExitCompletes`), which is out of the prover's reach, as is `ENABLED`. Every invariant, action
property and refinement of the passing runs is a theorem.

The proofs changed the models in three places. The `CASE` in `Console!List` had
overlapping guards, for which TLA+ does not say which arm is taken (TLC takes the first): it is
an `IF` now. `EveryMatchOffered` names the n-th candidate that fits without `SelectSeq`, and
`Weather` has the bytes handed over in a variable, `offset`, instead of summing
up a sequence: both said the same by recursion, which the provers cannot unfold.

## 6. What does not hold

Besides the three violated runs, the following claims of comments are stated as properties in
the modules and fail in the code as modelled. They have no run of their own: each has a
counterexample of a few steps that can be read off the cited line.

| Property (module) | Claim | The code |
|---|---|---|
| `NoSocketForgotten` (`ServerLoop`) | `server.c:326` "Max client limit reached, rejecting connection" | the branch needs a count above `MAX_CLIENTNUM`, which never occurs; when the search at :309-322 finds no slot, the accepted socket stays open, unpolled |
| `LimitIsMaxClientnum` (`ServerLoop`) | `server.h:28` `MAX_CLIENTNUM` is the number of clients | the fill loop :188 stops before the last slot, which keeps descriptor 0: one client less |
| `RejectedTextIgnored` (`ServerLoop`) | `server.c:359` "-2 parsing failed" | `handle_client_msg` runs whatever the parser returned (:480); an INFO text without `sensor_data` or `cfg` adds a user with an empty name |
| `WholeTextHandled` (`Framing`) | `server.c:465` "handle the received message" | two texts in one read: the first is parsed (`client.c:342`); a text in two segments: neither part is |
| `AddedIfAbsent` (`UsersDb`) | `server.c:380` "add the user if it does not exist" | `server_close` frees the port (`main.c:164`) before `pthread_join` (:165): a process started meanwhile shares the table with the old thread, and both may be between SELECT and INSERT of one name |
| `MemoIsRestOfLine` (`Console`) | `command.c:104` "supporting strings with blanks" | words behind the tenth are dropped (:352) |
| `RoomForTerminator` (`ServerLoop`) | `server.h:29` `MAX_MSGLEN` is the longest message | a read of that length makes :466 store behind the array |
| `MessageBranchHasMessage` (`ServerLoop`) | `server.c:465` "handle the received message" | read returning -1 takes the branch and stores at index -1 |
| `FileHasOneReceiver` (`Wire`) | `server.c:60` "send a file to a terminal" | header and contents go to a number that may change hands during the pause (:126-128) |
| `SuccessMeansWhole` (`Wire`) | `server.c:65` "0: success" | one non-blocking `write` (:128); what does not fit is dropped |
| `FailureIsReturned` (`Wire`) | `server.c:65` "others: failure" | after a failed write the buffer is freed at :129 and again at `_error` :140 |
| `AllFdReachesAll` (`Wire`) | `command.c:134` `fd == MAX_CLIENTNUM + 1` updates all clients | the number is passed on and written to as a descriptor |
| `AnswerIsWhole` (`Weather`) | `common.c:43` "fetch the data of a url, return the json data" | each piece is copied to the beginning of the buffer (`weather.c:37`) |
| `HandlesReleased` (`Weather`) | `common.c:86` "clean up libcurl" | a failed `curl_easy_perform` returns before it (:84) |
| `BadAnswerReported` (`Weather`) | `weather.c:99` "-2: JSON parsing failed" | `atoi` of the `valuestring` of a number is `atoi(NULL)` (:189) |
| `AnnouncedDaysFilled` (`Weather`) | `client.h:93` "number of days" | always seven (`server.c:399`) |
| `ClosesOwnConnection` (`Lifecycle`) | `server.c:557` "close all client connections" | both threads read a slot's number before either clears it; it is closed twice, the second time as whatever has the number then |
| `NoClientLeft` (`Lifecycle`) | `server.c:548` "empty all fds" | the thread accepts into a slot the sweep has passed (`main.c:164`) |
| `FailedStartSurvived` (`Lifecycle`) | `main.c:125` "Server initialization failed", return -2 | the result is ignored (:152); commands call null pointers, `main` joins a thread that does not exist |
| `SeparatorsSkipped` (`Base64`) | `common.c:225` "skip illegal characters" | `{0x80}` marks index 0 of the table only (:173) |

## 7. What is not modelled

- CRC: `crc32` and `crcfile` are compiled out (`USE_SELF_CRC` is 0).
- Logging, the hex dump, the colours of the console: output only.
- `resource/test.c`: a stand-alone example.
- `find_fd_by_username` and `client_serialize_to_json`: called by no code.
- The memory behind `raw_msg[256]` (`Console` lets the process end or go on) and behind `info[32]`
  (`server.c:116`; `Wire` takes a file as its size).
- What a text with an apostrophe does in detail: SQL is not parsed. `Rewrite` is any table of `Tables`; rows
  are all there is, so that effects on the schema (a dropped table, a trigger, a view) are left out.
- What SQLite does with a closed handle: a statement on it fails or the process ends.
- At the end of the input readline returns NULL at once: the loop of `main` spins, without a
  change of state. `Lifecycle` has a line or no line.
- The effects of undefined behaviour on memory: the stores at `buffer[-1]` and behind the
  read buffer, and the three bytes `users_name_exist_cb` writes behind a `bool`, are
  described but change nothing in the models. A double free is a choice: the process ends or goes on.
- `ServerLoop` has no console thread; its writes are in `Wire`, its exit in `Lifecycle`.
  `Wire` leaves SIGPIPE to `ServerLoop` and `Lifecycle`.
- `Weather` takes any text that begins inside an answer as rejected: such a text has no
  `"code"` at its outermost level.

## 8. Plan

Written in this order: `ClientMsg`, `Users`, `ServerLoop` with `SessionPool` (the core: every
message of every device passes through it), `ServerLoopProofs`, `Wire`, `Weather`,
`Lifecycle`, `Base64`, `Base64Proofs`, `WireProofs`; then `UsersDb` with `AccountBook`, `Framing`
with `LossyChannel`, `Console`, the weather wait and SIGPIPE in `Lifecycle`, and the five proof modules about
`UsersDb`, `Weather`, `Lifecycle`, `Console` and `Framing`. What is left:

1. `Framing`: that the bytes of a text stay together in the stream, which is the safety half of
   `LoneTextIsHandled`.
2. The safety half of `PolledIsServed`: within one round of `server_handle_clients` the index only
   grows, so that a slot is reached after a bounded number of steps of the thread, as
   `ExitShrinks` says of the exit.
