# A TLA+ model of the POP3 server

This directory models the POP3 server of this repository (`src/src`), checks
the model with TLC and proves its invariants with TLAPS. The modules translate
the C code, not RFC 1939; where a comment or a message of the code says
something the code does not do, a run shows it.

## 1. The system

The server is **one process with one thread**. Its loop
(`server/main.c`, 60-93) waits in `select()`, then

1. `acceptConnection` takes a new TCP connection into a fixed table;
2. `handleClients` walks through the table: a connection in `READING` that is
   readable gets one `recv()`; a connection in `WRITING` that is writable gets
   at most one command executed and one `send()`;
3. `handleUdpRequest` answers one datagram of the monitoring protocol.

There are no threads, and nothing is written to disk but the deletion of
mails. What makes it hard is that each client's protocol is cut into *turns*:
a RETR or LIST that does not fit in the output buffer is left `PROCESSING` and
resumed in a later turn, with the turns of other clients and the monitoring
commands in between, on state that they share.

| component | state | operations | called by |
|---|---|---|---|
| connection table (`clients/`) | one `user_data` per slot: session state, direction, user name, parser list, current command, mail cache, output buffer | `initClient`, `readFromClient`, `writeToClient`, `closeClient`, `closeAllClients` | loop |
| event turns (`server/serverUtils.c`) | - | `acceptConnection`, `handleClients`, `executeFirstCommand`, `handleUdpRequest` | loop |
| POP3 commands (`pop/`) | table of commands and the session state each needs | USER PASS QUIT STAT LIST RETR DELE RSET NOOP CAPA | `executeFirstCommand` |
| command parser (`parsers/`) | list of lines, the last of which may be unfinished | `addData`, `availableCommands`, `getFirstCommand` | `readFromClient`, `executeFirstCommand` |
| mail cache (`mailsCache/mailsCache.c`) | names of the maildrop at login, marks and their number, LIST's iterator, the open mail | `initCache`, `markMailToDelete`, `resetToDelete`, `deleteMarkedMails`, `openMail`, `getNCharsFromMail`, `next` | commands |
| byte stuffing (`mailsCache/byteStuff.c`) | a small automaton over the bytes of the open mail | `addCharactersToProcess`, `getNProcessedCharacters` | `getNCharsFromMail` |
| output buffer (`buffer/`) | a ring of `BUFFERSIZE` bytes | write, read, free space | commands, `writeToClient` |
| users (`users/`) | list of names, passwords and `userConnected` flags | insert, delete, change, toggle | start-up, commands, `closeClient`, monitoring |
| statistics (`stats/`) | current and historic connections, bytes | add, remove, get | loop, `readFromClient`, monitoring |
| monitoring protocol (`mp3pFunctions/`) | one static variable of the parser | parse, authorize, answer, AU, DU, MUP | `handleUdpRequest` |
| loop (`server/main.c`) | `serverRunning`, the sets of `select()`, the two sockets | one pass; signal handler | - |
| monitoring client (`Client-interface/`) | the line typed, the id and the attempts of a request | ask, wait, retry | an administrator |
| logger, utilities | - | a log of level `FATAL` exits the process | everything |

The hard behaviours, and what makes each component correct:

- **table and turns**: a slot is reused, so it must be given clean; a
  connection in `READING` is never written to, so nothing may be pending in it;
  the output buffer must always hold what is written back after a partial send;
  the server must come to serve every connection.
- **login**: the flag of a user is a lock on the maildrop, but it is found by
  name, cleared by whichever connection has that name when it ends, and lost
  with the node when the user is deleted.
- **commands**: a resumed command is not checked against the session's state
  again; a handler that finds no room gives up silently; LIST and RETR must not
  lose their place.
- **mail cache**: marks and their count agree; a mail is deleted only by the
  QUIT of a session that marked it; the snapshot is of a directory that others
  may change.
- **parser**: a line is the same line however the network cuts it; no array
  overflows; the loop over the received bytes ends.
- **byte stuffing**: wherever the rounds of a RETR cut a mail, the client gets
  the mail with its lone dots doubled and finds its end where it is.
- **monitoring**: a datagram is answered with the first of its faults and changes
  the users only with the key; nothing that one datagram leaves behind (the
  automaton has a static variable) decides on another.
- **monitoring client**: requests are retried over a network that loses and
  reorders; a late answer is not the next request's, a wrong one is not waited
  for ever.
- **loop**: the one thread blocks in `select()` only, though the sets it reports
  in are used while connections come and go; descriptors fit in an `fd_set`;
  every connection is watched; a signal ends the server.

`PROJECT.json` lists every hazard at its line with the properties that cover it.

## 2. Modules

| module | what it is |
|---|---|
| `Maildrop` | abstract: what is promised about mails, with no turns, buffers or slots |
| `PopServer` | the server: table, turns, commands, mail caches, users, counters, disk |
| `CommandParser` | the parser of one connection, byte by byte, with the network's cuts |
| `MailStream` | the bytes of a RETR, round by round, with the stuffing of lone dots |
| `Commands` | the grammar of the monitoring commands and what each does to the users, with no automaton |
| `Registry` | abstract: what is promised about the users, with the commands of `Commands` and no datagrams |
| `Mp3p` | operators: how a datagram is read, refused or carried out |
| `MonitorServer` | `Mp3p` under any sequence of datagrams |
| `MonitorClient` | an administrator's client, UDP and the server's side (`Mp3p`), composed |
| `EventLoop` | the loop: `select()`, its sets, signals, descriptors |
| `MC...` | instances for TLC |
| `PopServerProofs`, `MaildropProofs`, `CommandParserProofs`, `MailStreamProofs`, `EventLoopProofs`, `Mp3pProofs`, `MonitorServerProofs`, `MonitorClientProofs` | invariants and theorems |

### PopServer

The state is the C state with one function per field of `user_data`, indexed by
slot (`sessionState`, `clientState`, `username`, `commands`, `currentCommand`,
`mailCache`, `output`), the user list (`registered`, `password`, `connected`),
the two connection counters and the directory of mails. `NULL` stands for what
`memset` leaves. Two *history* variables are only for the properties: `listed`
(what the LIST under way has printed) and `lockLost` (users whose flag was
cleared while they had a session).

A turn of `handleClients` is several steps, because the code between them can
be reached in more than one way: the execution of a command (`pc` goes to
`write`, or to `list` for the rounds of LIST), `writeToClient` or `sendFails`
(to `reap`), then `reap`, the test that closes a session that has quit.
`turn` is the slot being served; no other action is enabled until the turn
ends. `select()` is the choice of which connection's turn is next.

| actions | code |
|---|---|
| `acceptConnection`, `acceptExits` | `acceptConnection`, with the `FATAL` logs that exit |
| `readFromClient`, `readEof` | `readFromClient` (an error of `recv()` changes nothing) |
| `refuse`, `checkValidUsername`, `checkValidPassword`, `capa`, `report`, `dele`, `rset`, `quit`, `list`, `continueList`, `endList`, `retrRefused`, `openFails`, `retr`, `readFails` | `executeFirstCommand` and the handler it calls; `report` is NOOP, STAT and LIST with an argument, which only answer |
| `writeToClient`, `sendFails`, `reap` | the second half of a turn |
| `addUser`, `modifyUserPassword`, `deleteUser` | AU, MUP and DU, once accepted |
| `shutdown` | the end of `main` |

Abstractions, all of data: lines arrive already parsed, in batches (an empty
batch is a `recv()` that completed no line); a reply is its length; a mail is
its length, one byte read being one byte sent (a mail that needs no stuffing);
`readdir()` gives the names in any order; a name, a password and a mail are
model values. A failing `malloc` is left out, and so is any other program that
changes the maildirs. The QUIT of a session removes any subset of the mails it has
marked: the result of `unlink()` is not looked at (`mailsCache.c:199`).

After a failed `send()` the slot is zeroed and `writeToClient` returns to
`handleClients`, which goes on to look at `client_state` and `session_state` of
that slot: `sendFails` goes to `reap` for that, as `writeToClient` does.

Operators whose comment begins with *Slip* are wrong versions of the definition
that follows them. They are in no behaviour of the model; `PROJECT.json` names,
for each property, the one with which TLC finds it violated.

### CommandParser

One action per branch of the loops of `processWriting` and `discardUntilCRLF`,
one step per byte; `memory` is `auxiliaryBuffer` from the next byte on, with the
NUL that ends it. A byte is a class (NUL, CR, LF, space, printable, other), a
name or argument its length, so a known command is a known length.
The client sends lines, which are bytes up to a CRLF: `LineAssumption` says no more of
them, and a line may hold NULs. What a line should become is said by a grammar with no
parser in it: `FieldAt` is
the field of a byte, by the spaces before it, `WellFormed` says which lines are commands,
`Verdicts` what is printed of each. `LinesRecognised` compares with it the commands made,
those executed and those still in the list. `recv` takes any number of the bytes that have arrived, up
to `MAXCOMMANDLENGTH`, and puts a NUL after them.

`addData` takes the first NUL for the end of the data. A NUL that was received ends it
early, and `addDataReturns` drops what came after it in that `recv()`; or, while an
invalid line is being discarded, `discardEnd` counts it as processed and goes on with
the bytes after it, as the code does. With the NUL at the end of the data `discardEnd`
goes on in what memory holds there (`goesOn`): a NUL, or a member of the constant
`Stale`. `auxiliaryBuffer` is an uninitialized local array, which may hold no other
NUL, and then the bytes beyond it are read too, up to the first NUL of the stack;
`Beyond` bounds how far that is.

`CommandParser` and `PopServer` meet in `commands`: what `getFirstCommand` gives
is an element of `Inputs` there.

### MailStream

What `PopServer` takes as a length, `MailStream` takes byte by byte: one session's
open mail, its `charactersProcessor` (`pending` is its buffer from `idx` to `len`,
so `rebaseBuffer` changes nothing) and the round under way.

| actions | code |
|---|---|
| `openMail` | `openMail`, after a RETR that has finished, failed, or at first |
| `fill` | `getNCharsFromMail` up to `addCharactersToProcess`: a `fread()` of any number of bytes up to those asked for; a short one is the end of the file or an error |
| `copy` | one turn of the loop of `getNProcessedCharacters` |
| `endRound` | the end of that loop and the result of `getNCharsFromMail` |

A byte is a class. NUL, and the bytes from 128 on where `char` is signed, are
consumed and not given (`charRetrieved > 0`), and end the round; `strncpy` turns
what follows a NUL into NULs. Only a line that is a lone dot is stuffed: the
code leaves `.x` as it is.

The room of a round, a member of `Rooms`, is the number of bytes
`continueRetr` finds free: in `PopServer` any number from
`MAX_SINGLE_LINE_RESPONSE + 1` to `BUFFERSIZE`. A round after `NOT_FINISHED` is `PopServer`'s next turn of `retr`, which `Served` is about.
`sent` is what `continueRetr` has written to the output buffer.

### Mp3p and MonitorServer

A datagram is what the automaton makes of it: whether its head is well formed,
its version, its key (the right one, another of its length, or none), and the
symbols of its command line: an operation, a space (`"SP"`), a newline (`"LF"`), a
NUL, a character of a word (an operation is one symbol, and may be part of a word
too). `Edges` are the transitions of `parseMp3pCharacter` from the third
newline on, with `onSuccessCommandState`, which is static and so survives a
datagram; the rest of a state's characters lead to `DGRAM_INVALID_COMMAND`, or
to `DGRAMDISCARD` after the end. `parseDatagram` gives the state by which the
strategy is chosen, `Status` and `UsersAfter` what the strategy answers and
does. `MonitorServer` applies them to any sequence of datagrams; its properties
compare with `Commands`, whose grammar says what a command is (an operation and
none, one or two words) without an automaton. A NUL inside a line is kept
apart: the automaton discards what follows a complete command.

`copyDgramData` copies the name and the password out of the line before the version and
the key are looked at, into arrays of `USERNAMESIZE` and `PASSWORDSIZE`, and without a
bound. `CopyFits` says whether they fit. When one does not, what the program does from
then on is undefined: `overrunFields` is that step, the last one of a behaviour of
`MonitorServer`, and its properties say nothing of it. In `MonitorClient` such a
datagram is not carried out.

### MonitorClient

| actions | code |
|---|---|
| `help`, `quit`, `ask` | a turn of `main`'s loop; `Scanned` is `scanf()`, which leaves the array as it was on an empty line |
| `sendDatagram`, `sendFails`, `giveUp` | the loop of `sendDatagram` |
| `timeout`, `receiveOther`, `receive` | what `recv()` gives |
| `handleUdpRequest`, `handleStranger` | the server, on a datagram of this client or of another sender |

`requests` and `replies` are the sets of datagrams in flight, each known by the
request it belongs to and the turn of the loop that sent it, so that no two are
the same; a reply carries the id of its request. A datagram may be
received at any later moment, in any order, or never, which is its loss; one
that has arrived and has not been read is in flight too. UDP's own duplication
is left out: every copy is one that a retry has sent. The id of a request is the
second in which it was drawn, because `srand(time(NULL))` precedes each: it is
that of the last request if no second has passed. The text of the client's
messages and the newline that `getchar()` consumes are left out; a client whose
`scanf()` has met the end of the input goes on with the same line, as the empty
line does. `late` (the requests in which a `recv()` has timed out), `overlapped` (a
request was made with datagrams of an earlier one in flight), `timeouts` and `asks` are
history variables. The help of the client says `AU <USER>`; the server asks for a
password too and answers 104 without one.

### EventLoop

The state is the loop's (`pc`, `i`, the sets, `serverRunning`), the table with
the descriptors of sockets and of open mails, and the kernel's: connections and
datagrams that wait, sockets that are ready.

| actions | code |
|---|---|
| `running`, `exits`, `addClientsSocketsToSet`, `selectSleeps`, `selectReturns` | `main` up to `select()` |
| `nothingToAccept`, `acceptConnection`, `acceptExits`, `noDatagram`, `handleUdpRequest` | the two sockets of the server |
| `skip`, `readFromClient`, `executeAndWrite`, `openFails` | the turn of an entry in `handleClients`; `openFails` is the `FATAL` log of `openMail` |
| `sigterm_handler`, `arrives`, `clientSends`, `clientReads` | the world |

What `PopServer` does in a turn is here only what it does to descriptors: the
connection reads, writes or is closed, and a turn may open a mail (in place of one that
is open), close the one that is open (`closeMail`, at the end of a RETR) or neither. A
RETR that begins and ends in one turn opens and closes a descriptor within it. A call on a
descriptor that is not ready would block: its action is then not enabled, and
`NeverBlocks` says that this does not happen. `select()` is two steps, so that a
signal may come before it has begun to wait (it is lost until something else
happens) or after (`EINTR`, and the pass is skipped). The kernel gives the lowest
free descriptor, so that a number closed in a pass is given again in it, or in
the next. `setupUDPServerSocket` returns 1 when it fails, which `main.c:42` takes
for a descriptor: the model begins with either, and the server runs on without
monitoring.

### Maildrop and the refinement

`Maildrop` has connections in the states of the protocol, a snapshot taken at
login, marks, and a `Commit` that removes the marked mails together; closing
any number of connections removes nothing. `PopServer!MaildropSpec` is
`Maildrop!Spec` under the mapping at the end of `PopServer`: a session's
snapshot and marks are its cache's names and the names of its marked numbers,
and a QUIT in TRANSACTION is `Commit`, which removes the marked mails but those
whose `unlink()` fails.

## 3. Runs

| run | instance | shows |
|---|---|---|
| `sessions` | 2 slots, 2 users, 3 accepts, one mail that is retrieved, marked and deleted, monitoring on both users | `TypeOK`, `SlotClean`, `ConnectionsNotUndercounted`, `ExclusiveMaildrop`, `NoOrphanLock`; and `SnapshotOnDisk`, `MaildropSpec` when two sessions overlap, to the RETR of a mail that is gone |
| `commands` | 2 slots, 2 mails, batches of seven lines with a RETR and a LIST of several turns among them, a buffer of 4 and replies of 2; fairness | `OutputFits`, `ReadingMeansIdle`, `SessionCoherent`, `MarkCount`, `EveryCommandAnswered`, `ListingSound`, `MaildropSpec`, `Served` |
| `parser` | 2 lines of 15 kinds, two of them with a NUL, cut anywhere, fairness | `TypeOK`, `WithinBuffer`, `FieldsFit`, `OnlyLastUnfinished`, `LinesRecognised`, `AddDataReturns` |
| `stream` | two mails: every text of at most 4 bytes, longer ones that begin with a lone dot, some with NULs and high bytes; buffer of 5, rooms of 2, 3 and 5, fairness | `TypeOK`, `PrefixSent`, `WholeSent`, `NoEarlyEnd`, `Retrieved` |
| `mp3p` | about 150 datagrams in any order, one user to begin with, fields of at most two characters | `FaultsInOrder`, `OnlyAcceptedCommands` |
| `monitor` | 3 requests of 2 attempts, on one of two users; other senders; a client with the key and one without; fairness | `TypeOK`, `RetriesAreTimeouts`, `OwnAnswer`, `CleanSession`, `RepeatsHarmless`, `RegistrySpec`, `RequestEnds` |
| `loop` | 2 slots, 3 connections or datagrams, an `fd_set` of 7; fairness | `TypeOK`, `NeverBlocks`, `SetsFit`, `Heard`, `Stops` |
| `lock` | 2 slots | *violated*: `OneSession` |
| `terminator` | a mail that ends near the end of the buffer | *violated*: `RetrTerminated` |
| `listing` | the last mail marked | *violated*: `ListingExact` |
| `overrun` | an invalid line in two pieces | *violated*: `InputOnly` |
| `flags` | a client started with `-BA`, `-MA` or `-WV`, and a malformed command | *violated*: `FlagsAsDocumented` |

**Bounds.** `MaxAccepts` bounds the connections of a run (a slot is reused once
or more), `MaxLines` the lines of a client. The real sizes (`BUFFERSIZE` 512,
`MAX_SINGLE_LINE_RESPONSE` 128, 500 connections) become small ones in the same
order: a line and a terminator fit in the room that is asked for, more than
`MAX_SINGLE_LINE_RESPONSE`, which is a part of `BUFFERSIZE`, so that a buffer can be empty, have room for a command, have
room for a line only, or be full. In `commands` a reply is half the
buffer, so that two of them, or one and what a partial send has left, fill it; a mail
of 4 behind its header takes two rounds of RETR at least, the first ending in a full
buffer; two mails, of which one may be marked, take a LIST several rounds (`listing`
has three, and `ListingSound` is proved for any number). Two connections there are
enough for the turns of one to come between those of the other. Two users are enough for one
to take the other's lock by name; two slots for two sessions of one user, and three
accepts for a connection that takes the slot of one of them while the other is open. The parser's fields hold two and one
characters, so that every line kind has one that is too long, and a buffer of 8 is
shorter than the longest lines and longer than a whole short one. `Beyond` is 2, so
that what is read on from the last byte of the array is a NUL, the end of a line or one
character, and what is read from earlier on is a whole line too.
In `stream` the mails have up to 6 bytes and a room is 2, 3 or 5: the dot of a line
and the byte that decides on it fall in one round, in two, or before and after a
short read, at each place of the mail, and the second mail begins with whatever the
first, finished or failed, has left.
In `mp3p` the lines are an operation followed by spaces and words in every order, up
to the length at which the automaton is back in a state it has been in, lines cut by
newlines and NULs, and four of them with every combination of the other faults; the
state of the server is the users and one static variable, so that any sequence is
one of pairs. In `monitor` two attempts suffice for a retry that is executed after
the request has been given up (`MAX_RETRY` is 10 in the code), three requests for an
answer that comes two requests late, and two users for an AU and a DU of one of them
that change places, with another left for a mistaken DU to take; the fields fit their
arrays (sizes of 3 for names of one symbol); of the client's arguments the run has none
and `-BA`, as the others make no other difference to the properties. Malformed lines
are left to `mp3p` and to `flags`, which has the three arguments. In `loop` the set is as small as
its assumption allows, so that one descriptor too many leaves it; two slots are
enough for a number that is closed by one and given to the other, and a third
connection for a full table.
The invariants the proofs cover do not depend on the bounds.

**Fairness.** `commands` assumes `SF` of `Serve(s)` and `WF` of `FinishTurn(s)`.
A turn that has begun is one thread that calls nothing that blocks, hence `WF`.
Each pass of the loop serves every connection `select()` reports, but between
two turns of a connection others have theirs, during which its own is not
possible, hence `SF`. It is assumed that the client goes on reading, that is,
that its socket is reported writable again and again. Nothing is assumed of the
client's sending, of failures or of the monitoring client. `parser` assumes
`WF` of the steps of `addData` only (it ends when it meets a NUL beyond the array at
the latest, which `Beyond` assumes), and `stream` of those of `getNCharsFromMail`:
a round is one call, and the next one is what `Served` says comes. `monitor` assumes
`WF` of what the client does by itself (`recv()` ends, at the latest by its timeout),
nothing of the network, the server or the administrator. `loop` assumes `WF` of the
steps of the loop, among them that `select()` returns when something it watches is
ready; nothing of clients and signals. `Heard` needs no more because a pass takes
each ready connection in turn.

`CHECK_DEADLOCK FALSE`: the server may stop (a `FATAL` log, a signal), and a
client may have sent all it will.

**What the violated runs say.** The disagreements, with the lines, are in
`PROJECT.json` under `findings`: a connection that has only named a user clears
that user's lock when it ends; a mail may be sent without its terminator; LIST
prints a line too many when the last mail is marked; the parser goes on past the
end of what it received; a malformed command is answered 104 where the repository's
README promises 100 or 101. Two more are in the model and have no run of their own:
a connection that ends by QUIT or a failed send stays in the count of current
connections (only `readEof` takes one out), and a RETR of a mail that another
session has deleted ends the server, because `openMail` logs it as `FATAL`
(`openFails`). The properties of the
passing runs are stated so that they hold with these: `ExclusiveMaildrop` and
`SnapshotOnDisk` of users whose lock has not been lost, `ListingSound` of caches
whose last mail is not marked, `ConnectionsNotUndercounted` as an inequality,
`LinesRecognised` of behaviours in which nothing has been read past the end.
In `monitor`, `CleanSession` says that as long as nothing was late each request is
answered by its own answer and carried out once and in order. When something was late:
`OwnAnswer` says which answer of another request can be taken for this one's, in terms of
the ids drawn and of the requests in which a timeout fell (two requests of one second,
the first of which was itself cut off from its answer); `RetriesAreTimeouts` says what the
answers left over cost, a retry for each timeout that has not been paid for;
`RepeatsHarmless` says that a request carried out several times leaves the users as if it
had been once, and `RegistrySpec` that no step does anything that was not asked for.
`RepeatsHarmless` exempts requests made while datagrams of an earlier one were in flight
(`overlapped`): an AU and a DU of one user can then be carried out in the other order,
and the code does nothing against it. An empty line counts as asking for the last line
again, as the code has it.
`LinesRecognised` also leaves open (in `Verdicts`) the verdict on a line with a space after
its second argument, which the code decides by where the line was cut. And it is of
lines with no LF two bytes after their first CR (`NoStray`): processWriting leaves such a
line as invalid with `receivedCR` still set (`commandParser.c:99`), so discardUntilCRLF
takes the LF for its end and the rest for a line of its own. And it is of lines with no
NUL in them (`NoNul`): `readFromClient` gives the received bytes to `addData` as a string
of C (`clients.c:47-72`), which ends at the first NUL (`commandParser.c:227`), so that the
rest of that `recv()` is dropped, and with it the end of the line or whole lines. These
are in the model and have no run of their own, as no document says what becomes of such
lines; `InputOnly` has the same two conditions, so that `overrun` shows the reading past
the end and not these. `PrefixSent`, `WholeSent` and
`NoEarlyEnd` are of mails that are text, and the last two except, by `DotLost`, the
mail whose last line is a dot without a line end, when the round that reads it is
full: the round is the last, and the second dot is never asked for.

## 4. Proofs

`PopServerProofs` proves, for every table size, buffer, set of users, mails and
inputs that meet the assumptions of `PopServer`:

| theorem | property |
|---|---|
| `TypeCorrect` | `TypeOK` |
| `BufferNeverOverflows` | `OutputFits` |
| `NothingPendingWhenReading` | `ReadingMeansIdle` |
| `SlotsGivenClean` | `SlotClean` |
| `SessionsCoherent` | `SessionCoherent` |
| `CounterAboveTable` | `ConnectionsNotUndercounted` |
| `MaildropExclusion` | `ExclusiveMaildrop` |
| `NobodyLockedOut` | `NoOrphanLock` |

All follow from one inductive invariant, `IInv`, whose parts need each other:

- types need coherence: a handler applies `mailCache[s]`, which is a cache only
  because of `SessionCoherent`; `concurrentConnections - 1` is a natural number
  only because of `ConnectionsNotUndercounted` and because the connection that
  ends is in the table;
- `OutputFits` needs `MAX_SINGLE_LINE_RESPONSE` to be the length of the longest
  unchecked reply at least (`BufferAssumption`), and that a fresh slot is empty
  (`SlotClean`), because the greeting is put without a test;
- `SlotClean` needs that a turn under way serves a slot that is in the table,
  `TurnCoherent`; so do `writeToClient` and the rounds of LIST;
- `ExclusiveMaildrop` needs `LockHeld`: a user whose lock was not lost and who
  has a session is connected, so the next PASS is refused. `NoOrphanLock` is the
  converse, and its own induction step is `closeClient`, which clears the flag
  of whoever ends.

The proof has one lemma per action and, in it, the parts the action can disturb.
The assumptions are those the code's headers justify: a table of at least one
slot, `LINE` and `TERMINATOR` at most `MAX_SINGLE_LINE_RESPONSE`, smaller than
`BUFFERSIZE`, finitely many mails, `NULL` different from any value.

`MaildropProofs` goes on from `IInv`, under the same assumptions:

| theorem | property |
|---|---|
| `MarksCounted` | `MarkCount` |
| `RetrGoesOn` | `RetrResumable` (of no run: a part of the invariant) |
| `SnapshotsStay` | `SnapshotOnDisk` |
| `NoReplyDropped` | `EveryCommandAnswered` |
| `MailsKept` | `MaildropSpec`, the refinement |

- `MailInv` is those first three and `FilesDistinct`: two numbers of a cache are two
  names. Without it a DELE of one number could mark a mail that another number
  marks already, which `Maildrop` does not allow.
- `SnapshotOnDisk` needs `ExclusiveMaildrop`: the QUIT of one session deletes from
  its own maildrop, which no session that holds its lock shares. And it needs that
  the end of a connection takes a user off `lockLost` only when no other session of
  that user is left.
- `EveryCommandAnswered` needs `OutputFits` and the room that `MayExecute` asks for.
- The refinement sorts the steps in those Maildrop sees (an accepted connection is
  `Open`, a login `Login`, DELE `Mark`, RSET `Unmark`, QUIT `Commit` or `Abandon`,
  any end `Close`) and those it does not, which move no more than an iterator or an
  open mail (`IdleFacts`, `SameMails`). A login takes the maildrop as the directory
  is then; a QUIT deletes the marked mails at once, or nothing.

It also proves `ListingsSound` (`ListingSound`): a LIST that ends has printed
the unmarked mails in order and once each, and its terminator, if the last mail is not
marked. The invariant, `ListInv`, says of a LIST between two turns that it has printed
the unmarked mails up to the iterator, and of a round that its last line was begun with
more than `MAX_SINGLE_LINE_RESPONSE` of room. The theorem assumes that a line and the
terminator together need no more than that: in the code a line of LIST and `.CRLF` have
a few tens of bytes of 128.

`CommandParserProofs` proves, for any sizes, lines, cuts and stale bytes:

| theorem | property |
|---|---|
| `ParserTypes` | `TypeOK` |
| `ReadsWithinBuffer` | `WithinBuffer` |
| `FieldsNeverOverflow` | `FieldsFit` |
| `FinishedInOrder` | `OnlyLastUnfinished` |
| `Recognised` | `LinesRecognised` |

The invariant of the first four adds that `recv()` starts at the beginning of the
buffer and that the loops have a line (`LoopsCoherent`). `ReadsWithinBuffer` says both
halves of what the code relies on: until bytes past the data are processed, nothing is
read beyond the array and its NUL; and the test of `addData` against
`MAXCOMMANDLENGTH+1`, made between two lines only, is what stops it when the NUL at the
very end of the array has been counted as processed. No more can be said after bytes past
the data have been processed, because the loops look for a NUL and the array may hold none. `Recognised` needs `LinesInv`,
which TLC has also checked on the instance of `parser`:

- `BytesInOrder`: the bytes in the buffer and on the wire are those sent, from the first
  not yet processed on. `Ends` says where each line ends; that its recursive definition
  has a solution, and that it grows, is proved by induction on the number of the line
  (`Induct`, from the library's theorem on well founded relations, applied to a set
  instead of an operator).
- `Position`: the commands made are the lines processed whole, and an unfinished line
  of the list is the next one sent, with a byte of it still to come.
- `Current`: what the unfinished line is. While it is written, its status is the number
  of spaces so far and each length the number of characters in that field (`Writes`);
  while it is discarded, its bytes deserve that and the end of it will be known
  (`Discards`). Each branch of the loops has a lemma on one line and one byte
  (`WritesSpace`, ..., `DiscardsLF`) that says what the branch makes of these.
- `CommandsJudged`: each command made has a verdict that its line deserves.

The last three hold until bytes past the end of the data are processed or a line with a
stray LF or a NUL is sent, as in the property; these are for good.

`MailStreamProofs` proves, for any buffer, rooms and mails:

| theorem | property |
|---|---|
| `ArraysNeverOverrun` | `TypeOK` |
| `SentInOrder` | `PrefixSent` |
| `SentWhole` | `WholeSent` |
| `EndsOnce` | `NoEarlyEnd` |

`TypeOK` is inductive: the processor keeps to its array and a round to the room it was
given, which is the size of `continueRetr`'s array. The others rest on a second
invariant, `StreamInv`, which is not recursive in the mail: each byte of the stuffed
mail has a place (its number and the number of lone dots before it), and what was sent
has at each place the byte that belongs there (`Progress`). The mail is the bytes the
processor has given, those it holds and those still in the file (`HoldsRest`), the
processor's state is that of the last byte it has given (`StateOfLine`), and a lone dot
that has been given once is owed its second (`Owed`). It needs that a round stops at the
end of the file only when nothing is held (`Finish`). `EndsOnce` looks at the five places
before any terminator of the answer: the dot in it is one, not two, so that it is no
byte of the mail.

`EventLoopProofs` proves `LoopTypes`, `CallsNeverBlock` (`NeverBlocks`) and
`SelectSetsFit` (`SetsFit`) for any table and any number of connections, from one
invariant:

- what `select()` reported of a connection whose turn is still to come is still true
  (`Reports`), because no other connection has its descriptor (`Distinct`), because
  a descriptor given in the pass was not open when the sets were made (`Watched`:
  until `accept()` they hold descriptors of the table and of the server only), and
  because the world only makes more ready; the number of a mail that is closed while its
  connection stays may be given again in the pass, but only to a mail, and to a socket in
  the next pass, of which the sets are made anew;
- every descriptor of the table fits (`SocketsFit`): the kernel gives one that is at
  most as large as the number of open ones, and these are the server's four, one
  socket for each entry in use and one mail for each of them at most (`Mails`), which
  are counted with the theorems on finite sets. The assumption is
  `2 * MAX_CONNECTIONS + 3 <= FD_SETSIZE`; in the code it is 1003 and 1024.

`Mp3pProofs` has the lemmas about datagrams, for lines of any length. Its centre is that
the automaton recognises the grammar: an invariant of the loop of `parseDatagram`, by
induction on the symbols read, says for each state which beginnings of lines lead to
it, whatever the static variable was before; and the fields that `obtainUsername` and
`obtainPassword` cut from a line are the words the grammar finds in it (`FieldsOne`,
`FieldsTwo`). From these come what the server answers (`Answered`) and does
(`UsersDecided`). The static variable is read only after the same line has set it, and
that is why no datagram decides on another.

`MonitorServerProofs` proves, for every sequence of datagrams, up to the first whose name
or password does not fit its array:

| theorem | property |
|---|---|
| `UsersNeedHeaders` | - (no change of the users without head, version and key, by the order of the checks alone) |
| `StatusOfFirstFault` | `FaultsInOrder` |
| `UsersFollowCommands` | `OnlyAcceptedCommands` |

`MonitorClientProofs` proves, for any number of requests, of attempts, any lines and
any other senders without the key:

| theorem | property |
|---|---|
| `Types` | `TypeOK` |
| `RetriesPaid` | `RetriesAreTimeouts` |
| `AnswersOwn` | `OwnAnswer` |
| `Sessions` | `CleanSession` |
| `Retried` | `RepeatsHarmless` |
| `ImplementsRegistry` | `RegistrySpec`, the refinement |

- `Typed` adds the counters to the types: a request has had at most `MAX_RETRY`
  timeouts, so that `timeouts` stays below its bound, and an id is at most the number of
  its request.
- `Flight` says which exchanges are in flight: at most one datagram of each, none that is
  still to be sent, the one the client waits for among them, and in all one for each
  timeout and one for the `recv()` under way (`InFlightCount`). Without it the server
  could answer an exchange twice.
- `Waiting` is `RetriesAreTimeouts` on top of `Flight`: the turns of the last request are
  all in flight, because its own answer would have ended it (`OwnUnread`), so that a wrong
  answer read is always an earlier request's, and a retry takes one from those
  (`EarlierCount`).
- `Own` says that the ids of the requests never go back (`IdsOrdered`), that a request in
  which a `recv()` timed out has another id than every later one, as the client waited a
  second in it (`LateDiffer`), and that what is in flight of an earlier request was left
  there by a timeout of that request or of one before it (`LateLeft`).
- `Clean` says, while nothing has timed out, that the users are those of the requests up
  to the last, without it as long as its datagram has not reached the server. It needs
  `Flight`, which says that no other datagram is on its way.
- `Repeats` says, as long as no request was made with datagrams of an earlier one in
  flight, that what is on its way to the server is of the last request, and that the users
  are those of all the requests, or of all but the last, which will then be carried out
  (`Pending`). That it does no harm to carry it out again is `EffectTwice`, of the grammar's
  `Effect`.

The assumptions are that a line typed has no NUL in it (it is what `scanf()` stored as a
string of C) and that the others do not have the key. A datagram whose name or password
does not fit its array is not carried out (`CopyFits`), because what it does is undefined.

**Only model-checked**: `Served`, `AddDataReturns`, `Retrieved`, `RequestEnds`, `Heard`
and `Stops`, because liveness is out of the prover's reach. Every invariant and every
action property or refinement of a passing run is proved.

## 5. Not modelled

- STAT's sizes, and mails delivered between the two scans of the directory in
  `initCache` (`mailsCache.c:61`), which would be written past the array: nothing in the
  repository delivers mails while the server runs;
- what the program does after a name or a password has been copied past its array
  (`mp3pFunctions.c:521-540`; the arrays hold 256 bytes and a datagram 2048); a version,
  and a malformed key, which are copied up to a newline that need not come
  (`mp3pFunctions.c:499-518`), are taken to fit in `VERSIONSIZE` and `AUTHORIZATION`;
- the ring inside the output buffer: `output` is how much it holds (planned);
- the texts of the monitoring replies, and the size of that of LU, which grows with
  the users in a buffer of 2049 bytes; the first three lines of a datagram byte by
  byte;
- how sockets are set up (but for the failure of the UDP one) and arguments read,
  once, before the loop; `select()` that reports a datagram which is then dropped
  for its checksum;
- an `auxiliaryBuffer` after whose end no NUL comes for more than `Beyond` bytes: it is
  not initialized, and the parser would go on reading;
- byte counters (they only add), logging other than `FATAL`, a full heap;
- `test/client.py` and `mails/`, which are a script and data.

## 6. Plan

1. *(done)* `Maildrop`, `PopServer`, their runs and the inductive invariant;
   `CommandParser` and its proofs; `MailStream` and the proof of its bounds.
2. *(done)* `Mp3p`, `Commands`, `MonitorServer`, `MonitorClient` and `Registry`.
3. *(done)* `EventLoop` and its proofs.
4. *(done)* `MaildropProofs`: the marks, the open mail, the snapshots, the replies,
   the refinement of `Maildrop`, and LIST.
5. *(done)* `MailStreamProofs`: what is sent of a mail. `Mp3pProofs`,
   `MonitorServerProofs` and `MonitorClientProofs`: the automaton and the grammar, the
   server's answers, the client's, and the refinement of `Registry`.
6. *(done)* `LinesRecognised` of `CommandParser`, by a grammar of lines.
7. `CircularBuffer`: the ring as a refinement of a queue of bytes, with a proof.
