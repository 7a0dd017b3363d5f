----------------------------- MODULE PopServer ------------------------------
(***************************************************************************)
(* The POP3 server: the table of connections (clients.c), the execution of *)
(* commands (serverUtils.c, popFunctions.c) on each session's mail cache   *)
(* (mailsCache.c), the list of users and its "connected" flags (users.c),  *)
(* the monitoring commands that change it (mp3pFunctions.c), the           *)
(* connection counters (stats.c) and the mails on disk.                    *)
(*                                                                         *)
(* The server is one thread.  A pass of its loop serves every connection   *)
(* that select() reports; here any connection whose turn is possible may   *)
(* be served next, and a turn runs to its end before another begins: pc    *)
(* names the point a turn has reached, turn the slot it serves.            *)
(*                                                                         *)
(* Commands arrive parsed, as batches of complete lines.  Output is        *)
(* counted, not spelled: LINE is the length of a one-line reply.           *)
(***************************************************************************)
EXTENDS Naturals, Sequences, FiniteSets, Functions

CONSTANTS
    MAX_CONNECTIONS,            \* size of the connection table
    Users, Passwords, Mail,     \* names, passwords, file names
    NULL,                       \* zeroed memory
    InitialUsers, InitialMail,  \* the users of the command line, their mails
    Inputs,                     \* the batches of lines a recv() may complete
    Administered,               \* the users the monitoring client names
    BUFFERSIZE, MAX_SINGLE_LINE_RESPONSE, LINE, TERMINATOR,
    SIZE,                       \* the size of a mail
    MaxAccepts                  \* bound: connections accepted in a run

Slots == 1..MAX_CONNECTIONS

NumberedOps == {"RETR", "DELE", "LISTNO"}
PlainOps == {"LIST", "STAT", "NOOP", "RSET", "QUIT", "CAPA", "INVALID"}

Command ==
    [op : {"USER"}, arg : Users] \cup [op : {"PASS"}, arg : Passwords]
        \cup [op : NumberedOps, arg : Nat] \cup [op : PlainOps, arg : {NULL}]

\* files: the names in readdir() order; toDelete: the numbers marked.
\* mail: the number of the mail RETR has open, 0 when none; left: what it has
\* still to read of it.
Cache ==
    [files : Seq(Mail), toDelete : SUBSET Nat, markedToDelete : Nat,
     iterator : Nat, mail : Nat, left : Nat]

ASSUME NullIsNothingElse == NULL \notin Users \cup Command \cup Cache
ASSUME TableAssumption == MAX_CONNECTIONS \in Nat \ {0} /\ MaxAccepts \in Nat
ASSUME UserAssumption ==
    /\ InitialUsers \subseteq Users /\ Administered \subseteq Users
    /\ InitialMail \in [Users -> SUBSET Mail]
    /\ IsFiniteSet(Mail)
ASSUME InputAssumption == Inputs \subseteq Seq(Command)
ASSUME BufferAssumption ==
    /\ BUFFERSIZE \in Nat /\ MAX_SINGLE_LINE_RESPONSE \in Nat
    /\ LINE \in Nat \ {0} /\ TERMINATOR \in Nat \ {0} /\ SIZE \in Nat
    /\ LINE <= MAX_SINGLE_LINE_RESPONSE
    /\ TERMINATOR <= MAX_SINGLE_LINE_RESPONSE
    /\ MAX_SINGLE_LINE_RESPONSE < BUFFERSIZE

VARIABLES
    \* user_data, one per slot of the table
    allocated,        \* the slots that hold a socket
    sessionState, clientState, username,
    commands,         \* command_list: the complete lines not yet executed
    currentCommand,   \* the command that is PROCESSING, NULL when AVAILABLE
    mailCache,
    output,           \* output_buff: how much it holds
    \* the list of users; connected: those with userConnected set
    registered, password, connected,
    maildir,          \* the mails on disk
    concurrentConnections, historicConnections,
    pc, turn,
    mailInfo,         \* the number in LIST's mailInfo, 0 before it is written
    \* history variables
    listed,           \* the mail numbers the LIST under way has printed
    lockLost          \* users that lost their lock with a session left open

slotVars == <<allocated, sessionState, clientState, username, commands,
              currentCommand, mailCache, output, listed>>
userVars == <<registered, password, connected>>
statVars == <<concurrentConnections, historicConnections>>
vars == <<slotVars, userVars, statVars, maildir, pc, turn, mailInfo, lockLost>>

Exits == {"accept failed", "table full", "open failed", "down"}

(***************************************************************************)
(* Operators on the mail cache.                                            *)
(***************************************************************************)
mailCount(c) == Len(c.files)

validMailNo(c, n) == n \in 1..mailCount(c) /\ n \notin c.toDelete

\* readdir() gives the names in any order.
initCaches(u) ==
    {[files |-> f, toDelete |-> {}, markedToDelete |-> 0,
      iterator |-> 0, mail |-> 0, left |-> 0] :
        f \in Bijection(1..Cardinality(maildir[u]), maildir[u])}

markMailToDelete(c, n) ==
    [c EXCEPT !.toDelete = @ \cup {n}, !.markedToDelete = @ + 1]

\* Slip: the count of the marked mails outlives the marks.
resetMarksOnly(c) == [c EXCEPT !.toDelete = {}]

resetToDelete(c) == [c EXCEPT !.toDelete = {}, !.markedToDelete = 0]

MarkedMails(c) == {c.files[n] : n \in c.toDelete}

\* The mails next() can still return.
Remaining(c) == {n \in 1..mailCount(c) : n > c.iterator /\ n \notin c.toDelete}

(***************************************************************************)
(* The state of a turn.                                                    *)
(***************************************************************************)
freeSpace(s) == BUFFERSIZE - output[s]

\* writeToOutputBuffer writes the whole message or nothing.
Written(space, n) == IF n <= space THEN n ELSE 0

\* Slip: a command is executed however full the output buffer is.
MayExecuteUnguarded(s) ==
    /\ pc = "loop"
    /\ s \in allocated
    /\ clientState[s] = "WRITING"
    /\ currentCommand[s] # NULL \/ commands[s] # <<>>

\* executeFirstCommand is called, and has something to execute.
MayExecute(s) ==
    /\ pc = "loop"
    /\ s \in allocated
    /\ clientState[s] = "WRITING"
    /\ freeSpace(s) > MAX_SINGLE_LINE_RESPONSE
    /\ currentCommand[s] # NULL \/ commands[s] # <<>>

Resuming(s) == currentCommand[s] # NULL

Oldest(s) == IF Resuming(s) THEN currentCommand[s] ELSE Head(commands[s])

popStateNeeded(op) ==
    CASE op \in {"USER", "PASS"} -> "AUTHENTICATION"
      [] op \in {"QUIT", "CAPA"} -> "ANY"
      [] OTHER -> "TRANSACTION"

\* Slip: a session that has its maildrop is taken for one in TRANSACTION.
ExecutesAfterQuit(s, ops) ==
    /\ MayExecute(s)
    /\ Oldest(s).op \in ops \ {"INVALID"}
    /\ \/ Resuming(s) \/ popStateNeeded(Oldest(s).op) \in {"ANY", sessionState[s]}
       \/ mailCache[s] # NULL /\ popStateNeeded(Oldest(s).op) = "TRANSACTION"

\* A new command is checked against the session's state, a resumed one is not.
Executes(s, ops) ==
    /\ MayExecute(s)
    /\ Oldest(s).op \in ops \ {"INVALID"}
    /\ Resuming(s) \/ popStateNeeded(Oldest(s).op) \in {"ANY", sessionState[s]}

\* The command leaves the list; it stays current when it is NOT_FINISHED.
Dequeue(s, finished) ==
    /\ commands' = [commands EXCEPT ![s] = IF Resuming(s) THEN @ ELSE Tail(@)]
    /\ currentCommand' =
         [currentCommand EXCEPT ![s] = IF finished THEN NULL ELSE Oldest(s)]

GoTo(label, s) == pc' = label /\ turn' = s

Put(s, n) == output' = [output EXCEPT ![s] = @ + n]

\* The connections that have logged in as u and are not closed.
Sessions(u) == {s \in Slots : mailCache[s] # NULL /\ username[s] = u}

(***************************************************************************)
(* Connections.                                                            *)
(***************************************************************************)
Zeroed(f, C, zero) == [s \in Slots |-> IF s \in C THEN zero ELSE f[s]]

\* Slip: the slot is marked free without being zeroed.
FreeSlots(C) ==
    /\ allocated' = allocated \ C
    /\ sessionState' = Zeroed(sessionState, C, "ANY")
    /\ clientState' = Zeroed(clientState, C, "READING")
    /\ commands' = Zeroed(commands, C, <<>>)
    /\ currentCommand' = Zeroed(currentCommand, C, NULL)
    /\ mailCache' = Zeroed(mailCache, C, NULL)
    /\ output' = Zeroed(output, C, 0)
    /\ UNCHANGED <<username, listed>>

\* The memset of closeClient.
ClearSlots(C) ==
    /\ allocated' = allocated \ C
    /\ sessionState' = Zeroed(sessionState, C, "ANY")
    /\ clientState' = Zeroed(clientState, C, "READING")
    /\ username' = Zeroed(username, C, NULL)
    /\ commands' = Zeroed(commands, C, <<>>)
    /\ currentCommand' = Zeroed(currentCommand, C, NULL)
    /\ mailCache' = Zeroed(mailCache, C, NULL)
    /\ output' = Zeroed(output, C, 0)
    /\ listed' = Zeroed(listed, C, <<>>)

\* Slip: a closed connection leaves its user connected.
keepUserConnected(u) == UNCHANGED connected

\* The flag of the user the slot has named is cleared, whoever set it.
toggleUserConnectedOff(u) == connected' = connected \ {u}

closeClient(s) ==
    /\ toggleUserConnectedOff(username[s])
    /\ ClearSlots({s})
    /\ lockLost' = IF Sessions(username[s]) \ {s} # {}
                   THEN lockLost \cup {username[s]}
                   ELSE lockLost \ {username[s]}

acceptConnection(s) ==
    /\ pc = "loop"
    /\ historicConnections < MaxAccepts
    /\ s \notin allocated
    /\ \A t \in Slots \ allocated : s <= t
    /\ allocated' = allocated \cup {s}
    /\ sessionState' = [sessionState EXCEPT ![s] = "AUTHENTICATION"]
    /\ clientState' = [clientState EXCEPT ![s] = "WRITING"]
    /\ commands' = [commands EXCEPT ![s] = <<>>]
    /\ Put(s, LINE)
    /\ concurrentConnections' = concurrentConnections + 1
    /\ historicConnections' = historicConnections + 1
    /\ UNCHANGED <<username, currentCommand, mailCache, listed, userVars,
                   maildir, pc, turn, mailInfo, lockLost>>

\* A failed accept(), or a connection too many, ends the process.
acceptExits ==
    /\ pc = "loop"
    /\ IF allocated = Slots THEN pc' \in {"accept failed", "table full"}
                            ELSE pc' = "accept failed"
    /\ turn' = 0
    /\ UNCHANGED <<slotVars, userVars, statVars, maildir, mailInfo, lockLost>>

\* recv() completes the lines of a batch; an empty batch is part of a line.
readFromClient(s) ==
    /\ pc = "loop"
    /\ s \in allocated
    /\ clientState[s] = "READING"
    /\ \E lines \in Inputs : commands' = [commands EXCEPT ![s] = @ \o lines]
    /\ clientState' = [clientState EXCEPT ![s] = "WRITING"]
    /\ UNCHANGED <<allocated, sessionState, username, currentCommand, mailCache,
                   output, listed, userVars, statVars, maildir, pc, turn,
                   mailInfo, lockLost>>

\* Slip: a connection that is dropped has its marks carried out.
readEofCommits(s) ==
    /\ pc = "loop"
    /\ s \in allocated
    /\ clientState[s] = "READING"
    /\ maildir' = IF sessionState[s] = "TRANSACTION"
                  THEN [maildir EXCEPT ![username[s]] =
                                           @ \ MarkedMails(mailCache[s])]
                  ELSE maildir
    /\ closeClient(s)
    /\ concurrentConnections' = concurrentConnections - 1
    /\ UNCHANGED <<historicConnections, registered, password, pc, turn, mailInfo>>

readEof(s) ==
    /\ pc = "loop"
    /\ s \in allocated
    /\ clientState[s] = "READING"
    /\ closeClient(s)
    /\ concurrentConnections' = concurrentConnections - 1
    /\ UNCHANGED <<historicConnections, registered, password, maildir, pc, turn,
                   mailInfo>>

\* handleClients comes to writeToClient, after a command or with none to run.
WriteTurn(s) ==
    \/ pc = "write" /\ turn = s
    \/ /\ pc = "loop" /\ s \in allocated /\ clientState[s] = "WRITING"
       /\ ~MayExecute(s)

\* Slip: the connection is read from while lines wait to be executed.
writeThenRead(s) ==
    /\ WriteTurn(s)
    /\ \E sent \in 0..output[s] :
        /\ sent = 0 => output[s] = 0
        /\ output' = [output EXCEPT ![s] = @ - sent]
    /\ clientState' = [clientState EXCEPT ![s] =
           IF output'[s] = 0 /\ currentCommand[s] = NULL THEN "READING" ELSE @]
    /\ GoTo("reap", s)
    /\ UNCHANGED <<allocated, sessionState, username, commands, currentCommand,
                   mailCache, listed, userVars, statVars, maildir, mailInfo,
                   lockLost>>

writeToClient(s) ==
    /\ WriteTurn(s)
    /\ \E sent \in 0..output[s] :
        /\ sent = 0 => output[s] = 0
        /\ output' = [output EXCEPT ![s] = @ - sent]
    /\ clientState' = [clientState EXCEPT ![s] =
           IF output'[s] = 0 /\ commands[s] = <<>> /\ currentCommand[s] = NULL
           THEN "READING" ELSE @]
    /\ GoTo("reap", s)
    /\ UNCHANGED <<allocated, sessionState, username, commands, currentCommand,
                   mailCache, listed, userVars, statVars, maildir, mailInfo,
                   lockLost>>

\* The turn goes on, with a slot that has been zeroed.
sendFails(s) ==
    /\ WriteTurn(s)
    /\ output[s] > 0
    /\ closeClient(s)
    /\ GoTo("reap", s)
    /\ UNCHANGED <<registered, password, statVars, maildir, mailInfo>>

\* Slip: the connection is counted out at the end of every turn.
reapAndCount(s) ==
    /\ pc = "reap" /\ turn = s
    /\ IF clientState[s] = "READING" /\ sessionState[s] = "UPDATE"
       THEN closeClient(s)
       ELSE UNCHANGED <<slotVars, connected, lockLost>>
    /\ concurrentConnections' = concurrentConnections - 1
    /\ GoTo("loop", 0)
    /\ UNCHANGED <<historicConnections, registered, password, maildir, mailInfo>>

\* The end of the turn: a session that has quit and has nothing left to send.
reap(s) ==
    /\ pc = "reap" /\ turn = s
    /\ IF clientState[s] = "READING" /\ sessionState[s] = "UPDATE"
       THEN closeClient(s)
       ELSE UNCHANGED <<slotVars, connected, lockLost>>
    /\ GoTo("loop", 0)
    /\ UNCHANGED <<registered, password, statVars, maildir, mailInfo>>

\* SIGTERM: closeAllClients, then removeAllUserNodes.
shutdown ==
    /\ pc = "loop"
    /\ ClearSlots(allocated)
    /\ registered' = {} /\ connected' = {}
    /\ lockLost' = {}
    /\ GoTo("down", 0)
    /\ UNCHANGED <<password, statVars, maildir, mailInfo>>

(***************************************************************************)
(* Commands.                                                               *)
(***************************************************************************)
\* The parser rejected the line, or the session's state does.
refuse(s) ==
    /\ MayExecute(s)
    /\ ~Resuming(s)
    /\ \/ Oldest(s).op = "INVALID"
       \/ popStateNeeded(Oldest(s).op) \notin {"ANY", sessionState[s]}
    /\ Put(s, LINE)
    /\ Dequeue(s, TRUE)
    /\ GoTo("write", s)
    /\ UNCHANGED <<allocated, sessionState, clientState, username, mailCache,
                   listed, userVars, statVars, maildir, mailInfo, lockLost>>

checkValidUsername(s) ==
    LET fits == LINE <= freeSpace(s) IN
    /\ Executes(s, {"USER"})
    /\ Put(s, Written(freeSpace(s), LINE))
    /\ username' = [username EXCEPT ![s] = IF fits THEN Oldest(s).arg ELSE @]
    /\ Dequeue(s, fits)
    /\ GoTo("write", s)
    /\ UNCHANGED <<allocated, sessionState, clientState, mailCache, listed,
                   userVars, statVars, maildir, mailInfo, lockLost>>

validPassword(u, p) == u \in registered /\ password[u] = p

\* Slip: the lock is taken without being tested.
checkPasswordOnly(s) ==
    LET u == username[s] IN
    /\ Executes(s, {"PASS"})
    /\ IF validPassword(u, Oldest(s).arg)
       THEN /\ connected' = connected \cup {u}
            /\ \E c \in initCaches(u) : mailCache' = [mailCache EXCEPT ![s] = c]
            /\ sessionState' = [sessionState EXCEPT ![s] = "TRANSACTION"]
       ELSE UNCHANGED <<connected, mailCache, sessionState>>
    /\ Put(s, Written(freeSpace(s), LINE))
    /\ Dequeue(s, LINE <= freeSpace(s))
    /\ GoTo("write", s)
    /\ UNCHANGED <<allocated, clientState, username, listed, registered,
                   password, statVars, maildir, mailInfo, lockLost>>

\* Right password of a user who is not connected: the maildrop is locked and
\* read.  Any other: an error, and nothing changes.
checkValidPassword(s) ==
    LET u == username[s] IN
    /\ Executes(s, {"PASS"})
    /\ IF validPassword(u, Oldest(s).arg) /\ u \notin connected
       THEN /\ connected' = connected \cup {u}
            /\ \E c \in initCaches(u) : mailCache' = [mailCache EXCEPT ![s] = c]
            /\ sessionState' = [sessionState EXCEPT ![s] = "TRANSACTION"]
       ELSE UNCHANGED <<connected, mailCache, sessionState>>
    /\ Put(s, Written(freeSpace(s), LINE))
    /\ Dequeue(s, LINE <= freeSpace(s))
    /\ GoTo("write", s)
    /\ UNCHANGED <<allocated, clientState, username, listed, registered,
                   password, statVars, maildir, mailInfo, lockLost>>

\* CAPA is NOT_FINISHED when its answer does not fit.
capa(s) ==
    /\ Executes(s, {"CAPA"})
    /\ Put(s, Written(freeSpace(s), LINE))
    /\ Dequeue(s, LINE <= freeSpace(s))
    /\ GoTo("write", s)
    /\ UNCHANGED <<allocated, sessionState, clientState, username, mailCache,
                   listed, userVars, statVars, maildir, mailInfo, lockLost>>

\* STAT, NOOP and LIST with a number answer in one line and change nothing.
report(s) ==
    /\ Executes(s, {"STAT", "NOOP", "LISTNO"})
    /\ Put(s, Written(freeSpace(s), LINE))
    /\ Dequeue(s, TRUE)
    /\ GoTo("write", s)
    /\ UNCHANGED <<allocated, sessionState, clientState, username, mailCache,
                   listed, userVars, statVars, maildir, mailInfo, lockLost>>

\* Slip: the file goes when it is marked.
deleUnlinks(s) ==
    LET n == Oldest(s).arg
        c == mailCache[s] IN
    /\ Executes(s, {"DELE"})
    /\ IF validMailNo(c, n)
       THEN /\ mailCache' = [mailCache EXCEPT ![s] = markMailToDelete(c, n)]
            /\ maildir' = [maildir EXCEPT ![username[s]] = @ \ {c.files[n]}]
       ELSE UNCHANGED <<mailCache, maildir>>
    /\ Put(s, Written(freeSpace(s), LINE))
    /\ Dequeue(s, TRUE)
    /\ GoTo("write", s)
    /\ UNCHANGED <<allocated, sessionState, clientState, username, listed,
                   userVars, statVars, mailInfo, lockLost>>

dele(s) ==
    LET n == Oldest(s).arg
        c == mailCache[s] IN
    /\ Executes(s, {"DELE"})
    /\ mailCache' = [mailCache EXCEPT ![s] =
           IF validMailNo(c, n) THEN markMailToDelete(c, n) ELSE c]
    /\ Put(s, Written(freeSpace(s), LINE))
    /\ Dequeue(s, TRUE)
    /\ GoTo("write", s)
    /\ UNCHANGED <<allocated, sessionState, clientState, username, listed,
                   userVars, statVars, maildir, mailInfo, lockLost>>

rset(s) ==
    /\ Executes(s, {"RSET"})
    /\ mailCache' = [mailCache EXCEPT ![s] = resetToDelete(@)]
    /\ Put(s, Written(freeSpace(s), LINE))
    /\ Dequeue(s, TRUE)
    /\ GoTo("write", s)
    /\ UNCHANGED <<allocated, sessionState, clientState, username, listed,
                   userVars, statVars, maildir, mailInfo, lockLost>>

\* deleteMarkedMails: what unlink() returns is not looked at.
quit(s) ==
    /\ Executes(s, {"QUIT"})
    /\ IF sessionState[s] = "TRANSACTION"
       THEN \E gone \in SUBSET MarkedMails(mailCache[s]) :
                maildir' = [maildir EXCEPT ![username[s]] = @ \ gone]
       ELSE UNCHANGED maildir
    /\ sessionState' = [sessionState EXCEPT ![s] = "UPDATE"]
    /\ Put(s, Written(freeSpace(s), LINE))
    /\ Dequeue(s, TRUE)
    /\ GoTo("write", s)
    /\ UNCHANGED <<allocated, clientState, username, mailCache, listed,
                   userVars, statVars, mailInfo, lockLost>>

(***************************************************************************)
(* LIST without a number.  Each round allocates a mailInfo and prints      *)
(* while the buffer has room; the iterator survives from round to round.   *)
(***************************************************************************)
\* Slip: a new LIST goes on where the last one stopped.
listOn(s) ==
    /\ Executes(s, {"LIST"})
    /\ IF Resuming(s)
       THEN UNCHANGED <<output, listed>>
       ELSE /\ Put(s, Written(freeSpace(s), LINE))
            /\ listed' = [listed EXCEPT ![s] = <<>>]
    /\ Dequeue(s, FALSE)
    /\ mailInfo' = 0
    /\ GoTo("list", s)
    /\ UNCHANGED <<allocated, sessionState, clientState, username, mailCache,
                   userVars, statVars, maildir, lockLost>>

list(s) ==
    /\ Executes(s, {"LIST"})
    /\ IF Resuming(s)
       THEN UNCHANGED <<output, mailCache, listed>>
       ELSE /\ Put(s, Written(freeSpace(s), LINE))
            /\ mailCache' = [mailCache EXCEPT ![s].iterator = 0]
            /\ listed' = [listed EXCEPT ![s] = <<>>]
    /\ Dequeue(s, FALSE)
    /\ mailInfo' = 0
    /\ GoTo("list", s)
    /\ UNCHANGED <<allocated, sessionState, clientState, username, userVars,
                   statVars, maildir, lockLost>>

ListsOn(s) ==
    /\ freeSpace(s) > MAX_SINGLE_LINE_RESPONSE
    /\ mailCache[s].iterator < mailCount(mailCache[s])

\* next() skips the marked mails.  When only marked ones are left it returns
\* FAILED, which is not negative: the line is printed all the same, from the
\* mailInfo of the line before or from memory that was never written.
continueList(s) ==
    LET c == mailCache[s] IN
    /\ pc = "list" /\ turn = s
    /\ ListsOn(s)
    /\ \/ \E n \in Remaining(c) :
           /\ \A m \in Remaining(c) : n <= m
           /\ mailCache' = [mailCache EXCEPT ![s].iterator = n]
           /\ mailInfo' = n
       \/ /\ Remaining(c) = {}
          /\ mailCache' = [mailCache EXCEPT ![s].iterator = mailCount(c)]
          /\ IF mailInfo = 0 THEN mailInfo' \in 0..mailCount(c)
                             ELSE UNCHANGED mailInfo
    /\ listed' = [listed EXCEPT ![s] = Append(@, mailInfo')]
    /\ Put(s, Written(freeSpace(s), LINE))
    /\ UNCHANGED <<allocated, sessionState, clientState, username, commands,
                   currentCommand, userVars, statVars, maildir, pc, turn,
                   lockLost>>

\* Slip: an off-by-one in the test of the end: the command never finishes.
neverEndList(s) ==
    LET finished == mailCache[s].iterator > mailCount(mailCache[s]) IN
    /\ pc = "list" /\ turn = s
    /\ ~ListsOn(s)
    /\ currentCommand' =
         [currentCommand EXCEPT ![s] = IF finished THEN NULL ELSE @]
    /\ Put(s, IF finished THEN Written(freeSpace(s), TERMINATOR) ELSE 0)
    /\ mailInfo' = 0
    /\ listed' = [listed EXCEPT ![s] = IF finished THEN <<>> ELSE @]
    /\ GoTo("write", s)
    /\ UNCHANGED <<allocated, sessionState, clientState, username, commands,
                   mailCache, userVars, statVars, maildir, lockLost>>

endList(s) ==
    LET finished == mailCache[s].iterator >= mailCount(mailCache[s]) IN
    /\ pc = "list" /\ turn = s
    /\ ~ListsOn(s)
    /\ currentCommand' =
         [currentCommand EXCEPT ![s] = IF finished THEN NULL ELSE @]
    /\ Put(s, IF finished THEN Written(freeSpace(s), TERMINATOR) ELSE 0)
    /\ mailInfo' = 0
    /\ listed' = [listed EXCEPT ![s] = IF finished THEN <<>> ELSE @]
    /\ GoTo("write", s)
    /\ UNCHANGED <<allocated, sessionState, clientState, username, commands,
                   mailCache, userVars, statVars, maildir, lockLost>>

(***************************************************************************)
(* RETR.  A round copies what fits; a short read is the end of the file.   *)
(***************************************************************************)
retrRefused(s) ==
    /\ Executes(s, {"RETR"})
    /\ ~Resuming(s)
    /\ ~validMailNo(mailCache[s], Oldest(s).arg)
    /\ Put(s, Written(freeSpace(s), LINE))
    /\ Dequeue(s, TRUE)
    /\ GoTo("write", s)
    /\ UNCHANGED <<allocated, sessionState, clientState, username, mailCache,
                   listed, userVars, statVars, maildir, mailInfo, lockLost>>

\* fopen() of a file that is gone: a FATAL log, which exits.
Opens(s) ==
    /\ Executes(s, {"RETR"})
    /\ ~Resuming(s)
    /\ validMailNo(mailCache[s], Oldest(s).arg)

OnDisk(s) == mailCache[s].files[Oldest(s).arg] \in maildir[username[s]]

openFails(s) ==
    /\ Opens(s)
    /\ ~OnDisk(s)
    /\ GoTo("open failed", 0)
    /\ UNCHANGED <<slotVars, userVars, statVars, maildir, mailInfo, lockLost>>

\* The reply line that precedes the mail, and what is left to read of it.
Header(s) == IF Resuming(s) THEN 0 ELSE Written(freeSpace(s), LINE)

ToRead(s) == IF Resuming(s) THEN mailCache[s].left ELSE SIZE

Room(s) == freeSpace(s) - Header(s)

\* Nothing is read when there would be no line's room left.
Copied(s) ==
    IF Room(s) <= MAX_SINGLE_LINE_RESPONSE THEN 0
    ELSE IF ToRead(s) < Room(s) THEN ToRead(s) ELSE Room(s)

ReachesEof(s) == Room(s) > MAX_SINGLE_LINE_RESPONSE /\ ToRead(s) < Room(s)

\* One round of RETR: finished, it asks for the terminator and closes the mail.
retr(s) ==
    /\ Executes(s, {"RETR"})
    /\ Resuming(s) \/ (Opens(s) /\ OnDisk(s))
    /\ mailCache' = [mailCache EXCEPT
           ![s].mail = IF ReachesEof(s) THEN 0 ELSE Oldest(s).arg,
           ![s].left = ToRead(s) - Copied(s)]
    /\ Put(s, Header(s) + Copied(s) +
              IF ReachesEof(s) THEN Written(Room(s) - Copied(s), TERMINATOR)
                               ELSE 0)
    /\ Dequeue(s, ReachesEof(s))
    /\ GoTo("write", s)
    /\ UNCHANGED <<allocated, sessionState, clientState, username, listed,
                   userVars, statVars, maildir, mailInfo, lockLost>>

\* A read error: the command ends as FAILED, with the mail left open.
readFails(s) ==
    /\ Executes(s, {"RETR"})
    /\ Resuming(s) \/ (Opens(s) /\ OnDisk(s))
    /\ Room(s) > MAX_SINGLE_LINE_RESPONSE
    /\ mailCache' = [mailCache EXCEPT ![s].mail = Oldest(s).arg]
    /\ Put(s, Header(s))
    /\ Dequeue(s, TRUE)
    /\ GoTo("write", s)
    /\ UNCHANGED <<allocated, sessionState, clientState, username, listed,
                   userVars, statVars, maildir, mailInfo, lockLost>>

(***************************************************************************)
(* The monitoring commands that change the list of users.                  *)
(***************************************************************************)
addUser(u, p) ==
    /\ pc = "loop"
    /\ registered' = registered \cup {u}
    /\ password' = [password EXCEPT ![u] = p]
    /\ UNCHANGED <<slotVars, connected, statVars, maildir, pc, turn, mailInfo,
                   lockLost>>

modifyUserPassword(u, p) ==
    /\ pc = "loop"
    /\ u \in registered
    /\ password' = [password EXCEPT ![u] = p]
    /\ UNCHANGED <<slotVars, registered, connected, statVars, maildir, pc, turn,
                   mailInfo, lockLost>>

deleteUser(u) ==
    /\ pc = "loop"
    /\ registered' = registered \ {u}
    /\ connected' = connected \ {u}
    /\ lockLost' = IF Sessions(u) # {} THEN lockLost \cup {u} ELSE lockLost
    /\ UNCHANGED <<slotVars, password, statVars, maildir, pc, turn, mailInfo>>

-----------------------------------------------------------------------------
Init ==
    /\ allocated = {}
    /\ sessionState = [s \in Slots |-> "ANY"]
    /\ clientState = [s \in Slots |-> "READING"]
    /\ username = [s \in Slots |-> NULL]
    /\ commands = [s \in Slots |-> <<>>]
    /\ currentCommand = [s \in Slots |-> NULL]
    /\ mailCache = [s \in Slots |-> NULL]
    /\ output = [s \in Slots |-> 0]
    /\ listed = [s \in Slots |-> <<>>]
    /\ registered = InitialUsers
    /\ \E p \in Passwords : password = [u \in Users |-> p]
    /\ connected = {}
    /\ maildir = InitialMail
    /\ concurrentConnections = 0
    /\ historicConnections = 0
    /\ pc = "loop" /\ turn = 0 /\ mailInfo = 0
    /\ lockLost = {}

Execute(s) ==
    \/ refuse(s) \/ checkValidUsername(s) \/ checkValidPassword(s)
    \/ capa(s) \/ report(s) \/ dele(s) \/ rset(s) \/ quit(s) \/ list(s)
    \/ retrRefused(s) \/ openFails(s) \/ retr(s) \/ readFails(s)

\* What the server does for a connection it has something to write to.
Serve(s) == Execute(s) \/ writeToClient(s)

FinishTurn(s) == continueList(s) \/ endList(s) \/ reap(s)

Administer ==
    \E u \in Administered :
        \/ \E p \in Passwords : addUser(u, p) \/ modifyUserPassword(u, p)
        \/ deleteUser(u)

Next ==
    \/ \E s \in Slots :
        \/ acceptConnection(s) \/ readFromClient(s) \/ readEof(s)
        \/ Serve(s) \/ sendFails(s) \/ FinishTurn(s)
    \/ acceptExits \/ shutdown \/ Administer

Spec == Init /\ [][Next]_vars

(***************************************************************************)
(* A turn that has begun goes on (one thread, no blocking call in it), and *)
(* each pass of the loop serves every slot that select() reports writable; *)
(* a turn is possible only between the others' turns, hence SF.            *)
(***************************************************************************)
Fairness ==
    \A s \in Slots : SF_vars(Serve(s)) /\ WF_vars(FinishTurn(s))

FairSpec == Spec /\ Fairness

-----------------------------------------------------------------------------
(***************************************************************************)
(* Properties of the table of connections and of a turn.                   *)
(***************************************************************************)
\* Every variable keeps its type; in particular no counter goes below zero.
TypeOK ==
    /\ allocated \subseteq Slots
    /\ sessionState \in
         [Slots -> {"ANY", "AUTHENTICATION", "TRANSACTION", "UPDATE"}]
    /\ clientState \in [Slots -> {"READING", "WRITING"}]
    /\ username \in [Slots -> Users \cup {NULL}]
    /\ commands \in [Slots -> Seq(Command)]
    /\ currentCommand \in [Slots -> Command \cup {NULL}]
    /\ mailCache \in [Slots -> Cache \cup {NULL}]
    /\ output \in [Slots -> Nat]
    /\ listed \in [Slots -> Seq(Nat)]
    /\ registered \subseteq Users
    /\ password \in [Users -> Passwords]
    /\ connected \subseteq registered
    /\ maildir \in [Users -> SUBSET Mail]
    /\ concurrentConnections \in Nat
    /\ historicConnections \in Nat
    /\ pc \in {"loop", "write", "reap", "list"} \cup Exits
    /\ turn \in Slots \cup {0}
    /\ mailInfo \in Nat
    /\ lockLost \subseteq Users

\* The output buffer never overflows, so the FATAL log of writeDataToBuffer
\* ("Buffer is full, this shouldnt happen") never ends the server: the greeting,
\* the refusals and the bytes written back after a partial send() are written
\* without looking at the room there is (circularBuffer.c, clients.c).
OutputFits == \A s \in Slots : output[s] <= BUFFERSIZE

\* A connection is read from only when it has nothing to execute or to send:
\* handleClients looks at one direction of a connection, so anything pending
\* would wait for the client to send more (clients.c, writeToClient).
ReadingMeansIdle ==
    \A s \in allocated :
        clientState[s] = "READING" =>
            output[s] = 0 /\ commands[s] = <<>> /\ currentCommand[s] = NULL

\* A free slot keeps nothing of the connection it held: its next connection
\* cannot find another's output, name, marks or lines (clients.c, closeClient).
SlotClean ==
    \A s \in Slots \ allocated :
        /\ sessionState[s] = "ANY" /\ clientState[s] = "READING"
        /\ username[s] = NULL /\ commands[s] = <<>>
        /\ currentCommand[s] = NULL /\ mailCache[s] = NULL /\ output[s] = 0

\* A session in TRANSACTION has a maildrop and its owner, one that has not
\* logged in has none, and only a session in TRANSACTION has a command that is
\* not finished: the handlers never look for a cache (serverUtils.c,
\* executeFirstCommand, which tests the state of new commands only).
SessionCoherent ==
    \A s \in Slots :
        /\ sessionState[s] = "TRANSACTION" => mailCache[s] # NULL
        /\ sessionState[s] = "AUTHENTICATION" => mailCache[s] = NULL
        /\ mailCache[s] # NULL => username[s] # NULL
        /\ currentCommand[s] # NULL =>
             /\ sessionState[s] = "TRANSACTION"
             /\ currentCommand[s].op \in {"LIST", "RETR"}

\* A RETR that goes on in a later turn finds its own mail still open, with room
\* for no byte more than the mail had (popFunctions.c, retr; mailsCache.c).
RetrResumable ==
    \A s \in Slots :
        currentCommand[s] # NULL /\ currentCommand[s].op = "RETR" =>
            /\ mailCache[s].mail = currentCommand[s].arg
            /\ mailCache[s].left <= SIZE

\* No reply is dropped: whatever command leaves the list puts something in the
\* output buffer, though every handler gives up silently when the buffer is full
\* (popFunctions.c, writeToOutputBuffer; serverUtils.c, handleClients).
EveryCommandAnswered ==
    [][\A s \in allocated :
         s \in allocated' /\ Len(commands'[s]) < Len(commands[s]) =>
             output'[s] > output[s]]_vars

\* The monitoring client is never told of fewer connections than there are
\* (stats.c).  It is told of more: readEof alone counts a connection out, and one
\* that ends by QUIT or by a failed send stays in the count.
ConnectionsNotUndercounted == concurrentConnections >= Cardinality(allocated)

(***************************************************************************)
(* Properties of the maildrops.                                            *)
(***************************************************************************)
\* The "connected" flag is a lock on the maildrop: as long as it has not been
\* cleared under a session, a user has one session (popFunctions.c,
\* checkValidPassword; clients.c, closeClient).
ExclusiveMaildrop ==
    \A u \in Users \ lockLost : \A s, t \in Sessions(u) : s = t

\* No user is locked out: whoever is connected has a session that is still in
\* the table, whatever way the sessions before it ended (users.c).
NoOrphanLock == \A u \in connected : Sessions(u) # {}

\* What a session has been shown is on disk while it holds its lock, so that a
\* RETR opens the mail (mailsCache.c, initCache and openMail).
SnapshotOnDisk ==
    \A s \in Slots :
        sessionState[s] = "TRANSACTION" /\ username[s] \notin lockLost =>
            Range(mailCache[s].files) \subseteq maildir[username[s]]

\* The two records of the marks agree: STAT and LIST count with one and skip
\* with the other (mailsCache.c, markMailToDelete and resetToDelete).
MarkCount ==
    \A s \in Slots :
        mailCache[s] # NULL =>
            /\ mailCache[s].markedToDelete = Cardinality(mailCache[s].toDelete)
            /\ mailCache[s].toDelete \subseteq 1..mailCount(mailCache[s])

\* A LIST that ends has printed every unmarked mail once, in order, and its
\* terminator, over however many turns it took, and whatever was executed in
\* between for others; provided that the last mail is not marked, see
\* ListingExact (popFunctions.c, continueList; mailsCache.c, next).
InOrder(numbers) ==
    \A i, j \in DOMAIN numbers : i < j => numbers[i] < numbers[j]

ListsUnmarked(numbers, c) ==
    InOrder(numbers) /\ Range(numbers) = (1..mailCount(c)) \ c.toDelete

ListEnds(s) ==
    /\ pc = "list" /\ turn = s
    /\ pc' = "write" /\ currentCommand'[s] = NULL

ListingSound ==
    [][\A s \in Slots :
         ListEnds(s) /\ mailCount(mailCache[s]) \notin mailCache[s].toDelete =>
             /\ ListsUnmarked(listed[s], mailCache[s])
             /\ output'[s] = output[s] + TERMINATOR]_vars

(***************************************************************************)
(* The mails are kept as Maildrop promises.                                *)
(***************************************************************************)
InTransaction(s) == sessionState[s] = "TRANSACTION"

StateOf(s) ==
    IF s \notin allocated THEN "closed"
    ELSE CASE sessionState[s] = "AUTHENTICATION" -> "authorization"
           [] InTransaction(s) -> "transaction"
           [] OTHER -> "update"

OwnerOf(s) == IF InTransaction(s) THEN username[s] ELSE NULL

SnapshotOf(s) == IF InTransaction(s) THEN Range(mailCache[s].files) ELSE {}

MarksOf(s) == IF InTransaction(s) THEN MarkedMails(mailCache[s]) ELSE {}

Promise == INSTANCE Maildrop WITH
    Connections <- Slots,
    state <- [s \in Slots |-> StateOf(s)],
    owner <- [s \in Slots |-> OwnerOf(s)],
    snapshot <- [s \in Slots |-> SnapshotOf(s)],
    marks <- [s \in Slots |-> MarksOf(s)],
    maildrop <- maildir

\* The server implements Maildrop: no mail is lost but by a QUIT of the session
\* that marked it (which passes over what unlink() could not remove), RSET takes
\* back every mark, an end of the connection or of the server deletes nothing.
MaildropSpec == Promise!Spec

(***************************************************************************)
(* Liveness.                                                               *)
(***************************************************************************)
\* What has been asked is answered: the connection gets to be read from again,
\* or has ended, unless the server has (clients.c, serverUtils.c).
Served ==
    \A s \in Slots :
        s \in allocated /\ clientState[s] = "WRITING"
            ~> s \notin allocated \/ clientState[s] = "READING" \/ pc \in Exits

(***************************************************************************)
(* What documents and messages say, and the code does not do.              *)
(***************************************************************************)
\* "This user is already connected" (popFunctions.c): one session to a user.
OneSession == \A u \in Users : \A s, t \in Sessions(u) : s = t

\* "Buffer has at least MAX_SINGLE_LINE_RESPONSE to write a final string"
\* (popFunctions.c, continueRetr): a RETR that ends writes its terminator.
RetrTerminated ==
    [][\A s \in Slots :
         retr(s) /\ currentCommand'[s] = NULL =>
             output'[s] = output[s] + Header(s) + ToRead(s) + TERMINATOR]_vars

\* "There are %d messages available" (popFunctions.c): LIST prints as many.
ListingExact ==
    [][\A s \in Slots :
         ListEnds(s) => ListsUnmarked(listed[s], mailCache[s])]_vars
=============================================================================
