----------------------------- MODULE EventLoop ------------------------------
(***************************************************************************)
(* The loop of the server (server/main.c) with its select(), the sets of   *)
(* descriptors it builds from the table (serverUtils.c) and the signals    *)
(* that end it.  What a turn of a connection does is PopServer's matter:   *)
(* here it leaves the connection reading, writing or closed, and may open  *)
(* or close the file of a mail.                                            *)
(*                                                                         *)
(* A call on a descriptor that is not ready blocks the only thread: its    *)
(* action is not enabled.                                                  *)
(***************************************************************************)
EXTENDS Integers, FiniteSets

CONSTANTS
    MAX_CONNECTIONS,
    FD_SETSIZE,             \* of an fd_set
    MaxConnects             \* bound: connections, and datagrams, of a run

ASSUME TableAssumption == MAX_CONNECTIONS \in Nat \ {0} /\ MaxConnects \in Nat

\* Two descriptors to a connection, the server's two sockets and its outputs.
ASSUME SetSizeAssumption == FD_SETSIZE \in Nat /\ 2 * MAX_CONNECTIONS + 3 <= FD_SETSIZE

Slots == 0..(MAX_CONNECTIONS - 1)
NOT_ALLOCATED == -1
servSock == 0               \* stdin was closed

\* setupUDPServerSocket gives 1 when it fails, which main takes for a descriptor:
\* that of the output, which may be readable or not, and is no socket.
udpSockets == {3, 1}

VARIABLES
    \* the loop
    pc, i,                  \* where it is, and the entry handleClients is at
    serverRunning,
    udpServSock,
    readFds, writeFds, maxSock,
    \* the table, and the file of the mail each connection has open
    socket, clientState, mailFile,
    \* the kernel: waiting connections and datagrams, sockets that are ready
    backlog, datagrams, readable, writable,
    connects                \* history variable: connections and datagrams so far

loop == <<pc, i>>
setup == <<serverRunning, udpServSock>>
sets == <<readFds, writeFds, maxSock>>
table == <<socket, clientState, mailFile>>
kernel == <<backlog, datagrams, readable, writable, connects>>
vars == <<loop, setup, sets, table, kernel>>

Init ==
    /\ pc = "test" /\ i = 0 /\ serverRunning = TRUE
    /\ udpServSock \in udpSockets
    /\ readFds = {} /\ writeFds = {} /\ maxSock = 0
    /\ socket = [s \in Slots |-> NOT_ALLOCATED]
    /\ clientState = [s \in Slots |-> "READING"]
    /\ mailFile = [s \in Slots |-> {}]
    /\ backlog = 0 /\ datagrams = 0 /\ writable = {} /\ connects = 0
    /\ readable \in IF udpServSock = 1 THEN {{}, {1}} ELSE {{}}

Allocated == {s \in Slots : socket[s] # NOT_ALLOCATED}

Open ==
    {servSock, 1, 2, udpServSock} \cup {socket[s] : s \in Allocated}
        \cup UNION {mailFile[s] : s \in Slots}

\* The kernel gives the lowest descriptor that is free, one descriptor: when as
\* many are open as there are below it, at the latest.
Lowest(open) ==
    {fd \in 0..Cardinality(open) : fd \notin open /\ 0..(fd - 1) \subseteq open}

-----------------------------------------------------------------------------
(***************************************************************************)
(* One pass of the loop.                                                   *)
(***************************************************************************)
\* Slip: the flag is not read again.
runsOn ==
    /\ pc = "test" /\ pc' = "prepare"
    /\ UNCHANGED <<i, setup, sets, table, kernel>>

running ==
    /\ pc = "test" /\ serverRunning /\ pc' = "prepare"
    /\ UNCHANGED <<i, setup, sets, table, kernel>>

\* closeAllClients, and the sockets.
exits ==
    /\ pc = "test" /\ ~serverRunning /\ pc' = "exited"
    /\ UNCHANGED <<i, setup, sets, table, kernel>>

In(state) == {socket[s] : s \in {s \in Allocated : clientState[s] = state}}

\* Slip: the highest descriptor is that of the sockets of the server.
HighestOfServer == {udpServSock}

\* One descriptor: servSock is below.
Highest ==
    {fd \in {udpServSock} \cup {socket[s] : s \in Allocated} :
        udpServSock <= fd /\ \A s \in Allocated : socket[s] <= fd}

addClientsSocketsToSet ==
    /\ pc = "prepare"
    /\ readFds' = {servSock, udpServSock} \cup In("READING")
    /\ writeFds' = In("WRITING")
    /\ maxSock' \in Highest
    /\ pc' = "select"
    /\ UNCHANGED <<i, setup, table, kernel>>

CanRead(fd) ==
    \/ fd = servSock /\ backlog > 0
    \/ fd = udpServSock /\ datagrams > 0
    \/ fd \in readable

ReadyToRead == {fd \in readFds : fd <= maxSock /\ CanRead(fd)}
ReadyToWrite == {fd \in writeFds : fd <= maxSock /\ fd \in writable}
Ready == ReadyToRead \cup ReadyToWrite

selectSleeps ==
    /\ pc = "select" /\ Ready = {} /\ pc' = "asleep"
    /\ UNCHANGED <<i, setup, sets, table, kernel>>

selectReturns ==
    /\ pc \in {"select", "asleep"} /\ Ready # {}
    /\ readFds' = ReadyToRead /\ writeFds' = ReadyToWrite
    /\ pc' = "accept"
    /\ UNCHANGED <<i, setup, maxSock, table, kernel>>

nothingToAccept ==
    /\ pc = "accept" /\ servSock \notin readFds /\ pc' = "udp"
    /\ UNCHANGED <<i, setup, sets, table, kernel>>

\* No more than the table holds: the greeting is to be written.
acceptConnection ==
    /\ pc = "accept" /\ servSock \in readFds /\ backlog > 0
    /\ \E fd \in Lowest(Open), s \in Slots \ Allocated :
        /\ \A t \in Slots : t < s => t \in Allocated
        /\ socket' = [socket EXCEPT ![s] = fd]
        /\ clientState' = [clientState EXCEPT ![s] = "WRITING"]
        /\ writable' = writable \cup {fd}
    /\ backlog' = backlog - 1
    /\ pc' = "udp"
    /\ UNCHANGED <<i, setup, sets, mailFile, datagrams, readable, connects>>

\* accept() fails, or the table is full.
acceptExits ==
    /\ pc = "accept" /\ servSock \in readFds /\ backlog > 0
    /\ backlog' = backlog - 1
    /\ pc' = "exited"
    /\ UNCHANGED <<i, setup, sets, table, datagrams, readable, writable, connects>>

noDatagram ==
    /\ pc = "udp" /\ udpServSock \notin readFds /\ pc' = "clients" /\ i' = 0
    /\ UNCHANGED <<setup, sets, table, kernel>>

\* recvfrom() of what is no socket fails at once.
handleUdpRequest ==
    /\ pc = "udp" /\ udpServSock \in readFds
    /\ IF udpServSock = 1 THEN UNCHANGED datagrams
       ELSE datagrams > 0 /\ datagrams' = datagrams - 1
    /\ pc' = "clients" /\ i' = 0
    /\ UNCHANGED <<setup, sets, table, backlog, readable, writable, connects>>

-----------------------------------------------------------------------------
(***************************************************************************)
(* handleClients: the turn of entry i.                                     *)
(***************************************************************************)
\* Slip: the loop's test is off by one.
nextBeyond ==
    IF i < MAX_CONNECTIONS THEN i' = i + 1 /\ pc' = "clients"
    ELSE i' = 0 /\ pc' = "test"

nextEntry ==
    IF i + 1 < MAX_CONNECTIONS THEN i' = i + 1 /\ pc' = "clients"
    ELSE i' = 0 /\ pc' = "test"

Reported(s) == socket[s] # NOT_ALLOCATED /\ socket[s] \in readFds \cup writeFds

skip ==
    /\ pc = "clients" /\ ~Reported(i) /\ nextEntry
    /\ UNCHANGED <<setup, sets, table, kernel>>

closeClient ==
    /\ socket' = [socket EXCEPT ![i] = NOT_ALLOCATED]
    /\ clientState' = [clientState EXCEPT ![i] = "READING"]
    /\ mailFile' = [mailFile EXCEPT ![i] = {}]
    /\ readable' = readable \ {socket[i]} /\ writable' = writable \ {socket[i]}

\* recv() takes what has come, or is told of the end; an error changes nothing.
readFromClient ==
    /\ pc = "clients" /\ Reported(i)
    /\ socket[i] \in readFds /\ socket[i] \in readable
    /\ nextEntry
    /\ \/ /\ clientState' = [clientState EXCEPT ![i] = "WRITING"]
          /\ readable' = readable \ {socket[i]}
          /\ UNCHANGED <<socket, mailFile, writable>>
       \/ closeClient
       \/ UNCHANGED <<table, readable, writable>>
    /\ UNCHANGED <<setup, sets, backlog, datagrams, connects>>

\* Slip: the mail that was open stays open.
openAnother ==
    \E fd \in Lowest(Open) : mailFile' = [mailFile EXCEPT ![i] = @ \cup {fd}]

\* In place of the one that was open, if any.
openMail ==
    \E fd \in Lowest(Open \ mailFile[i]) : mailFile' = [mailFile EXCEPT ![i] = {fd}]

\* At the end of RETR, which may have been opened in the same turn.
closeMail == mailFile' = [mailFile EXCEPT ![i] = {}]

Writes(s) == Reported(s) /\ socket[s] \notin readFds /\ socket[s] \in writable

\* A command, and a send(), after which there may be something left to do, or not,
\* or no connection, and perhaps no room for more to send.
executeAndWrite ==
    /\ pc = "clients" /\ Writes(i)
    /\ nextEntry
    /\ \/ /\ openMail \/ closeMail \/ UNCHANGED mailFile
          /\ \E state \in {"READING", "WRITING"} :
                 clientState' = [clientState EXCEPT ![i] = state]
          /\ writable' \in {writable, writable \ {socket[i]}}
          /\ UNCHANGED <<socket, readable>>
       \/ closeClient
    /\ UNCHANGED <<setup, sets, backlog, datagrams, connects>>

\* The file of the mail is not there or cannot be opened: a FATAL log exits.
openFails ==
    /\ pc = "clients" /\ Writes(i) /\ pc' = "exited"
    /\ UNCHANGED <<i, setup, sets, table, kernel>>

-----------------------------------------------------------------------------
(***************************************************************************)
(* The world outside.                                                      *)
(***************************************************************************)
\* Slip: the failure of select() is logged, and the pass goes on.
afterError == "accept"

\* main goes to the test again.
afterSelectError == "test"

\* SIGTERM or SIGINT: only a select() that has begun to wait is interrupted.
sigterm_handler ==
    /\ serverRunning' = FALSE
    /\ pc' = IF pc = "asleep" THEN afterSelectError ELSE pc
    /\ UNCHANGED <<i, udpServSock, sets, table, kernel>>

arrives ==
    /\ connects < MaxConnects /\ connects' = connects + 1
    /\ \/ backlog' = backlog + 1 /\ UNCHANGED datagrams
       \/ udpServSock # 1 /\ datagrams' = datagrams + 1 /\ UNCHANGED backlog
    /\ UNCHANGED <<loop, setup, sets, table, readable, writable>>

\* A client sends or closes.
clientSends(s) ==
    /\ s \in Allocated /\ socket[s] \notin readable
    /\ readable' = readable \cup {socket[s]}
    /\ UNCHANGED <<loop, setup, sets, table, backlog, datagrams, writable, connects>>

\* A client reads what has been sent.
clientReads(s) ==
    /\ s \in Allocated /\ socket[s] \notin writable
    /\ writable' = writable \cup {socket[s]}
    /\ UNCHANGED <<loop, setup, sets, table, backlog, datagrams, readable, connects>>

-----------------------------------------------------------------------------
Loop ==
    \/ running \/ exits \/ addClientsSocketsToSet \/ selectSleeps \/ selectReturns
    \/ nothingToAccept \/ acceptConnection \/ acceptExits
    \/ noDatagram \/ handleUdpRequest
    \/ skip \/ readFromClient \/ executeAndWrite \/ openFails

\* Once the process has ended its sockets are closed.
World ==
    /\ pc # "exited"
    /\ sigterm_handler \/ arrives \/ \E s \in Slots : clientSends(s) \/ clientReads(s)

Next == Loop \/ World

Spec == Init /\ [][Next]_vars

\* The one thread goes on; select() returns when something it watches is ready.
FairSpec == Spec /\ WF_vars(Loop)

-----------------------------------------------------------------------------
(***************************************************************************)
(* Properties.                                                             *)
(***************************************************************************)
\* Types, and the bounds of the table's index and of what is waiting.
TypeOK ==
    /\ pc \in {"test", "prepare", "select", "asleep", "accept", "udp", "clients",
              "exited"}
    /\ i \in Slots
    /\ serverRunning \in BOOLEAN /\ udpServSock \in {3, 1}
    /\ readFds \subseteq Nat /\ writeFds \subseteq Nat /\ maxSock \in Nat
    /\ socket \in [Slots -> Nat \cup {NOT_ALLOCATED}]
    /\ clientState \in [Slots -> {"READING", "WRITING"}]
    /\ mailFile \in [Slots -> SUBSET Nat]
    /\ connects \in 0..MaxConnects /\ backlog \in 0..connects /\ datagrams \in 0..connects
    /\ readable \subseteq Nat /\ writable \subseteq Nat

Turn(s) == pc = "clients" /\ i = s /\ Reported(s)

\* No accept(), recvfrom(), recv() or send() is made on a descriptor that is not
\* ready: one client that says nothing would stop the server for all.  The sets
\* are used after connections were accepted and closed, after descriptors were
\* given again, and not at all after a select() that failed (main.c).
NeverBlocks ==
    /\ pc = "accept" /\ servSock \in readFds => backlog > 0
    /\ pc = "udp" /\ udpServSock \in readFds => datagrams > 0 \/ udpServSock = 1
    /\ \A s \in Slots :
         Turn(s) => socket[s] \in IF socket[s] \in readFds THEN readable ELSE writable

\* No descriptor put in a set is beyond its size, with every connection of the
\* table open and a mail open in each (addClientsSocketsToSet does not look).
SetsFit ==
    /\ \A fd \in readFds \cup writeFds : fd < FD_SETSIZE
    /\ maxSock < FD_SETSIZE

Wants(s) ==
    /\ s \in Allocated
    /\ socket[s] \in IF clientState[s] = "READING" THEN readable ELSE writable

\* A connection that has something to read, or can be written to, gets its turn,
\* unless the server ends (addClientsSocketsToSet, handleClients).
Heard == \A s \in Slots : Wants(s) ~> Turn(s) \/ pc = "exited"

\* After a signal the server ends; or it sleeps, when the signal came after the
\* test of serverRunning, but no longer than nothing happens (sigterm_handler).
Stops == ~serverRunning ~> pc = "exited" \/ (pc = "asleep" /\ Ready = {})
=============================================================================
