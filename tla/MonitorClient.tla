--------------------------- MODULE MonitorClient ----------------------------
(***************************************************************************)
(* An administrator's client (Client-interface/main.c) and the server's    *)
(* side of the monitoring protocol, over UDP: datagrams are delayed, lost  *)
(* and reordered, and the client sends again what it has no answer for.    *)
(*                                                                         *)
(* A datagram in flight is one that may still be received; a lost one is   *)
(* one that never is.  What has arrived and has not been read is in flight *)
(* too: the network may have brought it at that moment.  Each is known by  *)
(* the request it belongs to and the turn of the loop that sent it.        *)
(***************************************************************************)
EXTENDS Mp3p, Commands

CONSTANTS
    InitialUsers,
    Lines,                  \* what the administrator may type, an empty line too
    Flags,                  \* the optional arguments it may be started with
    Strangers,              \* datagrams that others send, without the key
    MAX_RETRY,
    MaxAsks                 \* bound: requests in a run

ASSUME BoundAssumption == MAX_RETRY \in Nat \ {0} /\ MaxAsks \in Nat
ASSUME FlagAssumption == Flags \subseteq {"none", "-BA", "-MA", "-WV"}
ASSUME StrangerAssumption ==
    Strangers \subseteq DatagramType /\ \A d \in Strangers : d.auth # "key"

\* What scanf() fills is a string of C: it has no NUL in it.
ASSUME LineAssumption ==
    /\ Lines \subseteq Seq(STRING)
    /\ \A line \in Lines : \A i \in DOMAIN line : line[i] # "NUL"

NoAnswer == [ask |-> 0, code |-> 0]

VARIABLES
    \* the server
    users, onSuccessCommandState,
    \* the client
    flag,                   \* its optional argument
    cpc,                    \* at its prompt, about to send, in recv(), ended
    input,                  \* the line in the array that scanf() fills
    retry,                  \* of the call of sendDatagram, 0 between calls
    answer,                 \* what it has printed for the last request
    \* the network: the datagrams in flight
    requests, replies,
    \* history variables
    asks,                   \* the requests: the line, and the id drawn for it
    late,                   \* the requests in which a recv() has timed out
    overlapped,             \* one was made with datagrams of others in flight
    timeouts

serverVars == <<users, onSuccessCommandState>>
clientVars == <<flag, cpc, input, retry, answer>>
network == <<requests, replies>>
history == <<asks, late, overlapped, timeouts>>
vars == <<serverVars, clientVars, network, history>>

\* scanf() may find nothing the first time, and input was never initialized.
Init ==
    /\ users = InitialUsers /\ onSuccessCommandState = "START"
    /\ flag \in Flags
    /\ cpc = "prompt" /\ input \in Lines \ {<<>>} /\ retry = 0 /\ answer = NoAnswer
    /\ requests = {} /\ replies = {}
    /\ asks = <<>> /\ late = {} /\ overlapped = FALSE /\ timeouts = 0

-----------------------------------------------------------------------------
(***************************************************************************)
(* The client.                                                             *)
(***************************************************************************)
\* What is typed; an empty line, or the end of the input, leaves what there was.
Scanned(line) == IF line = <<>> THEN input ELSE line

help(line) ==
    /\ cpc = "prompt" /\ Scanned(line)[1] = "HELP"
    /\ input' = Scanned(line)
    /\ UNCHANGED <<serverVars, flag, cpc, retry, answer, network, history>>

quit(line) ==
    /\ cpc = "prompt" /\ Scanned(line)[1] = "QUIT"
    /\ cpc' = "ended" /\ input' = Scanned(line) /\ answer' = NoAnswer
    /\ UNCHANGED <<serverVars, flag, retry, network, history>>

\* rand() is seeded with the second: the id is the last one's in the same second,
\* and a recv() that timed out has let a second pass.
generateRandomString ==
    IF asks = <<>> THEN {1}
    ELSE {Last(asks).id + 1} \cup (IF Len(asks) \in late THEN {} ELSE {Last(asks).id})

ask(line) ==
    /\ cpc = "prompt" /\ Scanned(line)[1] \notin {"HELP", "QUIT"}
    /\ Len(asks) < MaxAsks
    /\ input' = Scanned(line) /\ cpc' = "send" /\ answer' = NoAnswer
    /\ \E id \in generateRandomString :
           asks' = Append(asks, [line |-> Scanned(line), id |-> id])
    /\ overlapped' = (overlapped \/ requests # {})
    /\ UNCHANGED <<serverVars, flag, retry, network, late, timeouts>>

\* Slip: the loop's test is off by one.
sendOnceMore ==
    /\ cpc = "send" /\ retry <= MAX_RETRY
    /\ requests' = requests \cup {[ask |-> Len(asks), try |-> retry]}
    /\ cpc' = "recv"
    /\ UNCHANGED <<serverVars, flag, input, retry, answer, replies, history>>

\* A turn of the loop of sendDatagram.
sendDatagram ==
    /\ cpc = "send" /\ retry < MAX_RETRY
    /\ requests' = requests \cup {[ask |-> Len(asks), try |-> retry]}
    /\ cpc' = "recv"
    /\ UNCHANGED <<serverVars, flag, input, retry, answer, replies, history>>

\* sendto() or setsockopt() fails: the client exits.
sendFails ==
    /\ cpc = "send" /\ retry < MAX_RETRY
    /\ cpc' = "ended" /\ retry' = 0
    /\ UNCHANGED <<serverVars, flag, input, answer, network, history>>

giveUp ==
    /\ cpc = "send" /\ retry = MAX_RETRY
    /\ cpc' = "prompt" /\ retry' = 0
    /\ UNCHANGED <<serverVars, flag, input, answer, network, history>>

\* Slip: the client goes on waiting.
waitOn == cpc = "recv" /\ UNCHANGED vars

\* recv() gives nothing for TIMEOUT_SECONDS.
timeout ==
    /\ cpc = "recv"
    /\ cpc' = "send" /\ retry' = retry + 1
    /\ timeouts' = timeouts + 1 /\ late' = late \cup {Len(asks)}
    /\ UNCHANGED <<serverVars, flag, input, answer, network, asks, overlapped>>

\* Slip: whatever comes is the answer.
acceptAny(reply) == TRUE

\* An answer has the id of its request.
checkValidRequestId(reply) == asks[reply.ask].id = Last(asks).id

\* Slip: an answer to another request is passed over, and does not count.
ignoreOther(reply) ==
    /\ cpc = "recv" /\ ~checkValidRequestId(reply)
    /\ replies' = replies \ {reply}
    /\ UNCHANGED <<serverVars, flag, cpc, input, retry, answer, requests, history>>

\* An answer to another request: this one is sent again.
receiveOther(reply) ==
    /\ cpc = "recv" /\ ~checkValidRequestId(reply)
    /\ replies' = replies \ {reply}
    /\ cpc' = "send" /\ retry' = retry + 1
    /\ UNCHANGED <<serverVars, flag, input, answer, requests, history>>

receive(reply) ==
    /\ cpc = "recv" /\ checkValidRequestId(reply)
    /\ replies' = replies \ {reply}
    /\ cpc' = "prompt" /\ answer' = [ask |-> reply.ask, code |-> reply.code] /\ retry' = 0
    /\ UNCHANGED <<serverVars, flag, input, requests, history>>

-----------------------------------------------------------------------------
(***************************************************************************)
(* The server.                                                             *)
(***************************************************************************)
\* What sendDatagram prints into its buffer, for the flag of this client.
Datagram(n) ==
    [head |-> TRUE,
     version |-> IF flag = "-WV" THEN "other" ELSE "V1.0",
     auth |-> CASE flag = "-BA" -> "other" [] flag = "-MA" -> "malformed" [] OTHER -> "key",
     line |-> asks[n].line]

Handle(d, parsed) ==
    /\ onSuccessCommandState' = parsed.onSuccess
    /\ users' = IF parsed.command = "DISCARD" THEN users
                ELSE UsersAfter(users, parsed.command, d.line)

\* A name or a password that does not fit its array is MonitorServer's overrun:
\* what follows it is undefined, and no step of this model.
handleUdpRequest(request) ==
    LET d == Datagram(request.ask)
        parsed == parseDatagram(d, onSuccessCommandState)
    IN /\ CopyFits(d, onSuccessCommandState)
       /\ Handle(d, parsed)
       /\ requests' = requests \ {request}
       /\ replies' = IF parsed.command = "DISCARD" THEN replies
                     ELSE replies \cup
                            {[ask |-> request.ask, try |-> request.try,
                              code |-> Status(users, parsed.command, d.line)]}
       /\ UNCHANGED <<clientVars, history>>

\* A datagram of another sender, and the answer to it, which is not followed.
handleStranger(d) ==
    /\ CopyFits(d, onSuccessCommandState)
    /\ Handle(d, parseDatagram(d, onSuccessCommandState))
    /\ UNCHANGED <<clientVars, network, history>>

-----------------------------------------------------------------------------
Client ==
    \/ \E line \in Lines : help(line) \/ quit(line) \/ ask(line)
    \/ sendDatagram \/ sendFails \/ giveUp
    \/ timeout
    \/ \E reply \in replies : receiveOther(reply) \/ receive(reply)

Next ==
    \/ Client
    \/ \E request \in requests : handleUdpRequest(request)
    \/ \E d \in Strangers : handleStranger(d)

Spec == Init /\ [][Next]_vars

\* The client's loop goes on by itself; recv() ends, at the latest by its timeout.
Proceed ==
    \/ sendDatagram \/ giveUp \/ timeout
    \/ \E reply \in replies : receiveOther(reply) \/ receive(reply)

FairSpec == Spec /\ WF_vars(Proceed)

-----------------------------------------------------------------------------
(***************************************************************************)
(* Properties.                                                             *)
(***************************************************************************)
\* Types, and the retries and ids that a run may reach.
TypeOK ==
    /\ onSuccessCommandState \in WithArguments \cup {"START"}
    /\ flag \in Flags /\ cpc \in {"prompt", "send", "recv", "ended"}
    /\ input \in Lines \ {<<>>} /\ retry \in 0..MAX_RETRY
    /\ asks \in Seq([line : Lines \ {<<>>}, id : 1..MaxAsks]) /\ Len(asks) <= MaxAsks
    /\ answer \in {NoAnswer} \cup [ask : 1..Len(asks), code : Codes]
    /\ late \subseteq 1..Len(asks) /\ overlapped \in BOOLEAN
    /\ timeouts \in 0..(MaxAsks * MAX_RETRY)
    /\ requests \subseteq [ask : 1..Len(asks), try : 0..(MAX_RETRY - 1)]
    /\ replies \subseteq [ask : 1..Len(asks), try : 0..(MAX_RETRY - 1), code : Codes]

\* The commands an administrator with the key and the version has asked for.
Asked ==
    IF flag # "none" THEN {}
    ELSE {asks[n].line : n \in {n \in DOMAIN asks : WellFormed(asks[n].line)}}

R == INSTANCE Registry WITH asked <- Asked

\* However datagrams are delayed, lost and sent again, by whom and after which
\* others, the users change only by what was asked for, well formed, with the key
\* and the version (sendDatagram, handleUdpRequest, parseDatagram).
RegistrySpec == R!Spec

\* What of these belongs to a request before the one the client waits for.
Earlier(datagrams) == {d \in datagrams : d.ask < Len(asks)}

\* While it waits, each turn of the client's request has its own datagram, or the
\* answer to it, in flight, and of earlier requests there is one for each timeout
\* that this one's retries have not paid for.  So a retry is always a timeout, of
\* this request or of an earlier one: an answer that came too late for its own
\* exchange costs a later one a retry, and a request is given up only after
\* MAX_RETRY timeouts in all (sendDatagram sends a datagram for each recv(), and
\* does not empty the socket before).
RetriesAreTimeouts ==
    cpc \in {"send", "recv"} =>
        /\ \A try \in 0..(IF cpc = "recv" THEN retry ELSE retry - 1) :
               \E d \in requests \cup replies : d.ask = Len(asks) /\ d.try = try
        /\ Cardinality(Earlier(requests)) + Cardinality(Earlier(replies)) + retry = timeouts

\* An answer of another request is taken for this one's only if both were made in
\* the same second, and that other one had itself been cut off from its answer by
\* one that came late, of a request before it: with an id of its own, or with no
\* timeout before, a request gets no answer but its own (checkValidRequestId, and
\* the seed of generateRandomString).
OwnAnswer ==
    answer.ask \in {0, Len(asks)} \/
        /\ asks[answer.ask].id = Last(asks).id
        /\ \E j \in late : j < answer.ask
        /\ \A j \in late : j < answer.ask \/ j = Len(asks)

Carried(registered, request) ==
    IF WellFormed(request.line) THEN Effect(registered, request.line)
    ELSE registered

\* The users that requests give, carried out one after the other.
Carrying(made) ==
    LET after[n \in 0..Len(made)] ==
            IF n = 0 THEN InitialUsers ELSE Carried(after[n - 1], made[n])
    IN after

AllCarried == IF flag = "none" THEN Carrying(asks)[Len(asks)] ELSE InitialUsers

\* As long as no recv() has timed out each request is answered at the first try,
\* with its own answer, and the users are those that the requests give when
\* carried out once each, in order, empty lines repeating the last one (main's
\* loop, sendDatagram and addUserStrategy).
CleanSession ==
    timeouts = 0 =>
        /\ retry = 0
        /\ cpc = "prompt" => answer.ask = Len(asks) /\ users = AllCarried

\* However often a request was sent again, and whether its answer came or not, once
\* all that was sent has been carried out the users are those that the requests
\* give when carried out once each, if none was made with datagrams of an earlier
\* one in flight (insertUserNode, modifyUserPassword and deleteUserNode, which the
\* retries of sendDatagram call again).
RepeatsHarmless ==
    cpc = "prompt" /\ requests = {} /\ ~overlapped => users = AllCarried

\* What README.md says of the optional arguments: the answer is always 101 with
\* -WV, 100 with -BA and 103 with -MA (README.md:43-47; parseDatagram, which looks
\* at neither header of a command that is malformed).
FlagsAsDocumented ==
    answer.ask # 0 =>
        /\ flag = "-WV" => answer.code = 101
        /\ flag = "-BA" => answer.code = 100
        /\ flag = "-MA" => answer.code = 103

\* The client comes back to its prompt, or exits, whatever the network does
\* (sendDatagram, bounded by MAX_RETRY).
RequestEnds == cpc = "send" ~> cpc \in {"prompt", "ended"}
=============================================================================
