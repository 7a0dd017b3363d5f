------------------------ MODULE MonitorClientProofs -------------------------
(***************************************************************************)
(* The administrator's client and the server over UDP: what the runs check *)
(* for three requests of two tries each, proved for every number of        *)
(* requests and of tries, whatever is typed and whoever else sends.        *)
(*                                                                         *)
(* The inductive invariant has four parts: the counters, what is in        *)
(* flight, the ids, and the users while no recv() has timed out.           *)
(***************************************************************************)
EXTENDS MonitorClient, Mp3pProofs, FiniteSetTheorems

Requests == [line : Lines \ {<<>>}, id : 1..MaxAsks]

\* The exchange a datagram belongs to, those in flight, and the one the client
\* waits for.
Exchange(datagram) == [ask |-> datagram.ask, try |-> datagram.try]
InFlight == requests \cup {Exchange(reply) : reply \in replies}
This == [ask |-> Len(asks), try |-> retry]

\* The requests the client is done with.
Done == IF cpc \in {"send", "recv"} THEN Len(asks) - 1 ELSE Len(asks)

Counters ==
    /\ \A n \in 1..Len(asks) : asks[n].id <= n
    /\ cpc = "recv" => retry < MAX_RETRY
    /\ cpc \in {"send", "recv"} => Len(asks) >= 1
    /\ cpc \in {"prompt", "ended"} => retry = 0
    /\ timeouts <= Done * MAX_RETRY + retry

Typed == TypeOK /\ Counters

-----------------------------------------------------------------------------
(***************************************************************************)
(* The server.                                                             *)
(***************************************************************************)
\* What carrying the line of a request out does under this client's flag.
Carrier(registered, line) ==
    IF flag = "none" /\ WellFormed(line) THEN Effect(registered, line) ELSE registered

LEMMA DatagramTyped ==
    ASSUME TypeOK, NEW n \in 1..Len(asks)
    PROVE  /\ Datagram(n) \in DatagramType /\ Datagram(n).head
           /\ Datagram(n).line = asks[n].line
           /\ asks[n].line \in Lines /\ asks[n].line \in Seq(STRING)
           /\ \A k \in 1..Len(asks[n].line) : asks[n].line[k] # "NUL"
           /\ Datagram(n).auth = "key" /\ Datagram(n).version = "V1.0" <=> flag = "none"
<1>1. asks[n] \in Requests
  <2>1. asks \in Seq(Requests)
    BY DEF TypeOK, Requests
  <2> HIDE DEF Requests
  <2> QED BY <2>1
<1>2. asks[n].line \in Lines
  BY <1>1 DEF Requests
<1>3. asks[n].line \in Seq(STRING) /\ \A k \in 1..Len(asks[n].line) : asks[n].line[k] # "NUL"
  BY <1>2, LineAssumption
<1>4. flag \in {"none", "-BA", "-MA", "-WV"}
  BY FlagAssumption DEF TypeOK
<1> HIDE DEF Requests
<1> QED BY <1>2, <1>3, <1>4 DEF Datagram, DatagramType, Auths

LEMMA CodesAre == ASSUME NEW u, NEW command, NEW line PROVE Status(u, command, line) \in Codes
BY DEF Status, Codes

\* A request is answered, and carried out if the key and the version are right.
LEMMA RequestServed ==
    ASSUME TypeOK, NEW request \in requests, handleUdpRequest(request)
    PROVE  /\ request.ask \in 1..Len(asks) /\ request.try \in 0..(MAX_RETRY - 1)
           /\ request = [ask |-> request.ask, try |-> request.try]
           /\ requests' = requests \ {request}
           /\ \E code \in Codes :
                 replies' = replies \cup {[ask |-> request.ask, try |-> request.try,
                                           code |-> code]}
           /\ users' = Carrier(users, asks[request.ask].line)
           /\ onSuccessCommandState' \in WithArguments \cup {onSuccessCommandState}
           /\ UNCHANGED <<clientVars, history>>
<1> DEFINE d == Datagram(request.ask)
           parsed == parseDatagram(d, onSuccessCommandState)
<1>1. /\ request.ask \in 1..Len(asks) /\ request.try \in 0..(MAX_RETRY - 1)
      /\ request = [ask |-> request.ask, try |-> request.try]
  BY DEF TypeOK
<1>2. /\ d \in DatagramType /\ d.head /\ d.line = asks[request.ask].line
      /\ \A k \in 1..Len(d.line) : d.line[k] # "NUL"
      /\ d.auth = "key" /\ d.version = "V1.0" <=> flag = "none"
  BY <1>1, DatagramTyped
<1>3. parsed.command # "DISCARD"
  BY <1>2, NeverDiscarded
<1>4. parsed.onSuccess \in WithArguments \cup {onSuccessCommandState}
  BY <1>2, Remembers
<1>5. (IF parsed.command = "DISCARD" THEN users ELSE UsersAfter(users, parsed.command, d.line))
        = Carrier(users, asks[request.ask].line)
  <2> DEFINE command == parsed.command
  <2>1. (IF command = "DISCARD" THEN users ELSE UsersAfter(users, command, d.line))
          = IF d.head /\ d.auth = "key" /\ d.version = "V1.0" /\ WellFormed(d.line)
            THEN Effect(users, d.line) ELSE users
    BY <1>2, UsersDecided
  <2> HIDE DEF d, command
  <2> QED BY <1>2, <2>1 DEF Carrier, command
<1>6. /\ onSuccessCommandState' = parsed.onSuccess
      /\ users' = IF parsed.command = "DISCARD" THEN users
                  ELSE UsersAfter(users, parsed.command, d.line)
      /\ requests' = requests \ {request}
      /\ replies' = replies \cup {[ask |-> request.ask, try |-> request.try,
                                   code |-> Status(users, parsed.command, d.line)]}
      /\ UNCHANGED <<clientVars, history>>
  BY <1>3 DEF handleUdpRequest, Handle
<1>7. Status(users, parsed.command, d.line) \in Codes
  BY CodesAre
<1> HIDE DEF parsed, d
<1> QED BY <1>1, <1>4, <1>5, <1>6, <1>7

\* A stranger changes nothing but the static variable.
LEMMA StrangerServed ==
    ASSUME NEW d \in Strangers, handleStranger(d)
    PROVE  /\ users' = users
           /\ onSuccessCommandState' \in WithArguments \cup {onSuccessCommandState}
           /\ UNCHANGED <<clientVars, network, history>>
<1> DEFINE parsed == parseDatagram(d, onSuccessCommandState)
           command == parsed.command
<1>1. d \in DatagramType /\ d.auth # "key"
  BY StrangerAssumption
<1>2. parsed.onSuccess \in WithArguments \cup {onSuccessCommandState}
  BY <1>1, Remembers
<1>3. (IF command = "DISCARD" THEN users ELSE UsersAfter(users, command, d.line)) = users
  BY <1>1, UsersDecided
<1>4. /\ onSuccessCommandState' = parsed.onSuccess
      /\ users' = IF command = "DISCARD" THEN users ELSE UsersAfter(users, command, d.line)
      /\ UNCHANGED <<clientVars, network, history>>
  BY DEF handleStranger, Handle
<1> HIDE DEF parsed, command
<1> QED BY <1>2, <1>3, <1>4

-----------------------------------------------------------------------------
(***************************************************************************)
(* Types and counters.                                                     *)
(***************************************************************************)
LEMMA Product ==
    ASSUME NEW k \in Nat, NEW l \in Nat, NEW m \in Nat, k <= l
    PROVE  k * m \in Nat /\ k * m <= l * m
<1>1. (l - k) * m >= 0
  OBVIOUS
<1>2. l * m = k * m + (l - k) * m
  OBVIOUS
<1> QED BY <1>1, <1>2

LEMMA OneMore ==
    ASSUME NEW l \in Nat, l >= 1, NEW m \in Nat
    PROVE  (l - 1) * m + m = l * m
OBVIOUS

\* The parts of TypeOK that a step disturbs.
ClientTyped ==
    /\ flag \in Flags /\ cpc \in {"prompt", "send", "recv", "ended"}
    /\ input \in Lines \ {<<>>} /\ retry \in 0..MAX_RETRY
    /\ answer \in {NoAnswer} \cup [ask : 1..Len(asks), code : Codes]
    /\ late \subseteq 1..Len(asks) /\ overlapped \in BOOLEAN

AsksTyped == asks \in Seq(Requests) /\ Len(asks) \in 0..MaxAsks

NetworkTyped ==
    /\ requests \subseteq [ask : 1..Len(asks), try : 0..(MAX_RETRY - 1)]
    /\ replies \subseteq [ask : 1..Len(asks), try : 0..(MAX_RETRY - 1), code : Codes]

ParserTyped == onSuccessCommandState \in WithArguments \cup {"START"}

LEMMA Parts ==
    TypeOK <=> /\ ClientTyped /\ AsksTyped /\ NetworkTyped /\ ParserTyped
               /\ timeouts \in 0..(MaxAsks * MAX_RETRY)
<1>1. asks \in Seq(Requests) => Len(asks) \in Nat
  OBVIOUS
<1>2. MaxAsks \in Nat
  BY BoundAssumption
<1>3. AsksTyped <=> asks \in Seq(Requests) /\ Len(asks) <= MaxAsks
  BY <1>1, <1>2 DEF AsksTyped
<1> QED BY <1>3 DEF TypeOK, ClientTyped, NetworkTyped, ParserTyped, Requests

\* The count of timeouts is within its bounds whenever the counters are.
LEMMA TimeoutsBounded ==
    ClientTyped /\ AsksTyped /\ Counters /\ timeouts \in Nat
      => timeouts \in 0..(MaxAsks * MAX_RETRY)
<1> SUFFICES ASSUME ClientTyped, AsksTyped, Counters, timeouts \in Nat
             PROVE  timeouts \in 0..(MaxAsks * MAX_RETRY)
  OBVIOUS
<1>0. /\ timeouts <= Done * MAX_RETRY + retry
      /\ cpc \in {"prompt", "ended"} => retry = 0
      /\ cpc \in {"send", "recv"} => Len(asks) >= 1
  BY DEF Counters
<1> DEFINE L == Len(asks)
           M == MAX_RETRY
<1>1. L \in Nat /\ M \in Nat /\ MaxAsks \in Nat /\ L <= MaxAsks /\ retry \in 0..M
  BY BoundAssumption DEF AsksTyped, ClientTyped
<1>2. L * M \in Nat /\ L * M <= MaxAsks * M /\ MaxAsks * M \in Nat
  BY <1>1, Product
<1>3. timeouts <= L * M
  <2>1. CASE cpc \in {"send", "recv"}
    <3>1. L >= 1 /\ (L - 1) * M + M = L * M /\ (L - 1) * M \in Nat
      BY <1>0, <1>1, <2>1, OneMore, Product
    <3>2. timeouts <= (L - 1) * M + retry
      BY <1>0, <2>1 DEF Done
    <3> HIDE DEF L, M
    <3> QED BY <1>1, <3>1, <3>2
  <2>2. CASE cpc \in {"prompt", "ended"}
    <3>1. timeouts <= L * M + 0
      BY <1>0, <2>2 DEF Done
    <3> HIDE DEF L, M
    <3> QED BY <1>2, <3>1
  <2> QED BY <2>1, <2>2 DEF ClientTyped
<1> HIDE DEF L, M
<1> QED BY <1>2, <1>3 DEF M

LEMMA TypedInit == Init => Typed
<1> SUFFICES ASSUME Init PROVE Typed
  OBVIOUS
<1>1. /\ flag \in Flags /\ cpc = "prompt" /\ input \in Lines \ {<<>>} /\ retry = 0
      /\ answer = NoAnswer /\ requests = {} /\ replies = {} /\ asks = <<>>
      /\ late = {} /\ overlapped = FALSE /\ timeouts = 0 /\ onSuccessCommandState = "START"
  BY DEF Init
<1>2. Len(asks) = 0 /\ asks \in Seq(Requests) /\ MAX_RETRY \in Nat /\ MaxAsks \in Nat
  BY <1>1, BoundAssumption
<1>3. ClientTyped /\ AsksTyped /\ NetworkTyped /\ ParserTyped
  <2>1. ClientTyped
    <3>1. 0 \in 0..MAX_RETRY
      BY <1>2
    <3> QED BY <1>1, <3>1 DEF ClientTyped
  <2>2. AsksTyped /\ NetworkTyped /\ ParserTyped
    BY <1>1, <1>2 DEF AsksTyped, NetworkTyped, ParserTyped
  <2> QED BY <2>1, <2>2
<1>4. Counters
  <2>1. Done = 0
    BY <1>1, <1>2 DEF Done
  <2>2. 0 * MAX_RETRY + 0 = 0
    BY <1>2
  <2> QED BY <1>1, <1>2, <2>1, <2>2 DEF Counters
<1>5. timeouts \in 0..(MaxAsks * MAX_RETRY)
  BY <1>1, <1>3, <1>4, TimeoutsBounded DEF Counters
<1> QED BY <1>3, <1>4, <1>5, Parts DEF Typed

\* A state has its types if it has the parts and the counters.
LEMMA TypedParts ==
    ClientTyped /\ AsksTyped /\ NetworkTyped /\ ParserTyped /\ Counters /\ timeouts \in Nat
      => Typed
BY TimeoutsBounded, Parts DEF Typed

LEMMA TypedNext ==
    ASSUME ClientTyped', AsksTyped', NetworkTyped', ParserTyped', Counters', timeouts' \in Nat
    PROVE  Typed'
<1>1. (ClientTyped /\ AsksTyped /\ NetworkTyped /\ ParserTyped /\ Counters
        /\ timeouts \in Nat)' => Typed'
  BY TypedParts, PTL
<1> QED BY <1>1

\* What one needs of Typed to take a step.
LEMMA TypedFacts ==
    ASSUME Typed
    PROVE  /\ ClientTyped /\ AsksTyped /\ NetworkTyped /\ ParserTyped /\ Counters
           /\ Len(asks) \in Nat /\ MAX_RETRY \in Nat /\ MAX_RETRY >= 1 /\ MaxAsks \in Nat
           /\ Len(asks) <= MaxAsks /\ retry \in Nat /\ retry <= MAX_RETRY
           /\ timeouts \in Nat
<1>1. /\ ClientTyped /\ AsksTyped /\ NetworkTyped /\ ParserTyped /\ Counters
      /\ timeouts \in 0..(MaxAsks * MAX_RETRY)
  BY Parts DEF Typed
<1>2. MAX_RETRY \in Nat /\ MAX_RETRY >= 1 /\ MaxAsks \in Nat
  BY BoundAssumption
<1> QED BY <1>1, <1>2 DEF ClientTyped, AsksTyped

\* A step that changes neither asks nor what is in flight, nor the parser.
LEMMA QuietTyped ==
    ASSUME Typed, UNCHANGED <<asks, requests, replies, onSuccessCommandState>>
    PROVE  AsksTyped' /\ NetworkTyped' /\ ParserTyped'
BY TypedFacts DEF AsksTyped, NetworkTyped, ParserTyped

LEMMA TypedPrompt ==
    ASSUME Typed, NEW line \in Lines, help(line) \/ quit(line)
    PROVE  Typed'
<1>1. /\ cpc = "prompt" /\ cpc' \in {"prompt", "ended"} /\ input' = Scanned(line)
      /\ answer' \in {answer, NoAnswer}
      /\ UNCHANGED <<serverVars, flag, retry, network, history>>
  BY DEF help, quit
<1>2. Scanned(line) \in Lines \ {<<>>}
  BY TypedFacts DEF Scanned, ClientTyped
<1>3. ClientTyped'
  BY <1>1, <1>2, TypedFacts DEF ClientTyped, history
<1>4. Counters'
  <2>1. Done' = Done
    BY <1>1 DEF Done, history
  <2> QED BY <1>1, <2>1, TypedFacts DEF Counters, history
<1> QED BY <1>1, <1>3, <1>4, QuietTyped, TypedFacts, TypedNext
      DEF serverVars, network, history

LEMMA NewId ==
    ASSUME Typed, NEW id \in generateRandomString
    PROVE  /\ id \in 1..(Len(asks) + 1)
           /\ Len(asks) > 0 => id >= asks[Len(asks)].id
           /\ Len(asks) \in late => id > asks[Len(asks)].id
<1>1. Len(asks) \in Nat /\ asks \in Seq(Requests)
  BY TypedFacts DEF AsksTyped
<1>2. CASE asks = <<>>
  <2>1. id = 1 /\ Len(asks) = 0
    BY <1>2 DEF generateRandomString
  <2>2. Len(asks) \notin late
    BY <2>1, TypedFacts DEF ClientTyped
  <2> QED BY <2>1, <2>2
<1>3. CASE asks # <<>>
  <2>1. Len(asks) \in 1..Len(asks)
    BY <1>1, <1>3
  <2>2. asks[Len(asks)] \in Requests
    <3> HIDE DEF Requests
    <3> QED BY <1>1, <2>1
  <2>3. asks[Len(asks)].id \in 1..Len(asks)
    <3>1. asks[Len(asks)].id \in 1..MaxAsks /\ asks[Len(asks)].id <= Len(asks)
      BY <2>1, <2>2, TypedFacts DEF Counters, Requests
    <3> QED BY <1>1, <3>1, TypedFacts
  <2>4. id \in {asks[Len(asks)].id + 1} \cup (IF Len(asks) \in late THEN {} ELSE {asks[Len(asks)].id})
    BY <1>3 DEF generateRandomString, Last
  <2> QED BY <1>1, <2>3, <2>4
<1> QED BY <1>2, <1>3

LEMMA TypedAsk ==
    ASSUME Typed, NEW line \in Lines, ask(line)
    PROVE  Typed'
<1> DEFINE L == Len(asks)
           M == MAX_RETRY
<1>1. /\ cpc = "prompt" /\ L < MaxAsks /\ input' = Scanned(line) /\ cpc' = "send"
      /\ answer' = NoAnswer /\ late' = late /\ overlapped' = (overlapped \/ requests # {})
      /\ UNCHANGED <<serverVars, flag, retry, network, timeouts>>
  BY DEF ask
<1>2. PICK id \in generateRandomString : asks' = Append(asks, [line |-> Scanned(line), id |-> id])
  BY DEF ask
<1>3. Scanned(line) \in Lines \ {<<>>}
  BY TypedFacts DEF Scanned, ClientTyped
<1>4. L \in Nat /\ M \in Nat /\ MaxAsks \in Nat /\ asks \in Seq(Requests)
  BY TypedFacts DEF AsksTyped
<1>5. id \in 1..(L + 1)
  BY NewId
<1> DEFINE new == [line |-> Scanned(line), id |-> id]
<1>6. new \in Requests
  BY <1>1, <1>3, <1>4, <1>5 DEF Requests
<1> HIDE DEF new
<1>7. /\ asks' \in Seq(Requests) /\ Len(asks') = L + 1 /\ asks'[L + 1] = new
      /\ \A n \in 1..L : asks'[n] = asks[n]
  <2> HIDE DEF Requests
  <2> QED BY <1>2, <1>4, <1>6 DEF new
<1>8. AsksTyped'
  BY <1>1, <1>4, <1>7 DEF AsksTyped
<1>9. ClientTyped'
  <2>1. late' \subseteq 1..Len(asks')
    BY <1>1, <1>4, <1>7, TypedFacts DEF ClientTyped
  <2>2. overlapped' \in BOOLEAN
    BY <1>1
  <2> QED BY <1>1, <1>3, <2>1, <2>2, TypedFacts DEF ClientTyped
<1>10. NetworkTyped' /\ ParserTyped'
  <2>1. \A n \in 1..L : n \in 1..Len(asks')
    BY <1>4, <1>7
  <2>2. NetworkTyped'
    BY <1>1, <2>1, TypedFacts DEF NetworkTyped, network
  <2> QED BY <1>1, <2>2, TypedFacts DEF ParserTyped, serverVars
<1>11. Counters'
  <2>1. Done' = Done
    BY <1>1, <1>4, <1>7 DEF Done
  <2>2. ASSUME NEW n \in 1..Len(asks') PROVE asks'[n].id <= n
    <3>1. CASE n = L + 1
      BY <1>4, <1>5, <1>7, <3>1 DEF new
    <3>2. CASE n # L + 1
      <4>1. n \in 1..L
        BY <1>4, <1>7, <3>2
      <4> QED BY <1>7, <4>1, TypedFacts DEF Counters
    <3> QED BY <3>1, <3>2
  <2>3. Len(asks') >= 1
    BY <1>4, <1>7
  <2> QED BY <1>1, <2>1, <2>2, <2>3, TypedFacts DEF Counters
<1> QED BY <1>1, <1>8, <1>9, <1>10, <1>11, TypedFacts, TypedNext

LEMMA TypedSend ==
    ASSUME Typed, sendDatagram
    PROVE  Typed'
<1>1. /\ cpc = "send" /\ retry < MAX_RETRY /\ cpc' = "recv"
      /\ requests' = requests \cup {This}
      /\ UNCHANGED <<serverVars, flag, input, retry, answer, replies, history>>
  BY DEF sendDatagram, This
<1>2. This \in [ask : 1..Len(asks), try : 0..(MAX_RETRY - 1)]
  BY <1>1, TypedFacts DEF This, Counters
<1>3. ClientTyped' /\ AsksTyped' /\ ParserTyped'
  BY <1>1, TypedFacts DEF ClientTyped, AsksTyped, ParserTyped, history, serverVars
<1>4. NetworkTyped'
  BY <1>1, <1>2, TypedFacts DEF NetworkTyped, history
<1>5. Counters'
  <2>1. Done' = Done
    BY <1>1 DEF Done, history
  <2> QED BY <1>1, <2>1, TypedFacts DEF Counters, history
<1> QED BY <1>1, <1>3, <1>4, <1>5, TypedFacts, TypedNext DEF history

\* The client is done with a request: its tries are counted for good.
LEMMA DoneWith ==
    ASSUME Typed, cpc \in {"send", "recv"}, cpc' \in {"prompt", "ended"}, retry' = 0,
           UNCHANGED <<asks, timeouts>>
    PROVE  Counters'
<1> DEFINE L == Len(asks)
           M == MAX_RETRY
<1>1. L \in Nat /\ L >= 1 /\ M \in Nat /\ retry \in Nat /\ retry <= M /\ timeouts \in Nat
  BY TypedFacts DEF Counters
<1>2. timeouts <= (L - 1) * M + retry
  BY TypedFacts DEF Counters, Done
<1>3. (L - 1) * M + M = L * M /\ (L - 1) * M \in Nat
  BY <1>1, OneMore, Product
<1>4. timeouts' <= Done' * M + retry'
  <2>1. Done' = L
    BY DEF Done
  <2> HIDE DEF L, M
  <2>2. timeouts <= L * M + 0
    BY <1>1, <1>2, <1>3
  <2> QED BY <2>1, <2>2
<1> QED BY <1>4, TypedFacts DEF Counters

LEMMA TypedEnd ==
    ASSUME Typed, sendFails \/ giveUp
    PROVE  Typed'
<1>1. /\ cpc = "send" /\ cpc' \in {"prompt", "ended"} /\ retry' = 0
      /\ UNCHANGED <<serverVars, flag, input, answer, network, history>>
  BY DEF sendFails, giveUp
<1>2. ClientTyped'
  BY <1>1, TypedFacts DEF ClientTyped, history
<1>3. Counters'
  BY <1>1, DoneWith DEF history
<1> QED BY <1>1, <1>2, <1>3, QuietTyped, TypedFacts, TypedNext
      DEF serverVars, network, history

LEMMA TypedTimeout ==
    ASSUME Typed, timeout
    PROVE  Typed'
<1>1. /\ cpc = "recv" /\ cpc' = "send" /\ retry' = retry + 1 /\ timeouts' = timeouts + 1
      /\ late' = late \cup {Len(asks)}
      /\ UNCHANGED <<serverVars, flag, input, answer, network, asks, overlapped>>
  BY DEF timeout
<1>2. ClientTyped'
  BY <1>1, TypedFacts DEF ClientTyped, Counters
<1>3. Counters'
  <2>1. Done' = Done
    BY <1>1 DEF Done
  <2>2. Len(asks) - 1 \in Nat
    BY <1>1, TypedFacts DEF Counters
  <2>3. Done * MAX_RETRY \in Nat
    BY <1>1, <2>2, TypedFacts, Product DEF Done
  <2>4. timeouts + 1 <= Done * MAX_RETRY + (retry + 1)
    <3>1. timeouts <= Done * MAX_RETRY + retry
      BY TypedFacts DEF Counters
    <3> QED BY <2>3, <3>1, TypedFacts
  <2> QED BY <1>1, <2>1, <2>4, TypedFacts DEF Counters
<1> QED BY <1>1, <1>2, <1>3, QuietTyped, TypedFacts, TypedNext DEF serverVars, network

\* Less in flight.
LEMMA FewerTyped ==
    ASSUME Typed, NEW reply, replies' = replies \ {reply}, UNCHANGED <<asks, requests>>
    PROVE  NetworkTyped'
BY TypedFacts DEF NetworkTyped

LEMMA TypedReceiveOther ==
    ASSUME Typed, NEW reply \in replies, receiveOther(reply)
    PROVE  Typed'
<1>1. /\ cpc = "recv" /\ cpc' = "send" /\ retry' = retry + 1
      /\ replies' = replies \ {reply}
      /\ UNCHANGED <<serverVars, flag, input, answer, requests, history>>
  BY DEF receiveOther
<1>2. ClientTyped'
  BY <1>1, TypedFacts DEF ClientTyped, Counters, history
<1>3. Counters'
  <2>1. Done' = Done
    BY <1>1 DEF Done, history
  <2>2. Len(asks) - 1 \in Nat
    BY <1>1, TypedFacts DEF Counters
  <2>3. Done * MAX_RETRY \in Nat
    BY <1>1, <2>2, TypedFacts, Product DEF Done
  <2>4. timeouts <= Done * MAX_RETRY + (retry + 1)
    <3>1. timeouts <= Done * MAX_RETRY + retry
      BY TypedFacts DEF Counters
    <3> QED BY <2>3, <3>1, TypedFacts
  <2> QED BY <1>1, <2>1, <2>4, TypedFacts DEF Counters, history
<1>4. AsksTyped' /\ ParserTyped'
  BY <1>1, TypedFacts DEF AsksTyped, ParserTyped, serverVars, history
<1> QED BY <1>1, <1>2, <1>3, <1>4, FewerTyped, TypedFacts, TypedNext DEF history

LEMMA TypedReceive ==
    ASSUME Typed, NEW reply \in replies, receive(reply)
    PROVE  Typed'
<1>1. /\ cpc = "recv" /\ cpc' = "prompt" /\ retry' = 0
      /\ answer' = [ask |-> reply.ask, code |-> reply.code]
      /\ replies' = replies \ {reply}
      /\ UNCHANGED <<serverVars, flag, input, requests, history>>
  BY DEF receive
<1>2. answer' \in [ask : 1..Len(asks), code : Codes]
  BY <1>1, TypedFacts DEF NetworkTyped
<1>3. 0 \in 0..MAX_RETRY
  BY TypedFacts
<1>4. ClientTyped'
  BY <1>1, <1>2, <1>3, TypedFacts DEF ClientTyped, history
<1>5. Counters'
  BY <1>1, DoneWith DEF history
<1>6. AsksTyped' /\ ParserTyped'
  BY <1>1, TypedFacts DEF AsksTyped, ParserTyped, serverVars, history
<1> QED BY <1>1, <1>4, <1>5, <1>6, FewerTyped, TypedFacts, TypedNext DEF history

\* The client takes no part in a step of the server.
LEMMA ServerQuiet ==
    ASSUME Typed, UNCHANGED <<clientVars, history>>
    PROVE  ClientTyped' /\ AsksTyped' /\ Counters' /\ timeouts' \in Nat
<1>1. UNCHANGED <<flag, cpc, input, retry, answer, asks, late, overlapped, timeouts>>
  BY DEF clientVars, history
<1>2. Done' = Done
  BY <1>1 DEF Done
<1> QED BY <1>1, <1>2, TypedFacts DEF ClientTyped, AsksTyped, Counters

LEMMA TypedServe ==
    ASSUME Typed, NEW request \in requests, handleUdpRequest(request)
    PROVE  Typed'
<1>1. TypeOK
  BY DEF Typed
<1>2. /\ request.ask \in 1..Len(asks) /\ request.try \in 0..(MAX_RETRY - 1)
      /\ requests' = requests \ {request}
      /\ onSuccessCommandState' \in WithArguments \cup {onSuccessCommandState}
      /\ UNCHANGED <<clientVars, history>>
  BY <1>1, RequestServed
<1>3. PICK code \in Codes :
         replies' = replies \cup {[ask |-> request.ask, try |-> request.try, code |-> code]}
  BY <1>1, RequestServed
<1>4. NetworkTyped'
  BY <1>2, <1>3, TypedFacts DEF NetworkTyped, history
<1>5. ParserTyped'
  BY <1>2, TypedFacts DEF ParserTyped
<1> QED BY <1>2, <1>4, <1>5, ServerQuiet, TypedNext

LEMMA TypedStranger ==
    ASSUME Typed, NEW d \in Strangers, handleStranger(d)
    PROVE  Typed'
<1>1. /\ onSuccessCommandState' \in WithArguments \cup {onSuccessCommandState}
      /\ UNCHANGED <<clientVars, network, history>>
  BY StrangerServed
<1>2. NetworkTyped' /\ ParserTyped'
  BY <1>1, TypedFacts DEF NetworkTyped, ParserTyped, network, history
<1> QED BY <1>1, <1>2, ServerQuiet, TypedNext

LEMMA TypedStep == Typed /\ [Next]_vars => Typed'
<1> SUFFICES ASSUME Typed, [Next]_vars PROVE Typed'
  OBVIOUS
<1>1. CASE Client
  <2>1. ASSUME NEW line \in Lines, help(line) \/ quit(line) \/ ask(line) PROVE Typed'
    BY <2>1, TypedPrompt, TypedAsk
  <2>2. ASSUME NEW reply \in replies, receiveOther(reply) \/ receive(reply) PROVE Typed'
    BY <2>2, TypedReceiveOther, TypedReceive
  <2> QED BY <1>1, <2>1, <2>2, TypedSend, TypedEnd, TypedTimeout DEF Client
<1>2. ASSUME NEW request \in requests, handleUdpRequest(request) PROVE Typed'
  BY <1>2, TypedServe
<1>3. ASSUME NEW d \in Strangers, handleStranger(d) PROVE Typed'
  BY <1>3, TypedStranger
<1>4. CASE UNCHANGED vars
  <2>1. UNCHANGED <<clientVars, history, serverVars, network>>
    BY <1>4 DEF vars
  <2>2. NetworkTyped' /\ ParserTyped'
    BY <2>1, TypedFacts DEF NetworkTyped, ParserTyped, network, history, serverVars
  <2> QED BY <2>1, <2>2, ServerQuiet, TypedNext
<1> QED BY <1>1, <1>2, <1>3, <1>4 DEF Next

\* Every variable keeps its type, and the retries, ids and timeouts their bounds,
\* for every number of requests and of tries (main's loop, sendDatagram).
THEOREM Types == Spec => []TypeOK
<1>1. Spec => []Typed
  BY TypedInit, TypedStep, PTL DEF Spec
<1>2. Typed => TypeOK
  BY DEF Typed
<1> QED BY <1>1, <1>2, PTL

-----------------------------------------------------------------------------
(***************************************************************************)
(* What is in flight.                                                      *)
(***************************************************************************)
FlightFinite == IsFiniteSet(requests) /\ IsFiniteSet(replies)

\* An exchange is in flight once, as its request or as its answer.
FlightApart == \A reply \in replies : Exchange(reply) \notin requests

\* Of this request only the tries made so far.
FlightTries ==
    \A e \in InFlight : e.ask = Len(asks) =>
        (cpc = "send" => e.try < retry) /\ (cpc = "recv" => e.try <= retry)

FlightThis == cpc = "recv" => This \in InFlight

\* Every timeout leaves one exchange in flight, and nothing makes up for it.
InFlightCount ==
    Cardinality(requests) + Cardinality(replies)
        = timeouts + (IF cpc = "recv" THEN 1 ELSE 0)

Flight ==
    Typed /\ FlightFinite /\ FlightApart /\ FlightTries /\ FlightThis /\ InFlightCount

LEMMA InFlightTyped ==
    ASSUME Typed, NEW e \in InFlight
    PROVE  e.ask \in 1..Len(asks) /\ e.try \in Nat /\ e = [ask |-> e.ask, try |-> e.try]
<1>1. ASSUME e \in requests PROVE e.ask \in 1..Len(asks) /\ e.try \in Nat
                                    /\ e = [ask |-> e.ask, try |-> e.try]
  BY <1>1, TypedFacts DEF NetworkTyped
<1>2. ASSUME NEW reply \in replies, e = Exchange(reply)
      PROVE  e.ask \in 1..Len(asks) /\ e.try \in Nat /\ e = [ask |-> e.ask, try |-> e.try]
  BY <1>2, TypedFacts DEF NetworkTyped, Exchange
<1> QED BY <1>1, <1>2 DEF InFlight

\* The request the client waits for is the last one.
LEMMA LastIs == ASSUME Typed, Len(asks) >= 1 PROVE Last(asks) = asks[Len(asks)]
BY DEF Last

\* What InFlightCount adds.
LEMMA Sizes ==
    ASSUME FlightFinite
    PROVE  Cardinality(requests) \in Nat /\ Cardinality(replies) \in Nat
BY FS_CardinalityType DEF FlightFinite

\* The client turns to its prompt or ends, or asks, while nothing is awaited.
LEMMA FlightIdle ==
    ASSUME Flight, cpc # "recv", cpc' # "recv", UNCHANGED <<network, timeouts>>,
           \/ cpc' # "send"
           \/ Len(asks') = Len(asks) + 1
    PROVE  FlightFinite' /\ FlightApart' /\ FlightTries' /\ FlightThis' /\ InFlightCount'
<1>1. requests' = requests /\ replies' = replies /\ timeouts' = timeouts
  BY DEF network
<1>2. InFlight' = InFlight
  BY <1>1 DEF InFlight
<1>3. FlightFinite' /\ FlightApart'
  BY <1>1 DEF Flight, FlightFinite, FlightApart
<1>4. FlightTries'
  <2>1. CASE cpc' # "send"
    BY <2>1 DEF FlightTries
  <2>2. CASE Len(asks') = Len(asks) + 1
    <3>1. \A e \in InFlight : e.ask # Len(asks')
      BY <2>2, InFlightTyped, TypedFacts DEF Flight
    <3> QED BY <1>2, <3>1 DEF FlightTries
  <2> QED BY <2>1, <2>2
<1>5. InFlightCount'
  BY <1>1 DEF Flight, InFlightCount
<1> QED BY <1>3, <1>4, <1>5 DEF FlightThis

LEMMA FlightSend ==
    ASSUME Flight, sendDatagram
    PROVE  FlightFinite' /\ FlightApart' /\ FlightTries' /\ FlightThis' /\ InFlightCount'
<1>1. /\ cpc = "send" /\ cpc' = "recv" /\ requests' = requests \cup {This}
      /\ UNCHANGED <<retry, replies, asks, timeouts>>
  BY DEF sendDatagram, This, history
<1>2. This \notin InFlight
  <2>1. This.ask = Len(asks) /\ This.try = retry /\ retry \in Nat
    BY TypedFacts DEF Flight, This
  <2>2. ~(retry < retry)
    BY <2>1
  <2> QED BY <1>1, <2>1, <2>2 DEF Flight, FlightTries
<1>3. InFlight' = InFlight \cup {This} /\ This' = This
  BY <1>1 DEF InFlight, This
<1>4. FlightFinite' /\ Cardinality(requests') = Cardinality(requests) + 1
  <2>1. This \notin requests
    BY <1>2 DEF InFlight
  <2> QED BY <1>1, <2>1, FS_AddElement DEF Flight, FlightFinite
<1>5. FlightApart'
  BY <1>1, <1>2 DEF Flight, FlightApart, InFlight
<1>6. FlightTries'
  <2>1. ASSUME NEW e \in InFlight, e.ask = Len(asks) PROVE e.try <= retry
    <3>1. e.try < retry /\ e.try \in Nat /\ retry \in Nat
      BY <1>1, <2>1, InFlightTyped, TypedFacts DEF Flight, FlightTries
    <3> QED BY <3>1
  <2>2. This.try <= retry
    BY TypedFacts DEF This, Flight
  <2> QED BY <1>1, <1>3, <2>1, <2>2 DEF FlightTries
<1>7. InFlightCount'
  <2>1. Cardinality(requests) + Cardinality(replies) = timeouts + 0
    BY <1>1 DEF Flight, InFlightCount
  <2>2. Cardinality(requests) + 1 + Cardinality(replies) = timeouts + 1
    BY <2>1, Sizes, TypedFacts DEF Flight
  <2> QED BY <1>1, <1>4, <2>2 DEF InFlightCount
<1> QED BY <1>3, <1>4, <1>5, <1>6, <1>7 DEF FlightThis

\* The client no longer waits, and tries again.
LEMMA TriesAgain ==
    ASSUME Flight, cpc = "recv", cpc' = "send", retry' = retry + 1, UNCHANGED asks,
           InFlight' \subseteq InFlight
    PROVE  FlightTries' /\ FlightThis'
<1>1. ASSUME NEW e \in InFlight', e.ask = Len(asks') PROVE e.try < retry'
  <2>1. e.try <= retry /\ e.try \in Nat /\ retry \in Nat
    BY <1>1, InFlightTyped, TypedFacts DEF Flight, FlightTries
  <2> QED BY <2>1
<1> QED BY <1>1 DEF FlightTries, FlightThis

LEMMA FlightTimeout ==
    ASSUME Flight, timeout
    PROVE  FlightFinite' /\ FlightApart' /\ FlightTries' /\ FlightThis' /\ InFlightCount'
<1>1. /\ cpc = "recv" /\ cpc' = "send" /\ retry' = retry + 1 /\ timeouts' = timeouts + 1
      /\ UNCHANGED <<requests, replies, asks>>
  BY DEF timeout, network
<1>2. InFlight' = InFlight
  BY <1>1 DEF InFlight
<1>3. FlightFinite' /\ FlightApart'
  BY <1>1 DEF Flight, FlightFinite, FlightApart
<1>4. InFlightCount'
  <2>1. Cardinality(requests) + Cardinality(replies) = timeouts + 1
    BY <1>1 DEF Flight, InFlightCount
  <2>2. Cardinality(requests) + Cardinality(replies) = (timeouts + 1) + 0
    BY <2>1, TypedFacts DEF Flight
  <2> QED BY <1>1, <2>2 DEF InFlightCount
<1> QED BY <1>1, <1>2, <1>3, <1>4, TriesAgain

\* An answer is read.
LEMMA OneRead ==
    ASSUME Flight, NEW reply \in replies, cpc = "recv", cpc' # "recv",
           replies' = replies \ {reply}, UNCHANGED <<requests, timeouts>>
    PROVE  /\ FlightFinite' /\ FlightApart' /\ InFlightCount'
           /\ InFlight' \subseteq InFlight
<1>1. FlightFinite' /\ Cardinality(replies') = Cardinality(replies) - 1
  BY FS_RemoveElement DEF Flight, FlightFinite
<1>2. InFlightCount'
  <2>1. Cardinality(requests) + Cardinality(replies) = timeouts + 1
    BY DEF Flight, InFlightCount
  <2>2. Cardinality(requests) + (Cardinality(replies) - 1) = timeouts + 0
    BY <2>1, Sizes, TypedFacts DEF Flight
  <2> QED BY <1>1, <2>2 DEF InFlightCount
<1>3. InFlight' \subseteq InFlight
  BY DEF InFlight
<1>4. FlightApart'
  BY DEF Flight, FlightApart
<1> QED BY <1>1, <1>2, <1>3, <1>4

LEMMA FlightReceiveOther ==
    ASSUME Flight, NEW reply \in replies, receiveOther(reply)
    PROVE  FlightFinite' /\ FlightApart' /\ FlightTries' /\ FlightThis' /\ InFlightCount'
<1>1. /\ cpc = "recv" /\ cpc' = "send" /\ retry' = retry + 1
      /\ replies' = replies \ {reply} /\ UNCHANGED <<requests, asks, timeouts>>
  BY DEF receiveOther, history
<1> QED BY <1>1, OneRead, TriesAgain

LEMMA FlightReceive ==
    ASSUME Flight, NEW reply \in replies, receive(reply)
    PROVE  FlightFinite' /\ FlightApart' /\ FlightTries' /\ FlightThis' /\ InFlightCount'
<1>1. /\ cpc = "recv" /\ cpc' = "prompt"
      /\ replies' = replies \ {reply} /\ UNCHANGED <<requests, timeouts>>
  BY DEF receive, history
<1> QED BY <1>1, OneRead DEF FlightTries, FlightThis

\* A request becomes its answer.
LEMMA FlightServe ==
    ASSUME Flight, NEW request \in requests, handleUdpRequest(request)
    PROVE  /\ FlightFinite' /\ FlightApart' /\ FlightTries' /\ FlightThis' /\ InFlightCount'
           /\ InFlight' = InFlight
<1>0. TypeOK
  BY DEF Flight, Typed
<1>1. /\ requests' = requests \ {request}
      /\ request = [ask |-> request.ask, try |-> request.try]
      /\ UNCHANGED <<clientVars, history>>
  BY <1>0, RequestServed
<1>2. PICK code \in Codes :
         replies' = replies \cup {[ask |-> request.ask, try |-> request.try, code |-> code]}
  BY <1>0, RequestServed
<1> DEFINE new == [ask |-> request.ask, try |-> request.try, code |-> code]
<1>3. Exchange(new) = request
  BY <1>1 DEF Exchange
<1>4. new \notin replies
  BY <1>3 DEF Flight, FlightApart
<1> HIDE DEF new
<1>5. replies' = replies \cup {new}
  BY <1>2 DEF new
<1>6. /\ FlightFinite' /\ Cardinality(requests') = Cardinality(requests) - 1
      /\ Cardinality(replies') = Cardinality(replies) + 1
  BY <1>1, <1>4, <1>5, FS_AddElement, FS_RemoveElement DEF Flight, FlightFinite
<1>7. UNCHANGED <<cpc, retry, asks, timeouts>>
  BY <1>1 DEF clientVars, history
<1>8. InFlightCount'
  <2>1. Cardinality(requests) - 1 + (Cardinality(replies) + 1)
          = Cardinality(requests) + Cardinality(replies)
    BY Sizes DEF Flight
  <2> QED BY <1>6, <1>7, <2>1 DEF Flight, InFlightCount
<1>9. InFlight' = InFlight
  BY <1>1, <1>3, <1>5 DEF InFlight
<1>10. FlightApart'
  BY <1>1, <1>3, <1>5 DEF Flight, FlightApart
<1>11. FlightTries' /\ FlightThis'
  BY <1>7, <1>9 DEF Flight, FlightTries, FlightThis, This
<1> QED BY <1>6, <1>8, <1>9, <1>10, <1>11

LEMMA FlightQuiet ==
    ASSUME Flight, UNCHANGED <<network, cpc, retry, asks, timeouts>>
    PROVE  FlightFinite' /\ FlightApart' /\ FlightTries' /\ FlightThis' /\ InFlightCount'
<1>1. requests' = requests /\ replies' = replies
  BY DEF network
<1>2. InFlight' = InFlight /\ This' = This
  BY <1>1 DEF InFlight, This
<1> QED BY <1>1, <1>2 DEF Flight, FlightFinite, FlightApart, FlightTries, FlightThis,
                          InFlightCount

LEMMA FlightInit == Init => Flight
<1> SUFFICES ASSUME Init PROVE Flight
  OBVIOUS
<1>1. cpc = "prompt" /\ requests = {} /\ replies = {} /\ timeouts = 0
  BY DEF Init
<1>2. FlightFinite /\ Cardinality(requests) = 0 /\ Cardinality(replies) = 0
  BY <1>1, FS_EmptySet DEF FlightFinite
<1>3. InFlight = {}
  BY <1>1 DEF InFlight
<1> QED BY <1>1, <1>2, <1>3, TypedInit
      DEF Flight, FlightApart, FlightTries, FlightThis, InFlightCount

LEMMA FlightStep == Flight /\ [Next]_vars => Flight'
<1> SUFFICES ASSUME Flight, [Next]_vars PROVE Flight'
  OBVIOUS
<1> DEFINE Goal == /\ FlightFinite' /\ FlightApart' /\ FlightTries' /\ FlightThis'
                   /\ InFlightCount'
<1> SUFFICES Goal
  BY TypedStep DEF Flight
<1>1. CASE Client
  <2>1. ASSUME NEW line \in Lines, help(line) \/ quit(line) PROVE Goal
    <3>1. cpc # "recv" /\ cpc' \notin {"recv", "send"} /\ UNCHANGED <<network, timeouts>>
      BY <2>1 DEF help, quit, history
    <3> QED BY <3>1, FlightIdle
  <2>2. ASSUME NEW line \in Lines, ask(line) PROVE Goal
    <3>1. cpc # "recv" /\ cpc' # "recv" /\ UNCHANGED <<network, timeouts>>
      BY <2>2 DEF ask
    <3>2. Len(asks') = Len(asks) + 1
      <4>1. asks \in Seq(Requests)
        BY TypedFacts DEF Flight, AsksTyped
      <4> HIDE DEF Requests
      <4> QED BY <2>2, <4>1 DEF ask
    <3> QED BY <3>1, <3>2, FlightIdle
  <2>3. ASSUME sendFails \/ giveUp PROVE Goal
    <3>1. cpc # "recv" /\ cpc' \notin {"recv", "send"} /\ UNCHANGED <<network, timeouts>>
      BY <2>3 DEF sendFails, giveUp, history
    <3> QED BY <3>1, FlightIdle
  <2>4. ASSUME NEW reply \in replies, receiveOther(reply) \/ receive(reply) PROVE Goal
    BY <2>4, FlightReceiveOther, FlightReceive
  <2>5. sendDatagram \/ timeout => Goal
    BY FlightSend, FlightTimeout
  <2> QED BY <1>1, <2>1, <2>2, <2>3, <2>4, <2>5 DEF Client
<1>2. ASSUME NEW request \in requests, handleUdpRequest(request) PROVE Goal
  BY <1>2, FlightServe
<1>3. ASSUME NEW d \in Strangers, handleStranger(d) PROVE Goal
  <2>1. UNCHANGED <<network, cpc, retry, asks, timeouts>>
    BY <1>3, StrangerServed DEF clientVars, history
  <2> QED BY <2>1, FlightQuiet
<1>4. CASE UNCHANGED vars
  <2>1. UNCHANGED <<network, cpc, retry, asks, timeouts>>
    BY <1>4 DEF vars, clientVars, history
  <2> QED BY <2>1, FlightQuiet
<1> QED BY <1>1, <1>2, <1>3, <1>4 DEF Next

-----------------------------------------------------------------------------
(***************************************************************************)
(* What a request finds in flight while the client waits for its answer.   *)
(***************************************************************************)
\* The turns of this request that have been sent.
Turns == 0..(IF cpc = "recv" THEN retry ELSE retry - 1)

\* None of this request's own answers has been read.
OwnUnread ==
    cpc \in {"send", "recv"} =>
        \A try \in Turns : [ask |-> Len(asks), try |-> try] \in InFlight

EarlierCount ==
    cpc \in {"send", "recv"} =>
        Cardinality(Earlier(requests)) + Cardinality(Earlier(replies)) + retry = timeouts

Waiting == OwnUnread /\ EarlierCount

\* The earlier ones are finite in number, with their counts.
LEMMA EarlierSizes ==
    ASSUME Flight
    PROVE  /\ IsFiniteSet(Earlier(requests)) /\ IsFiniteSet(Earlier(replies))
           /\ Cardinality(Earlier(requests)) \in Nat /\ Cardinality(Earlier(replies)) \in Nat
<1>1. Earlier(requests) \subseteq requests /\ Earlier(replies) \subseteq replies
  BY DEF Earlier
<1>2. IsFiniteSet(Earlier(requests)) /\ IsFiniteSet(Earlier(replies))
  BY <1>1, FS_Subset DEF Flight, FlightFinite
<1> QED BY <1>2, FS_CardinalityType

\* Nothing is awaited after the step.
LEMMA WaitingIdle == ASSUME cpc' \notin {"send", "recv"} PROVE Waiting'
BY DEF Waiting, OwnUnread, EarlierCount

\* Nothing of what Waiting speaks of changes.
LEMMA WaitingQuiet ==
    ASSUME Waiting, UNCHANGED <<network, cpc, retry, asks, timeouts>>
    PROVE  Waiting'
<1>1. requests' = requests /\ replies' = replies
  BY DEF network
<1>2. InFlight' = InFlight /\ Turns' = Turns
  BY <1>1 DEF InFlight, Turns
<1> QED BY <1>1, <1>2 DEF Waiting, OwnUnread, EarlierCount, Earlier

\* A request is made: whatever is in flight is of earlier ones.
LEMMA WaitingAsk ==
    ASSUME Flight, NEW line \in Lines, ask(line)
    PROVE  Waiting'
<1> DEFINE L == Len(asks)
<1>1. /\ cpc = "prompt" /\ cpc' = "send" /\ requests' = requests /\ replies' = replies
      /\ retry' = retry /\ timeouts' = timeouts
  BY DEF ask, network
<1>2. retry = 0 /\ L \in Nat /\ timeouts \in Nat
  BY <1>1, TypedFacts DEF Flight, Counters
<1>3. Len(asks') = L + 1
  <2>1. asks \in Seq(Requests)
    BY TypedFacts DEF Flight, AsksTyped
  <2> HIDE DEF Requests
  <2> QED BY <2>1 DEF ask
<1>4. ASSUME NEW e \in InFlight PROVE e.ask < L + 1
  <2>1. e.ask \in 1..L
    BY InFlightTyped DEF Flight
  <2> QED BY <1>2, <2>1
<1>5. Earlier(requests)' = requests /\ Earlier(replies)' = replies
  <2>1. \A d \in requests : d.ask < L + 1
    BY <1>4 DEF InFlight
  <2>2. ASSUME NEW d \in replies PROVE d.ask < L + 1
    <3>1. Exchange(d) \in InFlight /\ Exchange(d).ask = d.ask
      BY DEF InFlight, Exchange
    <3> QED BY <1>4, <3>1
  <2> QED BY <1>1, <1>3, <2>1, <2>2 DEF Earlier
<1>6. EarlierCount'
  <2>1. Cardinality(requests) + Cardinality(replies) = timeouts + 0
    BY <1>1 DEF Flight, InFlightCount
  <2>2. Cardinality(requests) + Cardinality(replies) + 0 = timeouts
    BY <1>2, <2>1, Sizes DEF Flight
  <2> QED BY <1>1, <1>2, <1>5, <2>2 DEF EarlierCount
<1>7. Turns' = {}
  BY <1>1, <1>2 DEF Turns
<1> QED BY <1>6, <1>7 DEF Waiting, OwnUnread

LEMMA WaitingSend ==
    ASSUME Flight, Waiting, sendDatagram
    PROVE  Waiting'
<1>1. /\ cpc = "send" /\ cpc' = "recv" /\ requests' = requests \cup {This}
      /\ UNCHANGED <<retry, replies, asks, timeouts>>
  BY DEF sendDatagram, This, history
<1>2. retry \in Nat /\ Len(asks) \in Nat
  BY TypedFacts DEF Flight
<1>3. Earlier(requests)' = Earlier(requests) /\ Earlier(replies)' = Earlier(replies)
  <2>1. ~(This.ask < Len(asks))
    BY <1>2 DEF This
  <2> QED BY <1>1, <2>1 DEF Earlier
<1>4. OwnUnread'
  <2>1. ASSUME NEW try \in Turns' PROVE [ask |-> Len(asks), try |-> try] \in InFlight'
    <3>1. try = retry \/ try \in Turns
      BY <1>1, <1>2 DEF Turns
    <3>2. InFlight' = InFlight \cup {This}
      BY <1>1 DEF InFlight
    <3> QED BY <1>1, <3>1, <3>2 DEF Waiting, OwnUnread, This
  <2> QED BY <1>1, <2>1 DEF OwnUnread
<1> QED BY <1>1, <1>3, <1>4 DEF Waiting, EarlierCount

\* The next turn: the one that ends is counted among those sent.
LEMMA NextTurn ==
    ASSUME Flight, cpc = "recv", cpc' = "send", retry' = retry + 1
    PROVE  Turns' = Turns
<1>1. retry \in Nat /\ (retry + 1) - 1 = retry
  BY TypedFacts DEF Flight
<1> QED BY <1>1 DEF Turns

LEMMA WaitingTimeout ==
    ASSUME Flight, Waiting, timeout
    PROVE  Waiting'
<1>1. /\ cpc = "recv" /\ cpc' = "send" /\ retry' = retry + 1 /\ timeouts' = timeouts + 1
      /\ UNCHANGED <<requests, replies, asks>>
  BY DEF timeout, network
<1>2. InFlight' = InFlight /\ Earlier(requests)' = Earlier(requests)
      /\ Earlier(replies)' = Earlier(replies)
  BY <1>1 DEF InFlight, Earlier
<1>3. EarlierCount'
  <2> DEFINE q == Cardinality(Earlier(requests))
             r == Cardinality(Earlier(replies))
  <2>1. q \in Nat /\ r \in Nat /\ retry \in Nat /\ q + r + retry = timeouts
    BY <1>1, EarlierSizes, TypedFacts DEF Flight, Waiting, EarlierCount
  <2> HIDE DEF q, r
  <2>2. q + r + (retry + 1) = timeouts + 1
    BY <2>1
  <2> QED BY <1>1, <1>2, <2>2 DEF EarlierCount, q, r
<1> QED BY <1>1, <1>2, <1>3, NextTurn DEF Waiting, OwnUnread

\* What is read with another id is of an earlier request.
LEMMA OtherIsEarlier ==
    ASSUME Flight, NEW reply \in replies, receiveOther(reply)
    PROVE  reply.ask < Len(asks) /\ reply.ask # Len(asks)
<1>1. cpc = "recv" /\ asks[reply.ask].id # Last(asks).id
  BY DEF receiveOther, checkValidRequestId
<1>2. Typed /\ Len(asks) >= 1 /\ Len(asks) \in Nat
  BY <1>1, TypedFacts DEF Flight, Counters
<1>3. asks[reply.ask].id # asks[Len(asks)].id
  BY <1>1, <1>2, LastIs
<1>4. Exchange(reply) \in InFlight /\ Exchange(reply).ask = reply.ask
  BY DEF InFlight, Exchange
<1>5. reply.ask \in 1..Len(asks)
  BY <1>2, <1>4, InFlightTyped
<1>6. reply.ask # Len(asks)
  BY <1>3
<1> QED BY <1>2, <1>5, <1>6

LEMMA WaitingReceiveOther ==
    ASSUME Flight, Waiting, NEW reply \in replies, receiveOther(reply)
    PROVE  Waiting'
<1>1. /\ cpc = "recv" /\ cpc' = "send" /\ retry' = retry + 1
      /\ replies' = replies \ {reply} /\ UNCHANGED <<requests, asks, timeouts>>
  BY DEF receiveOther, history
<1>2. reply.ask < Len(asks) /\ reply.ask # Len(asks)
  BY OtherIsEarlier
<1>3. /\ Earlier(requests)' = Earlier(requests)
      /\ Earlier(replies)' = Earlier(replies) \ {reply} /\ reply \in Earlier(replies)
  BY <1>1, <1>2 DEF Earlier
<1>4. EarlierCount'
  <2> DEFINE q == Cardinality(Earlier(requests))
             r == Cardinality(Earlier(replies))
  <2>1. Cardinality(Earlier(replies)') = r - 1
    BY <1>3, EarlierSizes, FS_RemoveElement
  <2>2. q \in Nat /\ r \in Nat /\ retry \in Nat /\ q + r + retry = timeouts
    BY <1>1, EarlierSizes, TypedFacts DEF Flight, Waiting, EarlierCount
  <2> HIDE DEF q, r
  <2>3. q + (r - 1) + (retry + 1) = timeouts
    BY <2>2
  <2> QED BY <1>1, <1>3, <2>1, <2>3 DEF EarlierCount, q
<1>5. OwnUnread'
  <2>1. ASSUME NEW try \in Turns, [ask |-> Len(asks), try |-> try] \in InFlight
        PROVE  [ask |-> Len(asks), try |-> try] \in InFlight'
    <3>1. Exchange(reply) # [ask |-> Len(asks), try |-> try]
      BY <1>2 DEF Exchange
    <3> QED BY <1>1, <2>1, <3>1 DEF InFlight
  <2> QED BY <1>1, <2>1, NextTurn DEF Waiting, OwnUnread
<1> QED BY <1>4, <1>5 DEF Waiting

LEMMA WaitingServe ==
    ASSUME Flight, Waiting, NEW request \in requests, handleUdpRequest(request)
    PROVE  Waiting'
<1>0. TypeOK
  BY DEF Flight, Typed
<1>1. /\ requests' = requests \ {request}
      /\ request = [ask |-> request.ask, try |-> request.try]
      /\ UNCHANGED <<cpc, retry, asks, timeouts>>
  BY <1>0, RequestServed DEF clientVars, history
<1>2. PICK code \in Codes :
         replies' = replies \cup {[ask |-> request.ask, try |-> request.try, code |-> code]}
  BY <1>0, RequestServed
<1> DEFINE new == [ask |-> request.ask, try |-> request.try, code |-> code]
<1>3. Exchange(new) = request /\ new.ask = request.ask
  BY <1>1 DEF Exchange
<1>4. new \notin replies
  BY <1>3 DEF Flight, FlightApart
<1> HIDE DEF new
<1>5. replies' = replies \cup {new}
  BY <1>2 DEF new
<1>6. InFlight' = InFlight /\ Turns' = Turns
  BY <1>1, FlightServe DEF Turns
<1> DEFINE q == Cardinality(Earlier(requests))
           r == Cardinality(Earlier(replies))
<1>7. q \in Nat /\ r \in Nat
  BY EarlierSizes
<1>8. Cardinality(Earlier(requests)') + Cardinality(Earlier(replies)') = q + r
  <2>1. CASE request.ask < Len(asks)
    <3>1. /\ Earlier(requests)' = Earlier(requests) \ {request}
          /\ request \in Earlier(requests)
          /\ Earlier(replies)' = Earlier(replies) \cup {new} /\ new \notin Earlier(replies)
      BY <1>1, <1>3, <1>4, <1>5, <2>1 DEF Earlier
    <3>2. /\ Cardinality(Earlier(requests)') = q - 1
          /\ Cardinality(Earlier(replies)') = r + 1
      <4>1. Cardinality(Earlier(requests) \ {request}) = q - 1
        BY <3>1, EarlierSizes, FS_RemoveElement
      <4>2. Cardinality(Earlier(replies) \cup {new}) = r + 1
        BY <3>1, EarlierSizes, FS_AddElement
      <4> QED BY <3>1, <4>1, <4>2
    <3> HIDE DEF q, r
    <3>3. (q - 1) + (r + 1) = q + r
      BY <1>7
    <3> QED BY <3>2, <3>3
  <2>2. CASE ~(request.ask < Len(asks))
    <3>1. Earlier(requests)' = Earlier(requests) /\ Earlier(replies)' = Earlier(replies)
      BY <1>1, <1>3, <1>5, <2>2 DEF Earlier
    <3> QED BY <3>1
  <2> QED BY <2>1, <2>2
<1> QED BY <1>1, <1>6, <1>8 DEF Waiting, OwnUnread, EarlierCount

LEMMA WaitingStep == Flight /\ Waiting /\ [Next]_vars => Waiting'
<1> SUFFICES ASSUME Flight, Waiting, [Next]_vars PROVE Waiting'
  OBVIOUS
<1>1. CASE Client
  <2>1. ASSUME NEW line \in Lines, help(line) \/ quit(line) PROVE Waiting'
    BY <2>1, WaitingIdle DEF help, quit
  <2>2. ASSUME sendFails \/ giveUp PROVE Waiting'
    BY <2>2, WaitingIdle DEF sendFails, giveUp
  <2>3. ASSUME NEW reply \in replies, receive(reply) PROVE Waiting'
    BY <2>3, WaitingIdle DEF receive
  <2> QED BY <1>1, <2>1, <2>2, <2>3, WaitingAsk, WaitingSend, WaitingTimeout,
             WaitingReceiveOther DEF Client
<1>2. ASSUME NEW request \in requests, handleUdpRequest(request) PROVE Waiting'
  BY <1>2, WaitingServe
<1>3. ASSUME NEW d \in Strangers, handleStranger(d) PROVE Waiting'
  BY <1>3, StrangerServed, WaitingQuiet DEF clientVars, history
<1>4. CASE UNCHANGED vars
  BY <1>4, WaitingQuiet DEF vars, clientVars, history
<1> QED BY <1>1, <1>2, <1>3, <1>4 DEF Next

\* A retry is always a timeout, of this request or of an earlier one whose late
\* answer it has read, and no answer of its own has been read (sendDatagram).
THEOREM RetriesPaid == Spec => []RetriesAreTimeouts
<1>1. Init => Flight /\ Waiting
  BY FlightInit DEF Init, Waiting, OwnUnread, EarlierCount
<1>2. Flight /\ Waiting /\ [Next]_vars => (Flight /\ Waiting)'
  BY FlightStep, WaitingStep
<1>3. Spec => [](Flight /\ Waiting)
  BY <1>1, <1>2, PTL DEF Spec
<1>4. Flight /\ Waiting => RetriesAreTimeouts
  <2> SUFFICES ASSUME Waiting, cpc \in {"send", "recv"}, NEW try \in Turns
               PROVE  \E d \in requests \cup replies : d.ask = Len(asks) /\ d.try = try
    BY DEF RetriesAreTimeouts, Waiting, EarlierCount, Turns
  <2> DEFINE e == [ask |-> Len(asks), try |-> try]
  <2>1. e \in InFlight /\ e.ask = Len(asks) /\ e.try = try
    BY DEF Waiting, OwnUnread
  <2> HIDE DEF e
  <2>2. CASE e \in requests
    BY <2>1, <2>2
  <2>3. CASE e \notin requests
    <3>1. PICK reply \in replies : e = Exchange(reply)
      BY <2>1, <2>3 DEF InFlight
    <3> QED BY <2>1, <3>1 DEF Exchange
  <2> QED BY <2>2, <2>3
<1> QED BY <1>3, <1>4, PTL

-----------------------------------------------------------------------------
(***************************************************************************)
(* As long as no recv() has timed out, what is in flight is what the       *)
(* client waits for.                                                       *)
(***************************************************************************)
LEMMA NothingInFlight ==
    ASSUME Flight, timeouts = 0, cpc # "recv"
    PROVE  requests = {} /\ replies = {} /\ InFlight = {}
<1>1. Cardinality(requests) + Cardinality(replies) = 0
  BY DEF Flight, InFlightCount
<1>2. Cardinality(requests) = 0 /\ Cardinality(replies) = 0
  BY <1>1, Sizes DEF Flight
<1>3. requests = {} /\ replies = {}
  BY <1>2, FS_EmptySet DEF Flight, FlightFinite
<1> QED BY <1>3 DEF InFlight

LEMMA OneInFlight ==
    ASSUME Flight, timeouts = 0, cpc = "recv"
    PROVE  /\ InFlight = {This}
           /\ This \in requests => requests = {This} /\ replies = {}
           /\ This \notin requests => requests = {}
<1> DEFINE q == Cardinality(requests)
           r == Cardinality(replies)
<1>1. q \in Nat /\ r \in Nat /\ q + r = 1
  BY Sizes DEF Flight, InFlightCount
<1>2. \/ q = 1 /\ r = 0
      \/ q = 0 /\ r = 1
  BY <1>1
<1>3. This \in InFlight
  BY DEF Flight, FlightThis
<1>4. CASE q = 1 /\ r = 0
  <2>1. replies = {} /\ \E x : requests = {x}
    BY <1>4, FS_EmptySet, FS_Singleton DEF Flight, FlightFinite
  <2> QED BY <1>3, <2>1 DEF InFlight
<1>5. CASE q = 0 /\ r = 1
  <2>1. requests = {} /\ \E x : replies = {x}
    BY <1>5, FS_EmptySet, FS_Singleton DEF Flight, FlightFinite
  <2> QED BY <1>3, <2>1 DEF InFlight
<1> QED BY <1>2, <1>4, <1>5

-----------------------------------------------------------------------------
(***************************************************************************)
(* The ids.                                                                *)
(***************************************************************************)
\* The ids do not go back, and after a timeout they go on.
IdsOrdered ==
    \A m, n \in 1..Len(asks) : m <= n => asks[m].id <= asks[n].id

LateDiffer ==
    \A m \in late : \A n \in 1..Len(asks) : m < n => asks[m].id < asks[n].id

\* What is in flight of an earlier request was left by a timeout, of that request
\* or of one before it.
LateLeft ==
    /\ timeouts > 0 => late # {}
    /\ \A e \in InFlight : e.ask < Len(asks) => \E m \in late : m <= e.ask

Ids == IdsOrdered /\ LateDiffer /\ LateLeft

Own == Flight /\ Ids /\ OwnAnswer

\* A step within a request.
LEMMA IdsKept ==
    ASSUME Own, UNCHANGED asks, InFlight' \subseteq InFlight \cup {This},
           \/ UNCHANGED <<timeouts, late>>
           \/ late' = late \cup {Len(asks)}
    PROVE  Ids'
<1>1. Len(asks) \in Nat
  BY TypedFacts DEF Own, Flight
<1>2. late \subseteq late' /\ \A m \in late' : m \in late \/ m = Len(asks)
  OBVIOUS
<1>3. IdsOrdered'
  BY DEF Own, Ids, IdsOrdered
<1>4. LateDiffer'
  <2>1. ASSUME NEW m \in late', NEW n \in 1..Len(asks), m < n
        PROVE  asks[m].id < asks[n].id
    <3>1. m # Len(asks)
      BY <1>1, <2>1
    <3> QED BY <1>2, <2>1, <3>1 DEF Own, Ids, LateDiffer
  <2> QED BY <2>1 DEF LateDiffer
<1>5. LateLeft'
  <2>1. timeouts' > 0 => late' # {}
    BY DEF Own, Ids, LateLeft
  <2>2. ASSUME NEW e \in InFlight', e.ask < Len(asks) PROVE \E m \in late' : m <= e.ask
    <3>1. e # This
      BY <1>1, <2>2 DEF This
    <3> QED BY <1>2, <2>2, <3>1 DEF Own, Ids, LateLeft
  <2> QED BY <2>1, <2>2 DEF LateLeft
<1> QED BY <1>3, <1>4, <1>5 DEF Ids

\* The answer printed stays, or goes.
LEMMA AnswerKept ==
    ASSUME Own, UNCHANGED asks, answer' \in {answer, NoAnswer},
           UNCHANGED late \/ (late' = late \cup {Len(asks)})
    PROVE  OwnAnswer'
<1>1. CASE answer' = NoAnswer
  BY <1>1 DEF OwnAnswer, NoAnswer
<1>2. CASE answer' = answer
  <2>1. late \subseteq late' /\ \A m \in late' : m \in late \/ m = Len(asks)
    OBVIOUS
  <2> QED BY <1>2, <2>1 DEF Own, OwnAnswer
<1> QED BY <1>1, <1>2

LEMMA OwnAsk ==
    ASSUME Own, NEW line \in Lines, ask(line)
    PROVE  Ids' /\ OwnAnswer'
<1> DEFINE L == Len(asks)
<1>1. PICK id \in generateRandomString : asks' = Append(asks, [line |-> Scanned(line), id |-> id])
  BY DEF ask
<1>2. /\ cpc = "prompt" /\ answer' = NoAnswer
      /\ UNCHANGED <<requests, replies, timeouts, late>>
  BY DEF ask, network
<1>3. Typed /\ L \in Nat /\ asks \in Seq(Requests) /\ timeouts \in Nat /\ late \subseteq 1..L
  BY TypedFacts DEF Own, Flight, AsksTyped, ClientTyped
<1>4. /\ L > 0 => id >= asks[L].id
      /\ L \in late => id > asks[L].id
  BY <1>3, NewId
<1>5. Len(asks') = L + 1 /\ asks'[L + 1].id = id /\ \A n \in 1..L : asks'[n] = asks[n]
  <2> HIDE DEF Requests
  <2> QED BY <1>1, <1>3
<1>6. id \in Nat /\ \A n \in 1..L : asks[n].id \in Nat
  <2>1. id \in 1..(L + 1)
    BY <1>3, NewId
  <2>2. ASSUME NEW n \in 1..L PROVE asks[n] \in Requests
    <3> HIDE DEF Requests
    <3> QED BY <1>3
  <2>3. MaxAsks \in Nat
    BY BoundAssumption
  <2> QED BY <1>3, <2>1, <2>2, <2>3 DEF Requests
<1>7. /\ \A m, n \in 1..L : m <= n => asks[m].id <= asks[n].id
      /\ \A m \in late : \A n \in 1..L : m < n => asks[m].id < asks[n].id
  BY DEF Own, Ids, IdsOrdered, LateDiffer
<1> HIDE DEF L
<1>8. ASSUME NEW m \in 1..(L + 1), NEW n \in 1..(L + 1), m <= n
      PROVE  asks'[m].id <= asks'[n].id
  <2>1. CASE n \in 1..L
    <3>1. m \in 1..L
      BY <1>3, <1>8, <2>1
    <3> QED BY <1>5, <1>7, <1>8, <2>1, <3>1
  <2>2. CASE m = L + 1
    <3>1. n = L + 1
      BY <1>3, <1>8, <2>2
    <3> QED BY <1>5, <1>6, <2>2, <3>1
  <2>3. CASE m \in 1..L /\ n = L + 1
    <3>1. L \in 1..L /\ m <= L /\ L > 0
      BY <1>3, <2>3
    <3>2. asks[m].id <= asks[L].id
      BY <1>7, <2>3, <3>1
    <3>3. asks[m].id <= id
      BY <1>4, <1>6, <2>3, <3>1, <3>2
    <3> QED BY <1>5, <2>3, <3>3
  <2> QED BY <1>3, <2>1, <2>2, <2>3
<1>9. ASSUME NEW m \in late, NEW n \in 1..(L + 1), m < n
      PROVE  asks'[m].id < asks'[n].id
  <2>1. m \in 1..L /\ asks'[m] = asks[m]
    BY <1>3, <1>5
  <2>2. CASE n \in 1..L
    BY <1>5, <1>7, <1>9, <2>1, <2>2
  <2>3. CASE n = L + 1
    <3>1. asks[m].id < id
      <4>1. L \in 1..L /\ L > 0 /\ m <= L
        BY <1>3, <2>1
      <4>2. CASE m = L
        BY <1>4, <1>6, <4>1, <4>2
      <4>3. CASE m # L
        <5>1. m < L
          BY <1>3, <2>1, <4>1, <4>3
        <5>2. asks[m].id < asks[L].id
          BY <1>7, <4>1, <5>1
        <5> QED BY <1>4, <1>6, <2>1, <4>1, <5>2
      <4> QED BY <4>2, <4>3
    <3> QED BY <1>5, <2>1, <2>3, <3>1
  <2> QED BY <1>3, <2>2, <2>3
<1>10. InFlight' = InFlight
  BY <1>2 DEF InFlight
\* The request that is done: what it leaves, a timeout left.
<1>11. ASSUME NEW e \in InFlight PROVE \E m \in late : m <= e.ask
  <2>1. e.ask \in 1..L
    BY <1>3, InFlightTyped DEF L
  <2>2. CASE e.ask < L
    BY <2>2 DEF Own, Ids, LateLeft, L
  <2>3. CASE e.ask = L
    <3>1. timeouts # 0
      BY <1>2, NothingInFlight DEF Own
    <3>2. late # {}
      <4>1. timeouts > 0
        BY <1>3, <3>1
      <4> QED BY <4>1 DEF Own, Ids, LateLeft
    <3>3. \A m \in late : m <= L
      BY <1>3
    <3> QED BY <2>3, <3>2, <3>3
  <2> QED BY <1>3, <2>1, <2>2, <2>3
<1>12. Ids'
  <2>1. IdsOrdered'
    BY <1>5, <1>8 DEF IdsOrdered
  <2>2. LateDiffer'
    BY <1>2, <1>5, <1>9 DEF LateDiffer
  <2>3. LateLeft'
    BY <1>2, <1>10, <1>11 DEF Own, Ids, LateLeft
  <2> QED BY <2>1, <2>2, <2>3 DEF Ids
<1>13. OwnAnswer'
  BY <1>2 DEF OwnAnswer, NoAnswer
<1> QED BY <1>12, <1>13

LEMMA OwnReceive ==
    ASSUME Own, NEW reply \in replies, receive(reply)
    PROVE  OwnAnswer'
<1> DEFINE L == Len(asks)
           a == reply.ask
<1>1. /\ cpc = "recv" /\ asks[a].id = Last(asks).id
      /\ answer' = [ask |-> a, code |-> reply.code] /\ UNCHANGED <<asks, late>>
  BY DEF receive, checkValidRequestId, history
<1>2. Typed /\ L >= 1 /\ L \in Nat /\ late \subseteq 1..L
  BY <1>1, TypedFacts DEF Own, Flight, Counters, ClientTyped
<1>3. Last(asks) = asks[L]
  BY <1>2, LastIs
<1>4. Exchange(reply) \in InFlight /\ Exchange(reply).ask = a
  BY DEF InFlight, Exchange
<1>5. a \in 1..L
  BY <1>2, <1>4, InFlightTyped
<1>6. CASE a = L
  BY <1>1, <1>6 DEF OwnAnswer
<1>7. CASE a # L
  <2>1. a < L /\ L \in 1..L
    BY <1>2, <1>5, <1>7
  <2>2. asks[L].id \in Int
    <3>1. asks \in Seq(Requests) /\ MaxAsks \in Nat
      BY <1>2, TypedFacts DEF AsksTyped
    <3>2. asks[L] \in Requests
      <4> HIDE DEF Requests
      <4> QED BY <2>1, <3>1
    <3> QED BY <3>1, <3>2 DEF Requests
  <2>3. ASSUME NEW m \in late, m \in 1..L, a <= m, m # L PROVE FALSE
    <3>1. m < L
      BY <1>2, <2>3
    <3>2. asks[m].id < asks[L].id
      BY <2>1, <3>1 DEF Own, Ids, LateDiffer
    <3>3. asks[a].id <= asks[m].id
      BY <1>5, <2>3 DEF Own, Ids, IdsOrdered
    <3>4. asks[m].id \in Int
      <4>1. asks \in Seq(Requests) /\ MaxAsks \in Nat
        BY <1>2, TypedFacts DEF AsksTyped
      <4>2. asks[m] \in Requests
        <5> HIDE DEF Requests
        <5> QED BY <2>3, <4>1
      <4> QED BY <4>1, <4>2 DEF Requests
    <3> QED BY <1>1, <1>3, <2>2, <3>2, <3>3, <3>4
  <2>4. \A m \in late : m < a \/ m = L
    BY <1>2, <1>5, <2>3
  <2>5. \E m \in late : m < a
    <3>1. PICK m \in late : m <= a
      BY <1>4, <2>1 DEF Own, Ids, LateLeft
    <3>2. m # L
      BY <1>2, <1>5, <2>1, <3>1
    <3> QED BY <2>4, <3>2
  <2> HIDE DEF L, a
  <2>6. asks'[answer'.ask].id = Last(asks').id
    BY <1>1
  <2> QED BY <1>1, <2>4, <2>5, <2>6 DEF OwnAnswer, L
<1> QED BY <1>6, <1>7

LEMMA OwnInit == Init => Own
<1> SUFFICES ASSUME Init PROVE Own
  OBVIOUS
<1>1. /\ asks = <<>> /\ answer = NoAnswer /\ late = {} /\ timeouts = 0
      /\ requests = {} /\ replies = {}
  BY DEF Init
<1>2. Len(asks) = 0 /\ InFlight = {}
  BY <1>1 DEF InFlight
<1> QED BY <1>1, <1>2, FlightInit
      DEF Own, Ids, IdsOrdered, LateDiffer, LateLeft, OwnAnswer, NoAnswer

LEMMA OwnStep == Own /\ [Next]_vars => Own'
<1> SUFFICES ASSUME Own, [Next]_vars PROVE Ids' /\ OwnAnswer'
  BY FlightStep DEF Own
<1> DEFINE Goal == Ids' /\ OwnAnswer'
<1>0. Typed /\ Flight /\ timeouts \in Nat
  BY TypedFacts DEF Own, Flight
\* A step that neither asks nor receives.
<1>1. ASSUME UNCHANGED asks, InFlight' \subseteq InFlight \cup {This},
             answer' \in {answer, NoAnswer},
             UNCHANGED <<timeouts, late>> \/ late' = late \cup {Len(asks)}
      PROVE  Goal
  BY <1>1, IdsKept, AnswerKept
<1>2. CASE Client
  <2>1. ASSUME NEW line \in Lines, help(line) \/ quit(line) PROVE Goal
    <3>1. UNCHANGED <<asks, timeouts, late, requests, replies>>
          /\ answer' \in {answer, NoAnswer}
      BY <2>1 DEF help, quit, history, network
    <3>2. InFlight' = InFlight
      BY <3>1 DEF InFlight
    <3> QED BY <1>1, <3>1, <3>2
  <2>2. ASSUME NEW line \in Lines, ask(line) PROVE Goal
    BY <2>2, OwnAsk
  <2>3. ASSUME sendDatagram PROVE Goal
    <3>1. UNCHANGED <<asks, timeouts, late, answer, replies>>
          /\ requests' = requests \cup {This}
      BY <2>3 DEF sendDatagram, history, This
    <3>2. InFlight' \subseteq InFlight \cup {This}
      BY <3>1 DEF InFlight
    <3> QED BY <1>1, <3>1, <3>2
  <2>4. ASSUME sendFails \/ giveUp PROVE Goal
    <3>1. UNCHANGED <<asks, timeouts, late, requests, replies, answer>>
      BY <2>4 DEF sendFails, giveUp, history, network
    <3>2. InFlight' = InFlight
      BY <3>1 DEF InFlight
    <3> QED BY <1>1, <3>1, <3>2
  <2>5. ASSUME timeout PROVE Goal
    <3>1. /\ UNCHANGED <<asks, requests, replies, answer>>
          /\ late' = late \cup {Len(asks)}
      BY <2>5 DEF timeout, network
    <3>2. InFlight' = InFlight
      BY <3>1 DEF InFlight
    <3> QED BY <1>1, <3>1, <3>2
  <2>6. ASSUME NEW reply \in replies, receiveOther(reply) PROVE Goal
    <3>1. UNCHANGED <<asks, timeouts, late, requests, answer>>
          /\ replies' = replies \ {reply}
      BY <2>6 DEF receiveOther, history
    <3>2. InFlight' \subseteq InFlight
      BY <3>1 DEF InFlight
    <3> QED BY <1>1, <3>1, <3>2
  <2>7. ASSUME NEW reply \in replies, receive(reply) PROVE Goal
    <3>1. UNCHANGED <<asks, timeouts, late, requests>> /\ replies' = replies \ {reply}
      BY <2>7 DEF receive, history
    <3>2. InFlight' \subseteq InFlight
      BY <3>1 DEF InFlight
    <3> QED BY <2>7, <3>1, <3>2, OwnReceive, IdsKept
  <2> QED BY <1>2, <2>1, <2>2, <2>3, <2>4, <2>5, <2>6, <2>7 DEF Client
<1>3. ASSUME NEW request \in requests, handleUdpRequest(request) PROVE Goal
  <2>1. InFlight' = InFlight
    BY <1>0, <1>3, FlightServe
  <2>2. UNCHANGED <<clientVars, history>>
    BY <1>3 DEF handleUdpRequest
  <2> QED BY <1>1, <2>1, <2>2 DEF clientVars, history
<1>4. ASSUME NEW d \in Strangers, handleStranger(d) PROVE Goal
  <2>1. UNCHANGED <<clientVars, network, history>>
    BY <1>4, StrangerServed
  <2>2. InFlight' = InFlight
    BY <2>1 DEF InFlight, network
  <2> QED BY <1>1, <2>1, <2>2 DEF clientVars, history
<1>5. CASE UNCHANGED vars
  <2>1. UNCHANGED <<clientVars, network, history>>
    BY <1>5 DEF vars
  <2>2. InFlight' = InFlight
    BY <2>1 DEF InFlight, network
  <2> QED BY <1>1, <2>1, <2>2 DEF clientVars, history
<1> QED BY <1>2, <1>3, <1>4, <1>5 DEF Next

\* A request gets an answer that is not its own only from one of the same second,
\* itself cut off by a late answer to a request before it (checkValidRequestId,
\* generateRandomString).
THEOREM AnswersOwn == Spec => []OwnAnswer
<1>1. Spec => []Own
  BY OwnInit, OwnStep, PTL DEF Spec
<1>2. Own => OwnAnswer
  BY DEF Own
<1> QED BY <1>1, <1>2, PTL

-----------------------------------------------------------------------------
(***************************************************************************)
(* Requests carried out one after the other.                               *)
(***************************************************************************)
\* The recursive definition of Carrying has a solution, which is Carrying.
LEMMA CarryingStep ==
    ASSUME NEW made, Len(made) \in Nat
    PROVE  /\ Carrying(made)[0] = InitialUsers
           /\ \A n \in 1..Len(made) :
                 Carrying(made)[n] = Carried(Carrying(made)[n - 1], made[n])
<1> DEFINE N == Len(made)
           Solves(f, k) ==
             f = [n \in 0..k |-> IF n = 0 THEN InitialUsers
                                 ELSE Carried(f[n - 1], made[n])]
           S == {k \in Nat : \E f : Solves(f, k)}
<1>1. 0 \in S
  <2> DEFINE f == [n \in 0..0 |-> InitialUsers]
  <2>1. Solves(f, 0)
    OBVIOUS
  <2> QED BY <2>1
<1>2. ASSUME NEW k \in S PROVE k + 1 \in S
  <2>1. k \in Nat
    OBVIOUS
  <2>2. PICK f : Solves(f, k)
    OBVIOUS
  <2> DEFINE g == [n \in 0..(k + 1) |-> IF n = k + 1
                      THEN Carried(f[k], made[k + 1]) ELSE f[n]]
  <2>3. g[0] = InitialUsers
    BY <2>1, <2>2
  <2>4. ASSUME NEW n \in 0..(k + 1), n # 0
        PROVE  g[n] = Carried(g[n - 1], made[n])
    <3>1. n - 1 \in 0..k /\ g[n - 1] = f[n - 1]
      BY <2>1, <2>4
    <3>2. CASE n = k + 1
      BY <2>1, <3>1, <3>2
    <3>3. CASE n # k + 1
      <4>1. n \in 0..k
        BY <2>1, <3>3
      <4>2. f[n] = Carried(f[n - 1], made[n])
        BY <2>2, <2>4, <4>1
      <4> QED BY <3>1, <3>3, <4>2
    <3> QED BY <3>2, <3>3
  <2>5. g = [n \in 0..(k + 1) |-> g[n]]
    OBVIOUS
  <2> HIDE DEF g
  <2>6. Solves(g, k + 1)
    BY <2>3, <2>4, <2>5
  <2> HIDE DEF Solves
  <2> QED BY <2>1, <2>6
<1>3. N \in S
  <2>1. S \in SUBSET Nat
    OBVIOUS
  <2> HIDE DEF S
  <2> QED BY <1>1, <1>2, <2>1, Induct
<1> DEFINE P == Carrying(made)
<1>4. P = CHOOSE f : Solves(f, N)
  BY DEF Carrying
<1>5. Solves(P, N)
  BY <1>3, <1>4
<1> HIDE DEF P
<1> QED BY <1>5 DEF P

\* A request made later changes nothing of what those before it give.
LEMMA CarryingLonger ==
    ASSUME NEW made, NEW longer, Len(made) \in Nat, Len(longer) = Len(made) + 1,
           \A n \in 1..Len(made) : longer[n] = made[n]
    PROVE  Carrying(longer)[Len(made)] = Carrying(made)[Len(made)]
<1> DEFINE N == Len(made)
           P == Carrying(made)
           Q == Carrying(longer)
<1>1. P[0] = InitialUsers /\ \A n \in 1..N : P[n] = Carried(P[n - 1], made[n])
  BY CarryingStep
<1>2. Q[0] = InitialUsers /\ \A n \in 1..(N + 1) : Q[n] = Carried(Q[n - 1], longer[n])
  BY CarryingStep
<1>3. N \in Nat /\ \A n \in 1..N : longer[n] = made[n]
  OBVIOUS
<1> HIDE DEF N, P, Q
<1> DEFINE T == {n \in 0..N : Q[n] = P[n]}
<1>4. 0 \in T
  BY <1>1, <1>2, <1>3
<1>5. ASSUME NEW n \in 0..(N - 1), n \in T PROVE n + 1 \in T
  <2>1. n + 1 \in 1..N /\ n + 1 \in 1..(N + 1) /\ n + 1 \in 0..N /\ (n + 1) - 1 = n
    BY <1>3
  <2>2. P[n + 1] = Carried(P[n], made[n + 1]) /\ Q[n + 1] = Carried(Q[n], longer[n + 1])
    BY <1>1, <1>2, <2>1
  <2> QED BY <1>3, <1>5, <2>1, <2>2
<1> HIDE DEF T
<1>6. N \in T
  <2>1. N \in 0..N
    BY <1>3
  <2> QED BY <1>3, <1>4, <1>5, <2>1, InductTo
<1> QED BY <1>6 DEF T, N, P, Q

\* The requests that have been carried out.
CarriedSoFar ==
    IF cpc = "send" \/ (cpc = "recv" /\ This \in requests) THEN Len(asks) - 1
    ELSE Len(asks)

Given(n) == IF flag = "none" THEN Carrying(asks)[n] ELSE InitialUsers

\* A session without a timeout, at each point of it.
Clean ==
    timeouts = 0 =>
        /\ retry = 0
        /\ cpc = "prompt" => answer.ask = Len(asks)
        /\ cpc # "ended" => users = Given(CarriedSoFar)

LEMMA CleanAsk ==
    ASSUME Flight, Clean, NEW line \in Lines, ask(line)
    PROVE  Clean'
<1> SUFFICES ASSUME timeouts' = 0
             PROVE  retry' = 0 /\ cpc' # "prompt" /\ users' = Given(CarriedSoFar)'
  BY DEF Clean
<1> DEFINE L == Len(asks)
<1>1. /\ cpc = "prompt" /\ cpc' = "send"
      /\ UNCHANGED <<users, flag, retry, timeouts>>
  BY DEF ask, serverVars
<1>2. PICK id : asks' = Append(asks, [line |-> Scanned(line), id |-> id])
  BY DEF ask
<1>3. L \in Nat /\ asks \in Seq(Requests)
  BY TypedFacts DEF Flight, AsksTyped
<1>4. Len(asks') = L + 1 /\ \A n \in 1..L : asks'[n] = asks[n]
  <2> HIDE DEF Requests
  <2> QED BY <1>2, <1>3
<1>5. Carrying(asks')[L] = Carrying(asks)[L]
  BY <1>3, <1>4, CarryingLonger
<1>6. CarriedSoFar = L /\ CarriedSoFar' = L
  BY <1>1, <1>3, <1>4 DEF CarriedSoFar
<1>7. retry = 0 /\ users = Given(L)
  BY <1>1, <1>6 DEF Clean
<1>8. Given(CarriedSoFar)' = IF flag' = "none" THEN Carrying(asks')[L] ELSE InitialUsers
  BY <1>6 DEF Given
<1> QED BY <1>1, <1>5, <1>7, <1>8 DEF Given

\* A step that leaves the requests and the users as they are.
LEMMA CleanKept ==
    ASSUME Clean, UNCHANGED <<asks, users, flag>>, timeouts' = 0 => timeouts = 0,
           timeouts' = 0 => retry' = 0,
           timeouts' = 0 /\ cpc' = "prompt" => answer'.ask = Len(asks),
           timeouts' = 0 /\ cpc' # "ended" => cpc # "ended" /\ CarriedSoFar' = CarriedSoFar
    PROVE  Clean'
<1>1. ASSUME timeouts' = 0, cpc' # "ended" PROVE users' = Given(CarriedSoFar)'
  <2>1. users = Given(CarriedSoFar) /\ CarriedSoFar' = CarriedSoFar
    BY <1>1 DEF Clean
  <2>2. Given(CarriedSoFar)' = IF flag' = "none" THEN Carrying(asks')[CarriedSoFar']
                               ELSE InitialUsers
    BY DEF Given
  <2> QED BY <2>1, <2>2 DEF Given
<1> QED BY <1>1 DEF Clean

LEMMA CleanSend ==
    ASSUME Flight, Clean, sendDatagram
    PROVE  Clean'
<1>1. /\ cpc = "send" /\ cpc' = "recv" /\ requests' = requests \cup {This}
      /\ UNCHANGED <<users, flag, retry, asks, timeouts>>
  BY DEF sendDatagram, This, history, serverVars
<1>2. This' = This /\ This \in requests'
  BY <1>1 DEF This
<1>3. CarriedSoFar' = CarriedSoFar
  BY <1>1, <1>2 DEF CarriedSoFar
<1> QED BY <1>1, <1>3, CleanKept DEF Clean

LEMMA CleanReceive ==
    ASSUME Flight, Clean, NEW reply \in replies, receive(reply)
    PROVE  Clean'
<1>1. /\ cpc = "recv" /\ cpc' = "prompt" /\ retry' = 0
      /\ answer' = [ask |-> reply.ask, code |-> reply.code]
      /\ UNCHANGED <<users, flag, requests, asks, timeouts>>
  BY DEF receive, history, serverVars
<1>2. ASSUME timeouts = 0 PROVE reply.ask = Len(asks) /\ CarriedSoFar' = CarriedSoFar
  <2>1. Exchange(reply) = This
    BY <1>1, <1>2, OneInFlight DEF InFlight
  <2>2. This \notin requests
    BY <2>1 DEF Flight, FlightApart
  <2> QED BY <1>1, <2>1, <2>2 DEF Exchange, This, CarriedSoFar
<1> QED BY <1>1, <1>2, CleanKept

LEMMA CleanServe ==
    ASSUME Flight, Clean, NEW request \in requests, handleUdpRequest(request)
    PROVE  Clean'
<1> DEFINE L == Len(asks)
<1>0. TypeOK /\ Typed /\ L \in Nat
  BY TypedFacts DEF Flight, Typed
<1>1. /\ requests' = requests \ {request}
      /\ users' = Carrier(users, asks[request.ask].line)
      /\ UNCHANGED <<flag, cpc, retry, answer, asks, timeouts>>
  BY <1>0, RequestServed DEF clientVars, history
<1> SUFFICES ASSUME timeouts = 0 PROVE cpc' # "ended" => users' = Given(CarriedSoFar)'
  BY <1>1 DEF Clean
<1>2. cpc = "recv"
  BY NothingInFlight
<1>3. request = This /\ requests = {This} /\ L >= 1
  BY <1>0, <1>2, OneInFlight, TypedFacts DEF InFlight, Counters
<1>4. This' = This /\ This' \notin requests'
  BY <1>1, <1>3 DEF This
<1>5. CarriedSoFar = L - 1 /\ CarriedSoFar' = L
  BY <1>1, <1>2, <1>3, <1>4 DEF CarriedSoFar
<1>6. users = Given(L - 1) /\ request.ask = L
  BY <1>2, <1>3, <1>5 DEF Clean, This
<1>7. Carrying(asks)[L] = Carried(Carrying(asks)[L - 1], asks[L])
  <2>1. L \in 1..L
    BY <1>0, <1>3
  <2> QED BY <1>0, <2>1, CarryingStep
<1>8. Given(CarriedSoFar)' = IF flag = "none" THEN Carrying(asks)[L] ELSE InitialUsers
  BY <1>1, <1>5 DEF Given
<1>9. CASE flag = "none"
  BY <1>1, <1>6, <1>7, <1>8, <1>9 DEF Given, Carrier, Carried
<1>10. CASE flag # "none"
  BY <1>1, <1>6, <1>8, <1>10 DEF Given, Carrier
<1> QED BY <1>9, <1>10

LEMMA CleanInit == Init => Clean
<1> SUFFICES ASSUME Init PROVE Clean
  OBVIOUS
<1>1. /\ users = InitialUsers /\ cpc = "prompt" /\ retry = 0 /\ answer.ask = 0
      /\ asks = <<>>
  BY DEF Init, NoAnswer
<1>2. Len(asks) = 0 /\ Len(asks) \in Nat
  BY <1>1
<1>3. Carrying(asks)[0] = InitialUsers
  BY <1>2, CarryingStep
<1>4. CarriedSoFar = 0
  BY <1>1, <1>2 DEF CarriedSoFar
<1> QED BY <1>1, <1>2, <1>3, <1>4 DEF Clean, Given

LEMMA CleanStep == Flight /\ Clean /\ [Next]_vars => Clean'
<1> SUFFICES ASSUME Flight, Clean, [Next]_vars PROVE Clean'
  OBVIOUS
<1>0. Typed /\ timeouts \in Nat /\ MAX_RETRY >= 1 /\ MAX_RETRY \in Nat /\ Len(asks) \in Nat
  BY TypedFacts DEF Flight
<1>1. CASE Client
  <2>1. ASSUME NEW line \in Lines, help(line) PROVE Clean'
    <3>1. UNCHANGED <<asks, users, flag, retry, timeouts, cpc, answer, requests>>
      BY <2>1 DEF help, serverVars, history, network
    <3>2. CarriedSoFar' = CarriedSoFar
      BY <3>1 DEF CarriedSoFar, This
    <3> QED BY <3>1, <3>2, CleanKept DEF Clean
  <2>2. ASSUME NEW line \in Lines, quit(line) PROVE Clean'
    <3>1. UNCHANGED <<asks, users, flag, retry, timeouts>> /\ cpc' = "ended"
      BY <2>2 DEF quit, serverVars, history
    <3> QED BY <3>1, CleanKept DEF Clean
  <2>3. ASSUME NEW line \in Lines, ask(line) PROVE Clean'
    BY <2>3, CleanAsk
  <2>4. ASSUME sendFails PROVE Clean'
    <3>1. UNCHANGED <<asks, users, flag, timeouts>> /\ cpc' = "ended" /\ retry' = 0
      BY <2>4 DEF sendFails, serverVars, history
    <3> QED BY <3>1, CleanKept
  <2>5. ASSUME giveUp PROVE Clean'
    <3>1. /\ UNCHANGED <<asks, users, flag, timeouts>> /\ retry = MAX_RETRY
      BY <2>5 DEF giveUp, serverVars, history
    <3>2. retry # 0
      BY <1>0, <3>1
    <3> QED BY <3>1, <3>2 DEF Clean
  <2>6. ASSUME timeout PROVE Clean'
    <3>1. timeouts' = timeouts + 1
      BY <2>6 DEF timeout
    <3>2. timeouts' # 0
      BY <1>0, <3>1
    <3> QED BY <3>2 DEF Clean
  <2>7. ASSUME NEW reply \in replies, receiveOther(reply) PROVE Clean'
    <3>1. cpc = "recv" /\ asks[reply.ask].id # Last(asks).id /\ timeouts' = timeouts
      BY <2>7 DEF receiveOther, checkValidRequestId, history
    <3>2. asks[reply.ask].id # asks[Len(asks)].id
      BY <1>0, <3>1, LastIs, TypedFacts DEF Counters
    <3>3. ASSUME timeouts = 0 PROVE FALSE
      <4>1. Exchange(reply) = This
        BY <3>1, <3>3, OneInFlight DEF InFlight
      <4>2. reply.ask = Len(asks)
        BY <4>1 DEF Exchange, This
      <4> QED BY <3>2, <4>2
    <3> QED BY <3>1, <3>3 DEF Clean
  <2>8. ASSUME NEW reply \in replies, receive(reply) PROVE Clean'
    BY <2>8, CleanReceive
  <2> QED BY <1>1, <2>1, <2>2, <2>3, <2>4, <2>5, <2>6, <2>7, <2>8, CleanSend DEF Client
<1>2. ASSUME NEW request \in requests, handleUdpRequest(request) PROVE Clean'
  BY <1>2, CleanServe
\* Nothing of what Clean speaks of changes.
<1>3. ASSUME UNCHANGED <<asks, users, flag, retry, timeouts, cpc, answer, requests>>
      PROVE  Clean'
  <2>1. CarriedSoFar' = CarriedSoFar
    BY <1>3 DEF CarriedSoFar, This
  <2> QED BY <1>3, <2>1, CleanKept DEF Clean
<1>4. ASSUME NEW d \in Strangers, handleStranger(d) PROVE Clean'
  BY <1>3, <1>4, StrangerServed DEF clientVars, network, history
<1>5. CASE UNCHANGED vars
  BY <1>3, <1>5 DEF vars, serverVars, clientVars, network, history
<1> QED BY <1>1, <1>2, <1>4, <1>5 DEF Next

\* As long as no recv() has timed out, every request is answered at the first try
\* with its own answer, and carried out once, in order (main's loop, sendDatagram,
\* addUserStrategy).
THEOREM Sessions == Spec => []CleanSession
<1>1. Init => Flight /\ Clean
  BY FlightInit, CleanInit
<1>2. Flight /\ Clean /\ [Next]_vars => (Flight /\ Clean)'
  BY FlightStep, CleanStep
<1>3. Spec => [](Flight /\ Clean)
  BY <1>1, <1>2, PTL DEF Spec
<1>4. Flight /\ Clean => CleanSession
  <2>1. cpc = "prompt" => CarriedSoFar = Len(asks)
    BY DEF CarriedSoFar
  <2> QED BY <2>1 DEF Clean, CleanSession, Given, AllCarried
<1> QED BY <1>3, <1>4, PTL

-----------------------------------------------------------------------------
(***************************************************************************)
(* Requests that are sent again are carried out again.                     *)
(***************************************************************************)
\* What has been carried out changes nothing when it is carried out again.
LEMMA EffectTwice ==
    ASSUME NEW registered, NEW line
    PROVE  Effect(Effect(registered, line), line) = Effect(registered, line)
<1> DEFINE name == Arguments(line)[1]
           password == Arguments(line)[2]
           after == Effect(registered, line)
<1>1. CASE line[1] = "DU"
  <2>1. \A users0 : Effect(users0, line) = [u \in DOMAIN users0 \ {name} |-> users0[u]]
    BY <1>1 DEF Effect
  <2> HIDE DEF name
  <2>2. after = [u \in DOMAIN registered \ {name} |-> registered[u]]
    BY <2>1
  <2>3. Effect(after, line) = [u \in DOMAIN after \ {name} |-> after[u]]
    BY <2>1
  <2> HIDE DEF after
  <2>4. DOMAIN after = DOMAIN registered \ {name}
    BY <2>2
  <2>5. DOMAIN after \ {name} = DOMAIN after
    BY <2>4
  <2>6. after = [u \in DOMAIN after |-> after[u]]
    BY <2>2, <2>4
  <2> QED BY <2>3, <2>5, <2>6 DEF after
<1>2. CASE line[1] # "DU" /\ (line[1] = "AU" \/ (line[1] = "MP" /\ name \in DOMAIN registered))
  <2>1. ASSUME NEW users0, line[1] = "AU" \/ name \in DOMAIN users0
        PROVE  Effect(users0, line) = [u \in DOMAIN users0 \cup {name} |->
                                          IF u = name THEN password ELSE users0[u]]
    BY <1>2, <2>1 DEF Effect
  <2> HIDE DEF name, password
  <2>2. after = [u \in DOMAIN registered \cup {name} |->
                    IF u = name THEN password ELSE registered[u]]
    BY <1>2, <2>1
  <2>3. name \in DOMAIN after /\ after[name] = password /\ DOMAIN after \cup {name} = DOMAIN after
    BY <2>2
  <2>4. after = [u \in DOMAIN after |-> after[u]]
    BY <2>2
  <2> HIDE DEF after
  <2>5. Effect(after, line) = [u \in DOMAIN after \cup {name} |->
                                  IF u = name THEN password ELSE after[u]]
    BY <2>1, <2>3
  <2>6. [u \in DOMAIN after \cup {name} |-> IF u = name THEN password ELSE after[u]]
          = [u \in DOMAIN after |-> after[u]]
    BY <2>3
  <2> QED BY <2>4, <2>5, <2>6 DEF after
<1>3. CASE ~(line[1] = "DU" \/ line[1] = "AU" \/ (line[1] = "MP" /\ name \in DOMAIN registered))
  <2>1. Effect(registered, line) = registered
    BY <1>3 DEF Effect
  <2> QED BY <2>1
<1> QED BY <1>1, <1>2, <1>3

\* The last request has not been carried out, and will be.
Pending ==
    /\ Len(asks) >= 1 /\ users = Given(Len(asks) - 1)
    /\ cpc = "ended" \/ (cpc = "send" /\ retry = 0) \/ requests # {}

\* Nothing of an earlier request is to be carried out, and the last one has been,
\* once or more often, or is pending.
Repeats ==
    ~overlapped =>
        /\ \A request \in requests : request.ask = Len(asks)
        /\ users = Given(Len(asks)) \/ Pending

LEMMA RepeatsInit == Init => Repeats
<1> SUFFICES ASSUME Init PROVE Repeats
  OBVIOUS
<1>1. users = InitialUsers /\ asks = <<>> /\ requests = {}
  BY DEF Init
<1>2. Len(asks) = 0 /\ Len(asks) \in Nat
  BY <1>1
<1>3. Carrying(asks)[0] = InitialUsers
  BY <1>2, CarryingStep
<1> QED BY <1>1, <1>2, <1>3 DEF Repeats, Given

\* A step of the client within a request, or at its prompt.
LEMMA RepeatsKept ==
    ASSUME Repeats, UNCHANGED <<asks, users, flag, overlapped>>,
           requests' \subseteq requests \cup {This}, requests \subseteq requests',
           Pending => cpc' = "ended" \/ (cpc' = "send" /\ retry' = 0) \/ requests' # {}
    PROVE  Repeats'
<1>2. Given(Len(asks))' = Given(Len(asks)) /\ Given(Len(asks) - 1)' = Given(Len(asks) - 1)
  BY DEF Given
<1>3. Pending => Pending'
  BY <1>2 DEF Pending
<1>4. This.ask = Len(asks)
  BY DEF This
<1> QED BY <1>2, <1>3, <1>4 DEF Repeats

LEMMA RepeatsAsk ==
    ASSUME Flight, Repeats, NEW line \in Lines, ask(line)
    PROVE  Repeats'
<1> SUFFICES ASSUME ~overlapped' PROVE requests' = {} /\ Pending'
  BY DEF Repeats
<1> DEFINE L == Len(asks)
<1>1. /\ cpc = "prompt" /\ cpc' = "send" /\ requests' = requests
      /\ UNCHANGED <<users, flag, retry>> /\ overlapped' = (overlapped \/ requests # {})
  BY DEF ask, serverVars, network
<1>2. PICK id : asks' = Append(asks, [line |-> Scanned(line), id |-> id])
  BY DEF ask
<1>3. L \in Nat /\ asks \in Seq(Requests) /\ retry = 0
  BY <1>1, TypedFacts DEF Flight, AsksTyped, Counters
<1>4. Len(asks') = L + 1 /\ \A n \in 1..L : asks'[n] = asks[n]
  <2> HIDE DEF Requests
  <2> QED BY <1>2, <1>3
<1>5. Carrying(asks')[L] = Carrying(asks)[L]
  BY <1>3, <1>4, CarryingLonger
<1>6. ~overlapped /\ requests = {}
  BY <1>1
<1>7. users = Given(L)
  BY <1>1, <1>6 DEF Repeats, Pending
<1>8. Len(asks') - 1 = L /\ Len(asks') >= 1
  BY <1>3, <1>4
<1>9. Given(Len(asks) - 1)' = IF flag' = "none" THEN Carrying(asks')[L] ELSE InitialUsers
  BY <1>8 DEF Given
<1> QED BY <1>1, <1>3, <1>5, <1>6, <1>7, <1>8, <1>9 DEF Pending, Given

LEMMA RepeatsServe ==
    ASSUME Flight, Repeats, NEW request \in requests, handleUdpRequest(request)
    PROVE  Repeats'
<1> DEFINE L == Len(asks)
           line == asks[L].line
<1>0. TypeOK /\ Typed /\ L \in Nat
  BY TypedFacts DEF Flight, Typed
<1>1. /\ request.ask \in 1..L /\ requests' = requests \ {request}
      /\ users' = Carrier(users, asks[request.ask].line)
      /\ UNCHANGED <<flag, asks, overlapped>>
  BY <1>0, RequestServed DEF clientVars, history
<1> SUFFICES ASSUME ~overlapped PROVE users' = Given(L)
  <2>1. Given(Len(asks))' = Given(Len(asks))
    BY <1>1 DEF Given
  <2> QED BY <1>1, <2>1 DEF Repeats
<1>2. request.ask = L /\ L >= 1
  BY <1>0, <1>1 DEF Repeats
<1>3. Carrying(asks)[L] = Carried(Carrying(asks)[L - 1], asks[L])
  <2>1. L \in 1..L
    BY <1>0, <1>2
  <2> QED BY <1>0, <2>1, CarryingStep
<1>4. CASE flag = "none" /\ WellFormed(line)
  <2>1. /\ users' = Effect(users, line)
        /\ Given(L) = Effect(Given(L - 1), line)
    BY <1>1, <1>2, <1>3, <1>4 DEF Carrier, Carried, Given
  <2>2. Effect(Given(L), line) = Given(L)
    BY <2>1, EffectTwice
  <2> QED BY <2>1, <2>2 DEF Repeats, Pending
<1>5. CASE ~(flag = "none" /\ WellFormed(line))
  <2>1. users' = users /\ Given(L) = Given(L - 1)
    BY <1>1, <1>2, <1>3, <1>5 DEF Carrier, Carried, Given
  <2> QED BY <2>1 DEF Repeats, Pending
<1> QED BY <1>4, <1>5

LEMMA RepeatsStep == Flight /\ Repeats /\ [Next]_vars => Repeats'
<1> SUFFICES ASSUME Flight, Repeats, [Next]_vars PROVE Repeats'
  OBVIOUS
<1>0. MAX_RETRY # 0
  BY BoundAssumption
<1>1. CASE Client
  <2>1. ASSUME NEW line \in Lines, help(line) \/ quit(line) PROVE Repeats'
    <3>1. /\ UNCHANGED <<asks, users, flag, overlapped, requests, retry>>
          /\ cpc = "prompt" /\ cpc' \in {"prompt", "ended"}
      BY <2>1 DEF help, quit, serverVars, history, network
    <3> QED BY <3>1, RepeatsKept DEF Pending
  <2>2. ASSUME NEW line \in Lines, ask(line) PROVE Repeats'
    BY <2>2, RepeatsAsk
  <2>3. ASSUME sendDatagram PROVE Repeats'
    <3>1. UNCHANGED <<asks, users, flag, overlapped>> /\ requests' = requests \cup {This}
      BY <2>3 DEF sendDatagram, This, serverVars, history
    <3> QED BY <3>1, RepeatsKept
  <2>4. ASSUME sendFails PROVE Repeats'
    <3>1. UNCHANGED <<asks, users, flag, overlapped, requests>> /\ cpc' = "ended"
      BY <2>4 DEF sendFails, serverVars, history, network
    <3> QED BY <3>1, RepeatsKept
  <2>5. ASSUME giveUp PROVE Repeats'
    <3>1. /\ UNCHANGED <<asks, users, flag, overlapped, requests>>
          /\ cpc = "send" /\ retry = MAX_RETRY
      BY <2>5 DEF giveUp, serverVars, history, network
    <3> QED BY <1>0, <3>1, RepeatsKept DEF Pending
  <2>6. ASSUME timeout PROVE Repeats'
    <3>1. UNCHANGED <<asks, users, flag, overlapped, requests>> /\ cpc = "recv"
      BY <2>6 DEF timeout, serverVars, network
    <3> QED BY <3>1, RepeatsKept DEF Pending
  <2>7. ASSUME NEW reply \in replies, receiveOther(reply) \/ receive(reply) PROVE Repeats'
    <3>1. UNCHANGED <<asks, users, flag, overlapped, requests>> /\ cpc = "recv"
      BY <2>7 DEF receiveOther, receive, serverVars, history
    <3> QED BY <3>1, RepeatsKept DEF Pending
  <2> QED BY <1>1, <2>1, <2>2, <2>3, <2>4, <2>5, <2>6, <2>7 DEF Client
<1>2. ASSUME NEW request \in requests, handleUdpRequest(request) PROVE Repeats'
  BY <1>2, RepeatsServe
<1>3. ASSUME NEW d \in Strangers, handleStranger(d) PROVE Repeats'
  <2>1. UNCHANGED <<asks, users, flag, overlapped, requests, cpc, retry>>
    BY <1>3, StrangerServed DEF clientVars, network, history
  <2> QED BY <2>1, RepeatsKept DEF Pending
<1>4. CASE UNCHANGED vars
  <2>1. UNCHANGED <<asks, users, flag, overlapped, requests, cpc, retry>>
    BY <1>4 DEF vars, serverVars, clientVars, network, history
  <2> QED BY <2>1, RepeatsKept DEF Pending
<1> QED BY <1>1, <1>2, <1>3, <1>4 DEF Next

\* However often a request is sent again, and whether its answer comes or not, the
\* users end up as if it had been carried out once, if nothing of an earlier one was
\* still in flight when it was made (sendDatagram and the strategies it repeats).
THEOREM Retried == Spec => []RepeatsHarmless
<1>1. Init => Flight /\ Repeats
  BY FlightInit, RepeatsInit
<1>2. Flight /\ Repeats /\ [Next]_vars => (Flight /\ Repeats)'
  BY FlightStep, RepeatsStep
<1>3. Spec => [](Flight /\ Repeats)
  BY <1>1, <1>2, PTL DEF Spec
<1>4. Repeats => RepeatsHarmless
  BY DEF Repeats, Pending, RepeatsHarmless, Given, AllCarried
<1> QED BY <1>3, <1>4, PTL

-----------------------------------------------------------------------------
(***************************************************************************)
(* The users of the server, as Registry has them.                          *)
(***************************************************************************)
\* Registry has the same grammar, read through its instance.
LEMMA SameGrammar ==
    /\ \A line : R!WellFormed(line) <=> WellFormed(line)
    /\ \A u, line : R!Effect(u, line) = Effect(u, line)
<1>1. \A s : R!IsWord(s) <=> IsWord(s)
  BY DEF R!IsWord, IsWord, R!Separators, Separators
<1>2. \A line, op, arguments : R!Spells(line, op, arguments) <=> Spells(line, op, arguments)
  <2> SUFFICES ASSUME NEW line, NEW op, NEW arguments
               PROVE  R!Spells(line, op, arguments) <=> Spells(line, op, arguments)
    OBVIOUS
  <2> USE <1>1 DEF R!Spells, Spells, R!BareOps, BareOps
  <2>1. CASE Len(arguments) = 0
    BY <2>1
  <2>2. CASE Len(arguments) = 1
    BY <2>2
  <2>3. CASE Len(arguments) # 0 /\ Len(arguments) # 1
    BY <2>3
  <2> QED BY <2>1, <2>2, <2>3
<1>3. \A line : R!Cuts(line) = Cuts(line)
  BY DEF R!Cuts, Cuts
<1>4. \A line : R!WellFormed(line) <=> WellFormed(line)
  BY <1>2, <1>3 DEF R!WellFormed, WellFormed
<1>5. ASSUME NEW line PROVE R!Arguments(line) = Arguments(line)
  BY <1>2, <1>3, Zenon DEF R!Arguments, Arguments
<1>6. ASSUME NEW u, NEW line PROVE R!Effect(u, line) = Effect(u, line)
  BY <1>5 DEF R!Effect, Effect
<1> QED BY <1>4, <1>6

\* A step that asks for nothing leaves what has been asked for.
LEMMA AskedKept ==
    ASSUME UNCHANGED <<flag, asks>>
    PROVE  Asked' = Asked
BY DEF Asked

\* A request of the administrator's is asked for, and nothing else is.
LEMMA AskAsks ==
    ASSUME Typed, NEW line \in Lines, ask(line)
    PROVE  [R!Next]_<<users, Asked>>
<1> DEFINE L == Len(asks)
           asked == Scanned(line)
<1>1. users' = users /\ flag' = flag
  BY DEF ask, serverVars
<1>2. PICK id : asks' = Append(asks, [line |-> asked, id |-> id])
  BY DEF ask
<1>3. L \in Nat /\ asks \in Seq(Requests)
  BY TypedFacts DEF AsksTyped
<1>4. /\ DOMAIN asks = 1..L /\ DOMAIN asks' = 1..(L + 1)
      /\ asks'[L + 1].line = asked /\ \A n \in 1..L : asks'[n] = asks[n]
  <2> HIDE DEF Requests, asked
  <2>1. asks' = Append(asks, [line |-> asked, id |-> id])
    BY <1>2
  <2> QED BY <1>3, <2>1
<1>5. /\ 1..(L + 1) = (1..L) \cup {L + 1}
      /\ L + 1 \notin 1..L
  BY <1>3
<1> HIDE DEF asked, L
<1>6. CASE flag = "none" /\ WellFormed(asked)
  <2>1. Asked' = Asked \cup {asked}
    BY <1>1, <1>4, <1>5, <1>6 DEF Asked
  <2>2. R!Ask(asked) /\ asked \in Asked'
    BY <1>1, <1>6, <2>1, SameGrammar DEF R!Ask
  <2> QED BY <2>2 DEF R!Next
<1>7. CASE flag = "none" /\ ~WellFormed(asked)
  <2>1. Asked' = Asked
    BY <1>1, <1>4, <1>5, <1>7 DEF Asked
  <2> QED BY <1>1, <2>1
<1>8. CASE flag # "none"
  BY <1>1, <1>8 DEF Asked
<1> QED BY <1>6, <1>7, <1>8

LEMMA ServeTakesEffect ==
    ASSUME Typed, NEW request \in requests, handleUdpRequest(request)
    PROVE  [R!Next]_<<users, Asked>>
<1> DEFINE line == asks[request.ask].line
<1>0. TypeOK /\ asks \in Seq(Requests)
  BY TypedFacts DEF Typed, AsksTyped
<1>1. /\ request.ask \in 1..Len(asks)
      /\ users' = Carrier(users, line)
      /\ UNCHANGED <<flag, asks>>
  BY <1>0, RequestServed DEF clientVars, history
<1>2. Asked' = Asked
  BY <1>1, AskedKept
<1>3. request.ask \in DOMAIN asks
  <2> HIDE DEF Requests
  <2> QED BY <1>0, <1>1
<1>4. CASE flag = "none" /\ WellFormed(line)
  <2>1. line \in Asked
    BY <1>3, <1>4 DEF Asked
  <2>2. R!TakeEffect(line)
    BY <1>1, <1>2, <1>4, SameGrammar DEF R!TakeEffect, Carrier
  <2> QED BY <2>1, <2>2 DEF R!Next
<1>5. CASE ~(flag = "none" /\ WellFormed(line))
  BY <1>1, <1>2, <1>5 DEF Carrier
<1> QED BY <1>4, <1>5

LEMMA RegistryStep == Typed /\ [Next]_vars => [R!Next]_<<users, Asked>>
<1> SUFFICES ASSUME Typed, [Next]_vars PROVE [R!Next]_<<users, Asked>>
  OBVIOUS
<1>1. ASSUME UNCHANGED <<users, flag, asks>> PROVE [R!Next]_<<users, Asked>>
  BY <1>1, AskedKept
<1>2. CASE Client
  <2>1. ASSUME NEW line \in Lines, help(line) \/ quit(line) PROVE [R!Next]_<<users, Asked>>
    <3>1. UNCHANGED <<users, flag, asks>>
      BY <2>1 DEF help, quit, serverVars, history
    <3> QED BY <1>1, <3>1
  <2>2. ASSUME NEW line \in Lines, ask(line) PROVE [R!Next]_<<users, Asked>>
    BY <2>2, AskAsks
  <2>3. ASSUME sendDatagram \/ sendFails \/ giveUp \/ timeout
        PROVE  [R!Next]_<<users, Asked>>
    <3>1. UNCHANGED <<users, flag, asks>>
      BY <2>3 DEF sendDatagram, sendFails, giveUp, timeout, serverVars, history
    <3> QED BY <1>1, <3>1
  <2>4. ASSUME NEW reply \in replies, receiveOther(reply) \/ receive(reply)
        PROVE  [R!Next]_<<users, Asked>>
    <3>1. UNCHANGED <<users, flag, asks>>
      BY <2>4 DEF receiveOther, receive, serverVars, history
    <3> QED BY <1>1, <3>1
  <2> QED BY <1>2, <2>1, <2>2, <2>3, <2>4 DEF Client
<1>3. ASSUME NEW request \in requests, handleUdpRequest(request)
      PROVE  [R!Next]_<<users, Asked>>
  BY <1>3, ServeTakesEffect
<1>4. ASSUME NEW d \in Strangers, handleStranger(d) PROVE [R!Next]_<<users, Asked>>
  <2>1. UNCHANGED <<users, flag, asks>>
    BY <1>4, StrangerServed DEF clientVars, history
  <2> QED BY <1>1, <2>1
<1>5. CASE UNCHANGED vars
  <2>1. UNCHANGED <<users, flag, asks>>
    BY <1>5 DEF vars, serverVars, clientVars, history
  <2> QED BY <1>1, <2>1
<1> QED BY <1>2, <1>3, <1>4, <1>5 DEF Next

\* However datagrams are delayed, lost and sent again, by whom and after which
\* others, the users change only by what was asked for (Registry).
THEOREM ImplementsRegistry == Spec => RegistrySpec
<1>1. Init => R!Init
  <2> SUFFICES ASSUME Init PROVE R!Init
    OBVIOUS
  <2>1. users = InitialUsers /\ asks = <<>>
    BY DEF Init
  <2>2. Asked = {}
    BY <2>1 DEF Asked
  <2> QED BY <2>1, <2>2 DEF R!Init
<1>2. Spec => []Typed
  BY TypedInit, TypedStep, PTL DEF Spec
<1> QED BY <1>1, <1>2, RegistryStep, PTL DEF Spec, RegistrySpec, R!Spec
=============================================================================
