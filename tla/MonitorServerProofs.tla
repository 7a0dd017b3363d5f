------------------------ MODULE MonitorServerProofs -------------------------
(***************************************************************************)
(* What protects the users, proved for every datagram, whatever its        *)
(* command line holds and whatever datagrams came before it.               *)
(***************************************************************************)
EXTENDS MonitorServer, Mp3pProofs

Refusals ==
    {"DISCARD", "BADAUTH", "INVALID_COMMAND", "INVALID_VERSION", "INVALID_AUTHKEY"}

WithHeaders(d) == d.head /\ d.auth = "key" /\ d.version = "V1.0"

\* As long as no field has been copied past its array, the users change by a
\* datagram with the protocol's head, its version and the key, and by no other
\* (parseDatagram, checkVersion, checkAuthentication).
HeadersNeeded ==
    [][~overrun' /\ ~WithHeaders(exchange'.dgram) => users' = users]_vars

\* A datagram with a fault before its command line selects no command, whatever
\* the line and the static variable are.
LEMMA FaultRefuses ==
    ASSUME NEW d \in DatagramType, NEW onSuccess, ~WithHeaders(d)
    PROVE  parseDatagram(d, onSuccess).command \in Refusals
<1>1. CASE ~d.head
  BY <1>1 DEF parseDatagram, Refusals
<1>2. CASE d.head /\ d.auth = "malformed"
  BY <1>2 DEF parseDatagram, Refusals
<1>3. CASE d.head /\ d.auth # "malformed"
  <2> DEFINE state == ParsedLine(d.line, onSuccess).state
  <2>1. parseDatagram(d, onSuccess).command
          = IF Ends(state) THEN state[2] ELSE CheckHeaders(d, state[2])
    BY <1>3 DEF parseDatagram
  <2> HIDE DEF state
  <2>2. CASE Ends(state)
    BY <2>1, <2>2 DEF Ends, Dgram, Refusals
  <2>3. CASE ~Ends(state)
    <3>1. CheckHeaders(d, state[2]) \in Refusals
      BY <1>3 DEF CheckHeaders, Refusals, WithHeaders, DatagramType, Auths
    <3> QED
      BY <2>1, <2>3, <3>1
  <2> QED
    BY <2>2, <2>3
<1> QED
  BY <1>1, <1>2, <1>3

\* What is refused changes no user.
LEMMA RefusalKeeps ==
    ASSUME NEW d \in Datagrams, handleUdpRequest(d), ~WithHeaders(d)
    PROVE  users' = users
<1> DEFINE command == parseDatagram(d, onSuccessCommandState).command
<1>1. command \in Refusals
  BY FaultRefuses, DatagramAssumption
<1>2. \/ users' = users
      \/ users' = UsersAfter(users, command, d.line)
  BY DEF handleUdpRequest
<1> HIDE DEF command
<1>3. UsersAfter(users, command, d.line) = users
  BY <1>1 DEF UsersAfter, Refusals
<1> QED
  BY <1>2, <1>3

\* Without the key, the version and the head no datagram changes the users, as long
\* as no field has been copied past its array (handleUdpRequest).
THEOREM UsersNeedHeaders == Spec => HeadersNeeded
<1>1. ASSUME [Next]_vars
      PROVE  [~overrun' /\ ~WithHeaders(exchange'.dgram) => users' = users]_vars
  <2>1. CASE Next
    <3>1. PICK d \in Datagrams : handleUdpRequest(d) \/ overrunFields(d)
      BY <2>1 DEF Next
    <3>2. CASE handleUdpRequest(d)
      <4>1. exchange'.dgram = d
        BY <3>2 DEF handleUdpRequest
      <4> QED BY <3>2, <4>1, RefusalKeeps
    <3>3. CASE overrunFields(d)
      BY <3>3 DEF overrunFields
    <3> QED
      BY <3>1, <3>2, <3>3
  <2>2. CASE UNCHANGED vars
    BY <2>2
  <2> QED
    BY <1>1, <2>1, <2>2
<1> QED
  BY <1>1, PTL DEF Spec, HeadersNeeded

-----------------------------------------------------------------------------
(***************************************************************************)
(* The grammar's view of a datagram.                                       *)
(***************************************************************************)
\* A NUL that ends a well formed command is the first one of its line.
LEMMA UpToNulIs ==
    ASSUME NEW S, NEW line \in Seq(S)
    PROVE  UpToNul(line) # line /\ WellFormed(UpToNul(line))
             <=> \E k \in 1..Len(line) : line[k] = "NUL" /\ Spelled(line, k - 1)
<1> DEFINE I == {k \in 1..Len(line) : line[k] = "NUL"}
           nul == IF I # {} THEN Min(I) ELSE 0
<1>1. UpToNul(line) = IF nul = 0 THEN line ELSE SubSeq(line, 1, nul - 1)
  BY DEF UpToNul, SelectInSeq
<1>2. CASE I = {}
  BY <1>1, <1>2
<1>3. CASE I # {}
  <2>1. I \in SUBSET Nat /\ I \in SUBSET Int
    OBVIOUS
  <2>2. PICK m \in I : \A y \in I : m <= y
    BY <1>3, <2>1, Least
  <2>3. Min(I) = m
    BY <2>1, <2>2, LeastIs
  <2>4. m \in 1..Len(line) /\ line[m] = "NUL" /\ m # 0 /\ m - 1 \in Nat
    OBVIOUS
  <2> DEFINE v == SubSeq(line, 1, m - 1)
  <2>5. UpToNul(line) = v
    BY <1>1, <1>3, <2>3, <2>4
  <2>6. v \in Seq(S) /\ Len(v) = m - 1 /\ \A k \in 1..(m - 1) : v[k] = line[k]
    BY <2>4
  <2>7. v # line
    BY <2>4, <2>6
  <2> HIDE DEF v
  <2>8. WellFormed(v) <=> Spelled(line, m - 1)
    <3>1. WellFormed(v) <=> Spelled(v, m - 1)
      BY <2>6, WellFormedIs
    <3>2. \A k \in 1..(m - 1) : line[k] = v[k]
      BY <2>6
    <3> QED BY <2>4, <2>6, <3>1, <3>2, SameSpelled
  <2>9. ASSUME NEW k \in 1..Len(line), line[k] = "NUL", Spelled(line, k - 1)
        PROVE  k = m
    <3>1. k - 1 \in Nat /\ k \in I
      BY <2>9
    <3>2. \A j \in 1..(k - 1) : line[j] # "NUL"
      BY <2>9, <3>1, SpelledWithoutNul
    <3>3. m <= k
      BY <2>2, <3>1
    <3> QED BY <2>4, <3>2, <3>3
  <2> HIDE DEF I
  <2> QED BY <2>4, <2>5, <2>7, <2>8, <2>9
<1> QED BY <1>2, <1>3

\* A well formed line has no NUL.
LEMMA WholeLine ==
    ASSUME NEW S, NEW line \in Seq(S), WellFormed(line)
    PROVE  UpToNul(line) = line
<1>1. Spelled(line, Len(line)) /\ Len(line) \in Nat
  BY WellFormedIs
<1>2. \A k \in 1..Len(line) : line[k] # "NUL"
  BY <1>1, SpelledWithoutNul
<1>3. {k \in 1..Len(line) : line[k] = "NUL"} = {}
  BY <1>2
<1> QED BY <1>3 DEF UpToNul, SelectInSeq

\* The status a datagram deserves.
Deserved(d) ==
    CASE Ignored(d) -> 0
      [] ~Ignored(d) /\ d.auth = "malformed" -> 103
      [] ~Ignored(d) /\ d.auth # "malformed" /\ ~WellFormed(d.line) -> 104
      [] OTHER -> IF d.version # "V1.0" THEN 101
                  ELSE IF d.auth # "key" THEN 100
                  ELSE IF Found(users, d.line) THEN 200 ELSE 102

\* Whatever the static variable was left at, each datagram gets its status.
LEMMA StatusDecided ==
    ASSUME NEW d \in Datagrams, NEW onSuccess, NEW command,
           command = parseDatagram(d, onSuccess).command
    PROVE  (IF command = "DISCARD" THEN 0 ELSE Status(users, command, d.line)) = Deserved(d)
<1>1. d \in DatagramType /\ d.line \in Seq(STRING)
  BY DatagramAssumption DEF DatagramType
<1>2. CASE ~d.head
  <2>1. command = "DISCARD"
    BY <1>2 DEF parseDatagram
  <2> QED BY <1>2, <2>1 DEF Deserved, Ignored
<1>3. CASE d.head /\ d.auth = "malformed"
  <2>1. command = "BADAUTH"
    BY <1>3 DEF parseDatagram
  <2>2. Status(users, command, d.line) = 103
    BY <2>1 DEF Status
  <2> QED BY <1>3, <2>1, <2>2 DEF Deserved, Ignored
<1>4. CASE d.head /\ d.auth # "malformed" /\ ~WellFormed(d.line)
  <2>1. command = IF Ignored(d) THEN "DISCARD" ELSE "INVALID_COMMAND"
    BY <1>1, <1>4, CommandIs, UpToNulIs DEF Ignored
  <2>2. CASE Ignored(d)
    BY <2>1, <2>2 DEF Deserved
  <2>3. CASE ~Ignored(d)
    <3>1. Status(users, command, d.line) = 104
      BY <2>1, <2>3 DEF Status
    <3> QED BY <1>4, <2>1, <2>3, <3>1 DEF Deserved
  <2> QED BY <2>2, <2>3
<1>5. CASE d.head /\ d.auth # "malformed" /\ WellFormed(d.line)
  <2>1. d.line[1] \in Operations /\ command = CheckHeaders(d, d.line[1])
    BY <1>1, <1>5, CommandIs
  <2>2. ~Ignored(d)
    BY <1>1, <1>5, WholeLine DEF Ignored
  <2>3. Deserved(d) = IF d.version # "V1.0" THEN 101
                      ELSE IF d.auth # "key" THEN 100
                      ELSE IF Found(users, d.line) THEN 200 ELSE 102
    BY <1>5, <2>2 DEF Deserved
  <2>4. CASE d.version # "V1.0"
    BY <2>1, <2>3, <2>4 DEF CheckHeaders, Status
  <2>5. CASE d.version = "V1.0" /\ d.auth # "key"
    BY <2>1, <2>3, <2>5 DEF CheckHeaders, Status
  <2>6. CASE d.version = "V1.0" /\ d.auth = "key"
    <3>1. command = d.line[1] /\ command # "DISCARD"
      BY <2>1, <2>6 DEF CheckHeaders, Operations
    <3>2. Status(users, d.line[1], d.line) = IF Found(users, d.line) THEN 200 ELSE 102
      BY <1>1, <1>5, Answered
    <3> QED BY <2>3, <2>6, <3>1, <3>2
  <2> QED BY <2>4, <2>5, <2>6
<1> QED BY <1>2, <1>3, <1>4, <1>5

\* A step that copies no field past its array handles a datagram.
LEMMA Handled ==
    ASSUME Next, ~overrun'
    PROVE  \E d \in Datagrams : handleUdpRequest(d)
BY DEF Next, overrunFields

\* As long as no field is copied past its array, each datagram gets the status of
\* the first of its faults, and the parser's automaton is the grammar
\* (parseDatagram, parseMp3pCharacter).
THEOREM StatusOfFirstFault == Spec => FaultsInOrder
<1> DEFINE Due == ~overrun' => exchange'.code = Deserved(exchange'.dgram)
<1>1. ASSUME Next, ~overrun' PROVE exchange'.code = Deserved(exchange'.dgram)
  <2>1. PICK d \in Datagrams : handleUdpRequest(d)
    BY <1>1, Handled
  <2> DEFINE command == parseDatagram(d, onSuccessCommandState).command
  <2>2. exchange' = [dgram |-> d, code |-> IF command = "DISCARD" THEN 0
                                           ELSE Status(users, command, d.line)]
    BY <2>1 DEF handleUdpRequest
  <2>3. (IF command = "DISCARD" THEN 0 ELSE Status(users, command, d.line)) = Deserved(d)
    BY StatusDecided
  <2> HIDE DEF command
  <2> QED BY <2>2, <2>3
<1>2. [Next]_vars => [Due]_vars
  BY <1>1
<1>3. Spec => [][Due]_vars
  <2> HIDE DEF Due
  <2> QED BY <1>2, PTL DEF Spec
<1> QED BY <1>3 DEF FaultsInOrder, Deserved

\* As long as no field is copied past its array, the users change as the accepted
\* commands say, and not otherwise (commandFunction, obtainUsername,
\* obtainPassword).
THEOREM UsersFollowCommands == Spec => OnlyAcceptedCommands
<1> DEFINE After(d) == IF Accepted(d) THEN Effect(users, d.line) ELSE users
           Due == ~overrun' => users' = After(exchange'.dgram)
<1>1. ASSUME Next, ~overrun' PROVE users' = After(exchange'.dgram)
  <2>1. PICK d \in Datagrams : handleUdpRequest(d)
    BY <1>1, Handled
  <2> DEFINE command == parseDatagram(d, onSuccessCommandState).command
  <2>2. /\ exchange'.dgram = d
        /\ users' = IF command = "DISCARD" THEN users
                    ELSE UsersAfter(users, command, d.line)
    BY <2>1 DEF handleUdpRequest
  <2>3. d \in DatagramType
    BY DatagramAssumption
  <2>4. (IF command = "DISCARD" THEN users ELSE UsersAfter(users, command, d.line)) = After(d)
    BY <2>3, UsersDecided DEF Accepted
  <2> HIDE DEF command, After
  <2> QED BY <2>2, <2>4
<1>2. [Next]_vars => [Due]_vars
  BY <1>1
<1>3. Spec => [][Due]_vars
  <2> HIDE DEF Due
  <2> QED BY <1>2, PTL DEF Spec
<1> QED BY <1>3 DEF OnlyAcceptedCommands
=============================================================================
