--------------------------- MODULE MonitorServer ----------------------------
(***************************************************************************)
(* handleUdpRequest (serverUtils.c) on its own: datagrams of any sender,   *)
(* with any fault, one after the other, on the users and on the static     *)
(* variable that the parser keeps from one to the next.                    *)
(***************************************************************************)
EXTENDS Mp3p, Commands

CONSTANTS
    InitialUsers,
    Datagrams               \* what may arrive

VARIABLES
    users,
    onSuccessCommandState,
    exchange,               \* the last datagram and what answered it, 0 for silence
    overrun                 \* history: a field was copied past its array

vars == <<users, onSuccessCommandState, exchange, overrun>>

ASSUME DatagramAssumption == Datagrams \subseteq DatagramType

\* An uninitialized static variable is zero, which is no command.
Init ==
    /\ users = InitialUsers
    /\ onSuccessCommandState = "START"
    /\ exchange = [dgram |-> CHOOSE d \in Datagrams : ~d.head, code |-> 0]
    /\ overrun = FALSE

handleUdpRequest(d) ==
    LET parsed == parseDatagram(d, onSuccessCommandState)
        command == parsed.command
    IN /\ ~overrun /\ CopyFits(d, onSuccessCommandState) /\ UNCHANGED overrun
       /\ onSuccessCommandState' = parsed.onSuccess
       /\ IF command = "DISCARD"
          THEN exchange' = [dgram |-> d, code |-> 0] /\ UNCHANGED users
          ELSE /\ users' = UsersAfter(users, command, d.line)
               /\ exchange' = [dgram |-> d, code |-> Status(users, command, d.line)]

\* A name or a password is copied past its array: what the program does from then
\* on is undefined, and nothing is said of it.
overrunFields(d) ==
    /\ ~overrun /\ ~CopyFits(d, onSuccessCommandState)
    /\ overrun' = TRUE
    /\ UNCHANGED <<users, onSuccessCommandState, exchange>>

Next == \E d \in Datagrams : handleUdpRequest(d) \/ overrunFields(d)

Spec == Init /\ [][Next]_vars

-----------------------------------------------------------------------------
(***************************************************************************)
(* Properties.                                                             *)
(***************************************************************************)
\* What the text of a command line deserves: nothing follows a NUL in a line.
UpToNul(line) ==
    LET nul == SelectInSeq(line, LAMBDA c : c = "NUL")
    IN IF nul = 0 THEN line ELSE SubSeq(line, 1, nul - 1)

Ignored(d) ==
    \/ ~d.head
    \/ /\ d.auth # "malformed" /\ UpToNul(d.line) # d.line
       /\ WellFormed(UpToNul(d.line))

Accepted(d) ==
    d.head /\ d.auth = "key" /\ d.version = "V1.0" /\ WellFormed(d.line)

\* As long as no field has been copied past its array, each datagram gets the
\* status of the first of its faults, in the order: a key that is no key, a
\* malformed command, another version, another key, a user who does not exist;
\* whatever came before it.  The grammar is written apart, in Commands
\* (parseDatagram and parseMp3pCharacter, whose static variable outlives a
\* datagram).  README.md has the version and the key before a malformed command:
\* MonitorClient's FlagsAsDocumented says so, and is not what the code does.
FaultsInOrder ==
    [][LET d == exchange'.dgram
       IN ~overrun' => exchange'.code =
            CASE Ignored(d) -> 0
              [] ~Ignored(d) /\ d.auth = "malformed" -> 103
              [] ~Ignored(d) /\ d.auth # "malformed" /\ ~WellFormed(d.line) -> 104
              [] OTHER -> IF d.version # "V1.0" THEN 101
                          ELSE IF d.auth # "key" THEN 100
                          ELSE IF Found(users, d.line) THEN 200 ELSE 102]_vars

\* As long as no field has been copied past its array, the users change as an
\* accepted command says, and by no other datagram (commandFunction, and the fields
\* copyDgramData cuts from the line).
OnlyAcceptedCommands ==
    [][~overrun' =>
        users' = IF Accepted(exchange'.dgram) THEN Effect(users, exchange'.dgram.line)
                 ELSE users]_vars
=============================================================================
