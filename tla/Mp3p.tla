-------------------------------- MODULE Mp3p --------------------------------
(***************************************************************************)
(* The server's side of the monitoring protocol (mp3pFunctions.c, and the  *)
(* list of users.c): how a datagram is read, which of its faults is        *)
(* answered, and what an accepted command does to the users.               *)
(*                                                                         *)
(* A datagram is a record:                                                 *)
(*   head     its first two lines (protocol, version, id) are well formed; *)
(*   version  what the first line says, "V1.0" or another one;             *)
(*   auth     the key, another word of its length, or one that is no key;  *)
(*   line     the rest: a sequence of symbols, an operation, a separator   *)
(*            or a character of a word each.                               *)
(* The letters of an operation inside a word are a part of the word.       *)
(***************************************************************************)
EXTENDS Naturals, Sequences, FiniteSets, SequencesExt

CONSTANTS
    USERNAMESIZE, PASSWORDSIZE      \* the arrays that a name and a password go to

ASSUME FieldSizeAssumption == USERNAMESIZE \in Nat /\ PASSWORDSIZE \in Nat

Bare == {"BT", "BR", "HC", "CC", "LU", "LC"}
WithArguments == {"DU", "AU", "MP"}
Ops == Bare \cup WithArguments
Auths == {"key", "other", "malformed"}

\* What the automaton makes of the first three lines, before it comes to the
\* command: a head is the letters of the protocol, a version of two numbers and an
\* id of IDLENGTH letters and digits; a key is as many of them.  A version, and what
\* stands for a key, fit their arrays (VERSIONSIZE, AUTHORIZATION).
DatagramType ==
    [head : BOOLEAN, version : {"V1.0", "other"}, auth : Auths, line : Seq(STRING)]

\* The status of a reply; silence is a datagram that is discarded.
Codes == {100, 101, 102, 103, 104, 200}

-----------------------------------------------------------------------------
(***************************************************************************)
(* The automaton of the command line.  A state is what it has read last,   *)
(* or what it has decided.                                                 *)
(***************************************************************************)
Read(what) == <<"READ", what>>
Dgram(what) == <<"DGRAM", what>>

\* The edges of parseMp3pCharacter; "success" stands for onSuccessCommandState.
Edges ==
    {<<Read("THIRDNEWLINE"), op, Read(op)>> : op \in Ops}
  \cup {<<Read(op), "NUL", Dgram(op)>> : op \in Bare}
  \cup {<<Read("DU"), "SP", Read("ONEARGSEPARATOR")>>,
        <<Read("ONEARGSEPARATOR"), "text", Read("ONLYUSER")>>,
        <<Read("ONLYUSER"), "text", Read("ONLYUSER")>>,
        <<Read("ONLYUSER"), "NUL", Dgram("success")>>,
        <<Read("MP"), "SP", Read("FIRSTARGSEPARATOR")>>,
        <<Read("AU"), "SP", Read("FIRSTARGSEPARATOR")>>,
        <<Read("FIRSTARGSEPARATOR"), "text", Read("USER")>>,
        <<Read("USER"), "text", Read("USER")>>,
        <<Read("USER"), "SP", Read("SECONDARGSEPARATOR")>>,
        <<Read("SECONDARGSEPARATOR"), "text", Read("PASSWORD")>>,
        <<Read("PASSWORD"), "text", Read("PASSWORD")>>,
        <<Read("PASSWORD"), "NUL", Dgram("success")>>}

\* An operation is one only at the start of the line.
Class(state, c) ==
    IF c \in {"SP", "LF", "NUL"} \/ (c \in Ops /\ state = Read("THIRDNEWLINE"))
    THEN c ELSE "text"

\* The states parseDatagram leaves its loop in.
Ends(state) == state \in {Dgram("INVALID_COMMAND"), Dgram("DISCARD")}

Goes ==
    [from \in {<<e[1], e[2]>> : e \in Edges} |->
        (CHOOSE e \in Edges : <<e[1], e[2]>> = from)[3]]

Step(state, c) ==
    LET from == <<state, Class(state, c)>>
    IN IF from \in DOMAIN Goes THEN Goes[from]
       ELSE IF state[1] = "DGRAM" THEN Dgram("DISCARD")     \* after the end
       ELSE Dgram("INVALID_COMMAND")

\* Slip: AU leaves the static variable as the command before left it.
RememberedWithoutAU == {"DU", "MP"}

\* The operations that onSuccessCommandState is set for.
Remembered == WithArguments

\* A character, with the static variable the parser keeps between datagrams.
parseMp3pCharacter(parser, c) ==
    IF Ends(parser.state) THEN parser
    ELSE LET to == Step(parser.state, c)
         IN [state |-> IF to = Dgram("success") THEN Dgram(parser.onSuccess) ELSE to,
             onSuccess |-> IF parser.state = Read("THIRDNEWLINE") /\ c \in Remembered
                           THEN c ELSE parser.onSuccess]

\* The parser before each symbol of a text, and after the last one.
Parsing(text, onSuccess) ==
    LET parser[n \in 0..Len(text)] ==
            IF n = 0
            THEN [state |-> Read("THIRDNEWLINE"), onSuccess |-> onSuccess]
            ELSE parseMp3pCharacter(parser[n - 1], text[n])
    IN parser

\* The server ends what it receives with a NUL.
ParsedLine(line, onSuccess) ==
    Parsing(Append(line, "NUL"), onSuccess)[Len(line) + 1]

\* Slip: the key is checked before the version.
checkKeyFirst(d, command) ==
    IF d.auth # "key" THEN "INVALID_AUTHKEY"
    ELSE IF d.version # "V1.0" THEN "INVALID_VERSION" ELSE command

\* Slip: any word of the key's length will do.
checkVersionOnly(d, command) ==
    IF d.version # "V1.0" THEN "INVALID_VERSION" ELSE command

\* checkVersion, then checkAuthentication.
CheckHeaders(d, command) ==
    IF d.version # "V1.0" THEN "INVALID_VERSION"
    ELSE IF d.auth # "key" THEN "INVALID_AUTHKEY" ELSE command

\* The state parseDatagram chooses the strategy by, and the static variable after
\* it: the rest is not read after a key that is no key, and a command is looked at
\* before the headers.
parseDatagram(d, onSuccess) ==
    IF ~d.head THEN [command |-> "DISCARD", onSuccess |-> onSuccess]
    ELSE IF d.auth = "malformed" THEN [command |-> "BADAUTH", onSuccess |-> onSuccess]
    ELSE LET parser == ParsedLine(d.line, onSuccess)
         IN [command |-> IF Ends(parser.state) THEN parser.state[2]
                         ELSE CheckHeaders(d, parser.state[2]),
             onSuccess |-> parser.onSuccess]

-----------------------------------------------------------------------------
(***************************************************************************)
(* The strategies.                                                         *)
(***************************************************************************)
IsSpace(c) == c = "SP"

\* From the first space to the next one, and from the last one to the end.
obtainUsername(line) ==
    LET first == SelectInSeq(line, IsSpace)
        next == SelectInSubSeq(line, first + 1, Len(line), IsSpace)
    IN SubSeq(line, first + 1, IF next = 0 THEN Len(line) ELSE next - 1)

obtainPassword(line) == SubSeq(line, SelectLastInSeq(line, IsSpace) + 1, Len(line))

\* copyDgramData cuts the fields of a command with arguments, with the NUL that
\* ends each, before checkVersion and checkAuthentication look at the headers.
CopyFits(d, onSuccess) ==
    d.head /\ d.auth # "malformed" =>
        LET command == ParsedLine(d.line, onSuccess).state[2]
        IN /\ command \in WithArguments => Len(obtainUsername(d.line)) < USERNAMESIZE
           /\ command \in {"AU", "MP"} => Len(obtainPassword(d.line)) < PASSWORDSIZE

\* Slip: a name that is not found takes the node the search has come to.
deleteWhereItEnds(users, name) ==
    [u \in DOMAIN users \ (IF name \in DOMAIN users THEN {name}
                           ELSE {CHOOSE last \in DOMAIN users : TRUE}) |-> users[u]]

deleteUserNode(users, name) == [u \in DOMAIN users \ {name} |-> users[u]]

\* Slip: the password is copied into a copy of the node.
keepPassword(users, name, password) == users

modifyUserPassword(users, name, password) ==
    IF name \in DOMAIN users THEN [users EXCEPT ![name] = password] ELSE users

insertUserNode(users, name, password) ==
    [u \in DOMAIN users \cup {name} |->
        IF u \in DOMAIN users THEN users[u] ELSE password]

\* What commandFunction does to the users: AU of a user that exists already is
\* MP.
UsersAfter(users, command, line) ==
    LET name == obtainUsername(line)
        password == obtainPassword(line)
    IN CASE command = "DU" -> deleteUserNode(users, name)
         [] command = "MP" -> modifyUserPassword(users, name, password)
         [] command = "AU" ->
                modifyUserPassword(insertUserNode(users, name, password), name, password)
         [] OTHER -> users

\* The status commandFunction prints.
Status(users, command, line) ==
    CASE command = "BADAUTH" -> 103
      [] command = "INVALID_COMMAND" -> 104
      [] command = "INVALID_VERSION" -> 101
      [] command = "INVALID_AUTHKEY" -> 100
      [] command = "MP" /\ obtainUsername(line) \notin DOMAIN users -> 102
      [] OTHER -> 200
=============================================================================
