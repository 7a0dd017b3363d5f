--------------------------- MODULE CommandParser ----------------------------
(***************************************************************************)
(* The parser of one connection (commandParser.c): the bytes of each       *)
(* recv() are added to a list of lines, of which the last may be unfinished*)
(* and goes on with the next recv(); executeFirstCommand takes the first.  *)
(*                                                                         *)
(* The client sends whole lines, the network cuts them anywhere.  A byte   *)
(* is a class of characters, a name or an argument is its length.          *)
(***************************************************************************)
EXTENDS Integers, Sequences, FiniteSets, SequencesExt

CONSTANTS
    MAXCOMMANDSIZE, MAXARGSIZE,
    MAXCOMMANDLENGTH,   \* the most a recv() is asked for
    KnownLengths,       \* the lengths of the names of validCommands
    Lines,              \* the lines a client may send, with their CRLF
    Stale,              \* what may be in memory after the received bytes, up to
                        \* a NUL, which may be beyond auxiliaryBuffer
    MaxLines,           \* bound: lines sent in a run
    Beyond              \* bound: how far beyond auxiliaryBuffer a NUL may be

Bytes == {"NUL", "CR", "LF", "space", "printable", "other"}
Fields == 1..3          \* the command, arg1, arg2
Statuses == {"WRITINGCOMMAND", "WRITINGARG1", "WRITINGARG2",
             "COMPLETE", "INVALID", "COMPLETEINVALID"}

\* The byte i is the LF of a CRLF.
EndsLine(line, i) == line[i - 1] = "CR" /\ line[i] = "LF"

ASSUME SizeAssumption ==
    /\ MAXCOMMANDSIZE \in Nat /\ MAXARGSIZE \in Nat
    /\ MAXCOMMANDLENGTH \in Nat \ {0} /\ KnownLengths \subseteq Nat
\* A client sends any bytes up to a CRLF: a line is over at the first.
ASSUME LineAssumption ==
    /\ MaxLines \in Nat
    /\ \A line \in Lines :
         /\ line \in Seq(Bytes) /\ Len(line) >= 2
         /\ \A i \in 2..Len(line) : EndsLine(line, i) <=> i = Len(line)
\* There is a NUL somewhere: the stack ends with zeros.
ASSUME StaleAssumption ==
    Beyond \in Nat /\ Stale \subseteq Seq(Bytes) /\ \A s \in Stale : s # <<>> /\ Last(s) = "NUL"

VARIABLES
    list,               \* command_list
    memory,             \* auxiliaryBuffer, from the next byte to process on
    charactersProcessed,
    field,              \* the field aux points to
    pc,                 \* the loop the call of addData is in, "idle" outside
    wire,               \* bytes on their way
    \* history variables
    sent, executed,     \* lines sent, commands taken from the list
    overran             \* bytes after the end of the data have been processed

parserVars == <<list, memory, charactersProcessed, field, pc, overran>>
vars == <<parserVars, wire, sent, executed>>

Node == [status : Statuses, length : [Fields -> Nat], receivedCR : BOOLEAN]

createNewNode ==
    [status |-> "WRITINGCOMMAND", length |-> [f \in Fields |-> 0],
     receivedCR |-> FALSE]

Writing(n) == n.status \in {"WRITINGCOMMAND", "WRITINGARG1", "WRITINGARG2"}

Finished(n) == n.status \in {"COMPLETE", "COMPLETEINVALID"}

availableCommands == list # <<>> /\ Finished(Head(list))

(***************************************************************************)
(* setupProcessWriting: where the characters go, and for how long.         *)
(***************************************************************************)
FieldOf(status) ==
    CASE status = "WRITINGCOMMAND" -> 1
      [] status = "WRITINGARG1" -> 2
      [] OTHER -> 3

statusAfterSpace(f) == <<"WRITINGARG1", "WRITINGARG2", "INVALID">>[f]

maxSize(f) == IF f = 1 THEN MAXCOMMANDSIZE ELSE MAXARGSIZE

\* Slip: one character too many is taken.
fullTooLate(n) == n.length[field] > maxSize(field)

full(n) == n.length[field] >= maxSize(field)

(***************************************************************************)
(* Steps.                                                                  *)
(***************************************************************************)
node == Last(list)

Becomes(n) == list' = [list EXCEPT ![Len(list)] = n]

Byte(B) == memory # <<>> /\ Head(memory) \in B

Consume ==
    /\ memory' = Tail(memory)
    /\ charactersProcessed' = charactersProcessed + 1

Stay == UNCHANGED <<memory, charactersProcessed>>

\* The end of processWriting, and what processNode does then.
Leave(n) ==
    /\ Becomes(IF n.status = "COMPLETE" /\ n.length[1] \notin KnownLengths
               THEN [n EXCEPT !.status = "COMPLETEINVALID"] ELSE n)
    /\ pc' = IF n.status = "INVALID" THEN "discardUntilCRLF" ELSE "addData"

InLoop(loop) == pc = loop /\ UNCHANGED <<wire, sent, executed>>

\* Slip: a line that has been found invalid is gone on with as a new one.
newNodeUnlessWriting ==
    IF list = <<>> \/ ~Writing(node) THEN Append(list, createNewNode) ELSE list

\* The line that addData goes on with: a new one after a finished one.
nodeToProcess ==
    IF list = <<>> \/ Finished(node) THEN Append(list, createNewNode) ELSE list

addData ==
    /\ InLoop("addData")
    /\ charactersProcessed # MAXCOMMANDLENGTH + 1
    /\ Byte(Bytes \ {"NUL"})
    /\ list' = nodeToProcess
    /\ pc' = IF Writing(Last(list')) THEN "processWriting" ELSE "discardUntilCRLF"
    /\ field' = FieldOf(Last(list').status)
    /\ Stay /\ UNCHANGED overran

\* At a NUL that was received too, and what came after it is dropped.
addDataReturns ==
    /\ InLoop("addData")
    /\ charactersProcessed = MAXCOMMANDLENGTH + 1 \/ Byte({"NUL"})
    /\ pc' = "idle" /\ memory' = <<>> /\ charactersProcessed' = 0 /\ field' = 1
    /\ UNCHANGED <<list, overran>>

\* The data ends in the middle of the line.
writeEnd ==
    /\ InLoop("processWriting")
    /\ Byte({"NUL"})
    /\ Leave(node)
    /\ Stay /\ UNCHANGED <<field, overran>>

\* The byte after a CR decides, even of a line with an argument too many.
writeAfterCR ==
    /\ InLoop("processWriting")
    /\ node.receivedCR /\ Byte(Bytes \ {"NUL"})
    /\ Leave([node EXCEPT !.status =
                 IF Head(memory) = "LF" THEN "COMPLETE" ELSE "INVALID"])
    /\ Consume /\ UNCHANGED <<field, overran>>

\* After arg2 the line is INVALID, and the loop goes on with arg2.
writeSpace ==
    /\ InLoop("processWriting")
    /\ ~node.receivedCR /\ Byte({"space"})
    /\ Becomes([node EXCEPT !.status = statusAfterSpace(field)])
    /\ field' = FieldOf(statusAfterSpace(field))
    /\ Consume /\ UNCHANGED <<pc, overran>>

writeCR ==
    /\ InLoop("processWriting")
    /\ ~node.receivedCR /\ Byte({"CR"})
    /\ Becomes([node EXCEPT !.receivedCR = TRUE])
    /\ Consume /\ UNCHANGED <<field, pc, overran>>

writePrintable ==
    /\ InLoop("processWriting")
    /\ ~node.receivedCR /\ Byte({"printable"}) /\ ~full(node)
    /\ Becomes([node EXCEPT !.length[field] = @ + 1])
    /\ Consume /\ UNCHANGED <<field, pc, overran>>

\* Slip: the loop is left, and the line still looks like one to go on with.
leaveWriting ==
    /\ InLoop("processWriting")
    /\ ~node.receivedCR
    /\ \/ Byte({"LF", "other"})
       \/ Byte({"printable"}) /\ full(node)
    /\ Leave(node)
    /\ Stay /\ UNCHANGED <<field, overran>>

\* A field that is full or a byte that is no character: left to discard.
writeRejected ==
    /\ InLoop("processWriting")
    /\ ~node.receivedCR
    /\ \/ Byte({"LF", "other"})
       \/ Byte({"printable"}) /\ full(node)
    /\ Leave([node EXCEPT !.status = "INVALID"])
    /\ Stay /\ UNCHANGED <<field, overran>>

discardCR ==
    /\ InLoop("discardUntilCRLF")
    /\ Byte({"CR"})
    /\ Becomes([node EXCEPT !.receivedCR = TRUE])
    /\ Consume /\ UNCHANGED <<field, pc, overran>>

discardLF ==
    /\ InLoop("discardUntilCRLF")
    /\ Byte({"LF"}) /\ node.receivedCR
    /\ Becomes([node EXCEPT !.status = "COMPLETEINVALID"])
    /\ pc' = "addData"
    /\ Consume /\ UNCHANGED <<field, overran>>

\* Slip: a CR anywhere in the line is enough.
discardKeepsCR ==
    /\ InLoop("discardUntilCRLF")
    /\ Byte({"space", "printable", "other"}) \/ (Byte({"LF"}) /\ ~node.receivedCR)
    /\ Consume /\ UNCHANGED <<list, field, pc, overran>>

discardOther ==
    /\ InLoop("discardUntilCRLF")
    /\ Byte({"space", "printable", "other"}) \/ (Byte({"LF"}) /\ ~node.receivedCR)
    /\ Becomes([node EXCEPT !.receivedCR = FALSE])
    /\ Consume /\ UNCHANGED <<field, pc, overran>>

\* What is in memory after the data, from here to a NUL.
goesOn ==
    \E s \in Stale \cup {<<"NUL">>} :
        /\ Len(s) > 1 => charactersProcessed' + Len(s) <= MAXCOMMANDLENGTH + 1 + Beyond
        /\ memory' = s
        /\ overran' = (overran \/ Len(s) > 1)

\* Slip: the end of the buffer is forgotten.
discardPastEnd ==
    /\ InLoop("discardUntilCRLF")
    /\ Byte({"NUL"})
    /\ charactersProcessed' = charactersProcessed + 1
    /\ IF Len(memory) > 1 THEN memory' = Tail(memory) /\ UNCHANGED overran
       ELSE goesOn
    /\ pc' = "addData"
    /\ UNCHANGED <<list, field>>

\* The NUL is counted as processed: addData goes on after it, with what has been
\* received after it, or else with whatever memory holds there, unless that is
\* where the buffer ends.
discardEnd ==
    /\ InLoop("discardUntilCRLF")
    /\ Byte({"NUL"})
    /\ charactersProcessed' = charactersProcessed + 1
    /\ IF Len(memory) > 1 \/ charactersProcessed' = MAXCOMMANDLENGTH + 1
       THEN memory' = Tail(memory) /\ UNCHANGED overran
       ELSE goesOn
    /\ pc' = "addData"
    /\ UNCHANGED <<list, field>>

(***************************************************************************)
(* The calls: a connection is read from when nothing is left to execute.   *)
(***************************************************************************)
\* Slip: the bytes are not followed by a NUL.
recvUnterminated ==
    /\ pc = "idle"
    /\ ~availableCommands
    /\ \E n \in 1..MAXCOMMANDLENGTH :
        /\ n <= Len(wire)
        /\ memory' = SubSeq(wire, 1, n)
        /\ wire' = SubSeq(wire, n + 1, Len(wire))
    /\ pc' = "addData"
    /\ UNCHANGED <<list, charactersProcessed, field, overran, sent, executed>>

recv ==
    /\ pc = "idle"
    /\ ~availableCommands
    /\ \E n \in 1..MAXCOMMANDLENGTH :
        /\ n <= Len(wire)
        /\ memory' = SubSeq(wire, 1, n) \o <<"NUL">>
        /\ wire' = SubSeq(wire, n + 1, Len(wire))
    /\ pc' = "addData"
    /\ UNCHANGED <<list, charactersProcessed, field, overran, sent, executed>>

getFirstCommand ==
    /\ pc = "idle"
    /\ availableCommands
    /\ executed' = Append(executed, Head(list))
    /\ list' = Tail(list)
    /\ UNCHANGED <<memory, charactersProcessed, field, pc, overran, wire, sent>>

\* The client, at any time.
send ==
    /\ Len(sent) < MaxLines
    /\ \E l \in Lines : sent' = Append(sent, l) /\ wire' = wire \o l
    /\ UNCHANGED <<parserVars, executed>>

-----------------------------------------------------------------------------
Init ==
    /\ list = <<>> /\ memory = <<>> /\ charactersProcessed = 0
    /\ field = 1 /\ pc = "idle" /\ wire = <<>>
    /\ sent = <<>> /\ executed = <<>> /\ overran = FALSE

processWriting ==
    \/ writeEnd \/ writeAfterCR \/ writeSpace \/ writeCR \/ writePrintable
    \/ writeRejected

discardUntilCRLF == discardEnd \/ discardCR \/ discardLF \/ discardOther

Next ==
    \/ send \/ recv \/ getFirstCommand
    \/ addData \/ addDataReturns \/ processWriting \/ discardUntilCRLF

Spec == Init /\ [][Next]_vars

\* addData is one thread that calls nothing that blocks, and the loop of the
\* server executes what is there before it reads again.
FairSpec ==
    /\ Spec
    /\ WF_vars(addData \/ addDataReturns \/ processWriting \/ discardUntilCRLF)

-----------------------------------------------------------------------------
\* Types; what addData reads ends with a NUL, which is all its loops look for
\* (clients.c, readFromClient).
TypeOK ==
    /\ list \in Seq(Node) /\ executed \in Seq(Node)
    /\ sent \in Seq(Lines) /\ wire \in Seq(Bytes)
    /\ memory \in Seq(Bytes) /\ charactersProcessed \in Nat
    /\ memory # <<>> => Last(memory) = "NUL"
    /\ field \in Fields /\ overran \in BOOLEAN
    /\ pc \in {"idle", "addData", "processWriting", "discardUntilCRLF"}

\* What addData reads is in auxiliaryBuffer, up to the NUL at its end, although
\* the end is tested between two lines only and a NUL may be counted as processed;
\* and the byte it looks at is there.  After it has gone on beyond the data, into
\* what was in memory before, that is no longer so (commandParser.c, addData).
WithinBuffer ==
    /\ ~overran => charactersProcessed + Len(memory) <= MAXCOMMANDLENGTH + 1
    /\ pc # "idle" /\ memory = <<>> =>
         pc = "addData" /\ charactersProcessed = MAXCOMMANDLENGTH + 1

\* The fields stay in their arrays, whatever is received: getFirstCommand
\* copies them with strcpy (commandParser.c, command_buffer and arg_buffer).
FieldsFit ==
    \A i \in DOMAIN list : \A f \in Fields : list[i].length[f] <= maxSize(f)

\* Only the last line of the list is unfinished: availableCommands looks at the
\* first, and addData goes on with the last (commandParser.c).
OnlyLastUnfinished ==
    \A i \in DOMAIN list : i < Len(list) => Finished(list[i])

(***************************************************************************)
(* What a line means, with no parser and wherever it is cut.               *)
(***************************************************************************)
Text == {"printable", "space"}

\* The field of a byte: what follows the second space is all arg2.
FieldAt(line, i) ==
    LET spaces == Cardinality({j \in 1..(i - 1) : line[j] = "space"})
    IN IF spaces < 2 THEN spaces + 1 ELSE 3

Characters(line, m, f) ==
    {i \in 1..m : line[i] = "printable" /\ FieldAt(line, i) = f}

Length(line, f) == Cardinality(Characters(line, Len(line) - 2, f))

TooMany(line) == Cardinality({i \in 1..Len(line) : line[i] = "space"}) > 2

WellFormed(line) ==
    /\ \A i \in 1..(Len(line) - 2) : line[i] \in Text
    /\ \A f \in Fields : Length(line, f) <= maxSize(f)
    /\ Length(line, 1) \in KnownLengths

\* With an argument too many, a line is COMPLETE when it comes in one piece, but
\* not when it is cut after the space.
Verdicts(line) ==
    IF WellFormed(line)
    THEN {"COMPLETE"} \cup (IF TooMany(line) THEN {"COMPLETEINVALID"} ELSE {})
    ELSE {"COMPLETEINVALID"}

\* A line with an LF two bytes after its first CR: the parser takes it for the end
\* of the line, because receivedCR is still set.
Stray(line) ==
    \E i \in 3..(Len(line) - 1) :
        /\ line[i - 2] = "CR" /\ line[i] = "LF"
        /\ \A j \in 1..(i - 3) : line[j] \in Text

NoStray == \A i \in DOMAIN sent : ~Stray(sent[i])

\* What has been received after a NUL, as far as the recv() goes, is dropped.
NoNul == \A i \in DOMAIN sent : "NUL" \notin Range(sent[i])

\* The commands made of the lines, executed or not.
Unfinished == list # <<>> /\ ~Finished(node)

commands == executed \o (IF Unfinished THEN Front(list) ELSE list)

\* How many bytes the first lines have, for each number of them.
Ends(lines) ==
    LET e[n \in 0..Len(lines)] == IF n = 0 THEN 0 ELSE e[n - 1] + Len(lines[n])
    IN e

\* The lines of which every byte has been received.
Arrived ==
    {n \in 0..Len(sent) : Ends(sent)[n] <= Ends(sent)[Len(sent)] - Len(wire)}

AsSent ==
    /\ Len(commands) \in Arrived
    /\ \A n \in Arrived : n <= Len(commands)
    /\ \A i \in DOMAIN commands :
         /\ commands[i].status \in Verdicts(sent[i])
         /\ commands[i].status = "COMPLETE" =>
              \A f \in Fields : commands[i].length[f] = Length(sent[i], f)

\* Wherever the network cuts the lines, each becomes one command, in order,
\* with its arguments, as soon as its last byte is there, as long as nothing
\* was processed after the end of the data, no line has an LF two bytes after its
\* first CR, and none holds a NUL, at which the parser takes the data of a recv()
\* to end (commandParser.c, addData; clients.c, readFromClient).
LinesRecognised == pc = "idle" /\ ~overran /\ NoStray /\ NoNul => AsSent

\* addData comes back to the loop of the server, whatever is received: no byte
\* leaves processNode with nothing processed and a line that is still being
\* written (commandParser.c, the while of addData).
AddDataReturns == pc # "idle" ~> pc = "idle"

\* "Receives client input as a NULL terminated string and parses it into a list
\* of full_command" (commandParser.c, addData): the string, and nothing after it.
InputOnly == pc = "idle" /\ NoStray /\ NoNul => AsSent
=============================================================================
