----------------------------- MODULE MailStream -----------------------------
(***************************************************************************)
(* The bytes of a RETR (mailsCache.c, openMail and getNCharsFromMail; the  *)
(* processor of byteStuff.c): a mail is read in rounds, each of as many    *)
(* bytes as the output buffer has room for, and a line that is a lone dot  *)
(* is given a second one, on whichever round its bytes fall.               *)
(*                                                                         *)
(* A byte is a class: CR, LF, dot, text, and those that are no positive    *)
(* char: NUL and, where char is signed, the bytes from 128 on.             *)
(***************************************************************************)
EXTENDS Naturals, Sequences, FiniteSets, SequencesExt

CONSTANTS
    BUFFERSIZE,         \* of the processor and of the output buffer
    Rooms,              \* the room a round of continueRetr may find
    Mails,              \* the mails on disk
    MaxOpens            \* bound: mails opened in a run

Bytes == {"CR", "LF", "dot", "text", "NUL", "high"}

ASSUME BufferAssumption ==
    BUFFERSIZE \in Nat \ {0} /\ Rooms \subseteq 1..BUFFERSIZE
ASSUME MailAssumption == Mails \subseteq Seq(Bytes) /\ MaxOpens \in Nat

VARIABLES
    file,               \* what fread() has still to give of currentMail
    feof, ferror,
    processor,          \* charactersProcessor
    reading,            \* a round is under way
    room, copied,       \* the characters it asks for, and those it has got
    result,             \* of the last round, "closed" before the first
    \* history variables
    mail, sent,         \* the mail under way, what of it has been sent
    opens

fileVars == <<file, feof, ferror>>
vars == <<fileVars, processor, reading, room, copied, result, mail, sent, opens>>

\* charactersProcessor: what it has not given yet, and the state of its line.
resetCharactersProcessor ==
    [pending |-> <<>>, state |-> "NEWLINE", eofReached |-> FALSE]

Processor ==
    [pending : Seq(Bytes), state : {"NEWLINE", "DOT", "NORMAL", "CR"},
     eofReached : BOOLEAN]

(***************************************************************************)
(* Operators on the processor.                                             *)
(***************************************************************************)
\* Slip: each piece is taken to begin a line.
addToNewLine(p, bytes, eof) ==
    [p EXCEPT !.pending = @ \o bytes, !.eofReached = eof, !.state = "NEWLINE"]

\* strncpy() copies what there is space for, and NULs after the first one.
addCharactersToProcess(p, bytes, eof) ==
    LET toAdd == IF Len(bytes) <= BUFFERSIZE - Len(p.pending) THEN Len(bytes)
                 ELSE BUFFERSIZE - Len(p.pending)
        added == [i \in 1..toAdd |->
                     IF \E j \in 1..i : bytes[j] = "NUL" THEN "NUL" ELSE bytes[i]]
    IN [p EXCEPT !.pending = @ \o added, !.eofReached = eof]

NextState(state, c) ==
    CASE c = "CR" -> "CR"
      [] c = "LF" -> "NEWLINE"
      [] c = "dot" /\ state = "NEWLINE" -> "DOT"
      [] OTHER -> "NORMAL"

\* Slip: a dot is doubled at the end of a line, not at the end of the file.
DoublesInLine(p) ==
    p.state = "DOT" /\ p.pending # <<>> /\ Head(p.pending) = "CR"

\* A dot that began a line is given once more before a CR or the end of file.
DoublesDot(p) ==
    /\ p.state = "DOT"
    /\ IF p.pending = <<>> THEN p.eofReached ELSE Head(p.pending) = "CR"

NotGiven == {"NUL", "high"}

\* Slip: a byte that is not given stays where it was.
readUnlessNegative(p) ==
    IF DoublesDot(p)
    THEN [given |-> "dot", after |-> [p EXCEPT !.state = "NORMAL"]]
    ELSE IF p.pending = <<>> \/ Head(p.pending) \in NotGiven
    THEN [given |-> "NUL", after |-> p]
    ELSE [given |-> Head(p.pending),
          after |-> [p EXCEPT !.pending = Tail(@),
                              !.state = NextState(@, Head(p.pending))]]

\* What is given, and the processor after it.
readFromBuffer(p) ==
    IF DoublesDot(p)
    THEN [given |-> "dot", after |-> [p EXCEPT !.state = "NORMAL"]]
    ELSE IF p.pending = <<>> THEN [given |-> "NUL", after |-> p]
    ELSE [given |-> Head(p.pending),
          after |-> [p EXCEPT !.pending = Tail(@),
                              !.state = NextState(@, Head(p.pending))]]

(***************************************************************************)
(* Operations.                                                             *)
(***************************************************************************)
Opens ==
    /\ result # "NOT_FINISHED"
    /\ opens < MaxOpens
    /\ \E m \in Mails : mail' = m /\ file' = m
    /\ feof' = FALSE /\ ferror' = FALSE
    /\ result' = "NOT_FINISHED"
    /\ sent' = <<>> /\ copied' = <<>> /\ opens' = opens + 1
    /\ UNCHANGED <<reading, room>>

\* Slip: the processor goes on from the mail before.
openMailWithoutReset == Opens /\ UNCHANGED processor

\* A mail left open by a RETR that failed is closed first.
openMail == Opens /\ processor' = resetCharactersProcessor

\* A round begins: fread() of what the processor lacks to fill the room.  A
\* short count is the end of the file, or an error.
fill ==
    /\ result = "NOT_FINISHED" /\ ~reading
    /\ reading' = TRUE /\ room' \in Rooms
    /\ copied' = <<>>
    /\ LET asked == room' - Len(processor.pending) IN
       \/ /\ asked <= 0
          /\ UNCHANGED <<fileVars, processor>>
       \/ \E n \in 0..Len(file) :
          /\ asked > 0 /\ n <= asked
          /\ feof' = (feof \/ (n = Len(file) /\ n < asked))
          /\ ferror' = (n < asked /\ ~feof')
          /\ file' = SubSeq(file, n + 1, Len(file))
          /\ processor' =
               addCharactersToProcess(processor, SubSeq(file, 1, n), feof')
    /\ UNCHANGED <<result, mail, sent, opens>>

\* Slip: the loop counts to n, not to n - 1.
copyOneMore ==
    LET read == readFromBuffer(processor) IN
    /\ reading /\ Len(copied) <= room
    /\ read.given \notin NotGiven
    /\ copied' = Append(copied, read.given)
    /\ processor' = read.after
    /\ UNCHANGED <<fileVars, reading, room, result, mail, sent, opens>>

\* One turn of the loop of getNProcessedCharacters.
copy ==
    LET read == readFromBuffer(processor) IN
    /\ reading /\ Len(copied) < room
    /\ read.given \notin NotGiven
    /\ copied' = Append(copied, read.given)
    /\ processor' = read.after
    /\ UNCHANGED <<fileVars, reading, room, result, mail, sent, opens>>

\* The room is full, or what is given is not positive, and lost.
endRound ==
    LET read == readFromBuffer(processor) IN
    /\ reading
    /\ \/ Len(copied) = room /\ UNCHANGED processor
       \/ /\ Len(copied) < room /\ read.given \in NotGiven
          /\ processor' = read.after
    /\ result' = IF feof /\ processor'.pending = <<>> THEN "FINISHED"
                 ELSE IF ferror THEN "FAILED" ELSE "NOT_FINISHED"
    /\ sent' = IF result' = "FAILED" THEN sent ELSE sent \o copied
    /\ reading' = FALSE
    /\ UNCHANGED <<fileVars, room, copied, mail, opens>>

-----------------------------------------------------------------------------
Init ==
    /\ file = <<>> /\ feof = FALSE /\ ferror = FALSE
    /\ processor = resetCharactersProcessor
    /\ reading = FALSE /\ room = 0 /\ copied = <<>> /\ result = "closed"
    /\ mail = <<>> /\ sent = <<>> /\ opens = 0

getNCharsFromMail == fill \/ copy \/ endRound

Next == openMail \/ getNCharsFromMail

Spec == Init /\ [][Next]_vars

\* A RETR that is NOT_FINISHED is resumed (PopServer, Served).
FairSpec == Spec /\ WF_vars(getNCharsFromMail)

-----------------------------------------------------------------------------
\* The processor never holds more than its array, and a round copies no more
\* than it was asked for, the size of continueRetr's array (byteStuff.c).
TypeOK ==
    /\ file \in Seq(Bytes) /\ mail \in Seq(Bytes) /\ sent \in Seq(Bytes)
    /\ processor \in Processor /\ Len(processor.pending) <= BUFFERSIZE
    /\ feof \in BOOLEAN /\ ferror \in BOOLEAN
    /\ reading \in BOOLEAN /\ room \in Rooms \cup {0}
    /\ copied \in Seq(Bytes) /\ Len(copied) <= room
    /\ result \in {"closed", "NOT_FINISHED", "FINISHED", "FAILED"}
    /\ opens \in 0..MaxOpens

\* The mail as it is to be sent: lines that are a lone dot have two.
LoneDot(m, i) ==
    /\ m[i] = "dot"
    /\ i = 1 \/ m[i - 1] = "LF"
    /\ i = Len(m) \/ m[i + 1] = "CR"

\* Where byte i comes in it, after the bytes before it and their second dots.
Place(m, i) == i + Cardinality({j \in 1..(i - 1) : LoneDot(m, j)})

\* What it has at place k is byte i, or the second dot of byte i.
At(m, i, k) == k = Place(m, i) \/ (LoneDot(m, i) /\ k = Place(m, i) + 1)

Stuffed(m) ==
    [k \in 1..(Place(m, Len(m) + 1) - 1) |-> m[CHOOSE i \in DOMAIN m : At(m, i, k)]]

IsText(m) == \A i \in DOMAIN m : m[i] \notin NotGiven

\* Wherever the rounds cut the mail, what has been sent is the beginning of the
\* stuffed mail: nothing is lost, doubled twice or left from the mail before
\* (byteStuff.c; mailsCache.c, getNCharsFromMail).
PrefixSent == IsText(mail) => IsPrefix(sent, Stuffed(mail))

\* A RETR that finishes has sent it whole.  The dot of a last line without an
\* end is doubled only if the round had room for it (byteStuff.c, readFromBuffer).
DotLost == mail # <<>> /\ LoneDot(mail, Len(mail)) /\ Len(copied) = room

WholeSent ==
    result = "FINISHED" /\ IsText(mail) =>
        \/ sent = Stuffed(mail)
        \/ DotLost /\ sent = Front(Stuffed(mail))

\* The client that reads to the first line that is a lone dot reads the whole
\* mail, whatever the rounds were (popFunctions.c, sendTerminationCRLF).
Answer == <<"CR", "LF">> \o sent \o <<"CR", "LF", "dot", "CR", "LF">>

Ends(a) ==
    {i \in 5..Len(a) : SubSeq(a, i - 4, i) = <<"CR", "LF", "dot", "CR", "LF">>}

NoEarlyEnd ==
    result = "FINISHED" /\ IsText(mail) /\ ~DotLost => Ends(Answer) = {Len(Answer)}

\* Every RETR comes to an end, whatever bytes the mail has and however little
\* of it a round gives (popFunctions.c, retr).
Retrieved == result = "NOT_FINISHED" ~> result # "NOT_FINISHED"
=============================================================================
