-------------------------- MODULE MailStreamProofs --------------------------
(***************************************************************************)
(* Proofs about MailStream, for any buffer, rooms and mails: the arrays of *)
(* the processor and of a round are never overrun (TypeOK is inductive),   *)
(* and what is sent of a mail of text is the stuffed mail, in order, whole *)
(* and with one end, wherever the rounds cut it (from StreamInv, which     *)
(* accounts for every byte of the mail).                                   *)
(***************************************************************************)
EXTENDS MailStream, TLAPS, SequenceTheorems, FiniteSetTheorems

\* The processor as it should be.
ProcessorOK(p) == p \in Processor /\ Len(p.pending) <= BUFFERSIZE

\* Bytes are added up to the end of the array.
LEMMA AddOK ==
    ASSUME NEW p, ProcessorOK(p), NEW bytes \in Seq(Bytes), NEW eof \in BOOLEAN
    PROVE  ProcessorOK(addCharactersToProcess(p, bytes, eof))
<1> DEFINE toAdd == IF Len(bytes) <= BUFFERSIZE - Len(p.pending)
                    THEN Len(bytes) ELSE BUFFERSIZE - Len(p.pending)
           added == [i \in 1..toAdd |-> IF \E j \in 1..i : bytes[j] = "NUL"
                                        THEN "NUL" ELSE bytes[i]]
<1>1. /\ p.pending \in Seq(Bytes) /\ Len(p.pending) \in Nat
      /\ BUFFERSIZE \in Nat /\ Len(bytes) \in Nat
  BY BufferAssumption DEF ProcessorOK, Processor
<1>2. /\ toAdd \in Nat /\ toAdd <= Len(bytes)
      /\ Len(p.pending) + toAdd <= BUFFERSIZE
  <2> DEFINE held == Len(p.pending)
             more == Len(bytes)
  <2>1. held \in Nat /\ more \in Nat /\ BUFFERSIZE \in Nat /\ held <= BUFFERSIZE
    BY <1>1 DEF ProcessorOK
  <2>2. toAdd = IF more <= BUFFERSIZE - held THEN more ELSE BUFFERSIZE - held
    OBVIOUS
  <2> HIDE DEF toAdd, held, more
  <2>3. toAdd \in Nat /\ toAdd <= more /\ held + toAdd <= BUFFERSIZE
    BY <2>1, <2>2
  <2> QED BY <2>3 DEF held, more
<1>3. added \in Seq(Bytes) /\ Len(added) = toAdd
  <2>1. \A i \in 1..toAdd : i \in 1..Len(bytes)
    BY <1>1, <1>2
  <2> HIDE DEF toAdd
  <2>2. \A i \in 1..toAdd : bytes[i] \in Bytes
    BY <2>1
  <2>3. added \in [1..toAdd -> Bytes]
    BY <2>2 DEF Bytes
  <2> HIDE DEF added
  <2> QED BY <1>2, <2>3
<1> HIDE DEF toAdd, added
<1>4. /\ p.pending \o added \in Seq(Bytes)
      /\ Len(p.pending \o added) = Len(p.pending) + toAdd
  BY <1>1, <1>3, SMTT(20)
<1>5. addCharactersToProcess(p, bytes, eof)
        = [p EXCEPT !.pending = @ \o added, !.eofReached = eof]
  BY DEF addCharactersToProcess, added, toAdd
<1> DEFINE longer == p.pending \o added
<1>6. longer \in Seq(Bytes) /\ Len(longer) <= BUFFERSIZE
  BY <1>1, <1>2, <1>4
<1>7. addCharactersToProcess(p, bytes, eof)
        = [p EXCEPT !.pending = longer, !.eofReached = eof]
  BY <1>5
<1> HIDE DEF longer
<1> QED BY <1>6, <1>7 DEF ProcessorOK, Processor

\* A byte is given, and the processor holds no more than before.
LEMMA ReadOK ==
    ASSUME NEW p, ProcessorOK(p)
    PROVE  /\ readFromBuffer(p).given \in Bytes
           /\ ProcessorOK(readFromBuffer(p).after)
<1>1. CASE DoublesDot(p)
  <2>1. readFromBuffer(p) = [given |-> "dot", after |-> [p EXCEPT !.state = "NORMAL"]]
    BY <1>1 DEF readFromBuffer
  <2> QED BY <2>1 DEF ProcessorOK, Processor, Bytes
<1>2. CASE ~DoublesDot(p) /\ p.pending = <<>>
  <2>1. readFromBuffer(p) = [given |-> "NUL", after |-> p]
    BY <1>2 DEF readFromBuffer
  <2> QED BY <2>1 DEF Bytes
<1>3. CASE ~DoublesDot(p) /\ p.pending # <<>>
  <2> DEFINE c == Head(p.pending)
             q == [p EXCEPT !.pending = Tail(p.pending),
                            !.state = NextState(p.state, c)]
  <2>1. readFromBuffer(p) = [given |-> c, after |-> q]
    BY <1>3 DEF readFromBuffer
  <2>2. /\ p.pending \in Seq(Bytes) /\ c \in Bytes
        /\ Tail(p.pending) \in Seq(Bytes)
        /\ Len(Tail(p.pending)) = Len(p.pending) - 1 /\ Len(p.pending) \in Nat
    BY <1>3 DEF ProcessorOK, Processor
  <2>3. NextState(p.state, c) \in {"NEWLINE", "DOT", "NORMAL", "CR"}
    BY DEF NextState
  <2> DEFINE rest == Tail(p.pending)
             next == NextState(p.state, c)
  <2>5. /\ rest \in Seq(Bytes) /\ Len(rest) <= BUFFERSIZE
        /\ next \in {"NEWLINE", "DOT", "NORMAL", "CR"}
    BY <2>2, <2>3, BufferAssumption DEF ProcessorOK
  <2>6. q = [p EXCEPT !.pending = rest, !.state = next]
    OBVIOUS
  <2> HIDE DEF q, rest, next
  <2>4. ProcessorOK(q)
    BY <2>5, <2>6 DEF ProcessorOK, Processor
  <2> QED BY <2>1, <2>2, <2>4
<1> QED BY <1>1, <1>2, <1>3

\* Nothing has been opened.
LEMMA InitTypeOK == Init => TypeOK
<1> SUFFICES ASSUME Init PROVE TypeOK
  OBVIOUS
<1>1. file \in Seq(Bytes) /\ mail \in Seq(Bytes)
  BY DEF Init
<1>2. sent \in Seq(Bytes) /\ copied \in Seq(Bytes) /\ Len(copied) = 0 /\ room = 0
  BY DEF Init
<1>3. processor \in Processor /\ Len(processor.pending) <= BUFFERSIZE
  BY BufferAssumption DEF Init, resetCharactersProcessor, Processor
<1>4. opens \in 0..MaxOpens
  BY MailAssumption DEF Init
<1>5. room \in Rooms \cup {0} /\ Len(copied) <= room
  BY <1>2
<1>6. /\ feof \in BOOLEAN /\ ferror \in BOOLEAN /\ reading \in BOOLEAN
      /\ result \in {"closed", "NOT_FINISHED", "FINISHED", "FAILED"}
  BY DEF Init
<1> QED BY <1>1, <1>2, <1>3, <1>4, <1>5, <1>6 DEF TypeOK

\* Every step keeps the arrays within their bounds.
LEMMA StepTypeOK == TypeOK /\ [Next]_vars => TypeOK'
<1> SUFFICES ASSUME TypeOK, [Next]_vars PROVE TypeOK'
  OBVIOUS
<1>0. ProcessorOK(processor)
  BY DEF TypeOK, ProcessorOK
<1>1. CASE openMail
  <2>1. mail' \in Seq(Bytes) /\ file' \in Seq(Bytes)
    BY <1>1, MailAssumption DEF openMail, Opens
  <2>2. sent' \in Seq(Bytes) /\ copied' \in Seq(Bytes) /\ Len(copied') = 0
    BY <1>1 DEF openMail, Opens
  <2>3. processor' \in Processor /\ Len(processor'.pending) <= BUFFERSIZE
    BY <1>1, BufferAssumption DEF openMail, resetCharactersProcessor, Processor
  <2>4. /\ UNCHANGED <<reading, room>>
        /\ feof' \in BOOLEAN /\ ferror' \in BOOLEAN
        /\ result' = "NOT_FINISHED"
        /\ opens' = opens + 1 /\ opens < MaxOpens
    BY <1>1 DEF openMail, Opens
  <2>5. 0 <= room
    BY BufferAssumption DEF TypeOK
  <2>6. opens' \in 0..MaxOpens
    BY <2>4, MailAssumption DEF TypeOK
  <2> QED BY <2>1, <2>2, <2>3, <2>4, <2>5, <2>6 DEF TypeOK
<1>2. CASE fill
  <2>1. /\ reading' = TRUE /\ room' \in Rooms /\ copied' = <<>>
        /\ UNCHANGED <<result, mail, sent, opens>>
    BY <1>2 DEF fill
  <2>2. /\ file' \in Seq(Bytes) /\ feof' \in BOOLEAN /\ ferror' \in BOOLEAN
        /\ ProcessorOK(processor')
    <3>1. CASE UNCHANGED <<fileVars, processor>>
      BY <1>0, <3>1 DEF TypeOK, fileVars, ProcessorOK
    <3>2. CASE ~UNCHANGED <<fileVars, processor>>
      <4>1. PICK n \in 0..Len(file) :
              /\ feof' = (feof \/ (n = Len(file) /\ n < room' - Len(processor.pending)))
              /\ ferror' = (n < room' - Len(processor.pending) /\ ~feof')
              /\ file' = SubSeq(file, n + 1, Len(file))
              /\ processor' =
                   addCharactersToProcess(processor, SubSeq(file, 1, n), feof')
        BY <1>2, <3>2 DEF fill
      <4>2. file \in Seq(Bytes) /\ n \in Nat /\ n <= Len(file)
        BY DEF TypeOK
      <4>3. SubSeq(file, 1, n) \in Seq(Bytes)
        BY <4>2
      <4>4. SubSeq(file, n + 1, Len(file)) \in Seq(Bytes)
        BY <4>2
      <4>5. feof' \in BOOLEAN /\ ferror' \in BOOLEAN
        BY <4>1 DEF TypeOK
      <4> QED BY <1>0, <4>1, <4>3, <4>4, <4>5, AddOK
    <3> QED BY <3>1, <3>2
  <2>3. copied' \in Seq(Bytes) /\ Len(copied') <= room'
    BY <2>1, BufferAssumption
  <2> QED BY <2>1, <2>2, <2>3 DEF TypeOK, ProcessorOK
<1>3. CASE copy
  <2> DEFINE r == readFromBuffer(processor)
  <2>1. /\ copied' = Append(copied, r.given) /\ processor' = r.after
        /\ Len(copied) < room
        /\ UNCHANGED <<fileVars, reading, room, result, mail, sent, opens>>
    BY <1>3 DEF copy
  <2>2. r.given \in Bytes /\ ProcessorOK(r.after)
    BY <1>0, ReadOK
  <2> HIDE DEF r
  <2>3. room \in Nat /\ copied \in Seq(Bytes)
    BY BufferAssumption DEF TypeOK
  <2>4. copied' \in Seq(Bytes) /\ Len(copied') <= room'
    BY <2>1, <2>2, <2>3
  <2> QED BY <2>1, <2>2, <2>4 DEF TypeOK, ProcessorOK, fileVars
<1>4. CASE endRound
  <2>1. /\ processor' \in {processor, readFromBuffer(processor).after}
        /\ result' \in {"FINISHED", "FAILED", "NOT_FINISHED"}
        /\ sent' \in {sent, sent \o copied} /\ reading' = FALSE
        /\ UNCHANGED <<fileVars, room, copied, mail, opens>>
    BY <1>4 DEF endRound
  <2>2. ProcessorOK(processor')
    BY <1>0, <2>1, ReadOK
  <2>3. sent' \in Seq(Bytes)
    <3>1. sent \in Seq(Bytes) /\ copied \in Seq(Bytes)
      BY DEF TypeOK
    <3>2. sent \o copied \in Seq(Bytes)
      BY <3>1
    <3> QED BY <2>1, <3>1, <3>2
  <2> QED BY <2>1, <2>2, <2>3 DEF TypeOK, ProcessorOK, fileVars
<1>5. CASE UNCHANGED vars
  BY <1>5 DEF vars, fileVars, TypeOK
<1> QED
  BY <1>1, <1>2, <1>3, <1>4, <1>5 DEF Next, getNCharsFromMail

\* However the room changes from round to round, the processor keeps to its
\* array and a round to the room it was given (byteStuff.c; popFunctions.c,
\* continueRetr, whose array is as long as the room).
THEOREM ArraysNeverOverrun == Spec => []TypeOK
BY InitTypeOK, StepTypeOK, PTL DEF Spec

-----------------------------------------------------------------------------
(***************************************************************************)
(* What is sent.  The mail is what the processor has given of it, what it  *)
(* holds and what is still in the file; a dot that began a line is owed its*)
(* second one until the byte after it is looked at.                        *)
(***************************************************************************)
\* The bytes of the mail that have left the processor.
Taken == Len(mail) - Len(processor.pending) - Len(file)

\* What has been sent, and what the round under way has.
Emitted == IF reading THEN sent \o copied ELSE sent

\* The dot that has been given once is to be given once more.
Owed == processor.state = "DOT" /\ LoneDot(mail, Taken)

\* The processor and the file hold the rest of the mail, in order.
HoldsRest ==
    /\ Taken \in Nat
    /\ \A j \in 1..Len(processor.pending) : processor.pending[j] = mail[Taken + j]
    /\ \A j \in 1..Len(file) :
          file[j] = mail[Taken + Len(processor.pending) + j]

\* The state of the processor is that of the last byte it has given.
AtLineStart == Taken = 0 \/ mail[Taken] = "LF"

StateOfLine ==
    /\ processor.state = "NEWLINE" <=> AtLineStart
    /\ processor.state = "DOT" =>
          /\ Taken > 0 /\ mail[Taken] = "dot"
          /\ Taken = 1 \/ mail[Taken - 1] = "LF"

\* s has at its places the bytes of m that belong there.
Matches(s, m, n) ==
    \A k \in 1..Len(s) : \E i \in 1..n : At(m, i, k) /\ s[k] = m[i]

Progress ==
    /\ HoldsRest /\ StateOfLine
    /\ Len(Emitted) = Place(mail, Taken + 1) - 1 - (IF Owed THEN 1 ELSE 0)
    /\ Matches(Emitted, mail, Taken)

EndsTogether ==
    /\ processor.eofReached = feof
    /\ feof => file = <<>>
    /\ reading => result = "NOT_FINISHED"

Finish ==
    result = "FINISHED" =>
        /\ feof /\ processor.pending = <<>>
        /\ Owed => Len(copied) = room

StreamInv ==
    /\ TypeOK /\ EndsTogether
    /\ IsText(mail) =>
        /\ Matches(sent, mail, Len(mail)) /\ Len(sent) < Place(mail, Len(mail) + 1)
        /\ result # "FAILED" => Progress
        /\ Finish

-----------------------------------------------------------------------------
(***************************************************************************)
(* Places in the stuffed mail.                                             *)
(***************************************************************************)
\* The lone dots of m before byte i.
DotsBefore(m, i) == {j \in 1..(i - 1) : LoneDot(m, j)}

LEMMA DotsFinite ==
    ASSUME NEW m, NEW i \in Nat \ {0}
    PROVE  /\ IsFiniteSet(DotsBefore(m, i)) /\ Cardinality(DotsBefore(m, i)) \in Nat
           /\ Place(m, i) = i + Cardinality(DotsBefore(m, i))
<1>1. IsFiniteSet(1..(i - 1))
  BY FS_Interval
<1>2. DotsBefore(m, i) \in SUBSET (1..(i - 1))
  BY DEF DotsBefore
<1>3. IsFiniteSet(DotsBefore(m, i))
  BY <1>1, <1>2, FS_Subset
<1> QED BY <1>3, FS_CardinalityType DEF Place, DotsBefore

\* A byte takes one place, a lone dot two.
LEMMA PlaceStep ==
    ASSUME NEW m, NEW i \in Nat \ {0}
    PROVE  /\ Place(m, i) \in Nat
           /\ Place(m, i + 1) = Place(m, i) + (IF LoneDot(m, i) THEN 2 ELSE 1)
<1>1. CASE LoneDot(m, i)
  <2>1. DotsBefore(m, i + 1) = DotsBefore(m, i) \cup {i} /\ i \notin DotsBefore(m, i)
    BY <1>1 DEF DotsBefore
  <2>2. Cardinality(DotsBefore(m, i + 1)) = Cardinality(DotsBefore(m, i)) + 1
    BY <2>1, DotsFinite, FS_AddElement
  <2> QED BY <1>1, <2>2, DotsFinite
<1>2. CASE ~LoneDot(m, i)
  <2>1. DotsBefore(m, i + 1) = DotsBefore(m, i)
    BY <1>2 DEF DotsBefore
  <2> QED BY <1>2, <2>1, DotsFinite
<1> QED BY <1>1, <1>2

LEMMA PlaceOne == ASSUME NEW m PROVE Place(m, 1) = 1
<1>1. DotsBefore(m, 1) = {}
  BY DEF DotsBefore
<1> QED BY <1>1, DotsFinite, FS_EmptySet

\* A later byte comes later, and after the second dot of an earlier one.
LEMMA PlaceGrows ==
    ASSUME NEW m, NEW i \in Nat \ {0}, NEW j \in Nat \ {0}, i < j
    PROVE  Place(m, j) >= Place(m, i) + (j - i) + (IF LoneDot(m, i) THEN 1 ELSE 0)
<1>1. Place(m, i + 1) = Place(m, i) + (IF LoneDot(m, i) THEN 2 ELSE 1)
  BY PlaceStep
<1>2. DotsBefore(m, i + 1) \in SUBSET DotsBefore(m, j)
  BY DEF DotsBefore
<1>3. Cardinality(DotsBefore(m, i + 1)) <= Cardinality(DotsBefore(m, j))
  BY <1>2, DotsFinite, FS_Subset
<1>4. i + 1 \in Nat \ {0}
  OBVIOUS
<1>5. /\ Place(m, i + 1) = i + 1 + Cardinality(DotsBefore(m, i + 1))
      /\ Place(m, j) = j + Cardinality(DotsBefore(m, j))
      /\ Cardinality(DotsBefore(m, i + 1)) \in Nat
      /\ Cardinality(DotsBefore(m, j)) \in Nat
      /\ Place(m, i) \in Nat
  BY <1>4, DotsFinite, PlaceStep
<1> QED BY <1>1, <1>3, <1>5

\* Only one byte belongs at a place.
LEMMA AtUnique ==
    ASSUME NEW m, NEW i \in Nat \ {0}, NEW j \in Nat \ {0}, NEW k,
           At(m, i, k), At(m, j, k)
    PROVE  i = j
<1>1. Place(m, i) \in Nat /\ Place(m, j) \in Nat
  BY PlaceStep
<1>2. ASSUME NEW a \in Nat \ {0}, NEW b \in Nat \ {0}, a < b,
             At(m, a, k), At(m, b, k)
      PROVE  FALSE
  <2>1. Place(m, b) >= Place(m, a) + (b - a) + (IF LoneDot(m, a) THEN 1 ELSE 0)
    BY <1>2, PlaceGrows
  <2>2. Place(m, a) \in Nat /\ Place(m, b) \in Nat
    BY PlaceStep
  <2> QED BY <1>2, <2>1, <2>2 DEF At
<1>3. ~(i < j) /\ ~(j < i)
  BY <1>2
<1> QED BY <1>3

\* What is at its places is the beginning of the stuffed mail.
LEMMA MatchesStuffed ==
    ASSUME NEW m \in Seq(Bytes), NEW s \in Seq(Bytes), Matches(s, m, Len(m)),
           Len(s) < Place(m, Len(m) + 1)
    PROVE  /\ Len(Stuffed(m)) = Place(m, Len(m) + 1) - 1
           /\ \A k \in 1..Len(s) : s[k] = Stuffed(m)[k]
           /\ IsPrefix(s, Stuffed(m))
<1> DEFINE last == Place(m, Len(m) + 1) - 1
<1>0. Len(m) \in Nat /\ Len(s) \in Nat /\ DOMAIN m = 1..Len(m)
  OBVIOUS
<1>1. Place(m, Len(m) + 1) \in Nat /\ Place(m, Len(m) + 1) >= 1
  <2>1. Len(m) + 1 \in Nat \ {0}
    BY <1>0
  <2> DEFINE i == Len(m) + 1
  <2>2. Place(m, i) \in Nat
    BY <2>1, PlaceStep
  <2>3. /\ Place(m, i) = i + Cardinality(DotsBefore(m, i))
        /\ Cardinality(DotsBefore(m, i)) \in Nat
    BY <2>1, DotsFinite
  <2> QED BY <2>1, <2>2, <2>3
<1>2. last \in Nat /\ Len(s) <= last
  <2> DEFINE p == Place(m, Len(m) + 1)
  <2>1. p \in Nat /\ p >= 1 /\ Len(s) < p
    BY <1>1
  <2> HIDE DEF p
  <2>2. p - 1 \in Nat /\ Len(s) <= p - 1
    BY <1>0, <2>1
  <2> QED BY <2>2 DEF p
<1>3. Stuffed(m) = [k \in 1..last |-> m[CHOOSE i \in DOMAIN m : At(m, i, k)]]
  BY DEF Stuffed
<1> HIDE DEF last
<1>4. Len(Stuffed(m)) = last
  BY <1>2, <1>3
<1>5. ASSUME NEW k \in 1..Len(s) PROVE s[k] = Stuffed(m)[k]
  <2>1. PICK i \in 1..Len(m) : At(m, i, k) /\ s[k] = m[i]
    BY DEF Matches
  <2> DEFINE c == CHOOSE n \in DOMAIN m : At(m, n, k)
  <2>2. c \in DOMAIN m /\ At(m, c, k)
    BY <1>0, <2>1
  <2> HIDE DEF c
  <2>3. c = i
    BY <1>0, <2>1, <2>2, AtUnique
  <2>4. Stuffed(m)[k] = m[c]
    BY <1>0, <1>2, <1>3 DEF c
  <2> QED BY <2>1, <2>3, <2>4
<1>6. SubSeq(s, 1, Len(s)) = SubSeq(Stuffed(m), 1, Len(s))
  BY <1>0, <1>2, <1>4, <1>5
<1> QED BY <1>2, <1>4, <1>5, <1>6 DEF last, IsPrefix

-----------------------------------------------------------------------------
(***************************************************************************)
(* The steps.                                                              *)
(***************************************************************************)
LEMMA Lengths ==
    ASSUME TypeOK
    PROVE  /\ Len(mail) \in Nat /\ Len(file) \in Nat /\ Len(sent) \in Nat
           /\ Len(copied) \in Nat /\ Len(processor.pending) \in Nat
           /\ processor.pending \in Seq(Bytes) /\ Taken \in Int
           /\ Emitted \in Seq(Bytes) /\ Len(Emitted) \in Nat
           /\ Len(sent) <= Len(Emitted)
           /\ \A k \in 1..Len(sent) : Emitted[k] = sent[k]
<1>1. /\ mail \in Seq(Bytes) /\ file \in Seq(Bytes) /\ sent \in Seq(Bytes)
      /\ copied \in Seq(Bytes) /\ processor.pending \in Seq(Bytes)
  BY DEF TypeOK, Processor
<1>2. Len(mail) \in Nat /\ Len(file) \in Nat /\ Len(processor.pending) \in Nat
  BY <1>1
<1> QED BY <1>1, <1>2 DEF Emitted, Taken

\* Places that belong to the first n bytes belong to the first p >= n.
LEMMA MatchesMore ==
    ASSUME NEW s, NEW m, NEW n \in Nat, NEW p \in Nat, n <= p, Matches(s, m, n)
    PROVE  Matches(s, m, p)
BY DEF Matches

\* Nothing has been read of an empty mail.
LEMMA StreamInit == Init => StreamInv
<1> SUFFICES ASSUME Init PROVE StreamInv
  OBVIOUS
<1>1. TypeOK
  BY InitTypeOK
<1>2. /\ mail = <<>> /\ file = <<>> /\ sent = <<>> /\ ~reading /\ ~feof
      /\ processor.pending = <<>> /\ processor.state = "NEWLINE"
      /\ processor.eofReached = feof /\ result = "closed"
  BY DEF Init, resetCharactersProcessor
<1>3. Taken = 0 /\ Emitted = <<>> /\ ~Owed /\ Len(mail) = 0
  <2>1. Len(mail) = 0 /\ Len(file) = 0 /\ Len(processor.pending) = 0
    BY <1>2
  <2>2. Taken = 0
    BY <2>1 DEF Taken
  <2>3. Emitted = <<>> /\ ~Owed
    BY <1>2 DEF Emitted, Owed
  <2> QED BY <2>1, <2>2, <2>3
<1>4. Place(mail, Taken + 1) = 1
  BY <1>3, PlaceOne
<1>5. HoldsRest /\ StateOfLine
  BY <1>2, <1>3 DEF HoldsRest, StateOfLine, AtLineStart
<1>6. Progress
  BY <1>3, <1>4, <1>5 DEF Progress, Matches
<1>7. Matches(sent, mail, Len(mail)) /\ Len(sent) < Place(mail, Len(mail) + 1)
  BY <1>2, <1>3, <1>4 DEF Matches
<1> QED BY <1>1, <1>2, <1>6, <1>7 DEF StreamInv, EndsTogether, Finish

\* A mail is opened with nothing of another left.
LEMMA StreamOpen == StreamInv /\ TypeOK' /\ openMail => StreamInv'
<1> SUFFICES ASSUME StreamInv, TypeOK', openMail PROVE StreamInv'
  OBVIOUS
<1>1. /\ mail' = file' /\ sent' = <<>> /\ reading' = reading /\ ~feof'
      /\ processor'.pending = <<>> /\ processor'.state = "NEWLINE"
      /\ processor'.eofReached = feof' /\ result' = "NOT_FINISHED"
  BY DEF openMail, Opens, resetCharactersProcessor
<1>2. ~reading'
  BY <1>1 DEF StreamInv, EndsTogether, openMail, Opens
<1>3. Taken' = 0 /\ Emitted' = <<>> /\ ~Owed'
  BY <1>1, <1>2 DEF Taken, Emitted, Owed, TypeOK
<1>4. Place(mail', Taken' + 1) = 1
  BY <1>3, PlaceOne
<1>5. HoldsRest' /\ StateOfLine'
  BY <1>1, <1>3 DEF HoldsRest, StateOfLine, AtLineStart
<1>6. Progress'
  BY <1>3, <1>4, <1>5 DEF Progress, Matches
<1>7. Matches(sent', mail', Len(mail')) /\ Len(sent') < Place(mail', Len(mail') + 1)
  <2>1. Len(mail') \in Nat /\ Place(mail', 1) = 1
    BY PlaceOne DEF TypeOK
  <2>2. Place(mail', Len(mail') + 1) >= 1
    <3>1. CASE Len(mail') = 0
      BY <2>1, <3>1
    <3>2. CASE Len(mail') # 0
      <4>1. Len(mail') + 1 \in Nat \ {0} /\ 1 < Len(mail') + 1
        BY <2>1, <3>2
      <4>2. Place(mail', Len(mail') + 1) \in Nat
        BY <4>1, PlaceStep
      <4>3. Place(mail', Len(mail') + 1) >= Place(mail', 1) + (Len(mail') + 1 - 1)
              + (IF LoneDot(mail', 1) THEN 1 ELSE 0)
        BY <4>1, PlaceGrows
      <4> QED BY <2>1, <4>2, <4>3
    <3> QED BY <3>1, <3>2
  <2> QED BY <1>1, <2>1, <2>2, PlaceStep, SMTT(20) DEF Matches
<1> QED BY <1>1, <1>2, <1>6, <1>7 DEF StreamInv, EndsTogether, Finish

\* A sequence cut after n elements.
LEMMA Cut ==
    ASSUME NEW S, NEW s \in Seq(S), NEW n \in 0..Len(s)
    PROVE  /\ SubSeq(s, 1, n) \in Seq(S) /\ Len(SubSeq(s, 1, n)) = n
           /\ \A k \in 1..n : SubSeq(s, 1, n)[k] = s[k]
           /\ SubSeq(s, n + 1, Len(s)) \in Seq(S)
           /\ Len(SubSeq(s, n + 1, Len(s))) = Len(s) - n
           /\ \A k \in 1..(Len(s) - n) : SubSeq(s, n + 1, Len(s))[k] = s[n + k]
<1>1. Len(s) \in Nat /\ n \in Nat /\ n <= Len(s)
  OBVIOUS
<1>2. \A k \in 1..Len(s) : s[k] \in S
  BY ElementOfSeq
<1>3. \A k \in 1..n : s[k] \in S
  BY <1>1, <1>2
<1>4. \A k \in (n + 1)..Len(s) : s[k] \in S
  BY <1>1, <1>2
<1>5. /\ SubSeq(s, 1, n) \in Seq(S) /\ Len(SubSeq(s, 1, n)) = n
      /\ \A k \in 1..n : SubSeq(s, 1, n)[k] = s[k]
  BY <1>1, <1>3
<1>6. SubSeq(s, n + 1, Len(s)) \in Seq(S)
  BY <1>1, <1>4
<1>7. Len(SubSeq(s, n + 1, Len(s))) = Len(s) - n
  BY <1>1, <1>4, SubSeqProperties
<1>8. \A k \in 1..(Len(s) - n) : SubSeq(s, n + 1, Len(s))[k] = s[n + k]
  BY <1>1
<1> QED BY <1>5, <1>6, <1>7, <1>8

\* Two sequences joined.
LEMMA Joined ==
    ASSUME NEW S, NEW s \in Seq(S), NEW t \in Seq(S)
    PROVE  /\ s \o t \in Seq(S) /\ Len(s \o t) = Len(s) + Len(t)
           /\ \A k \in 1..Len(s) : (s \o t)[k] = s[k]
           /\ \A k \in 1..Len(t) : (s \o t)[Len(s) + k] = t[k]
OBVIOUS

LEMMA JoinedTo ==
    ASSUME NEW S, NEW s \in Seq(S), NEW t \in Seq(S), NEW u, u = s \o t
    PROVE  /\ u \in Seq(S) /\ Len(u) = Len(s) + Len(t)
           /\ \A k \in 1..Len(s) : u[k] = s[k]
           /\ \A k \in 1..Len(t) : u[Len(s) + k] = t[k]
BY Joined

LEMMA Regroup ==
    ASSUME NEW a \in Int, NEW b \in Int, NEW c \in Int, NEW d \in Int
    PROVE  a + b + (c + d) = a + (b + c) + d
OBVIOUS

\* Text that there is space for is added as it is.
LEMMA AddText ==
    ASSUME NEW p \in Processor, Len(p.pending) <= BUFFERSIZE, NEW bytes \in Seq(Bytes),
           NEW eof \in BOOLEAN, Len(bytes) <= BUFFERSIZE - Len(p.pending),
           \A i \in 1..Len(bytes) : bytes[i] # "NUL",
           NEW q, q = addCharactersToProcess(p, bytes, eof)
    PROVE  /\ q.state = p.state /\ q.eofReached = eof
           /\ Len(q.pending) = Len(p.pending) + Len(bytes)
           /\ \A k \in 1..Len(p.pending) : q.pending[k] = p.pending[k]
           /\ \A k \in 1..Len(bytes) : q.pending[Len(p.pending) + k] = bytes[k]
<1> DEFINE toAdd == IF Len(bytes) <= BUFFERSIZE - Len(p.pending)
                    THEN Len(bytes) ELSE BUFFERSIZE - Len(p.pending)
           added == [i \in 1..toAdd |-> IF \E j \in 1..i : bytes[j] = "NUL"
                                        THEN "NUL" ELSE bytes[i]]
<1>1. q = [p EXCEPT !.pending = @ \o added, !.eofReached = eof]
  BY DEF addCharactersToProcess
<1>2. toAdd = Len(bytes)
  OBVIOUS
<1> HIDE DEF toAdd
<1>3. \A i \in 1..toAdd : bytes[i] = IF \E j \in 1..i : bytes[j] = "NUL"
                                    THEN "NUL" ELSE bytes[i]
  BY <1>2
<1>4. added = [i \in 1..toAdd |-> bytes[i]]
  BY <1>3
<1>5. bytes = [i \in 1..toAdd |-> bytes[i]]
  BY <1>2
<1>6. added = bytes
  BY <1>4, <1>5
<1> HIDE DEF added
<1> DEFINE longer == p.pending \o bytes
<1>7. q = [p EXCEPT !.pending = longer, !.eofReached = eof]
  BY <1>1, <1>6
<1> HIDE DEF longer
<1>8. q.pending = longer /\ q.state = p.state /\ q.eofReached = eof
  BY <1>7 DEF Processor
<1> DEFINE held == p.pending
<1>9. held \in Seq(Bytes) /\ longer = held \o bytes
  BY DEF Processor, longer
<1> HIDE DEF held
<1>10. /\ Len(longer) = Len(held) + Len(bytes)
       /\ \A k \in 1..Len(held) : longer[k] = held[k]
       /\ \A k \in 1..Len(bytes) : longer[Len(held) + k] = bytes[k]
  BY <1>9, Joined
<1> QED BY <1>8, <1>10 DEF held

\* A round reads on where the file was, and all of what it reads is held.
LEMMA StreamFill == StreamInv /\ TypeOK' /\ fill => StreamInv'
<1> SUFFICES ASSUME StreamInv, TypeOK', fill PROVE StreamInv'
  OBVIOUS
<1>0. TypeOK /\ EndsTogether
  BY DEF StreamInv
<1>1. /\ result = "NOT_FINISHED" /\ ~reading /\ reading' /\ copied' = <<>>
      /\ room' \in Rooms /\ UNCHANGED <<result, mail, sent, opens>>
  BY DEF fill
<1>2. Emitted' = sent /\ Emitted = sent
  BY <1>0, <1>1 DEF Emitted, TypeOK
<1>3. CASE UNCHANGED <<fileVars, processor>>
  <2>1. UNCHANGED <<Taken, Owed>> /\ HoldsRest' = HoldsRest /\ StateOfLine' = StateOfLine
    BY <1>1, <1>3 DEF Taken, Owed, HoldsRest, StateOfLine, AtLineStart, fileVars
  <2>2. IsText(mail) => Progress'
    BY <1>1, <1>2, <2>1 DEF StreamInv, Progress
  <2>3. EndsTogether'
    BY <1>0, <1>1, <1>3 DEF EndsTogether, fileVars
  <2> QED BY <1>1, <2>2, <2>3 DEF StreamInv, Finish
<1>4. CASE ~UNCHANGED <<fileVars, processor>>
  <2> DEFINE asked == room' - Len(processor.pending)
  <2>1. PICK n \in 0..Len(file) :
          /\ asked > 0 /\ n <= asked
          /\ feof' = (feof \/ (n = Len(file) /\ n < asked))
          /\ file' = SubSeq(file, n + 1, Len(file))
          /\ processor' = addCharactersToProcess(processor, SubSeq(file, 1, n), feof')
    BY <1>4 DEF fill
  <2> DEFINE bytes == SubSeq(file, 1, n)
  <2>2. /\ bytes \in Seq(Bytes) /\ Len(bytes) = n
        /\ \A k \in 1..n : bytes[k] = file[k]
        /\ Len(file') = Len(file) - n
        /\ \A k \in 1..Len(file') : file'[k] = file[n + k]
    <3>1. file \in Seq(Bytes)
      BY <1>0 DEF TypeOK
    <3> QED BY <2>1, <3>1, Cut
  <2>3. n \in Nat /\ n <= BUFFERSIZE - Len(processor.pending)
    <3>1. room' \in Nat /\ room' <= BUFFERSIZE /\ BUFFERSIZE \in Nat
      BY <1>1, BufferAssumption
    <3>2. Len(file) \in Nat /\ Len(processor.pending) \in Nat
      BY <1>0, Lengths
    <3> QED BY <2>1, <3>1, <3>2
  <2> HIDE DEF bytes
  <2>4. EndsTogether'
    <3>1. processor'.eofReached = feof'
      BY <1>0, <2>1 DEF TypeOK, Processor, addCharactersToProcess
    <3>2. feof' => n = Len(file)
      <4>1. CASE feof
        <5>1. Len(file) = 0
          BY <1>0, <4>1 DEF EndsTogether
        <5> QED BY <5>1
      <4>2. CASE ~feof
        BY <2>1, <4>2
      <4> QED BY <4>1, <4>2
    <3>3. feof' => file' = <<>>
      <4>1. Len(file') = Len(file) - n /\ file' \in Seq(Bytes) /\ Len(file) \in Nat
        BY <1>0, <2>2, Lengths DEF TypeOK
      <4> QED BY <3>2, <4>1
    <3> QED BY <1>1, <3>1, <3>3 DEF EndsTogether
  <2>5. ASSUME IsText(mail) PROVE Progress'
    <3>0. Progress /\ HoldsRest /\ StateOfLine
      BY <1>1, <2>5 DEF StreamInv, Progress
    <3>1. Len(mail) \in Nat /\ Len(file) \in Nat /\ Len(processor.pending) \in Nat
          /\ Taken \in Nat /\ Taken + Len(processor.pending) + Len(file) = Len(mail)
      BY <1>0, <3>0, Lengths DEF Taken, HoldsRest
    <3>2. \A k \in 1..n : bytes[k] # "NUL"
      <4> SUFFICES ASSUME NEW k \in 1..n PROVE bytes[k] # "NUL"
        OBVIOUS
      <4>1. bytes[k] = mail[Taken + Len(processor.pending) + k]
        BY <2>2, <2>3, <3>0 DEF HoldsRest
      <4>2. Taken + Len(processor.pending) + k \in DOMAIN mail
        BY <1>0, <2>3, <3>1, SMTT(20) DEF TypeOK
      <4> QED BY <2>5, <4>1, <4>2 DEF IsText, NotGiven
    <3>3. /\ processor'.state = processor.state
          /\ Len(processor'.pending) = Len(processor.pending) + Len(bytes)
          /\ \A k \in 1..Len(processor.pending) : processor'.pending[k] = processor.pending[k]
          /\ \A k \in 1..Len(bytes) :
                processor'.pending[Len(processor.pending) + k] = bytes[k]
      <4>1. feof' \in BOOLEAN /\ processor \in Processor /\ Len(processor.pending) <= BUFFERSIZE
        BY <1>0 DEF TypeOK
      <4>2. processor' = addCharactersToProcess(processor, bytes, feof')
        BY <2>1 DEF bytes
      <4>3. bytes \in Seq(Bytes) /\ Len(bytes) <= BUFFERSIZE - Len(processor.pending)
        BY <2>2, <2>3
      <4>4. \A k \in 1..Len(bytes) : bytes[k] # "NUL"
        BY <2>2, <3>2
      <4> DEFINE p == processor
                 q == processor'
                 e == feof'
      <4> HIDE DEF p, q, e
      <4>5. /\ e \in BOOLEAN /\ p \in Processor /\ Len(p.pending) <= BUFFERSIZE
            /\ Len(bytes) <= BUFFERSIZE - Len(p.pending)
        BY <4>1, <4>3 DEF p, e
      <4>6. q = addCharactersToProcess(p, bytes, e)
        BY <4>2 DEF p, q, e
      <4>7. /\ q.state = p.state
            /\ Len(q.pending) = Len(p.pending) + Len(bytes)
            /\ \A k \in 1..Len(p.pending) : q.pending[k] = p.pending[k]
            /\ \A k \in 1..Len(bytes) : q.pending[Len(p.pending) + k] = bytes[k]
        BY <4>3, <4>4, <4>5, <4>6, AddText, SMTT(20)
      <4> QED BY <4>7 DEF p, q
    <3>4. /\ Len(processor'.pending) = Len(processor.pending) + n
          /\ \A k \in 1..Len(processor.pending) : processor'.pending[k] = processor.pending[k]
          /\ \A k \in 1..n : processor'.pending[Len(processor.pending) + k] = bytes[k]
      BY <2>2, <3>3
    <3>5. Taken' = Taken
      BY <1>1, <2>2, <2>3, <3>1, <3>4 DEF Taken
    <3>6. HoldsRest'
      <4>1. ASSUME NEW k \in 1..Len(processor'.pending)
            PROVE  processor'.pending[k] = mail[Taken + k]
        <5>1. CASE k <= Len(processor.pending)
          BY <3>0, <3>1, <3>4, <5>1 DEF HoldsRest
        <5>2. CASE k > Len(processor.pending)
          <6> DEFINE h == k - Len(processor.pending)
          <6>1. h \in 1..n /\ k = Len(processor.pending) + h
            BY <2>3, <3>1, <3>4, <5>2
          <6> HIDE DEF h
          <6>2. processor'.pending[k] = file[h]
            BY <2>2, <3>4, <6>1
          <6>3. h \in 1..Len(file)
            BY <2>1, <3>1, <6>1
          <6>4. file[h] = mail[Taken + Len(processor.pending) + h]
            BY <3>0, <6>3 DEF HoldsRest
          <6>5. Taken + Len(processor.pending) + h = Taken + k
            BY <2>3, <3>1, <6>1
          <6> QED BY <6>2, <6>4, <6>5
        <5> QED BY <3>1, <5>1, <5>2
      <4>2. ASSUME NEW k \in 1..Len(file')
            PROVE  file'[k] = mail[Taken + Len(processor'.pending) + k]
        <5>1. file'[k] = file[n + k] /\ n + k \in 1..Len(file)
          BY <2>1, <2>2, <2>3, <3>1, SMTT(20)
        <5>2. file[n + k] = mail[Taken + Len(processor.pending) + (n + k)]
          BY <3>0, <5>1 DEF HoldsRest
        <5>3. Taken + Len(processor.pending) + (n + k) = Taken + Len(processor'.pending) + k
          <6> DEFINE held == Len(processor.pending)
                     holds == Len(processor'.pending)
          <6>1. Taken \in Nat /\ held \in Nat /\ n \in Nat /\ k \in Int /\ holds = held + n
            BY <2>3, <3>1, <3>4
          <6> HIDE DEF held, holds
          <6>2. Taken + held + (n + k) = Taken + holds + k
            BY <6>1
          <6> QED BY <6>2 DEF held, holds
        <5> QED BY <5>1, <5>2, <5>3
      <4> QED BY <1>1, <3>1, <3>5, <4>1, <4>2 DEF HoldsRest
    <3>7. StateOfLine' /\ Owed' = Owed
      BY <1>1, <3>0, <3>3, <3>5 DEF StateOfLine, AtLineStart, Owed
    <3> QED BY <1>1, <1>2, <3>0, <3>5, <3>6, <3>7 DEF Progress
  <2> QED BY <1>1, <2>4, <2>5 DEF StreamInv, Finish
<1> QED BY <1>3, <1>4

\* One more byte at its place.
LEMMA MatchesOneMore ==
    ASSUME NEW s \in Seq(Bytes), NEW m, NEW n \in Nat, NEW p \in Nat, n <= p,
           NEW i \in 1..p, NEW c \in Bytes, Matches(s, m, n),
           At(m, i, Len(s) + 1), m[i] = c
    PROVE  Matches(Append(s, c), m, p)
<1> DEFINE t == Append(s, c)
<1>1. /\ Len(t) = Len(s) + 1 /\ Len(s) \in Nat /\ t[Len(s) + 1] = c
      /\ \A k \in 1..Len(s) : t[k] = s[k]
  OBVIOUS
<1> HIDE DEF t
<1>2. ASSUME NEW k \in 1..Len(t) PROVE \E j \in 1..p : At(m, j, k) /\ t[k] = m[j]
  <2>1. CASE k = Len(s) + 1
    BY <1>1, <2>1
  <2>2. CASE k # Len(s) + 1
    <3>1. k \in 1..Len(s) /\ t[k] = s[k]
      BY <1>1, <2>2
    <3>2. PICK j \in 1..n : At(m, j, k) /\ s[k] = m[j]
      BY <3>1 DEF Matches
    <3> QED BY <3>1, <3>2
  <2> QED BY <2>1, <2>2
<1>3. Matches(t, m, p)
  BY <1>2 DEF Matches
<1> QED BY <1>3 DEF t

\* The mail in three: taken, held and in the file.
LEMMA Parts ==
    ASSUME TypeOK, Progress
    PROVE  /\ Len(mail) \in Nat /\ Len(file) \in Nat /\ Len(processor.pending) \in Nat
           /\ Taken \in Nat /\ Taken + Len(processor.pending) + Len(file) = Len(mail)
BY Lengths DEF Taken, Progress, HoldsRest

\* A dot that is doubled is owed its second one.
LEMMA DoublesOwed ==
    ASSUME TypeOK, EndsTogether, Progress, DoublesDot(processor)
    PROVE  Owed
<1>1. /\ Taken \in Nat /\ Taken > 0 /\ mail[Taken] = "dot"
      /\ Taken = 1 \/ mail[Taken - 1] = "LF"
  BY DEF DoublesDot, Progress, HoldsRest, StateOfLine
<1>2. Taken = Len(mail) \/ mail[Taken + 1] = "CR"
  <2>1. CASE processor.pending = <<>>
    <3>1. file = <<>> /\ Len(processor.pending) = 0 /\ Len(file) = 0
      BY <2>1 DEF DoublesDot, EndsTogether
    <3> QED BY <3>1, Parts
  <2>2. CASE processor.pending # <<>>
    <3>1. processor.pending[1] = "CR" /\ 1 \in 1..Len(processor.pending)
      BY <2>2, Lengths DEF DoublesDot
    <3>2. processor.pending[1] = mail[Taken + 1]
      BY <3>1 DEF Progress, HoldsRest
    <3> QED BY <3>1, <3>2
  <2> QED BY <2>1, <2>2
<1>3. processor.state = "DOT"
  BY DEF DoublesDot
<1> QED BY <1>1, <1>2, <1>3 DEF Owed, LoneDot

\* When a byte of the mail is given instead, nothing is owed before it.
LEMMA NextByte ==
    ASSUME TypeOK, Progress, processor.pending # <<>>, ~DoublesDot(processor)
    PROVE  /\ ~Owed /\ Taken < Len(mail)
           /\ Head(processor.pending) = mail[Taken + 1]
<1>1. /\ Head(processor.pending) = processor.pending[1]
      /\ 1 \in 1..Len(processor.pending)
  BY Lengths
<1>2. processor.pending[1] = mail[Taken + 1]
  BY <1>1 DEF Progress, HoldsRest
<1>3. Taken < Len(mail)
  BY <1>1, Parts
<1>4. ~Owed
  <2>1. SUFFICES ASSUME Owed PROVE FALSE
    OBVIOUS
  <2>2. mail[Taken + 1] = "CR"
    BY <1>3, <2>1, Parts DEF Owed, LoneDot
  <2> QED BY <1>1, <1>2, <2>1, <2>2 DEF Owed, DoublesDot
<1> QED BY <1>1, <1>2, <1>3, <1>4

\* What the processor gives comes next in the stuffed mail.
LEMMA StreamCopy == StreamInv /\ TypeOK' /\ copy => StreamInv'
<1> SUFFICES ASSUME StreamInv, TypeOK', copy PROVE StreamInv'
  OBVIOUS
<1>0. TypeOK /\ EndsTogether
  BY DEF StreamInv
<1> DEFINE c == readFromBuffer(processor).given
<1>1. /\ reading /\ result = "NOT_FINISHED" /\ c \notin NotGiven
      /\ copied' = Append(copied, c) /\ processor' = readFromBuffer(processor).after
      /\ UNCHANGED <<fileVars, reading, room, result, mail, sent, opens>>
  BY <1>0 DEF copy, EndsTogether
<1>2. c \in Bytes
  BY <1>0, ReadOK DEF TypeOK, ProcessorOK
<1> HIDE DEF c
<1>3. Emitted' = Append(Emitted, c) /\ Emitted \in Seq(Bytes)
  <2>1. sent \in Seq(Bytes) /\ copied \in Seq(Bytes)
    BY <1>0 DEF TypeOK
  <2>2. sent \o Append(copied, c) = Append(sent \o copied, c)
    BY <1>2, <2>1
  <2>3. Emitted = sent \o copied /\ Emitted' = sent \o copied'
    BY <1>1 DEF Emitted
  <2> QED BY <1>1, <2>1, <2>2, <2>3
<1>4. EndsTogether'
  <2>1. processor'.eofReached = processor.eofReached
    BY <1>0, <1>1 DEF readFromBuffer, TypeOK, Processor
  <2> QED BY <1>0, <1>1, <2>1 DEF EndsTogether, fileVars
<1>5. ASSUME IsText(mail) PROVE Progress'
  <2>0. Progress /\ HoldsRest /\ StateOfLine /\ Matches(Emitted, mail, Taken)
    BY <1>1, <1>5 DEF StreamInv, Progress
  <2>1. Taken \in Nat /\ Taken + 1 \in Nat \ {0} /\ Len(Emitted) \in Nat
    BY <1>0, <2>0, Parts, Lengths
  <2>2. CASE DoublesDot(processor)
    <3>1. c = "dot" /\ processor' = [processor EXCEPT !.state = "NORMAL"]
      BY <1>1, <2>2 DEF c, readFromBuffer
    <3>2. processor'.pending = processor.pending /\ processor'.state = "NORMAL"
      BY <1>0, <3>1 DEF TypeOK, Processor
    <3>3. Taken' = Taken /\ ~Owed' /\ HoldsRest'
      BY <1>1, <2>0, <3>2 DEF Taken, Owed, HoldsRest, fileVars
    <3>4. Owed /\ LoneDot(mail, Taken) /\ Taken > 0 /\ mail[Taken] = "dot"
      BY <1>0, <2>0, <2>2, DoublesOwed DEF Owed, StateOfLine
    <3>5. StateOfLine'
      <4>1. ~AtLineStart
        BY <2>0, <3>4 DEF StateOfLine, Owed
      <4> QED BY <1>1, <3>2, <3>3, <4>1 DEF StateOfLine, AtLineStart
    <3>6. Place(mail, Taken + 1) = Place(mail, Taken) + 2 /\ Place(mail, Taken) \in Nat
      BY <2>1, <3>4, PlaceStep
    <3>7. Len(Emitted) + 1 = Place(mail, Taken) + 1
          /\ Len(Emitted) + 1 = Place(mail, Taken + 1) - 1
      BY <2>0, <2>1, <3>4, <3>6 DEF Progress
    <3>8. Len(Emitted') = Len(Emitted) + 1
      BY <1>2, <1>3
    <3>9. Matches(Emitted', mail, Taken)
      <4>1. At(mail, Taken, Len(Emitted) + 1) /\ Taken \in 1..Taken
        BY <2>1, <3>4, <3>7 DEF At
      <4> QED BY <1>2, <1>3, <2>0, <2>1, <3>1, <3>4, <4>1, MatchesOneMore
    <3>10. mail' = mail
      BY <1>1
    <3>11. Len(Emitted') = Place(mail, Taken + 1) - 1 - 0
      BY <3>6, <3>7, <3>8
    <3> QED BY <3>3, <3>5, <3>9, <3>10, <3>11 DEF Progress
  <2>3. CASE ~DoublesDot(processor)
    <3>1. processor.pending # <<>>
      BY <1>1, <2>3 DEF c, readFromBuffer, NotGiven
    <3>2. /\ c = Head(processor.pending)
          /\ processor' = [processor EXCEPT !.pending = Tail(processor.pending),
                                            !.state = NextState(processor.state, c)]
      BY <1>1, <2>3, <3>1 DEF c, readFromBuffer
    <3>3. /\ processor'.pending = Tail(processor.pending)
          /\ processor'.state = NextState(processor.state, c)
      BY <1>0, <3>2 DEF TypeOK, Processor
    <3>4. ~Owed /\ Taken < Len(mail) /\ c = mail[Taken + 1]
      BY <1>0, <2>0, <2>3, <3>1, <3>2, NextByte
    <3>5. /\ Len(Tail(processor.pending)) = Len(processor.pending) - 1
          /\ \A k \in 1..(Len(processor.pending) - 1) :
                Tail(processor.pending)[k] = processor.pending[k + 1]
      BY <1>0, <3>1, Lengths
    <3>6. Taken' = Taken + 1
      <4>1. /\ Len(processor'.pending) = Len(processor.pending) - 1
            /\ Len(mail') = Len(mail) /\ Len(file') = Len(file)
        BY <1>1, <3>3, <3>5 DEF fileVars
      <4>2. /\ Len(mail) \in Nat /\ Len(processor.pending) \in Nat /\ Len(file) \in Nat
        BY <1>0, <2>0, Parts
      <4> QED BY <4>1, <4>2 DEF Taken
    <3>7. HoldsRest'
      <4> DEFINE held == Len(processor.pending)
      <4>0. Taken \in Nat /\ held \in Nat /\ held > 0
        BY <1>0, <2>0, <3>1, Parts, Lengths
      <4>1. Len(processor'.pending) = held - 1
        BY <3>3, <3>5
      <4>2. ASSUME NEW k \in 1..(held - 1)
            PROVE  processor'.pending[k] = mail[(Taken + 1) + k]
        <5>1. processor'.pending[k] = processor.pending[k + 1] /\ k + 1 \in 1..held
          BY <3>3, <3>5, <4>0
        <5>2. processor.pending[k + 1] = mail[Taken + (k + 1)]
          BY <2>0, <5>1 DEF HoldsRest
        <5>3. Taken + (k + 1) = (Taken + 1) + k
          BY <4>0
        <5> QED BY <5>1, <5>2, <5>3
      <4>3. ASSUME NEW k \in 1..Len(file)
            PROVE  file[k] = mail[(Taken + 1) + (held - 1) + k]
        <5>1. file[k] = mail[Taken + held + k]
          BY <2>0 DEF HoldsRest
        <5>2. k \in Int
          OBVIOUS
        <5> HIDE DEF held
        <5>3. Taken + held + k = (Taken + 1) + (held - 1) + k
          BY <4>0, <5>2
        <5> QED BY <5>1, <5>3
      <4>4. file' = file /\ mail' = mail
        BY <1>1 DEF fileVars
      <4> HIDE DEF held
      <4> QED BY <2>1, <3>6, <4>1, <4>2, <4>3, <4>4 DEF HoldsRest
    <3>8. mail' = mail
      BY <1>1
    <3>9. StateOfLine' /\ (Owed' <=> LoneDot(mail, Taken + 1))
      <4>1. AtLineStart' <=> c = "LF"
        BY <2>1, <3>4, <3>6, <3>8 DEF AtLineStart
      <4>2. processor'.state = "NEWLINE" <=> c = "LF"
        BY <3>3 DEF NextState
      <4>3. processor'.state = "DOT" <=> c = "dot" /\ AtLineStart
        BY <2>0, <3>3 DEF NextState, StateOfLine
      <4>4. (Taken + 1 = 1 \/ mail[(Taken + 1) - 1] = "LF") <=> AtLineStart
        BY <2>1 DEF AtLineStart
      <4>5. StateOfLine'
        BY <2>1, <3>4, <3>6, <3>8, <4>1, <4>2, <4>3, <4>4 DEF StateOfLine
      <4>6. LoneDot(mail, Taken + 1) => c = "dot" /\ AtLineStart
        BY <3>4, <4>4 DEF LoneDot
      <4>7. Owed' <=> processor'.state = "DOT" /\ LoneDot(mail, Taken + 1)
        BY <3>6, <3>8 DEF Owed
      <4> QED BY <4>3, <4>5, <4>6, <4>7
    <3>10. Len(Emitted) + 1 = Place(mail, Taken + 1) /\ Place(mail, Taken + 1) \in Nat
      BY <2>0, <2>1, <3>4, PlaceStep DEF Progress
    <3>11. Len(Emitted') = Len(Emitted) + 1
      BY <1>2, <1>3
    <3>12. Matches(Emitted', mail, Taken + 1)
      <4>1. At(mail, Taken + 1, Len(Emitted) + 1) /\ Taken + 1 \in 1..(Taken + 1)
        BY <2>1, <3>10 DEF At
      <4>2. Taken <= Taken + 1
        BY <2>1
      <4> QED BY <1>2, <1>3, <2>0, <2>1, <3>4, <4>1, <4>2, MatchesOneMore
    <3>13. Place(mail, Taken + 1 + 1)
             = Place(mail, Taken + 1) + (IF LoneDot(mail, Taken + 1) THEN 2 ELSE 1)
      BY <2>1, PlaceStep
    <3>14. Len(Emitted') = Place(mail, Taken + 1 + 1) - 1 - (IF Owed' THEN 1 ELSE 0)
      BY <2>1, <3>9, <3>10, <3>11, <3>13
    <3> QED BY <3>6, <3>7, <3>8, <3>9, <3>12, <3>14 DEF Progress
  <2> QED BY <2>2, <2>3
<1> QED BY <1>0, <1>1, <1>4, <1>5 DEF StreamInv, Finish

\* A round of text ends with nothing lost, and the last one with a dot owed only
\* if its room is full.
LEMMA StreamEnd == StreamInv /\ TypeOK' /\ endRound => StreamInv'
<1> SUFFICES ASSUME StreamInv, TypeOK', endRound PROVE StreamInv'
  OBVIOUS
<1>0. TypeOK /\ EndsTogether
  BY DEF StreamInv
<1> DEFINE read == readFromBuffer(processor)
<1>1. /\ reading /\ ~reading' /\ result = "NOT_FINISHED"
      /\ UNCHANGED <<fileVars, room, copied, mail, opens>>
      /\ result' = "FINISHED" => feof /\ processor'.pending = <<>>
      /\ sent' = IF result' = "FAILED" THEN sent ELSE sent \o copied
      /\ \/ Len(copied) = room /\ processor' = processor
         \/ read.given \in NotGiven /\ processor' = read.after
  BY <1>0 DEF endRound, EndsTogether
<1>2. EndsTogether'
  <2>1. processor'.eofReached = processor.eofReached
    BY <1>0, <1>1 DEF readFromBuffer, TypeOK, Processor
  <2> QED BY <1>0, <1>1, <2>1 DEF EndsTogether, fileVars
<1>3. ASSUME IsText(mail)
      PROVE  /\ Matches(sent', mail', Len(mail')) /\ Len(sent') < Place(mail', Len(mail') + 1)
             /\ result' # "FAILED" => Progress'
             /\ Finish'
  <2>0. Progress /\ Matches(Emitted, mail, Taken) /\ Emitted = sent \o copied
    BY <1>1, <1>3 DEF StreamInv, Progress, Emitted
  <2>1. Taken \in Nat /\ Len(mail) \in Nat /\ Taken <= Len(mail) /\ Len(Emitted) \in Nat
    BY <1>0, <2>0, Parts, Lengths
  <2>2. read.given \in NotGiven => ~DoublesDot(processor) /\ processor.pending = <<>>
    <3>1. ASSUME read.given \in NotGiven PROVE ~DoublesDot(processor)
      BY <3>1 DEF readFromBuffer, NotGiven
    <3>2. ASSUME read.given \in NotGiven, processor.pending # <<>> PROVE FALSE
      <4>1. read.given = Head(processor.pending)
        BY <3>1, <3>2 DEF readFromBuffer
      <4>2. read.given = mail[Taken + 1] /\ Taken < Len(mail)
        BY <1>0, <2>0, <3>1, <3>2, <4>1, NextByte
      <4>3. Taken + 1 \in DOMAIN mail
        BY <1>0, <2>1, <4>2 DEF TypeOK
      <4> QED BY <1>3, <3>2, <4>2, <4>3 DEF IsText
    <3> QED BY <3>1, <3>2
  <2>3. processor' = processor
    <3>1. ~DoublesDot(processor) /\ processor.pending = <<>> => read.after = processor
      BY DEF readFromBuffer
    <3> QED BY <1>1, <2>2, <3>1
  <2>4. UNCHANGED <<Taken, Owed>> /\ HoldsRest' = HoldsRest /\ StateOfLine' = StateOfLine
    BY <1>1, <2>3 DEF Taken, Owed, HoldsRest, StateOfLine, AtLineStart, fileVars
  <2>5. Len(Emitted) < Place(mail, Len(mail) + 1)
    <3>1. Place(mail, Taken + 1) \in Nat /\ Place(mail, Len(mail) + 1) \in Nat
      BY <2>1, PlaceStep
    <3>2. Len(Emitted) < Place(mail, Taken + 1)
      BY <2>0, <2>1, <3>1 DEF Progress
    <3>3. Place(mail, Taken + 1) <= Place(mail, Len(mail) + 1)
      <4>1. CASE Taken = Len(mail)
        BY <3>1, <4>1
      <4>2. CASE Taken < Len(mail)
        <5>1. /\ Taken + 1 \in Nat \ {0} /\ Len(mail) + 1 \in Nat \ {0}
              /\ Taken + 1 < Len(mail) + 1
          BY <2>1, <4>2
        <5>2. Place(mail, Len(mail) + 1) >= Place(mail, Taken + 1)
                + (Len(mail) + 1 - (Taken + 1)) + (IF LoneDot(mail, Taken + 1) THEN 1 ELSE 0)
          BY <5>1, PlaceGrows
        <5> QED BY <2>1, <3>1, <4>2, <5>2
      <4> QED BY <2>1, <4>1, <4>2
    <3> QED BY <2>1, <3>1, <3>2, <3>3
  <2>6. Matches(Emitted, mail, Len(mail))
    BY <2>0, <2>1, MatchesMore
  <2>7. mail' = mail /\ sent' \in {sent, Emitted} /\ (result' # "FAILED" => sent' = Emitted)
    BY <1>1, <2>0
  <2>8. Matches(sent', mail', Len(mail')) /\ Len(sent') < Place(mail', Len(mail') + 1)
    BY <1>3, <2>5, <2>6, <2>7 DEF StreamInv
  <2>9. ASSUME result' # "FAILED" PROVE Progress'
    <3>1. Emitted' = Emitted
      BY <1>1, <2>7, <2>9 DEF Emitted
    <3> QED BY <2>0, <2>4, <2>7, <3>1 DEF Progress
  <2>10. ASSUME result' = "FINISHED" PROVE feof' /\ processor'.pending = <<>>
    BY <1>1, <2>10 DEF fileVars
  <2>11. ASSUME result' = "FINISHED", Owed' PROVE Len(copied') = room'
    <3>1. /\ processor.eofReached = feof /\ processor.pending = <<>>
          /\ processor.state = "DOT" /\ feof
      BY <1>0, <1>1, <2>3, <2>4, <2>11 DEF Owed, EndsTogether
    <3>2. DoublesDot(processor)
      BY <3>1 DEF DoublesDot
    <3> QED BY <1>1, <2>2, <3>2
  <2> QED BY <2>8, <2>9, <2>10, <2>11 DEF Finish
<1>4. mail' = mail
  BY <1>1
<1> QED BY <1>2, <1>3, <1>4 DEF StreamInv

\* Every step of a transfer keeps the account of the mail.
LEMMA StreamStep == StreamInv /\ [Next]_vars => StreamInv'
<1> SUFFICES ASSUME StreamInv, [Next]_vars PROVE StreamInv'
  OBVIOUS
<1>0. TypeOK'
  BY StepTypeOK DEF StreamInv
<1>1. CASE openMail
  BY <1>0, <1>1, StreamOpen
<1>2. CASE fill
  BY <1>0, <1>2, StreamFill
<1>3. CASE copy
  BY <1>0, <1>3, StreamCopy
<1>4. CASE endRound
  BY <1>0, <1>4, StreamEnd
<1>5. CASE UNCHANGED vars
  <2>1. /\ EndsTogether' = EndsTogether /\ Finish' = Finish /\ Progress' = Progress
    BY <1>5 DEF vars, fileVars, EndsTogether, Finish, Progress, HoldsRest, StateOfLine,
                AtLineStart, Taken, Emitted, Owed
  <2>2. UNCHANGED <<mail, sent, result>>
    BY <1>5 DEF vars
  <2> QED BY <1>0, <2>1, <2>2 DEF StreamInv
<1> QED BY <1>1, <1>2, <1>3, <1>4, <1>5 DEF Next, getNCharsFromMail

LEMMA StreamInvariant == Spec => []StreamInv
BY StreamInit, StreamStep, PTL DEF Spec

\* However the rounds cut a mail of text, what has been sent of it is the
\* beginning of the stuffed mail (byteStuff.c; mailsCache.c, getNCharsFromMail).
THEOREM SentInOrder == Spec => []PrefixSent
<1>1. StreamInv => PrefixSent
  <2> SUFFICES ASSUME StreamInv, IsText(mail) PROVE IsPrefix(sent, Stuffed(mail))
    BY DEF PrefixSent
  <2>1. mail \in Seq(Bytes) /\ sent \in Seq(Bytes)
    BY DEF StreamInv, TypeOK
  <2> QED BY <2>1, MatchesStuffed DEF StreamInv
<1> QED BY <1>1, StreamInvariant, PTL

\* A RETR of text that finishes has taken the whole mail.
LEMMA AllTaken ==
    ASSUME StreamInv, result = "FINISHED", IsText(mail)
    PROVE  /\ Taken = Len(mail) /\ Emitted = sent /\ Progress
           /\ Owed => Len(copied) = room
<1>1. /\ TypeOK /\ Progress /\ feof /\ processor.pending = <<>> /\ file = <<>>
      /\ ~reading /\ (Owed => Len(copied) = room)
  BY DEF StreamInv, EndsTogether, Finish
<1>2. Len(processor.pending) = 0 /\ Len(file) = 0
  BY <1>1
<1>3. Taken = Len(mail)
  BY <1>1, <1>2, Parts
<1>4. Emitted = sent
  BY <1>1 DEF Emitted
<1> QED BY <1>1, <1>3, <1>4

\* A RETR of text that finishes has sent the mail stuffed, but for the second
\* dot of a last line without an end that met a full round.
THEOREM SentWhole == Spec => []WholeSent
<1>1. StreamInv => WholeSent
  <2> SUFFICES ASSUME StreamInv, result = "FINISHED", IsText(mail)
               PROVE  \/ sent = Stuffed(mail)
                      \/ DotLost /\ sent = Front(Stuffed(mail))
    BY DEF WholeSent
  <2>1. /\ Taken = Len(mail) /\ Emitted = sent /\ Progress
        /\ Owed => Len(copied) = room
    BY AllTaken
  <2>2. mail \in Seq(Bytes) /\ sent \in Seq(Bytes) /\ Len(sent) \in Nat /\ Len(mail) \in Nat
    BY DEF StreamInv, TypeOK
  <2> DEFINE last == Place(mail, Len(mail) + 1) - 1
             whole == Stuffed(mail)
  <2>3. Len(sent) = last - (IF Owed THEN 1 ELSE 0) /\ last \in Int
    BY <2>1, <2>2, PlaceStep DEF Progress
  <2>4. Len(whole) = last /\ \A k \in 1..Len(sent) : sent[k] = whole[k]
    BY <2>2, MatchesStuffed DEF StreamInv
  <2>5. whole = [k \in 1..last |-> whole[k]]
    BY DEF Stuffed
  <2> HIDE DEF last, whole
  <2>6. CASE ~Owed
    <3>1. sent = whole
      <4>1. Len(sent) = last
        BY <2>3, <2>6
      <4>2. sent = [k \in 1..last |-> sent[k]]
        BY <2>2, <4>1
      <4>3. \A k \in 1..last : sent[k] = whole[k]
        BY <2>4, <4>1
      <4> QED BY <2>5, <4>2, <4>3
    <3> QED BY <3>1 DEF whole
  <2>7. CASE Owed
    <3>1. Len(sent) = last - 1
      BY <2>3, <2>7
    <3>2. Front(whole) = [k \in 1..(last - 1) |-> whole[k]]
      BY <2>2, <2>4, <3>1 DEF Front
    <3>3. sent = Front(whole)
      BY <2>2, <2>4, <3>1, <3>2
    <3>4. DotLost
      BY <2>1, <2>2, <2>7 DEF DotLost, Owed, Progress, StateOfLine
    <3> QED BY <3>3, <3>4 DEF whole
  <2> QED BY <2>6, <2>7
<1> QED BY <1>1, StreamInvariant, PTL

-----------------------------------------------------------------------------
(***************************************************************************)
(* The end of the answer.  The only line of it that is a lone dot is the   *)
(* one that ends it.                                                       *)
(***************************************************************************)
\* A place has the byte that belongs there.
LEMMA Filled ==
    ASSUME NEW m \in Seq(Bytes), NEW s \in Seq(Bytes), Matches(s, m, Len(m)),
           NEW k \in 1..Len(s), NEW i \in 1..Len(m), At(m, i, k)
    PROVE  s[k] = m[i]
<1>1. PICK j \in 1..Len(m) : At(m, j, k) /\ s[k] = m[j]
  BY DEF Matches
<1>2. i = j
  <2>1. i \in Nat \ {0} /\ j \in Nat \ {0}
    OBVIOUS
  <2> QED BY <1>1, <2>1, AtUnique
<1> QED BY <1>1, <1>2

\* Where the bytes around byte i come.
LEMMA Neighbours ==
    ASSUME NEW m, NEW i \in Nat \ {0}, NEW n \in Nat, i <= n
    PROVE  /\ Place(m, i) \in Nat /\ Place(m, i) >= 1
           /\ Place(m, i + 1) <= Place(m, n + 1) /\ Place(m, n + 1) \in Nat
           /\ Place(m, i + 1) = Place(m, i) + (IF LoneDot(m, i) THEN 2 ELSE 1)
           /\ i > 1 => /\ Place(m, i - 1) \in Nat /\ Place(m, i - 1) >= 1
                       /\ Place(m, i)
                            = Place(m, i - 1) + (IF LoneDot(m, i - 1) THEN 2 ELSE 1)
<1>1. \A j \in Nat \ {0} : Place(m, j) \in Nat /\ Place(m, j) >= 1
  BY DotsFinite
<1>2. Place(m, i + 1) <= Place(m, n + 1)
  <2>1. /\ i + 1 \in Nat \ {0} /\ n + 1 \in Nat \ {0}
        /\ Place(m, i + 1) \in Nat /\ Place(m, n + 1) \in Nat
    BY <1>1
  <2>2. CASE i = n
    BY <2>1, <2>2
  <2>3. CASE i < n
    <3>1. Place(m, n + 1) >= Place(m, i + 1) + (n + 1 - (i + 1))
                             + (IF LoneDot(m, i + 1) THEN 1 ELSE 0)
      BY <2>1, <2>3, PlaceGrows
    <3> QED BY <2>1, <2>3, <3>1
  <2> QED BY <2>2, <2>3
<1>3. Place(m, i + 1) = Place(m, i) + (IF LoneDot(m, i) THEN 2 ELSE 1)
  BY PlaceStep
<1>4. ASSUME i > 1
      PROVE  Place(m, i) = Place(m, i - 1) + (IF LoneDot(m, i - 1) THEN 2 ELSE 1)
  <2>1. i - 1 \in Nat \ {0} /\ (i - 1) + 1 = i
    BY <1>4
  <2> QED BY <2>1, PlaceStep
<1>5. i > 1 => i - 1 \in Nat \ {0}
  OBVIOUS
<1> QED BY <1>1, <1>2, <1>3, <1>4, <1>5

\* In the stuffed mail a dot that begins a line has something else after it
\* than the end of the line or of the mail.
LEMMA NoLoneDotLeft ==
    ASSUME NEW m \in Seq(Bytes), NEW s \in Seq(Bytes), Matches(s, m, Len(m)),
           Len(s) = Place(m, Len(m) + 1) - 1,
           NEW k \in 1..Len(s), s[k] = "dot", k = 1 \/ s[k - 1] = "LF"
    PROVE  k < Len(s) /\ s[k + 1] # "CR"
<1>1. PICK i \in 1..Len(m) : At(m, i, k) /\ s[k] = m[i]
  BY DEF Matches
<1>2. Len(m) \in Nat /\ i \in Nat \ {0} /\ i <= Len(m) /\ k \in Nat /\ Len(s) \in Nat
  OBVIOUS
<1>3. /\ Place(m, i) \in Nat /\ Place(m, i) >= 1
      /\ Place(m, i + 1) <= Place(m, Len(m) + 1) /\ Place(m, Len(m) + 1) \in Nat
      /\ Place(m, i + 1) = Place(m, i) + (IF LoneDot(m, i) THEN 2 ELSE 1)
      /\ i > 1 => /\ Place(m, i - 1) \in Nat /\ Place(m, i - 1) >= 1
                  /\ Place(m, i)
                       = Place(m, i - 1) + (IF LoneDot(m, i - 1) THEN 2 ELSE 1)
  BY <1>2, Neighbours
<1>4. m[i] = "dot" /\ DOMAIN m = 1..Len(m)
  BY <1>1
\* The second dot of a byte has the first one before it, not an LF.
<1>5. k = Place(m, i)
  <2>1. SUFFICES ASSUME k # Place(m, i) PROVE FALSE
    OBVIOUS
  <2>2. LoneDot(m, i) /\ k = Place(m, i) + 1
    BY <1>1, <2>1 DEF At
  <2>3. k - 1 = Place(m, i) /\ k - 1 \in 1..Len(s) /\ k # 1
    BY <1>2, <1>3, <2>2, SMTT(20)
  <2>4. s[k - 1] = m[i]
    <3>1. At(m, i, k - 1)
      BY <2>3 DEF At
    <3> QED BY <2>3, <3>1, Filled
  <2> QED BY <1>4, <2>3, <2>4
\* Byte i begins a line of the mail.
<1>6. i = 1 \/ m[i - 1] = "LF"
  <2>1. SUFFICES ASSUME i # 1 PROVE m[i - 1] = "LF"
    OBVIOUS
  <2>2. i > 1 /\ i - 1 \in 1..Len(m)
    BY <1>2, <2>1
  <2>3. k - 1 \in 1..Len(s) /\ k # 1
    BY <1>2, <1>3, <1>5, <2>2, SMTT(20)
  <2>4. At(m, i - 1, k - 1)
    BY <1>2, <1>3, <1>5, <2>2, SMTT(20) DEF At
  <2>5. s[k - 1] = m[i - 1]
    BY <2>2, <2>3, <2>4, Filled
  <2> QED BY <2>3, <2>5
<1>7. CASE LoneDot(m, i)
  <2>1. k + 1 \in 1..Len(s)
    BY <1>2, <1>3, <1>5, <1>7
  <2>2. At(m, i, k + 1)
    BY <1>5, <1>7 DEF At
  <2>3. s[k + 1] = m[i]
    BY <2>1, <2>2, Filled
  <2> QED BY <1>2, <1>4, <2>1, <2>3
<1>8. CASE ~LoneDot(m, i)
  <2>1. i # Len(m) /\ m[i + 1] # "CR"
    BY <1>4, <1>6, <1>8 DEF LoneDot
  <2>2. i + 1 \in 1..Len(m) /\ i + 1 \in Nat \ {0} /\ i + 1 <= Len(m)
    BY <1>2, <2>1
  <2>3. Place(m, i + 1) = k + 1
    BY <1>3, <1>5, <1>8
  <2>4. /\ Place(m, (i + 1) + 1) <= Place(m, Len(m) + 1)
        /\ Place(m, (i + 1) + 1)
             = Place(m, i + 1) + (IF LoneDot(m, i + 1) THEN 2 ELSE 1)
    BY <1>2, <2>2, Neighbours
  <2>5. k + 1 \in 1..Len(s)
    BY <1>2, <1>3, <2>3, <2>4
  <2>6. At(m, i + 1, k + 1)
    BY <2>3 DEF At
  <2>7. s[k + 1] = m[i + 1]
    BY <2>2, <2>5, <2>6, Filled
  <2> QED BY <1>2, <2>1, <2>5, <2>7
<1> QED BY <1>7, <1>8

\* The answer: CRLF, what has been sent, and the five bytes of the end.
Reply(s) == <<"CR", "LF">> \o s \o <<"CR", "LF", "dot", "CR", "LF">>

LEMMA AnswerBytes ==
    ASSUME NEW s \in Seq(Bytes)
    PROVE  /\ Reply(s) \in Seq(Bytes) /\ Len(Reply(s)) = Len(s) + 7
           /\ Reply(s)[1] = "CR" /\ Reply(s)[2] = "LF"
           /\ \A k \in 1..Len(s) : Reply(s)[k + 2] = s[k]
           /\ Reply(s)[Len(s) + 3] = "CR" /\ Reply(s)[Len(s) + 4] = "LF"
           /\ Reply(s)[Len(s) + 5] = "dot"
           /\ Reply(s)[Len(s) + 6] = "CR" /\ Reply(s)[Len(s) + 7] = "LF"
<1> DEFINE a == Reply(s)
           first == <<"CR", "LF">>
           end == <<"CR", "LF", "dot", "CR", "LF">>
           b == first \o s
<1>1. /\ first \in Seq(Bytes) /\ end \in Seq(Bytes) /\ Len(first) = 2 /\ Len(end) = 5
      /\ first[1] = "CR" /\ first[2] = "LF"
      /\ end[1] = "CR" /\ end[2] = "LF" /\ end[3] = "dot" /\ end[4] = "CR" /\ end[5] = "LF"
  BY DEF Bytes
<1>2. a = b \o end
  BY DEF Reply
<1> HIDE DEF a, first, end
<1>3. /\ b \in Seq(Bytes) /\ Len(b) = 2 + Len(s)
      /\ \A k \in 1..2 : b[k] = first[k]
      /\ \A k \in 1..Len(s) : b[2 + k] = s[k]
  <2>0. b = first \o s /\ first \in Seq(Bytes)
    BY <1>1
  <2> HIDE DEF b
  <2>1. /\ b \in Seq(Bytes) /\ Len(b) = Len(first) + Len(s)
        /\ \A k \in 1..Len(first) : b[k] = first[k]
        /\ \A k \in 1..Len(s) : b[Len(first) + k] = s[k]
    BY <2>0, Joined
  <2> QED BY <1>1, <2>1
<1> HIDE DEF b
<1>4. /\ a \in Seq(Bytes) /\ Len(a) = Len(b) + 5
      /\ \A k \in 1..Len(b) : a[k] = b[k]
      /\ \A k \in 1..5 : a[Len(b) + k] = end[k]
  <2>0. b \in Seq(Bytes) /\ end \in Seq(Bytes)
    BY <1>1, <1>3
  <2>1. /\ a \in Seq(Bytes) /\ Len(a) = Len(b) + Len(end)
        /\ \A k \in 1..Len(b) : a[k] = b[k]
        /\ \A k \in 1..Len(end) : a[Len(b) + k] = end[k]
    BY <2>0, <1>2, JoinedTo, SMT
  <2> QED BY <1>1, <2>1
<1>5. Len(s) \in Nat
  OBVIOUS
<1>6. a[1] = "CR" /\ a[2] = "LF"
  BY <1>1, <1>3, <1>4, <1>5
<1>7. ASSUME NEW k \in 1..Len(s) PROVE a[k + 2] = s[k]
  <2>1. k + 2 \in 1..Len(b) /\ k + 2 = 2 + k
    BY <1>3, <1>5
  <2> QED BY <1>3, <1>4, <2>1
<1>8. /\ Len(b) + 1 = Len(s) + 3 /\ Len(b) + 2 = Len(s) + 4 /\ Len(b) + 3 = Len(s) + 5
      /\ Len(b) + 4 = Len(s) + 6 /\ Len(b) + 5 = Len(s) + 7
  BY <1>3, <1>5
<1>9. /\ a[Len(b) + 1] = end[1] /\ a[Len(b) + 2] = end[2] /\ a[Len(b) + 3] = end[3]
      /\ a[Len(b) + 4] = end[4] /\ a[Len(b) + 5] = end[5]
  BY <1>4
<1>10. /\ a \in Seq(Bytes) /\ Len(a) = Len(s) + 7 /\ a[1] = "CR" /\ a[2] = "LF"
       /\ \A k \in 1..Len(s) : a[k + 2] = s[k]
       /\ a[Len(s) + 3] = "CR" /\ a[Len(s) + 4] = "LF" /\ a[Len(s) + 5] = "dot"
       /\ a[Len(s) + 6] = "CR" /\ a[Len(s) + 7] = "LF"
  BY <1>1, <1>3, <1>4, <1>5, <1>6, <1>7, <1>8, <1>9
<1> QED BY <1>10 DEF a

\* Five elements of a sequence.
LEMMA FiveFrom ==
    ASSUME NEW a \in Seq(Bytes), NEW i \in 5..Len(a)
    PROVE  SubSeq(a, i - 4, i) = <<"CR", "LF", "dot", "CR", "LF">>
             <=> /\ a[i - 4] = "CR" /\ a[i - 3] = "LF" /\ a[i - 2] = "dot"
                 /\ a[i - 1] = "CR" /\ a[i] = "LF"
<1> DEFINE t == SubSeq(a, i - 4, i)
           end == <<"CR", "LF", "dot", "CR", "LF">>
<1>1. i \in Nat /\ Len(a) \in Nat /\ i - 4 \in 1..Len(a) /\ i \in 1..Len(a)
  OBVIOUS
<1>2. /\ Len(t) = 5 /\ t = [k \in 1..5 |-> a[(i - 4) + k - 1]]
  BY <1>1
<1>3. /\ t[1] = a[i - 4] /\ t[2] = a[i - 3] /\ t[3] = a[i - 2]
      /\ t[4] = a[i - 1] /\ t[5] = a[i]
  BY <1>1, <1>2
<1> HIDE DEF t
<1>4. t = end <=> /\ t[1] = end[1] /\ t[2] = end[2] /\ t[3] = end[3]
                  /\ t[4] = end[4] /\ t[5] = end[5]
  <2>1. end = [k \in 1..5 |-> end[k]]
    OBVIOUS
  <2>2. t = [k \in 1..5 |-> t[k]]
    BY <1>2
  <2>3. \A k \in 1..5 : k = 1 \/ k = 2 \/ k = 3 \/ k = 4 \/ k = 5
    OBVIOUS
  <2> HIDE DEF end
  <2> QED BY <2>1, <2>2, <2>3
<1>5. /\ end[1] = "CR" /\ end[2] = "LF" /\ end[3] = "dot" /\ end[4] = "CR" /\ end[5] = "LF"
  OBVIOUS
<1> HIDE DEF end
<1>6. t = end <=> /\ a[i - 4] = "CR" /\ a[i - 3] = "LF" /\ a[i - 2] = "dot"
                  /\ a[i - 1] = "CR" /\ a[i] = "LF"
  BY <1>3, <1>4, <1>5
<1> QED BY <1>6 DEF t, end

\* A client that reads to the first lone dot reads the whole mail: what a RETR of
\* text sends has its only end at its end (popFunctions.c, sendTerminationCRLF).
THEOREM EndsOnce == Spec => []NoEarlyEnd
<1>1. StreamInv => NoEarlyEnd
  <2> SUFFICES ASSUME StreamInv, result = "FINISHED", IsText(mail), ~DotLost
               PROVE  Ends(Answer) = {Len(Answer)}
    BY DEF NoEarlyEnd
  <2>1. /\ Taken = Len(mail) /\ Emitted = sent /\ Progress
        /\ (Owed => Len(copied) = room)
    BY AllTaken
  <2>2. mail \in Seq(Bytes) /\ sent \in Seq(Bytes) /\ Len(sent) \in Nat /\ Len(mail) \in Nat
    BY DEF StreamInv, TypeOK
  <2>3. ~Owed
    BY <2>1, <2>2 DEF DotLost, Owed, Progress, StateOfLine
  <2>4. Len(sent) = Place(mail, Len(mail) + 1) - 1 /\ Matches(sent, mail, Len(mail))
    BY <2>1, <2>2, <2>3, PlaceStep DEF Progress
  <2> DEFINE a == Answer
             n == Len(sent)
  <2>5. /\ a \in Seq(Bytes) /\ Len(a) = n + 7 /\ a[1] = "CR" /\ a[2] = "LF"
        /\ \A k \in 1..n : a[k + 2] = sent[k]
        /\ a[n + 3] = "CR" /\ a[n + 4] = "LF" /\ a[n + 5] = "dot"
        /\ a[n + 6] = "CR" /\ a[n + 7] = "LF"
    <3>1. a = Reply(sent)
      BY DEF Answer, Reply
    <3> HIDE DEF a
    <3> QED BY <2>2, <3>1, AnswerBytes, Zenon
  <2> HIDE DEF a
  <2>6. ASSUME NEW i \in Ends(a) PROVE i = n + 7
    <3>1. /\ i \in 5..Len(a) /\ a[i - 3] = "LF" /\ a[i - 2] = "dot" /\ a[i - 1] = "CR"
      <4>1. i \in 5..Len(a) /\ SubSeq(a, i - 4, i) = <<"CR", "LF", "dot", "CR", "LF">>
        BY DEF Ends
      <4> QED BY <2>5, <4>1, FiveFrom
    <3>2. SUFFICES ASSUME i # n + 7 PROVE FALSE
      OBVIOUS
    <3> DEFINE k == i - 4
    <3>3. i \in Nat /\ i >= 5 /\ i <= n + 6 /\ n \in Nat
      BY <2>2, <2>5, <3>1, <3>2
    <3> HIDE DEF n
    <3>4. k \in 1..n
      <4>1. i - 2 # n + 3 /\ i - 2 # n + 4
        BY <2>5, <3>1
      <4> QED BY <3>3, <4>1
    <3>5. sent[k] = "dot"
      <4>1. k + 2 = i - 2
        BY <3>3
      <4> QED BY <2>5, <3>1, <3>4, <4>1
    <3>6. k = 1 \/ sent[k - 1] = "LF"
      <4>1. SUFFICES ASSUME k # 1 PROVE sent[k - 1] = "LF"
        OBVIOUS
      <4>2. k - 1 \in 1..n /\ (k - 1) + 2 = i - 3
        BY <3>3, <3>4, <4>1
      <4> QED BY <2>5, <3>1, <4>2
    <3>7. k < n /\ sent[k + 1] # "CR"
      BY <2>2, <2>4, <3>4, <3>5, <3>6, NoLoneDotLeft DEF n
    <3>8. k + 1 \in 1..n /\ (k + 1) + 2 = i - 1
      BY <3>3, <3>4, <3>7
    <3> QED BY <2>5, <3>1, <3>7, <3>8
  <2>7. n + 7 \in Ends(a)
    <3>1. n + 7 \in 5..Len(a) /\ (n + 7) - 4 = n + 3 /\ (n + 7) - 3 = n + 4
          /\ (n + 7) - 2 = n + 5 /\ (n + 7) - 1 = n + 6
      BY <2>2, <2>5
    <3>2. SubSeq(a, (n + 7) - 4, n + 7) = <<"CR", "LF", "dot", "CR", "LF">>
      BY <2>5, <3>1, FiveFrom
    <3> QED BY <3>1, <3>2 DEF Ends
  <2> QED BY <2>5, <2>6, <2>7 DEF a
<1> QED BY <1>1, StreamInvariant, PTL
=============================================================================
