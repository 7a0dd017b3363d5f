------------------------ MODULE CommandParserProofs -------------------------
(***************************************************************************)
(* Proofs about CommandParser, for any sizes, lines, cuts and stale bytes. *)
(*                                                                         *)
(* WithinBuffer is not inductive: that recv() starts at the beginning of   *)
(* the buffer and that the loops have a line to work on is LoopsCoherent;  *)
(* a field fits because a character is only added to one that is not full. *)
(* LinesRecognised needs to know where the parser is in what was sent: that*)
(* is LinesInv, in the second half of the module.                          *)
(***************************************************************************)
EXTENDS CommandParser, TLAPS, SequenceTheorems, FiniteSetTheorems, WellFoundedInduction

LoopsCoherent ==
    /\ pc = "idle" => charactersProcessed = 0
    /\ pc \in {"processWriting", "discardUntilCRLF"} => list # <<>>

IInv == TypeOK /\ WithinBuffer /\ FieldsFit /\ OnlyLastUnfinished /\ LoopsCoherent

\* What IInv says of the list, and of the buffer.
Fits(n) == \A f \in Fields : n.length[f] <= maxSize(f)

ListOK == list \in Seq(Node) /\ FieldsFit /\ OnlyLastUnfinished

MemoryOK ==
    /\ memory \in Seq(Bytes) /\ charactersProcessed \in Nat
    /\ memory # <<>> => Last(memory) = "NUL"
    /\ ~overran => charactersProcessed + Len(memory) <= MAXCOMMANDLENGTH + 1

\* The byte that is looked at is there.
ByteThere ==
    pc # "idle" /\ memory = <<>> =>
        pc = "addData" /\ charactersProcessed = MAXCOMMANDLENGTH + 1

-----------------------------------------------------------------------------
\* The last line of the list may be replaced by any line that fits.
LEMMA ReplaceLast ==
    ASSUME ListOK, list # <<>>, NEW n \in Node, Fits(n), Becomes(n)
    PROVE  ListOK' /\ list' # <<>>
<1>1. Len(list) \in Nat \ {0} /\ Len(list) \in DOMAIN list
  BY DEF ListOK
<1>2. list' \in Seq(Node) /\ Len(list') = Len(list)
  BY <1>1 DEF ListOK, Becomes
<1>3. \A i \in DOMAIN list' : list'[i] = IF i = Len(list) THEN n ELSE list[i]
  BY <1>1 DEF ListOK, Becomes
<1>4. FieldsFit'
  BY <1>1, <1>2, <1>3 DEF ListOK, FieldsFit, Fits, maxSize
<1>5. OnlyLastUnfinished'
  BY <1>1, <1>2, <1>3 DEF ListOK, OnlyLastUnfinished, Finished
<1> QED BY <1>1, <1>2, <1>4, <1>5 DEF ListOK

\* The line addData goes on with is the last of the list.
LEMMA NodeInList ==
    ASSUME ListOK, list # <<>>
    PROVE  node \in Node /\ Fits(node)
BY DEF ListOK, node, Last, FieldsFit, Fits

\* The end of processWriting leaves a list as it should be.
LEMMA LeaveOK ==
    ASSUME ListOK, list # <<>>, NEW n \in Node, Fits(n), Leave(n)
    PROVE  /\ ListOK' /\ list' # <<>>
           /\ pc' \in {"addData", "discardUntilCRLF"}
<1> DEFINE m == IF n.status = "COMPLETE" /\ n.length[1] \notin KnownLengths
                THEN [n EXCEPT !.status = "COMPLETEINVALID"] ELSE n
<1>1. m \in Node /\ m.length = n.length
  BY DEF Node, Statuses
<1>2. Fits(m)
  BY <1>1 DEF Fits
<1>3. Becomes(m)
  BY DEF Leave
<1>4. ListOK' /\ list' # <<>>
  <2> HIDE DEF m
  <2> QED BY <1>1, <1>2, <1>3, ReplaceLast
<1> QED BY <1>4 DEF Leave

\* One byte further on, or where it was, the buffer is as it should be, and ends
\* with the NUL that has not been processed.
LEMMA ConsumeOK ==
    ASSUME MemoryOK, memory # <<>>, UNCHANGED overran,
           Stay \/ (Consume /\ Head(memory) # "NUL")
    PROVE  MemoryOK' /\ memory' # <<>>
<1>1. CASE Stay
  BY <1>1 DEF Stay, MemoryOK, Last
<1>2. CASE Consume /\ Head(memory) # "NUL"
  <2>1. memory' = Tail(memory) /\ Len(memory) \in Nat \ {0}
    BY <1>2 DEF Consume, MemoryOK
  <2>2. memory' \in Seq(Bytes) /\ Len(memory') = Len(memory) - 1
    BY <2>1 DEF MemoryOK
  <2>3. memory' # <<>>
    <3>1. Head(memory) = memory[1] /\ memory[Len(memory)] = "NUL"
      BY <2>1 DEF Last, MemoryOK
    <3>2. Len(memory) # 1
      BY <1>2, <3>1
    <3>3. Len(memory') # 0
      BY <2>1, <2>2, <3>2
    <3> QED BY <3>3
  <2>4. Last(memory') = Last(memory)
    BY <2>1, <2>2, <2>3 DEF Last, MemoryOK
  <2>5. charactersProcessed' + Len(memory') = charactersProcessed + Len(memory)
    BY <1>2, <2>1, <2>2 DEF Consume, MemoryOK
  <2> QED BY <1>2, <2>2, <2>3, <2>4, <2>5 DEF MemoryOK, Consume
<1> QED BY <1>1, <1>2

\* IInv is what is said of the list, of the buffer and of the rest.
RestOK ==
    /\ executed \in Seq(Node) /\ sent \in Seq(Lines)
    /\ wire \in Seq(Bytes)
    /\ field \in Fields /\ overran \in BOOLEAN
    /\ pc \in {"idle", "addData", "processWriting", "discardUntilCRLF"}

\* The parts of the invariant, before and after a step.
LEMMA Parts ==
    /\ IInv <=> ListOK /\ MemoryOK /\ ByteThere /\ RestOK /\ LoopsCoherent
    /\ ListOK' /\ MemoryOK' /\ ByteThere' /\ RestOK' /\ LoopsCoherent' => IInv'
BY DEF IInv, TypeOK, WithinBuffer, ListOK, MemoryOK, ByteThere, RestOK

\* What holds of a list holds of the same list after a step.
LEMMA ListStays == ListOK /\ UNCHANGED list => ListOK'
BY DEF ListOK, FieldsFit, OnlyLastUnfinished, Finished

-----------------------------------------------------------------------------
\* The list is empty and nothing is being processed.
LEMMA InitIInv == Init => IInv
<1> SUFFICES ASSUME Init PROVE IInv
  OBVIOUS
<1>1. ListOK
  BY DEF Init, ListOK, FieldsFit, OnlyLastUnfinished
<1>2. MemoryOK
  BY SizeAssumption DEF Init, MemoryOK
<1>3. RestOK
  <2>1. executed \in Seq(Node)
    BY DEF Init
  <2>2. sent \in Seq(Lines)
    BY DEF Init
  <2>3. wire \in Seq(Bytes)
    BY DEF Init
  <2>4. field \in Fields /\ pc = "idle" /\ overran = FALSE
    BY DEF Init, Fields
  <2> QED BY <2>1, <2>2, <2>3, <2>4 DEF RestOK
<1>4. LoopsCoherent /\ ByteThere
  BY DEF Init, LoopsCoherent, ByteThere
<1> QED BY <1>4, <1>1, <1>2, <1>3, Parts

\* The client only adds to the wire.
LEMMA SendStep == IInv /\ send => IInv'
<1> SUFFICES ASSUME IInv, send PROVE IInv'
  OBVIOUS
<1> PICK l \in Lines : sent' = Append(sent, l) /\ wire' = wire \o l
  BY DEF send
<1>1. l \in Seq(Bytes)
  BY LineAssumption
<1>2. UNCHANGED parserVars /\ UNCHANGED executed
  BY DEF send
<1>3. sent' \in Seq(Lines) /\ wire' \in Seq(Bytes)
  BY <1>1, Parts DEF RestOK
<1>4. ListOK'
  BY <1>2, Parts, ListStays DEF parserVars
<1>5. MemoryOK' /\ ByteThere' /\ RestOK' /\ LoopsCoherent'
  BY <1>2, <1>3, Parts DEF RestOK, parserVars, MemoryOK, ByteThere, LoopsCoherent
<1> QED BY <1>4, <1>5, Parts

\* recv() fills the buffer from its beginning and ends it with a NUL.
LEMMA RecvStep == IInv /\ recv => IInv'
<1> SUFFICES ASSUME IInv, recv PROVE IInv'
  OBVIOUS
<1> PICK n \in 1..MAXCOMMANDLENGTH :
        /\ n <= Len(wire)
        /\ memory' = SubSeq(wire, 1, n) \o <<"NUL">>
        /\ wire' = SubSeq(wire, n + 1, Len(wire))
  BY DEF recv
<1>0. wire \in Seq(Bytes) /\ n \in Nat /\ MAXCOMMANDLENGTH \in Nat
  BY Parts, SizeAssumption DEF RestOK
<1>1. SubSeq(wire, 1, n) \in Seq(Bytes) /\ Len(SubSeq(wire, 1, n)) = n
  BY <1>0
<1>2. memory' \in Seq(Bytes) /\ Len(memory') = n + 1 /\ memory'[n + 1] = "NUL"
  BY <1>0, <1>1 DEF Bytes
<1>3. MemoryOK'
  BY <1>0, <1>2, Parts DEF recv, MemoryOK, LoopsCoherent, Last
<1>4. wire' \in Seq(Bytes)
  BY <1>0
<1>5. RestOK' /\ LoopsCoherent' /\ ByteThere'
  BY <1>0, <1>2, <1>4, Parts DEF recv, RestOK, LoopsCoherent, ByteThere
<1>6. ListOK'
  BY Parts, ListStays DEF recv
<1> QED BY <1>3, <1>5, <1>6, Parts

\* The list without its first line has the others in order.
LEMMA GetFirstCommandStep == IInv /\ getFirstCommand => IInv'
<1> SUFFICES ASSUME IInv, getFirstCommand PROVE IInv'
  OBVIOUS
<1>1. list \in Seq(Node) /\ list # <<>> /\ list' = Tail(list)
  BY Parts DEF ListOK, getFirstCommand, availableCommands
<1>2. /\ Len(list) \in Nat \ {0} /\ Head(list) \in Node
      /\ list' \in Seq(Node) /\ Len(list') = Len(list) - 1
      /\ \A i \in DOMAIN list' : i + 1 \in DOMAIN list /\ list'[i] = list[i + 1]
  BY <1>1
<1>3. FieldsFit'
  BY <1>2, Parts DEF ListOK, FieldsFit, maxSize
<1>4. OnlyLastUnfinished'
  <2> SUFFICES ASSUME NEW i \in DOMAIN list', i < Len(list')
               PROVE  Finished(list'[i])
    BY <1>2 DEF OnlyLastUnfinished, Finished
  <2>1. i + 1 \in DOMAIN list /\ i + 1 < Len(list) /\ list'[i] = list[i + 1]
    BY <1>1, <1>2
  <2> QED BY <2>1, Parts DEF ListOK, OnlyLastUnfinished
<1>5. RestOK' /\ LoopsCoherent' /\ ByteThere'
  BY <1>2, Parts DEF getFirstCommand, RestOK, LoopsCoherent, ByteThere
<1>6. MemoryOK'
  BY Parts DEF getFirstCommand, MemoryOK
<1> QED BY <1>2, <1>3, <1>4, <1>5, <1>6, Parts DEF ListOK

\* addData goes on with a line that is the last, and that is not finished.
LEMMA AddDataStep == IInv /\ addData => IInv'
<1> SUFFICES ASSUME IInv, addData PROVE IInv'
  OBVIOUS
<1>1. createNewNode \in Node /\ Fits(createNewNode)
  BY SizeAssumption DEF createNewNode, Node, Statuses, Fields, Fits, maxSize
<1>2. list' = nodeToProcess /\ ListOK
  BY Parts DEF addData
<1>3. ASSUME list = <<>> \/ Finished(node)
      PROVE  ListOK' /\ list' # <<>>
  <2>1. list' = Append(list, createNewNode)
    BY <1>2, <1>3 DEF nodeToProcess
  <2>2. /\ list' \in Seq(Node) /\ Len(list') = Len(list) + 1 /\ Len(list) \in Nat
        /\ \A i \in 1..Len(list) : list'[i] = list[i]
        /\ list'[Len(list) + 1] = createNewNode
        /\ DOMAIN list = 1..Len(list) /\ DOMAIN list' = 1..Len(list) + 1
    BY <1>1, <1>2, <2>1 DEF ListOK
  <2>3. FieldsFit'
    BY <1>1, <1>2, <2>2 DEF ListOK, FieldsFit, Fits, maxSize
  <2>4. \A i \in 1..Len(list) : Finished(list[i])
    BY <1>2, <1>3, <2>2 DEF ListOK, OnlyLastUnfinished, node, Last
  <2>5. OnlyLastUnfinished'
    BY <2>2, <2>4 DEF OnlyLastUnfinished, Finished
  <2> QED BY <2>2, <2>3, <2>5 DEF ListOK
<1>4. ASSUME ~(list = <<>> \/ Finished(node))
      PROVE  ListOK' /\ list' # <<>>
  BY <1>2, <1>4, ListStays DEF nodeToProcess
<1>5. ListOK' /\ list' # <<>>
  BY <1>3, <1>4
<1>6. RestOK' /\ LoopsCoherent'
  BY <1>5, Parts DEF addData, InLoop, RestOK, LoopsCoherent, FieldOf, Fields
<1>7. MemoryOK' /\ ByteThere'
  BY Parts DEF addData, Stay, MemoryOK, ByteThere, Byte
<1> QED BY <1>5, <1>6, <1>7, Parts

\* When addData returns the buffer is out of scope.
LEMMA AddDataReturnsStep == IInv /\ addDataReturns => IInv'
<1> SUFFICES ASSUME IInv, addDataReturns PROVE IInv'
  OBVIOUS
<1>1. ListOK'
  BY Parts, ListStays DEF addDataReturns
<1>2. MemoryOK'
  BY SizeAssumption DEF addDataReturns, MemoryOK
<1>3. RestOK' /\ LoopsCoherent' /\ ByteThere'
  BY Parts DEF addDataReturns, InLoop, RestOK, LoopsCoherent, ByteThere, Fields
<1> QED BY <1>1, <1>2, <1>3, Parts

-----------------------------------------------------------------------------
(***************************************************************************)
(* The loops.  Each step looks at a byte that is there, and replaces the   *)
(* line that is there by one that fits.                                    *)
(***************************************************************************)
\* In a loop there is a line and a byte; the rest of the state is left alone.
LEMMA InTheLoop ==
    ASSUME IInv, NEW loop \in {"processWriting", "discardUntilCRLF"},
           InLoop(loop), NEW B, Byte(B), Stay \/ (Consume /\ "NUL" \notin B),
           UNCHANGED overran
    PROVE  /\ ListOK /\ list # <<>> /\ node \in Node /\ Fits(node)
           /\ MemoryOK' /\ ByteThere'
           /\ field \in Fields
           /\ ( /\ list' # <<>> /\ field' \in Fields
                /\ pc' \in {"addData", "processWriting", "discardUntilCRLF"}
                => RestOK' /\ LoopsCoherent')
<1>1. ListOK /\ list # <<>> /\ MemoryOK /\ memory # <<>> /\ field \in Fields
  BY Parts DEF InLoop, LoopsCoherent, RestOK, Byte
<1>2. node \in Node /\ Fits(node)
  BY <1>1, NodeInList
<1>3. MemoryOK' /\ memory' # <<>>
  BY <1>1, ConsumeOK DEF Byte
<1>4. ASSUME list' # <<>>, field' \in Fields,
             pc' \in {"addData", "processWriting", "discardUntilCRLF"}
      PROVE  RestOK' /\ LoopsCoherent'
  BY <1>4, Parts DEF InLoop, RestOK, LoopsCoherent
<1> QED BY <1>1, <1>2, <1>3, <1>4 DEF ByteThere

\* A line with another status or another receivedCR fits as it did.
LEMMA SameLength ==
    ASSUME NEW n \in Node, Fits(n), NEW s \in Statuses, NEW b \in BOOLEAN
    PROVE  /\ [n EXCEPT !.status = s] \in Node /\ Fits([n EXCEPT !.status = s])
           /\ [n EXCEPT !.receivedCR = b] \in Node
           /\ Fits([n EXCEPT !.receivedCR = b])
BY DEF Node, Fits

\* processWriting changes the last line only, and within its fields.
LEMMA ProcessWritingStep == IInv /\ processWriting => IInv'
<1> SUFFICES ASSUME IInv, processWriting PROVE IInv'
  OBVIOUS
<1> USE DEF Statuses
<1>1. CASE writeEnd
  <2>1. InLoop("processWriting") /\ Byte({"NUL"}) /\ Leave(node) /\ Stay /\ UNCHANGED overran
    BY <1>1 DEF writeEnd
  <2>2. ListOK /\ list # <<>> /\ node \in Node /\ Fits(node) /\ MemoryOK'
    BY <2>1, InTheLoop
  <2>3. ListOK' /\ list' # <<>> /\ pc' \in {"addData", "discardUntilCRLF"}
    BY <2>1, <2>2, LeaveOK
  <2>4. UNCHANGED <<field, overran>>
    BY <1>1 DEF writeEnd
  <2> QED BY <2>1, <2>2, <2>3, <2>4, InTheLoop, Parts
<1>2. CASE writeAfterCR
  <2> DEFINE n == [node EXCEPT !.status =
                      IF Head(memory) = "LF" THEN "COMPLETE" ELSE "INVALID"]
  <2>1. /\ InLoop("processWriting") /\ Byte(Bytes \ {"NUL"})
        /\ Leave(n) /\ Consume
        /\ UNCHANGED overran
    BY <1>2 DEF writeAfterCR
  <2>2. ListOK /\ list # <<>> /\ n \in Node /\ Fits(n) /\ MemoryOK'
    BY <2>1, InTheLoop, SameLength
  <2> HIDE DEF n
  <2>3. ListOK' /\ list' # <<>> /\ pc' \in {"addData", "discardUntilCRLF"}
    BY <2>1, <2>2, LeaveOK
  <2>4. UNCHANGED <<field, overran>>
    BY <1>2 DEF writeAfterCR
  <2> QED BY <2>1, <2>2, <2>3, <2>4, InTheLoop, Parts
<1>3. CASE writeSpace
  <2> DEFINE n == [node EXCEPT !.status = statusAfterSpace(field)]
  <2>1. InLoop("processWriting") /\ Byte({"space"}) /\ Becomes(n) /\ Consume /\ UNCHANGED overran
    BY <1>3 DEF writeSpace
  <2>2. field \in Fields /\ ListOK /\ list # <<>> /\ node \in Node /\ Fits(node)
    BY <2>1, InTheLoop
  <2>3. statusAfterSpace(field) \in Statuses
    BY <2>2 DEF statusAfterSpace, Fields
  <2>4. n \in Node /\ Fits(n)
    BY <2>2, <2>3, SameLength
  <2> HIDE DEF n
  <2>5. ListOK' /\ list' # <<>>
    BY <2>1, <2>2, <2>4, ReplaceLast
  <2>6. field' \in Fields /\ UNCHANGED <<pc, overran>> /\ pc = "processWriting"
    BY <1>3 DEF writeSpace, FieldOf, Fields, InLoop
  <2> QED BY <2>1, <2>5, <2>6, InTheLoop, Parts
<1>4. CASE writeCR
  <2> DEFINE n == [node EXCEPT !.receivedCR = TRUE]
  <2>1. InLoop("processWriting") /\ Byte({"CR"}) /\ Becomes(n) /\ Consume /\ UNCHANGED overran
    BY <1>4 DEF writeCR
  <2>2. ListOK /\ list # <<>> /\ n \in Node /\ Fits(n)
    BY <2>1, InTheLoop, SameLength
  <2> HIDE DEF n
  <2>3. ListOK' /\ list' # <<>>
    BY <2>1, <2>2, ReplaceLast
  <2>4. UNCHANGED <<field, pc, overran>> /\ pc = "processWriting"
    BY <1>4 DEF writeCR, InLoop
  <2> QED BY <2>1, <2>3, <2>4, InTheLoop, Parts
<1>5. CASE writePrintable
  <2> DEFINE n == [node EXCEPT !.length[field] = @ + 1]
  <2>1. /\ InLoop("processWriting") /\ Byte({"printable"}) /\ ~full(node)
        /\ Becomes(n) /\ Consume
        /\ UNCHANGED overran
    BY <1>5 DEF writePrintable
  <2>2. field \in Fields /\ ListOK /\ list # <<>> /\ node \in Node /\ Fits(node)
    BY <2>1, InTheLoop
  <2>3. /\ n \in Node
        /\ n.length = [node.length EXCEPT ![field] = node.length[field] + 1]
    <3> DEFINE longer == [node.length EXCEPT ![field] = node.length[field] + 1]
    <3>1. node.length \in [Fields -> Nat] /\ longer \in [Fields -> Nat]
      BY <2>2 DEF Node
    <3>2. n = [node EXCEPT !.length = longer]
      OBVIOUS
    <3> HIDE DEF longer
    <3>3. /\ [node EXCEPT !.length = longer] \in Node
          /\ [node EXCEPT !.length = longer].length = longer
      BY <2>2, <3>1 DEF Node
    <3> HIDE DEF n
    <3>4. n \in Node /\ n.length = longer
      BY <3>2, <3>3
    <3> QED BY <3>4 DEF longer
  <2>4. node.length \in [Fields -> Nat] /\ node.length[field] < maxSize(field)
    <3>1. node.length \in [Fields -> Nat] /\ node.length[field] \in Nat
      BY <2>2 DEF Node
    <3>2. maxSize(field) \in Nat
      BY SizeAssumption DEF maxSize
    <3>3. ~(node.length[field] >= maxSize(field))
      BY <2>1 DEF full
    <3> QED BY <3>1, <3>2, <3>3
  <2>5. Fits(n)
    <3> SUFFICES ASSUME NEW f \in Fields PROVE n.length[f] <= maxSize(f)
      BY DEF Fits
    <3>1. node.length[f] <= maxSize(f)
      BY <2>2 DEF Fits
    <3>2. maxSize(f) \in Nat /\ node.length[f] \in Nat
      BY <2>4, SizeAssumption DEF maxSize
    <3>3. n.length[f] = IF f = field THEN node.length[f] + 1 ELSE node.length[f]
      BY <2>3, <2>4
    <3> HIDE DEF n
    <3> QED BY <2>4, <3>1, <3>2, <3>3
  <2> HIDE DEF n
  <2>6. ListOK' /\ list' # <<>>
    BY <2>1, <2>2, <2>3, <2>5, ReplaceLast
  <2>7. UNCHANGED <<field, pc, overran>> /\ pc = "processWriting"
    BY <1>5 DEF writePrintable, InLoop
  <2> QED BY <2>1, <2>2, <2>6, <2>7, InTheLoop, Parts
<1>6. CASE writeRejected
  <2> DEFINE n == [node EXCEPT !.status = "INVALID"]
  <2>1. /\ InLoop("processWriting") /\ Byte({"LF", "other", "printable"})
        /\ Leave(n) /\ Stay
        /\ UNCHANGED overran
    BY <1>6 DEF writeRejected, Byte
  <2>2. ListOK /\ list # <<>> /\ n \in Node /\ Fits(n) /\ MemoryOK'
    BY <2>1, InTheLoop, SameLength
  <2> HIDE DEF n
  <2>3. ListOK' /\ list' # <<>> /\ pc' \in {"addData", "discardUntilCRLF"}
    BY <2>1, <2>2, LeaveOK
  <2>4. UNCHANGED <<field, overran>>
    BY <1>6 DEF writeRejected
  <2> QED BY <2>1, <2>2, <2>3, <2>4, InTheLoop, Parts
<1> QED
  BY <1>1, <1>2, <1>3, <1>4, <1>5, <1>6 DEF processWriting

\* discardUntilCRLF moves through the buffer, at most past the NUL that ends it.
LEMMA DiscardStep == IInv /\ discardUntilCRLF => IInv'
<1> SUFFICES ASSUME IInv, discardUntilCRLF PROVE IInv'
  OBVIOUS
<1> USE DEF Statuses
<1>1. CASE discardEnd
  <2>1. /\ InLoop("discardUntilCRLF") /\ Byte({"NUL"}) /\ UNCHANGED <<list, field>>
        /\ charactersProcessed' = charactersProcessed + 1 /\ pc' = "addData"
    BY <1>1 DEF discardEnd
  <2>2. /\ MemoryOK /\ Len(memory) \in Nat \ {0} /\ charactersProcessed \in Nat
        /\ overran \in BOOLEAN /\ MAXCOMMANDLENGTH \in Nat
    BY <2>1, Parts, SizeAssumption DEF MemoryOK, Byte, RestOK
  <2>3. ASSUME memory' = Tail(memory), UNCHANGED overran,
               Len(memory) > 1 \/ charactersProcessed' = MAXCOMMANDLENGTH + 1
        PROVE  MemoryOK' /\ ByteThere' /\ overran' \in BOOLEAN
    <3>1. memory' \in Seq(Bytes) /\ Len(memory') = Len(memory) - 1
      BY <2>2, <2>3 DEF MemoryOK
    <3>2. memory' # <<>> => Last(memory') = Last(memory)
      BY <2>2, <2>3, <3>1 DEF Last, MemoryOK
    <3>3. charactersProcessed' + Len(memory') = charactersProcessed + Len(memory)
      BY <2>1, <2>2, <3>1
    <3> QED BY <2>1, <2>2, <2>3, <3>1, <3>2, <3>3 DEF MemoryOK, ByteThere
  <2>4. ASSUME goesOn, ~(Len(memory) > 1), charactersProcessed' # MAXCOMMANDLENGTH + 1
        PROVE  MemoryOK' /\ ByteThere' /\ overran' \in BOOLEAN
    <3>1. PICK s \in Stale \cup {<<"NUL">>} :
            memory' = s /\ overran' = (overran \/ Len(s) > 1)
      BY <2>4 DEF goesOn
    <3>2. s \in Seq(Bytes) /\ s # <<>> /\ Last(s) = "NUL"
      <4>1. CASE s \in Stale
        BY <4>1, StaleAssumption
      <4>2. CASE s = <<"NUL">>
        BY <4>2 DEF Last, Bytes
      <4> QED BY <3>1, <4>1, <4>2
    <3>3. ~overran' => charactersProcessed' + Len(memory') <= MAXCOMMANDLENGTH + 1
      <4> SUFFICES ASSUME ~overran' PROVE charactersProcessed' + Len(s) <= MAXCOMMANDLENGTH + 1
        BY <3>1
      <4>1. charactersProcessed + Len(memory) <= MAXCOMMANDLENGTH + 1
        BY <2>2, <3>1 DEF MemoryOK
      <4>2. ~(Len(s) > 1)
        BY <3>1, Zenon
      <4>3. Len(s) \in Nat
        BY <3>2
      <4> QED BY <2>1, <2>2, <2>4, <4>1, <4>2, <4>3
    <3>4. memory' # <<>> /\ charactersProcessed' \in Nat
      BY <2>1, <2>2, <3>1, <3>2
    <3> QED BY <3>1, <3>2, <3>3, <3>4 DEF MemoryOK, ByteThere
  <2>5. MemoryOK' /\ ByteThere' /\ overran' \in BOOLEAN
    BY <1>1, <2>3, <2>4 DEF discardEnd
  <2>6. ListOK'
    BY <2>1, Parts, ListStays
  <2>7. RestOK' /\ LoopsCoherent'
    BY <2>1, <2>5, Parts DEF InLoop, RestOK, LoopsCoherent
  <2> QED BY <2>5, <2>6, <2>7, Parts
<1>2. CASE discardCR
  <2> DEFINE n == [node EXCEPT !.receivedCR = TRUE]
  <2>1. InLoop("discardUntilCRLF") /\ Byte({"CR"}) /\ Becomes(n) /\ Consume /\ UNCHANGED overran
    BY <1>2 DEF discardCR
  <2>2. ListOK /\ list # <<>> /\ n \in Node /\ Fits(n)
    BY <2>1, InTheLoop, SameLength
  <2> HIDE DEF n
  <2>3. ListOK' /\ list' # <<>>
    BY <2>1, <2>2, ReplaceLast
  <2>4. UNCHANGED <<field, pc, overran>> /\ pc = "discardUntilCRLF"
    BY <1>2 DEF discardCR, InLoop
  <2> QED BY <2>1, <2>3, <2>4, InTheLoop, Parts
<1>3. CASE discardLF
  <2> DEFINE n == [node EXCEPT !.status = "COMPLETEINVALID"]
  <2>1. InLoop("discardUntilCRLF") /\ Byte({"LF"}) /\ Becomes(n) /\ Consume /\ UNCHANGED overran
    BY <1>3 DEF discardLF
  <2>2. ListOK /\ list # <<>> /\ n \in Node /\ Fits(n)
    BY <2>1, InTheLoop, SameLength
  <2> HIDE DEF n
  <2>3. ListOK' /\ list' # <<>>
    BY <2>1, <2>2, ReplaceLast
  <2>4. UNCHANGED <<field, overran>> /\ pc' = "addData"
    BY <1>3 DEF discardLF
  <2> QED BY <2>1, <2>3, <2>4, InTheLoop, Parts
<1>4. CASE discardOther
  <2> DEFINE n == [node EXCEPT !.receivedCR = FALSE]
  <2>1. /\ InLoop("discardUntilCRLF")
        /\ Byte({"space", "printable", "other", "LF"}) /\ Becomes(n) /\ Consume
        /\ UNCHANGED overran
    BY <1>4 DEF discardOther, Byte
  <2>2. ListOK /\ list # <<>> /\ n \in Node /\ Fits(n)
    BY <2>1, InTheLoop, SameLength
  <2> HIDE DEF n
  <2>3. ListOK' /\ list' # <<>>
    BY <2>1, <2>2, ReplaceLast
  <2>4. UNCHANGED <<field, pc, overran>> /\ pc = "discardUntilCRLF"
    BY <1>4 DEF discardOther, InLoop
  <2> QED BY <2>1, <2>3, <2>4, InTheLoop, Parts
<1> QED
  BY <1>1, <1>2, <1>3, <1>4 DEF discardUntilCRLF

-----------------------------------------------------------------------------
\* Every step keeps the invariant.
LEMMA StepIInv == IInv /\ [Next]_vars => IInv'
<1> SUFFICES ASSUME IInv, [Next]_vars PROVE IInv'
  OBVIOUS
<1>1. CASE UNCHANGED vars
  <2>1. UNCHANGED <<parserVars, wire, sent, executed>>
    BY <1>1 DEF vars
  <2>2. ListOK'
    BY <2>1, Parts, ListStays DEF parserVars
  <2> QED
    BY <2>1, <2>2, Parts DEF parserVars, MemoryOK, ByteThere, RestOK, LoopsCoherent
<1> QED
  BY <1>1, SendStep, RecvStep, GetFirstCommandStep, AddDataStep,
     AddDataReturnsStep, ProcessWritingStep, DiscardStep DEF Next

\* The inductive invariant holds of every behaviour of the parser.
THEOREM Invariance == Spec => []IInv
BY InitIInv, StepIInv, PTL DEF Spec

\* Every variable keeps its type, and what addData reads ends with a NUL, for any
\* lines, cuts and rests (commandParser.c; clients.c, readFromClient).
THEOREM ParserTypes == Spec => []TypeOK
<1>1. IInv => TypeOK
  BY DEF IInv
<1> QED BY Invariance, <1>1, PTL

\* What addData reads is in auxiliaryBuffer, however the lines are cut, whatever
\* they hold and whatever memory holds after the data, until it has gone on beyond
\* the data; and the byte it looks at is always there (commandParser.c, addData).
THEOREM ReadsWithinBuffer == Spec => []WithinBuffer
<1>1. IInv => WithinBuffer
  BY DEF IInv
<1> QED BY Invariance, <1>1, PTL

\* A name or an argument never passes the end of its array, for any sizes and
\* any lines (commandParser.c, processWriting).
THEOREM FieldsNeverOverflow == Spec => []FieldsFit
<1>1. IInv => FieldsFit
  BY DEF IInv
<1> QED BY Invariance, <1>1, PTL

\* However many lines a recv() brings, only the last of the list is unfinished,
\* so that the first is the next to execute (commandParser.c, availableCommands).
THEOREM FinishedInOrder == Spec => []OnlyLastUnfinished
<1>1. IInv => OnlyLastUnfinished
  BY DEF IInv
<1> QED BY Invariance, <1>1, PTL

-----------------------------------------------------------------------------
(***************************************************************************)
(* What the lines become.  The bytes sent are those that have been         *)
(* processed, those in the buffer and those on the wire; the commands are  *)
(* the lines that have been processed whole, and the unfinished line of    *)
(* the list is what the bytes of the next one make of it.                  *)
(***************************************************************************)
\* How many bytes in the buffer are data, and how many have been processed.
Left == IF memory = <<>> THEN 0 ELSE Len(memory) - 1

Processed == Ends(sent)[Len(sent)] - Len(wire) - Left

\* The byte of number q, of all those sent, is b.
SentAt(b, q) ==
    \E n \in 1..Len(sent) :
        /\ Ends(sent)[n - 1] < q /\ q <= Ends(sent)[n]
        /\ b = sent[n][q - Ends(sent)[n - 1]]

BytesInOrder ==
    /\ \A j \in 1..Left : SentAt(memory[j], Processed + j)
    /\ \A j \in 1..Len(wire) : SentAt(wire[j], Processed + Left + j)

\* The lines that are commands, and how much of the next has been processed.
Made == Len(commands)

Begun == Processed - Ends(sent)[Made]

Position ==
    /\ Made <= Len(sent) /\ Begun >= 0
    /\ IF Made < Len(sent) THEN Processed < Ends(sent)[Made + 1] ELSE Begun = 0
    /\ IF Unfinished THEN Made < Len(sent) ELSE Begun = 0

Judged(n, line) ==
    /\ n.status \in Verdicts(line)
    /\ n.status = "COMPLETE" => \A f \in Fields : n.length[f] = Length(line, f)

CommandsJudged == \A i \in 1..Made : Judged(commands[i], sent[i])

\* What m bytes of a line make of it: n, if they are text, or are text and a CR.
IsText(line, m) == \A i \in 1..m : line[i] \in Text

Spaces(line, m) == {i \in 1..m : line[i] = "space"}

StatusAfter(spaces) ==
    IF spaces > 2 THEN "INVALID"
    ELSE <<"WRITINGCOMMAND", "WRITINGARG1", "WRITINGARG2">>[spaces + 1]

Written(n, line, m) ==
    /\ IsText(line, m)
    /\ n.status = StatusAfter(Cardinality(Spaces(line, m)))
    /\ \A f \in Fields : n.length[f] = Cardinality(Characters(line, m, f))

Writes(n, line, m) ==
    IF n.receivedCR THEN m >= 1 /\ line[m] = "CR" /\ Written(n, line, m - 1)
    ELSE Written(n, line, m)

\* A line to be discarded: it deserves that, and its CRLF will be known.
Discards(n, line, m) ==
    /\ n.status = "INVALID" /\ "COMPLETEINVALID" \in Verdicts(line)
    /\ m >= 1 /\ line[m] = "CR" => n.receivedCR
    /\ n.receivedCR =>
         \/ m >= 1 /\ line[m] = "CR"
         \/ m >= 2 /\ line[m - 1] = "CR" /\ IsText(line, m - 2)

Current(line) ==
    CASE pc = "processWriting" ->
            Writes(node, line, Begun) /\ field = FieldOf(node.status)
      [] pc = "discardUntilCRLF" -> Discards(node, line, Begun)
      [] OTHER ->
            IF Writing(node) THEN Writes(node, line, Begun)
            ELSE Discards(node, line, Begun)

InLoops ==
    /\ pc = "idle" => memory = <<>>
    /\ pc \in {"processWriting", "discardUntilCRLF"} => Unfinished

Understood ==
    /\ BytesInOrder /\ Position /\ CommandsJudged
    /\ Unfinished => Current(sent[Made + 1])

LinesInv == IInv /\ InLoops /\ (~overran /\ NoStray /\ NoNul => Understood)

-----------------------------------------------------------------------------
(***************************************************************************)
(* Induction on the natural numbers, from the library's theorem on well    *)
(* founded relations.                                                      *)
(***************************************************************************)
LEMMA Least ==
    ASSUME NEW T \in SUBSET Nat, T # {}
    PROVE  \E x \in T : \A y \in T : x <= y
<1> DEFINE R == OpToRel(<, Nat)
<1>1. \E x \in T : \A y \in T : ~(<<y, x>> \in R)
  <2>1. IsWellFoundedOn(R, Nat)
    BY NatLessThanWellFounded, Zenon
  <2> HIDE DEF R
  <2> QED BY <2>1, WFMin
<1>2. \A x, y \in Nat : y < x => <<y, x>> \in R
  BY DEF OpToRel
<1> HIDE DEF R
<1>3. PICK x \in T : \A y \in T : ~(<<y, x>> \in R)
  BY <1>1
<1>4. ASSUME NEW y \in T PROVE x <= y
  <2>1. x \in Nat /\ y \in Nat
    OBVIOUS
  <2>2. ~(y < x)
    BY <1>2, <1>3, <2>1
  <2> QED BY <2>1, <2>2
<1> QED BY <1>4

\* A set with 0 and the next of each of its numbers has them all.
LEMMA Induct ==
    ASSUME NEW S \in SUBSET Nat, 0 \in S, \A n \in S : n + 1 \in S
    PROVE  S = Nat
<1> SUFFICES ASSUME Nat \ S # {} PROVE FALSE
  OBVIOUS
<1>1. PICK x \in Nat \ S : \A y \in Nat \ S : x <= y
  BY Least
<1>2. x - 1 \in Nat /\ x - 1 \in S
  BY <1>1
<1> QED BY <1>1, <1>2

\* The recursive definition of Ends has a solution, which is Ends.
LEMMA EndsStep ==
    ASSUME NEW lines \in Seq(Lines)
    PROVE  /\ Ends(lines)[0] = 0
           /\ \A n \in 1..Len(lines) :
                 Ends(lines)[n] = Ends(lines)[n - 1] + Len(lines[n])
<1> DEFINE N == Len(lines)
           Solves(f, k) ==
             f = [n \in 0..k |-> IF n = 0 THEN 0 ELSE f[n - 1] + Len(lines[n])]
           S == {k \in Nat : \E f : Solves(f, k)}
<1>1. 0 \in S
  <2> DEFINE f == [n \in 0..0 |-> 0]
  <2>1. Solves(f, 0)
    OBVIOUS
  <2> QED BY <2>1
<1>2. ASSUME NEW k \in S PROVE k + 1 \in S
  <2>1. k \in Nat
    OBVIOUS
  <2>2. PICK f : Solves(f, k)
    OBVIOUS
  <2> DEFINE g == [n \in 0..(k + 1) |-> IF n = k + 1 THEN f[k] + Len(lines[k + 1])
                                        ELSE f[n]]
  <2>3. g[0] = 0
    BY <2>1, <2>2
  <2>4. ASSUME NEW n \in 0..(k + 1), n # 0
        PROVE  g[n] = g[n - 1] + Len(lines[n])
    <3>1. n - 1 \in 0..k /\ g[n - 1] = f[n - 1]
      BY <2>1, <2>4
    <3>2. CASE n = k + 1
      BY <2>1, <3>1, <3>2
    <3>3. CASE n # k + 1
      <4>1. n \in 0..k
        BY <2>1, <3>3
      <4>2. f[n] = f[n - 1] + Len(lines[n])
        BY <2>2, <2>4, <4>1
      <4> QED BY <3>1, <3>3, <4>2
    <3> QED BY <3>2, <3>3
  <2>5. g = [n \in 0..(k + 1) |-> g[n]]
    OBVIOUS
  <2> HIDE DEF g
  <2>6. Solves(g, k + 1)
    BY <2>3, <2>4, <2>5
  <2> HIDE DEF Solves
  <2> QED BY <2>1, <2>6
<1>3. N \in S
  <2>1. S \in SUBSET Nat /\ N \in Nat
    OBVIOUS
  <2> HIDE DEF S, N
  <2> QED BY <1>1, <1>2, <2>1, Induct
<1> DEFINE P == Ends(lines)
<1>4. P = CHOOSE f : Solves(f, N)
  BY DEF Ends
<1>5. Solves(P, N)
  BY <1>3, <1>4
<1> HIDE DEF P
<1> QED BY <1>5 DEF P

\* Each line ends after the one before it.
LEMMA EndsGrow ==
    ASSUME NEW lines \in Seq(Lines)
    PROVE  /\ \A n \in 0..Len(lines) : Ends(lines)[n] \in Nat
           /\ \A n \in 1..Len(lines) : /\ lines[n] \in Lines
                                       /\ Len(lines[n]) \in Nat /\ Len(lines[n]) >= 2
           /\ \A m, n \in 0..Len(lines) : m < n => Ends(lines)[m + 1] <= Ends(lines)[n]
<1> DEFINE N == Len(lines)
           E(k) == Ends(lines)[k]
           S == {k \in Nat : k <= N => E(k) \in Nat}
           T == {k \in Nat : k <= N => \A m \in 0..(k - 1) : E(m + 1) <= E(k)}
<1>0. N \in Nat
  OBVIOUS
<1>1. ASSUME NEW n \in 1..N PROVE lines[n] \in Lines /\ Len(lines[n]) \in Nat /\ Len(lines[n]) >= 2
  <2>1. lines[n] \in Lines
    BY <1>1
  <2>2. lines[n] \in Seq(Bytes) /\ Len(lines[n]) >= 2
    BY <2>1, LineAssumption
  <2> QED BY <2>1, <2>2
<1>2. E(0) = 0 /\ \A n \in 1..N : E(n) = E(n - 1) + Len(lines[n])
  BY EndsStep
<1> HIDE DEF E, N
<1>3. S = Nat
  <2>1. 0 \in S
    BY <1>2
  <2>2. ASSUME NEW k \in S PROVE k + 1 \in S
    <3>1. ASSUME k + 1 <= N PROVE E(k + 1) \in Nat
      <4>1. k \in Nat /\ k + 1 \in 1..N /\ E(k) \in Nat
        BY <1>0, <3>1
      <4> QED BY <1>1, <1>2, <4>1
    <3> QED BY <3>1
  <2> HIDE DEF S
  <2> QED BY <2>1, <2>2, Induct DEF S
<1>4. \A n \in 0..N : E(n) \in Nat
  BY <1>0, <1>3
<1>5. T = Nat
  <2>1. 0 \in T
    OBVIOUS
  <2>2. ASSUME NEW k \in T PROVE k + 1 \in T
    <3>1. ASSUME k + 1 <= N, NEW m \in 0..k PROVE E(m + 1) <= E(k + 1)
      <4>1. k \in Nat /\ k + 1 \in 1..N /\ k \in 0..N /\ m + 1 \in 0..N
        BY <1>0, <3>1
      <4>2. E(k) <= E(k + 1) /\ E(k) \in Nat /\ E(k + 1) \in Nat /\ E(m + 1) \in Nat
        BY <1>1, <1>2, <1>4, <4>1, SMTT(20)
      <4>3. CASE m = k
        BY <4>2, <4>3
      <4>4. CASE m # k
        <5>1. m \in 0..(k - 1)
          BY <4>1, <4>4
        <5>2. E(m + 1) <= E(k)
          BY <1>0, <3>1, <4>1, <5>1
        <5> QED BY <4>2, <5>2
      <4> QED BY <4>3, <4>4
    <3> QED BY <3>1
  <2> HIDE DEF T
  <2> QED BY <2>1, <2>2, Induct DEF T
<1>6. \A m, n \in 0..N : m < n => E(m + 1) <= E(n)
  BY <1>0, <1>5
<1> QED BY <1>1, <1>4, <1>6 DEF E, N

\* What is sent later ends later.
LEMMA EndsMore ==
    ASSUME NEW lines \in Seq(Lines), NEW line \in Lines
    PROVE  \A n \in 0..Len(lines) : Ends(Append(lines, line))[n] = Ends(lines)[n]
<1> DEFINE N == Len(lines)
           more == Append(lines, line)
           S == {k \in Nat : k <= N => Ends(more)[k] = Ends(lines)[k]}
<1>1. /\ N \in Nat /\ more \in Seq(Lines) /\ Len(more) = N + 1
      /\ \A n \in 1..N : more[n] = lines[n]
  OBVIOUS
<1> HIDE DEF more
<1>2. Ends(more)[0] = 0 /\ \A n \in 1..(N + 1) : Ends(more)[n] = Ends(more)[n - 1] + Len(more[n])
  BY <1>1, EndsStep
<1>3. Ends(lines)[0] = 0 /\ \A n \in 1..N : Ends(lines)[n] = Ends(lines)[n - 1] + Len(lines[n])
  BY EndsStep
<1> HIDE DEF N
<1>4. 0 \in S
  BY <1>2, <1>3
<1>5. ASSUME NEW k \in S PROVE k + 1 \in S
  <2>1. ASSUME k + 1 <= N PROVE Ends(more)[k + 1] = Ends(lines)[k + 1]
    <3>1. k \in Nat /\ k + 1 \in 1..N /\ Ends(more)[k] = Ends(lines)[k]
      BY <1>1, <2>1
    <3>2. Ends(more)[k + 1] = Ends(more)[k] + Len(more[k + 1])
      BY <1>1, <1>2, <3>1
    <3>3. Ends(lines)[k + 1] = Ends(lines)[k] + Len(lines[k + 1])
      BY <1>3, <3>1
    <3> QED BY <1>1, <3>1, <3>2, <3>3
  <2> QED BY <2>1
<1>6. S = Nat
  <2> HIDE DEF S
  <2> QED BY <1>4, <1>5, Induct DEF S
<1> QED BY <1>1, <1>6 DEF more, N

-----------------------------------------------------------------------------
(***************************************************************************)
(* The bytes of a line, counted.                                           *)
(***************************************************************************)
LEMMA FieldIs ==
    ASSUME NEW line, NEW m \in Nat
    PROVE  FieldAt(line, m + 1) =
             IF Cardinality(Spaces(line, m)) < 2 THEN Cardinality(Spaces(line, m)) + 1 ELSE 3
BY DEF FieldAt, Spaces

\* One byte more.
LEMMA CountNext ==
    ASSUME NEW line, NEW m \in Nat
    PROVE  /\ Cardinality(Spaces(line, m)) \in Nat
           /\ Cardinality(Spaces(line, m + 1)) =
                Cardinality(Spaces(line, m)) + (IF line[m + 1] = "space" THEN 1 ELSE 0)
           /\ \A f : /\ Cardinality(Characters(line, m, f)) \in Nat
                     /\ Cardinality(Characters(line, m + 1, f)) =
                          Cardinality(Characters(line, m, f))
                            + (IF line[m + 1] = "printable" /\ FieldAt(line, m + 1) = f
                               THEN 1 ELSE 0)
<1>1. ASSUME NEW A, NEW B, A \subseteq 1..m, NEW yes \in BOOLEAN,
             B = A \cup (IF yes THEN {m + 1} ELSE {})
      PROVE  /\ Cardinality(A) \in Nat
             /\ Cardinality(B) = Cardinality(A) + (IF yes THEN 1 ELSE 0)
  <2>1. IsFiniteSet(1..m)
    BY FS_Interval
  <2>2. A \in SUBSET (1..m)
    BY <1>1
  <2>3. IsFiniteSet(A)
    BY <2>1, <2>2, FS_Subset
  <2>4. m + 1 \notin A
    BY <2>2
  <2>5. CASE yes
    BY <1>1, <2>3, <2>4, <2>5, FS_AddElement, FS_CardinalityType
  <2>6. CASE ~yes
    BY <1>1, <2>3, <2>6, FS_CardinalityType
  <2> QED BY <2>5, <2>6
<1>2. /\ Cardinality(Spaces(line, m)) \in Nat
      /\ Cardinality(Spaces(line, m + 1)) =
           Cardinality(Spaces(line, m)) + (IF line[m + 1] = "space" THEN 1 ELSE 0)
  <2> DEFINE A == Spaces(line, m)
             B == Spaces(line, m + 1)
             yes == line[m + 1] = "space"
  <2>1. A \subseteq 1..m /\ B = A \cup (IF yes THEN {m + 1} ELSE {}) /\ yes \in BOOLEAN
    BY DEF Spaces
  <2> HIDE DEF A, B, yes
  <2>2. Cardinality(A) \in Nat /\ Cardinality(B) = Cardinality(A) + (IF yes THEN 1 ELSE 0)
    BY <2>1, <1>1
  <2> QED BY <2>2 DEF A, B, yes
<1>3. ASSUME NEW f
      PROVE  /\ Cardinality(Characters(line, m, f)) \in Nat
             /\ Cardinality(Characters(line, m + 1, f)) =
                  Cardinality(Characters(line, m, f))
                    + (IF line[m + 1] = "printable" /\ FieldAt(line, m + 1) = f
                       THEN 1 ELSE 0)
  <2> DEFINE A == Characters(line, m, f)
             B == Characters(line, m + 1, f)
             yes == line[m + 1] = "printable" /\ FieldAt(line, m + 1) = f
  <2>1. A \subseteq 1..m /\ B = A \cup (IF yes THEN {m + 1} ELSE {}) /\ yes \in BOOLEAN
    BY DEF Characters
  <2> HIDE DEF A, B, yes
  <2>2. Cardinality(A) \in Nat /\ Cardinality(B) = Cardinality(A) + (IF yes THEN 1 ELSE 0)
    BY <2>1, <1>1
  <2> QED BY <2>2 DEF A, B, yes
<1> QED BY <1>2, <1>3

\* More bytes have no fewer characters or spaces.
LEMMA CountGrows ==
    ASSUME NEW line, NEW m \in Nat, NEW p \in Nat, m <= p
    PROVE  /\ Cardinality(Spaces(line, m)) <= Cardinality(Spaces(line, p))
           /\ \A f : Cardinality(Characters(line, m, f)) <= Cardinality(Characters(line, p, f))
<1>1. ASSUME NEW A, NEW B, A \subseteq B, B \subseteq 1..p
      PROVE  Cardinality(A) <= Cardinality(B)
  <2>1. IsFiniteSet(1..p) /\ B \in SUBSET (1..p) /\ A \in SUBSET B
    BY <1>1, FS_Interval
  <2>2. IsFiniteSet(B)
    BY <2>1, FS_Subset
  <2> QED BY <2>1, <2>2, FS_Subset
<1>2. Spaces(line, m) \subseteq Spaces(line, p) /\ Spaces(line, p) \subseteq 1..p
  BY DEF Spaces
<1>3. ASSUME NEW f
      PROVE  /\ Characters(line, m, f) \subseteq Characters(line, p, f)
             /\ Characters(line, p, f) \subseteq 1..p
  BY DEF Characters
<1> QED BY <1>1, <1>2, <1>3

\* Nothing has been written yet.
LEMMA CountNone ==
    ASSUME NEW line
    PROVE  /\ Cardinality(Spaces(line, 0)) = 0
           /\ \A f : Cardinality(Characters(line, 0, f)) = 0
<1>1. Spaces(line, 0) = {} /\ \A f : Characters(line, 0, f) = {}
  BY DEF Spaces, Characters
<1> QED BY <1>1, FS_EmptySet

(***************************************************************************)
(* One line.  m of its bytes have been processed, b is the next.           *)
(***************************************************************************)
\* The CR and the LF at its end are the only ones that end it.
LEMMA LineIs ==
    ASSUME NEW line \in Lines
    PROVE  /\ Len(line) \in Nat /\ Len(line) >= 2
           /\ line[Len(line)] = "LF" /\ line[Len(line) - 1] = "CR"
           /\ \A i \in 1..Len(line) : line[i] \in Bytes
           /\ \A i \in 1..(Len(line) - 1) :
                line[i] = "CR" /\ line[i + 1] = "LF" => i = Len(line) - 1
<1>1. line \in Seq(Bytes) /\ Len(line) >= 2
  BY LineAssumption
<1>2. Len(line) \in Nat /\ \A i \in 1..Len(line) : line[i] \in Bytes
  BY <1>1
<1>3. \A i \in 2..Len(line) : line[i - 1] = "CR" /\ line[i] = "LF" <=> i = Len(line)
  BY LineAssumption DEF EndsLine
<1>4. Len(line) \in 2..Len(line)
  BY <1>1, <1>2
<1>5. line[Len(line)] = "LF" /\ line[Len(line) - 1] = "CR"
  BY <1>3, <1>4
<1>6. ASSUME NEW i \in 1..(Len(line) - 1), line[i] = "CR", line[i + 1] = "LF"
      PROVE  i = Len(line) - 1
  <2>1. i + 1 \in 2..Len(line) /\ (i + 1) - 1 = i
    BY <1>2
  <2>2. i + 1 = Len(line)
    BY <1>3, <1>6, <2>1
  <2> QED BY <1>2, <2>2
<1> QED BY <1>1, <1>2, <1>5, <1>6

\* A new line is what no bytes make of it.
LEMMA BeginsWritten ==
    ASSUME NEW line
    PROVE  Writes(createNewNode, line, 0) /\ Writing(createNewNode)
<1>1. StatusAfter(0) = "WRITINGCOMMAND"
  BY DEF StatusAfter
<1>2. Written(createNewNode, line, 0)
  BY <1>1, CountNone DEF Written, IsText, createNewNode
<1>3. createNewNode.receivedCR = FALSE
  BY DEF createNewNode
<1> QED BY <1>2, <1>3 DEF Writes, Writing, createNewNode

\* The statuses, by the number of spaces.
LEMMA StatusIs ==
    ASSUME NEW s \in Nat
    PROVE  /\ StatusAfter(s) \in {"WRITINGCOMMAND", "WRITINGARG1", "WRITINGARG2", "INVALID"}
           /\ StatusAfter(s) = "INVALID" <=> s > 2
           /\ FieldOf(StatusAfter(s)) = IF s < 2 THEN s + 1 ELSE 3
           /\ StatusAfter(s + 1) = statusAfterSpace(FieldOf(StatusAfter(s)))
<1>1. CASE s = 0
  BY <1>1 DEF StatusAfter, FieldOf, statusAfterSpace
<1>2. CASE s = 1
  BY <1>2 DEF StatusAfter, FieldOf, statusAfterSpace
<1>3. CASE s = 2
  BY <1>3 DEF StatusAfter, FieldOf, statusAfterSpace
<1>4. CASE s > 2
  BY <1>4 DEF StatusAfter, FieldOf, statusAfterSpace
<1> QED BY <1>1, <1>2, <1>3, <1>4

\* A line that is refused deserves it: for a byte that is no text, for a field that
\* is too long, or for a third space.
LEMMA Deserved ==
    ASSUME NEW line \in Lines, NEW m \in 0..Len(line),
           \/ \E i \in 1..(Len(line) - 2) : line[i] \notin Text
           \/ m <= Len(line) - 2 /\ \E f \in Fields :
                 Cardinality(Characters(line, m, f)) > maxSize(f)
           \/ Cardinality(Spaces(line, m)) > 2
    PROVE  "COMPLETEINVALID" \in Verdicts(line)
<1>1. CASE \E i \in 1..(Len(line) - 2) : line[i] \notin Text
  BY <1>1 DEF Verdicts, WellFormed
<1>2. ASSUME m <= Len(line) - 2, NEW f \in Fields,
             Cardinality(Characters(line, m, f)) > maxSize(f)
      PROVE  ~WellFormed(line)
  <2>1. m \in Nat /\ Len(line) - 2 \in Nat
    BY LineIs
  <2>2. Cardinality(Characters(line, m, f)) <= Cardinality(Characters(line, Len(line) - 2, f))
    BY <1>2, <2>1, CountGrows
  <2>3. /\ Cardinality(Characters(line, m, f)) \in Nat
        /\ Cardinality(Characters(line, Len(line) - 2, f)) \in Nat
        /\ maxSize(f) \in Nat
    BY <2>1, CountNext, SizeAssumption DEF maxSize
  <2>4. ~(Length(line, f) <= maxSize(f))
    BY <1>2, <2>2, <2>3 DEF Length
  <2> QED BY <2>4 DEF WellFormed
<1>3. CASE Cardinality(Spaces(line, m)) > 2
  <2>1. m \in Nat /\ Len(line) \in Nat /\ m <= Len(line)
    BY LineIs
  <2>2. Cardinality(Spaces(line, m)) <= Cardinality(Spaces(line, Len(line)))
    BY <2>1, CountGrows
  <2>3. Cardinality(Spaces(line, m)) \in Nat /\ Cardinality(Spaces(line, Len(line))) \in Nat
    BY <2>1, CountNext
  <2>4. Cardinality(Spaces(line, Len(line))) > 2
    BY <1>3, <2>2, <2>3
  <2>5. TooMany(line)
    BY <2>4 DEF TooMany, Spaces
  <2> QED BY <2>5 DEF Verdicts
<1> QED BY <1>1, <1>2, <1>3 DEF Verdicts

\* A space: the next field.
LEMMA WritesSpace ==
    ASSUME NEW line, NEW m \in Nat, NEW n \in Node, Writes(n, line, m), ~n.receivedCR,
           line[m + 1] = "space",
           NEW new, new = [n EXCEPT !.status = statusAfterSpace(FieldOf(n.status))]
    PROVE  Writes(new, line, m + 1) /\ new.status = statusAfterSpace(FieldOf(n.status))
<1> DEFINE s == Cardinality(Spaces(line, m))
<1>1. Written(n, line, m)
  BY DEF Writes
<1>2. /\ s \in Nat /\ Cardinality(Spaces(line, m + 1)) = s + 1
      /\ \A f \in Fields :
           Cardinality(Characters(line, m + 1, f)) = Cardinality(Characters(line, m, f))
  BY CountNext
<1>3. n.status = StatusAfter(s) /\ StatusAfter(s + 1) = statusAfterSpace(FieldOf(n.status))
  BY <1>1, <1>2, StatusIs DEF Written
<1>4. /\ new.status = statusAfterSpace(FieldOf(n.status))
      /\ new.length = n.length /\ new.receivedCR = n.receivedCR
  BY DEF Node
<1>5. IsText(line, m + 1)
  BY <1>1 DEF Written, IsText, Text
<1>6. Written(new, line, m + 1)
  BY <1>1, <1>2, <1>3, <1>4, <1>5 DEF Written
<1> QED BY <1>4, <1>6 DEF Writes

\* A character of the field.
LEMMA WritesPrintable ==
    ASSUME NEW line, NEW m \in Nat, NEW n \in Node, Writes(n, line, m), ~n.receivedCR,
           line[m + 1] = "printable",
           NEW new, new = [n EXCEPT !.length[FieldOf(n.status)] = @ + 1]
    PROVE  Writes(new, line, m + 1) /\ new.status = n.status
<1> DEFINE s == Cardinality(Spaces(line, m))
           f0 == FieldOf(n.status)
<1>1. Written(n, line, m)
  BY DEF Writes
<1>2. /\ s \in Nat /\ Cardinality(Spaces(line, m + 1)) = s
      /\ \A f \in Fields :
           Cardinality(Characters(line, m + 1, f)) =
             Cardinality(Characters(line, m, f)) + (IF FieldAt(line, m + 1) = f THEN 1 ELSE 0)
  BY CountNext
<1>3. n.status = StatusAfter(s) /\ FieldAt(line, m + 1) = f0 /\ f0 \in Fields
  BY <1>1, <1>2, StatusIs, FieldIs DEF Written, Fields
<1>4. n.length \in [Fields -> Nat]
  BY DEF Node
<1> HIDE DEF f0
<1>5. new = [n EXCEPT !.length = [n.length EXCEPT ![f0] = n.length[f0] + 1]]
  BY DEF f0
<1>6. /\ new.status = n.status /\ new.receivedCR = n.receivedCR
      /\ new.length = [n.length EXCEPT ![f0] = n.length[f0] + 1]
  BY <1>5 DEF Node
<1>7. \A f \in Fields : new.length[f] = n.length[f] + (IF f0 = f THEN 1 ELSE 0)
  BY <1>3, <1>4, <1>6
<1>8. IsText(line, m + 1)
  BY <1>1 DEF Written, IsText, Text
<1> HIDE DEF s
<1>9. Written(new, line, m + 1)
  BY <1>1, <1>2, <1>3, <1>6, <1>7, <1>8 DEF Written, s
<1> QED BY <1>6, <1>9 DEF Writes

\* The first CR: nothing more is written.
LEMMA WritesCR ==
    ASSUME NEW line, NEW m \in Nat, NEW n \in Node, Writes(n, line, m), ~n.receivedCR,
           line[m + 1] = "CR",
           NEW new, new = [n EXCEPT !.receivedCR = TRUE]
    PROVE  Writes(new, line, m + 1) /\ new.status = n.status
<1>1. new.status = n.status /\ new.length = n.length /\ new.receivedCR = TRUE
  BY DEF Node
<1>2. Written(n, line, m) /\ (m + 1) - 1 = m /\ m + 1 >= 1
  BY DEF Writes
<1>3. Written(new, line, m)
  BY <1>1, <1>2 DEF Written
<1> QED BY <1>1, <1>2, <1>3 DEF Writes

\* The LF of a CRLF: the line is over, and what it is has been read of it.
LEMMA WritesLF ==
    ASSUME NEW line \in Lines, NEW m \in 0..(Len(line) - 1), NEW n \in Node,
           Writes(n, line, m), n.receivedCR, Fits(n), line[m + 1] = "LF",
           NEW new \in Node, new.length = n.length,
           new.status = IF n.length[1] \in KnownLengths THEN "COMPLETE" ELSE "COMPLETEINVALID"
    PROVE  m + 1 = Len(line) /\ Judged(new, line)
<1>1. m >= 1 /\ line[m] = "CR" /\ Written(n, line, m - 1)
  BY DEF Writes
<1>2. m + 1 = Len(line)
  BY <1>1, LineIs
<1>3. m - 1 = Len(line) - 2 /\ m - 1 \in Nat
  BY <1>1, <1>2, LineIs
<1>4. \A f \in Fields : n.length[f] = Length(line, f)
  BY <1>1, <1>3 DEF Written, Length
<1>5. \A i \in 1..(Len(line) - 2) : line[i] \in Text
  BY <1>1, <1>3 DEF Written, IsText
<1>6. \A f \in Fields : Length(line, f) <= maxSize(f)
  BY <1>4 DEF Fits
<1>7. WellFormed(line) <=> n.length[1] \in KnownLengths
  BY <1>4, <1>5, <1>6 DEF WellFormed, Fields
<1>8. new.status \in Verdicts(line)
  BY <1>7 DEF Verdicts
<1> QED BY <1>2, <1>4, <1>8 DEF Judged

\* A CR in the middle of a line.
LEMMA WritesBad ==
    ASSUME NEW line \in Lines, NEW m \in 0..(Len(line) - 1), NEW n \in Node,
           Writes(n, line, m), n.receivedCR, line[m + 1] # "LF",
           NEW new, new = [n EXCEPT !.status = "INVALID"]
    PROVE  m + 1 < Len(line) /\ Discards(new, line, m + 1)
<1>1. new.status = "INVALID" /\ new.receivedCR = TRUE
  BY DEF Node
<1>2. m >= 1 /\ line[m] = "CR" /\ Written(n, line, m - 1)
  BY DEF Writes
<1>3. m + 1 < Len(line) /\ m \in 1..(Len(line) - 2)
  BY <1>2, LineIs
<1>4. line[m] \notin Text
  BY <1>2 DEF Text
<1>5. "COMPLETEINVALID" \in Verdicts(line)
  BY <1>3, <1>4, Deserved
<1>6. (m + 1) - 1 = m /\ (m + 1) - 2 = m - 1 /\ m + 1 >= 2
  BY <1>2
<1> QED BY <1>1, <1>2, <1>3, <1>5, <1>6 DEF Discards, Written

\* A byte that is not written.
LEMMA WritesReject ==
    ASSUME NEW line \in Lines, NEW m \in 0..(Len(line) - 1), NEW n \in Node,
           Writes(n, line, m), ~n.receivedCR, Fits(n),
           \/ line[m + 1] \in {"LF", "other"}
           \/ line[m + 1] = "printable" /\ n.length[FieldOf(n.status)] >= maxSize(FieldOf(n.status)),
           NEW new, new = [n EXCEPT !.status = "INVALID"]
    PROVE  Discards(new, line, m)
<1>1. new.status = "INVALID" /\ new.receivedCR = n.receivedCR
  BY DEF Node
<1>2. Written(n, line, m) /\ m \in Nat
  BY DEF Writes
<1>3. \A i \in 1..m : line[i] # "CR"
  BY <1>2 DEF Written, IsText, Text
<1>4. m <= Len(line) - 3 /\ m + 1 \in 1..(Len(line) - 2)
  <2>1. m # Len(line) - 1
    BY <1>2, <1>3, LineIs
  <2>2. m # Len(line) - 2
    BY <1>2, LineIs
  <2> QED BY <2>1, <2>2, <1>2, LineIs
<1>5. "COMPLETEINVALID" \in Verdicts(line)
  <2>1. CASE line[m + 1] \in {"LF", "other"}
    BY <1>4, <2>1, Deserved DEF Text
  <2>2. CASE line[m + 1] = "printable" /\ n.length[FieldOf(n.status)] >= maxSize(FieldOf(n.status))
    <3> DEFINE s == Cardinality(Spaces(line, m))
               f == FieldOf(n.status)
    <3>1. s \in Nat /\ n.status = StatusAfter(s)
      BY <1>2, CountNext DEF Written
    <3>2. FieldAt(line, m + 1) = f /\ f \in Fields
      BY <1>2, <3>1, StatusIs, FieldIs DEF Fields
    <3>3. Cardinality(Characters(line, m + 1, f)) = n.length[f] + 1
      BY <1>2, <2>2, <3>2, CountNext DEF Written
    <3>4. n.length[f] \in Nat /\ maxSize(f) \in Nat
      BY <3>2, SizeAssumption DEF Node, maxSize
    <3> HIDE DEF f
    <3>5. Cardinality(Characters(line, m + 1, f)) > maxSize(f)
      BY <2>2, <3>3, <3>4 DEF f
    <3>6. m + 1 \in 0..Len(line) /\ m + 1 <= Len(line) - 2
      BY <1>4, LineIs
    <3> QED BY <3>2, <3>5, <3>6, Deserved
  <2> QED BY <2>1, <2>2
<1> QED BY <1>1, <1>2, <1>3, <1>5 DEF Discards

\* An argument too many, and the data end.
LEMMA WritesEnd ==
    ASSUME NEW line \in Lines, NEW m \in 0..Len(line), NEW n \in Node,
           Writes(n, line, m), n.status = "INVALID"
    PROVE  Discards(n, line, m)
<1>0. m \in Nat /\ Len(line) \in Nat /\ n.receivedCR \in BOOLEAN
  BY LineIs DEF Node
<1>1. CASE n.receivedCR
  <2>1. m >= 1 /\ line[m] = "CR" /\ Written(n, line, m - 1)
    BY <1>1 DEF Writes
  <2>2. m - 1 \in Nat /\ m - 1 \in 0..Len(line)
    BY <1>0, <2>1
  <2>3. Cardinality(Spaces(line, m - 1)) > 2
    BY <2>1, <2>2, CountNext, StatusIs DEF Written
  <2>4. "COMPLETEINVALID" \in Verdicts(line)
    BY <2>2, <2>3, Deserved
  <2> QED BY <1>1, <2>1, <2>4 DEF Discards
<1>2. CASE ~n.receivedCR
  <2>1. Written(n, line, m)
    BY <1>2 DEF Writes
  <2>2. Cardinality(Spaces(line, m)) > 2
    BY <1>0, <2>1, CountNext, StatusIs DEF Written
  <2>3. "COMPLETEINVALID" \in Verdicts(line)
    BY <2>2, Deserved
  <2>4. m >= 1 => line[m] # "CR"
    BY <1>0, <2>1 DEF Written, IsText, Text
  <2> QED BY <1>2, <2>3, <2>4 DEF Discards
<1> QED BY <1>0, <1>1, <1>2

(***************************************************************************)
(* A line that is discarded.                                               *)
(***************************************************************************)
LEMMA DiscardsCR ==
    ASSUME NEW line \in Lines, NEW m \in 0..(Len(line) - 1), NEW n \in Node,
           Discards(n, line, m), line[m + 1] = "CR",
           NEW new, new = [n EXCEPT !.receivedCR = TRUE]
    PROVE  m + 1 < Len(line) /\ Discards(new, line, m + 1)
<1>1. new.status = n.status /\ new.receivedCR = TRUE
  BY DEF Node
<1>2. m + 1 < Len(line) /\ m + 1 >= 1
  BY LineIs
<1> QED BY <1>1, <1>2 DEF Discards

\* A byte that is neither a CR nor the LF after one: it is not the last.
LEMMA DiscardsOther ==
    ASSUME NEW line \in Lines, NEW m \in 0..(Len(line) - 1), NEW n \in Node,
           Discards(n, line, m), line[m + 1] # "CR",
           line[m + 1] = "LF" => ~n.receivedCR,
           NEW new, new = [n EXCEPT !.receivedCR = FALSE]
    PROVE  m + 1 < Len(line) /\ Discards(new, line, m + 1)
<1>1. new.status = n.status /\ new.receivedCR = FALSE
  BY DEF Node
<1>2. m + 1 < Len(line)
  BY LineIs DEF Discards
<1> QED BY <1>1, <1>2 DEF Discards

\* The LF of the CRLF, and no other: the line is not a stray one.
LEMMA DiscardsLF ==
    ASSUME NEW line \in Lines, ~Stray(line), NEW m \in 0..(Len(line) - 1), NEW n \in Node,
           Discards(n, line, m), n.receivedCR, line[m + 1] = "LF",
           NEW new, new = [n EXCEPT !.status = "COMPLETEINVALID"]
    PROVE  m + 1 = Len(line) /\ Judged(new, line)
<1>1. new.status = "COMPLETEINVALID" /\ "COMPLETEINVALID" \in Verdicts(line)
  BY DEF Node, Discards
<1>2. Len(line) \in Nat /\ m \in Nat
  BY LineIs
<1>3. CASE m >= 1 /\ line[m] = "CR"
  BY <1>1, <1>3, LineIs DEF Judged
<1>4. CASE m >= 2 /\ line[m - 1] = "CR" /\ IsText(line, m - 2)
  <2> SUFFICES ASSUME m + 1 # Len(line) PROVE FALSE
    BY <1>1 DEF Judged
  <2> DEFINE i == m + 1
  <2>1. i \in 3..(Len(line) - 1) /\ i - 2 = m - 1 /\ i - 3 = m - 2
    BY <1>2, <1>4
  <2>2. line[i - 2] = "CR" /\ line[i] = "LF" /\ \A j \in 1..(i - 3) : line[j] \in Text
    BY <1>4, <2>1 DEF IsText
  <2> HIDE DEF i
  <2> QED BY <2>1, <2>2 DEF Stray
<1> QED BY <1>3, <1>4 DEF Discards

-----------------------------------------------------------------------------
(***************************************************************************)
(* The list and the commands.                                              *)
(***************************************************************************)
LEMMA CommandsAre ==
    ASSUME IInv
    PROVE  /\ Made \in Nat /\ commands \in Seq(Node)
           /\ Made = Len(executed) + Len(list) - (IF Unfinished THEN 1 ELSE 0)
           /\ \A i \in 1..Made :
                commands[i] = IF i <= Len(executed) THEN executed[i]
                              ELSE list[i - Len(executed)]
<1>1. list \in Seq(Node) /\ executed \in Seq(Node)
  BY DEF IInv, TypeOK
<1> DEFINE made == IF Unfinished THEN Front(list) ELSE list
<1>2. /\ made \in Seq(Node)
      /\ Len(made) = Len(list) - (IF Unfinished THEN 1 ELSE 0)
      /\ \A i \in 1..Len(made) : made[i] = list[i]
  <2>1. CASE Unfinished
    <3>1. Len(list) \in Nat \ {0}
      BY <1>1, <2>1 DEF Unfinished
    <3>2. made = SubSeq(list, 1, Len(list) - 1)
      BY <2>1 DEF Front
    <3> QED BY <1>1, <2>1, <3>1, <3>2, SMTT(20)
  <2>2. CASE ~Unfinished
    BY <1>1, <2>2
  <2> QED BY <2>1, <2>2
<1> HIDE DEF made
<1>3. commands = executed \o made
  BY DEF commands, made
<1>4. /\ commands \in Seq(Node) /\ Len(commands) = Len(executed) + Len(made)
      /\ \A i \in 1..Len(commands) :
           commands[i] = IF i <= Len(executed) THEN executed[i] ELSE made[i - Len(executed)]
  BY <1>1, <1>2, <1>3
<1>5. Len(executed) \in Nat /\ Len(made) \in Nat
  BY <1>1, <1>2
<1> QED BY <1>2, <1>4, <1>5 DEF Made

\* The unfinished line is replaced by one that is not finished either, ...
LEMMA GoesOn ==
    ASSUME IInv, IInv', Unfinished, NEW n \in Node, ~Finished(n), Becomes(n),
           UNCHANGED executed
    PROVE  Unfinished' /\ node' = n /\ Made' = Made /\ commands' = commands
<1>1. list \in Seq(Node) /\ list # <<>> /\ Len(list) \in Nat \ {0}
  BY DEF IInv, TypeOK, Unfinished
<1>2. /\ Len(list') = Len(list) /\ list' # <<>> /\ list' \in Seq(Node)
      /\ \A i \in 1..Len(list) : list'[i] = IF i = Len(list) THEN n ELSE list[i]
  BY <1>1 DEF Becomes
<1>3. node' = n
  BY <1>1, <1>2 DEF node, Last
<1>4. Unfinished'
  BY <1>2, <1>3 DEF Unfinished, Finished
<1>5. Front(list') = Front(list)
  BY <1>1, <1>2 DEF Front
<1>6. commands' = commands
  BY <1>4, <1>5 DEF commands
<1> QED BY <1>3, <1>4, <1>6 DEF Made

\* ... or by a finished one, which is one more command.
LEMMA IsMade ==
    ASSUME IInv, IInv', Unfinished, NEW n \in Node, Finished(n), Becomes(n),
           UNCHANGED executed
    PROVE  /\ ~Unfinished' /\ Made \in Nat /\ Made' = Made + 1
           /\ commands'[Made + 1] = n
           /\ \A i \in 1..Made : commands'[i] = commands[i]
<1>1. list \in Seq(Node) /\ list # <<>> /\ Len(list) \in Nat \ {0} /\ executed \in Seq(Node)
  BY DEF IInv, TypeOK, Unfinished
<1>2. /\ Len(list') = Len(list) /\ list' # <<>> /\ list' \in Seq(Node)
      /\ \A i \in 1..Len(list) : list'[i] = IF i = Len(list) THEN n ELSE list[i]
  BY <1>1 DEF Becomes
<1>3. node' = n
  BY <1>1, <1>2 DEF node, Last
<1>4. ~Unfinished'
  BY <1>3 DEF Unfinished, Finished
<1> DEFINE E == Len(executed)
<1>5. /\ Made = E + Len(list) - 1 /\ Made \in Nat
      /\ \A i \in 1..Made : commands[i] = IF i <= E THEN executed[i] ELSE list[i - E]
  BY CommandsAre
<1>6. commands' = executed \o list'
  BY <1>4 DEF commands
<1>7. /\ Len(commands') = E + Len(list) /\ E \in Nat
      /\ \A i \in 1..(E + Len(list)) :
           commands'[i] = IF i <= E THEN executed[i] ELSE list'[i - E]
  <2>1. ASSUME NEW a \in Seq(Node), NEW b \in Seq(Node)
        PROVE  /\ Len(a \o b) = Len(a) + Len(b) /\ Len(a) \in Nat
               /\ \A i \in 1..(Len(a) + Len(b)) :
                    (a \o b)[i] = IF i <= Len(a) THEN a[i] ELSE b[i - Len(a)]
    OBVIOUS
  <2> QED BY <1>1, <1>2, <1>6, <2>1
<1>8. Made' = Made + 1
  BY <1>1, <1>5, <1>7 DEF Made
<1> HIDE DEF E
<1>9. commands'[Made + 1] = n
  <2>1. /\ Made + 1 = E + Len(list) /\ Made + 1 \in 1..(E + Len(list))
        /\ ~(Made + 1 <= E) /\ (Made + 1) - E = Len(list)
    BY <1>1, <1>5, <1>7
  <2>2. commands'[Made + 1] = list'[(Made + 1) - E]
    BY <1>7, <2>1
  <2> QED BY <1>1, <1>2, <2>1, <2>2
<1>10. ASSUME NEW i \in 1..Made PROVE commands'[i] = commands[i]
  <2>1. i \in 1..(E + Len(list)) /\ i \in Nat /\ i < E + Len(list)
    BY <1>1, <1>5, <1>7
  <2>2. CASE i <= E
    BY <1>5, <1>7, <2>1, <2>2
  <2>3. CASE ~(i <= E)
    <3>1. i - E \in 1..Len(list) /\ i - E # Len(list)
      BY <1>1, <1>7, <2>1, <2>3
    <3> QED BY <1>2, <1>5, <1>7, <2>1, <2>3, <3>1
  <2> QED BY <2>2, <2>3
<1> QED BY <1>4, <1>5, <1>8, <1>9, <1>10

-----------------------------------------------------------------------------
(***************************************************************************)
(* Where the parser is in what was sent.                                   *)
(***************************************************************************)
E(n) == Ends(sent)[n]

\* A place is in one of the lines.
LEMMA SentIs ==
    ASSUME NEW b, NEW q
    PROVE  SentAt(b, q) <=>
             \E n \in 1..Len(sent) :
                 E(n - 1) < q /\ q <= E(n) /\ b = sent[n][q - E(n - 1)]
BY DEF SentAt, E

\* The lines end in order, and the parser is at some place.
LEMMA Counts ==
    ASSUME IInv
    PROVE  /\ sent \in Seq(Lines) /\ Len(sent) \in Nat /\ Len(wire) \in Nat
           /\ Left \in Nat /\ Made \in Nat /\ Processed \in Int
           /\ E(0) = 0 /\ \A n \in 0..Len(sent) : E(n) \in Nat
           /\ \A n \in 1..Len(sent) :
                /\ E(n) = E(n - 1) + Len(sent[n])
                /\ sent[n] \in Lines /\ Len(sent[n]) \in Nat /\ Len(sent[n]) >= 2
           /\ \A m, n \in 0..Len(sent) : m < n => E(m + 1) <= E(n)
<1>1. sent \in Seq(Lines) /\ wire \in Seq(Bytes) /\ memory \in Seq(Bytes)
  BY DEF IInv, TypeOK
<1>2. Len(sent) \in Nat /\ Len(wire) \in Nat
  BY <1>1
<1>3. Left \in Nat
  BY <1>1 DEF Left
<1>4. \A n \in 0..Len(sent) : E(n) \in Nat
  BY <1>1, EndsGrow DEF E
<1>5. Processed \in Int
  <2>1. E(Len(sent)) \in Nat
    BY <1>2, <1>4
  <2> QED BY <1>2, <1>3, <2>1 DEF Processed, E
<1>6. /\ E(0) = 0
      /\ \A n \in 1..Len(sent) : E(n) = E(n - 1) + Len(sent[n])
  BY <1>1, EndsStep DEF E
<1>7. /\ \A n \in 1..Len(sent) :
           sent[n] \in Lines /\ Len(sent[n]) \in Nat /\ Len(sent[n]) >= 2
      /\ \A m, n \in 0..Len(sent) : m < n => E(m + 1) <= E(n)
  BY <1>1, EndsGrow DEF E
<1> QED BY <1>1, <1>2, <1>3, <1>4, <1>5, <1>6, <1>7, CommandsAre

\* The line of the list that is not finished is the next one sent.
LEMMA ThisLine ==
    ASSUME IInv, Position, Made < Len(sent)
    PROVE  /\ Made + 1 \in 1..Len(sent) /\ sent[Made + 1] \in Lines
           /\ Begun \in 0..(Len(sent[Made + 1]) - 1)
           /\ E(Made + 1) = E(Made) + Len(sent[Made + 1])
           /\ Processed = E(Made) + Begun
           /\ Len(sent[Made + 1]) \in Nat
<1>1. Made + 1 \in 1..Len(sent) /\ Made \in 0..Len(sent)
  BY Counts
<1>2. /\ E(Made + 1) = E(Made) + Len(sent[Made + 1]) /\ E(Made) \in Nat
      /\ sent[Made + 1] \in Lines /\ Len(sent[Made + 1]) \in Nat
  BY <1>1, Counts
<1>3. Begun = Processed - E(Made) /\ Processed \in Int
  BY Counts DEF Begun, E
<1>4. Begun >= 0 /\ Processed < E(Made + 1)
  BY DEF Position, E
<1> QED BY <1>1, <1>2, <1>3, <1>4

\* The byte of a place is the one of the line it falls in.
LEMMA ByteAt ==
    ASSUME IInv, NEW n \in 1..Len(sent), NEW q \in Int, E(n - 1) < q, q <= E(n),
           NEW b, SentAt(b, q)
    PROVE  b = sent[n][q - E(n - 1)]
<1>1. PICK m \in 1..Len(sent) :
        E(m - 1) < q /\ q <= E(m) /\ b = sent[m][q - E(m - 1)]
  BY SentIs
<1>2. Len(sent) \in Nat /\ m - 1 \in 0..Len(sent) /\ n - 1 \in 0..Len(sent)
      /\ m \in 0..Len(sent) /\ n \in 0..Len(sent)
  BY Counts
<1>3. E(m - 1) \in Nat /\ E(m) \in Nat /\ E(n - 1) \in Nat /\ E(n) \in Nat
  BY <1>2, Counts
<1>4. ~(m < n)
  <2> SUFFICES ASSUME m < n PROVE FALSE
    OBVIOUS
  <2>1. m = n - 1 \/ m < n - 1
    BY <1>2
  <2>2. CASE m = n - 1
    BY <1>1, <1>3, <2>2
  <2>3. CASE m < n - 1
    <3>1. m - 1 < n - 1 /\ (m - 1) + 1 = m
      BY <1>2, <2>3
    <3>2. E(m) <= E(n - 1)
      BY <1>2, <3>1, Counts
    <3> QED BY <1>1, <1>3, <3>2
  <2> QED BY <2>1, <2>2, <2>3
<1>5. ~(n < m)
  <2> SUFFICES ASSUME n < m PROVE FALSE
    OBVIOUS
  <2>1. n = m - 1 \/ n < m - 1
    BY <1>2
  <2>2. CASE n = m - 1
    BY <1>1, <1>3, <2>2
  <2>3. CASE n < m - 1
    <3>1. n - 1 < m - 1 /\ (n - 1) + 1 = n
      BY <1>2, <2>3
    <3>2. E(n) <= E(m - 1)
      BY <1>2, <3>1, Counts
    <3> QED BY <1>1, <1>3, <3>2
  <2> QED BY <2>1, <2>2, <2>3
<1>6. m = n
  BY <1>4, <1>5
<1> QED BY <1>1, <1>6

\* The data are the buffer up to its last byte.
LEMMA BufferIs ==
    ASSUME IInv, memory # <<>>
    PROVE  /\ Len(memory) \in Nat \ {0} /\ Left = Len(memory) - 1
           /\ Head(memory) = memory[1] /\ memory[Len(memory)] = "NUL"
           /\ Head(memory) # "NUL" => Left >= 1
           /\ BytesInOrder /\ NoNul /\ Head(memory) = "NUL" => Left = 0
<1>1. memory \in Seq(Bytes) /\ Last(memory) = "NUL"
  BY DEF IInv, TypeOK
<1>2. /\ Len(memory) \in Nat \ {0} /\ Left = Len(memory) - 1
      /\ Head(memory) = memory[1] /\ memory[Len(memory)] = "NUL"
  BY <1>1 DEF Left, Last
<1>3. ASSUME BytesInOrder, NoNul, Left >= 1 PROVE Head(memory) # "NUL"
  <2>1. SentAt(memory[1], Processed + 1)
    BY <1>2, <1>3 DEF BytesInOrder
  <2>2. PICK n \in 1..Len(sent) :
          /\ E(n - 1) < Processed + 1 /\ Processed + 1 <= E(n)
          /\ memory[1] = sent[n][(Processed + 1) - E(n - 1)]
    BY <2>1, SentIs
  <2>3. n - 1 \in 0..Len(sent) /\ n \in 0..Len(sent)
    BY Counts
  <2>4. /\ E(n) = E(n - 1) + Len(sent[n]) /\ E(n - 1) \in Nat
        /\ Processed \in Int /\ sent[n] \in Lines /\ Len(sent[n]) \in Nat
    BY <2>3, Counts
  <2>5. (Processed + 1) - E(n - 1) \in 1..Len(sent[n])
    BY <2>2, <2>4
  <2>6. sent \in Seq(Lines) /\ sent[n] \in Seq(Bytes)
    BY <2>4, Counts, LineAssumption
  <2>7. n \in DOMAIN sent /\ (Processed + 1) - E(n - 1) \in DOMAIN sent[n]
    BY <2>5, <2>6
  <2> QED BY <1>2, <1>3, <2>2, <2>7 DEF NoNul, Range
<1>4. ASSUME Head(memory) # "NUL" PROVE Left >= 1
  BY <1>2, <1>4
<1> QED BY <1>2, <1>3, <1>4

\* The next byte of the buffer is the next of the line.
LEMMA NextByte ==
    ASSUME IInv, BytesInOrder, Position, Made < Len(sent),
           memory # <<>>, Head(memory) # "NUL"
    PROVE  Head(memory) = sent[Made + 1][Begun + 1]
<1>1. Left >= 1 /\ Left \in Nat /\ Head(memory) = memory[1]
  BY BufferIs, Counts
<1>2. SentAt(memory[1], Processed + 1)
  BY <1>1 DEF BytesInOrder
<1>3. /\ Made + 1 \in 1..Len(sent) /\ (Made + 1) - 1 = Made /\ Made \in 0..Len(sent)
      /\ Begun \in 0..(Len(sent[Made + 1]) - 1)
      /\ E(Made + 1) = E(Made) + Len(sent[Made + 1])
      /\ Processed = E(Made) + Begun /\ Len(sent[Made + 1]) \in Nat
  <2>1. Made + 1 \in 1..Len(sent)
    BY ThisLine
  <2>2. (Made + 1) - 1 = Made /\ Made \in 0..Len(sent)
    BY <2>1, Counts
  <2> QED BY <2>1, <2>2, ThisLine
<1>4. E(Made) \in Nat /\ Processed \in Int
  BY <1>3, Counts
<1>5. /\ Processed + 1 \in Int
      /\ E((Made + 1) - 1) < Processed + 1 /\ Processed + 1 <= E(Made + 1)
      /\ (Processed + 1) - E((Made + 1) - 1) = Begun + 1
  BY <1>3, <1>4
<1>6. memory[1] = sent[Made + 1][(Processed + 1) - E((Made + 1) - 1)]
  <2> DEFINE n == Made + 1
             q == Processed + 1
  <2>1. /\ n \in 1..Len(sent) /\ q \in Int /\ E(n - 1) < q /\ q <= E(n)
        /\ SentAt(memory[1], q)
    BY <1>2, <1>3, <1>5
  <2> HIDE DEF n, q
  <2>2. memory[1] = sent[n][q - E(n - 1)]
    BY <2>1, ByteAt
  <2> QED BY <2>2 DEF n, q
<1> QED BY <1>1, <1>5, <1>6

\* A byte that is not the NUL at the end is processed, or none is.
LEMMA Forward ==
    ASSUME IInv, BytesInOrder, memory # <<>>, Head(memory) # "NUL", Consume,
           UNCHANGED <<wire, sent>>
    PROVE  Left' = Left - 1 /\ Processed' = Processed + 1 /\ BytesInOrder'
<1>1. /\ Len(memory) \in Nat \ {0} /\ Left = Len(memory) - 1 /\ Left >= 1
      /\ memory \in Seq(Bytes) /\ memory' = Tail(memory)
  BY BufferIs DEF IInv, TypeOK, Consume
<1>2. Len(memory') = Len(memory) - 1 /\ \A j \in 1..Len(memory') : memory'[j] = memory[j + 1]
  BY <1>1
<1>3. Left' = Left - 1
  <2>1. memory' \in Seq(Bytes) /\ Len(memory') >= 1
    BY <1>1, <1>2
  <2>2. memory' # <<>>
    BY <2>1
  <2> QED BY <1>1, <1>2, <2>2 DEF Left
<1>4. E(Len(sent)) \in Nat /\ Len(wire) \in Nat /\ Left \in Nat /\ Processed \in Int
  BY Counts
<1>5. Processed' = Processed + 1
  BY <1>3, <1>4 DEF Processed, E
<1>6. ASSUME NEW j \in 1..Left' PROVE SentAt(memory[j], Processed + j)'
  <2>1. j + 1 \in 1..Left /\ memory'[j] = memory[j + 1] /\ Processed' + j = Processed + (j + 1)
    BY <1>1, <1>2, <1>3, <1>4, <1>5
  <2>2. SentAt(memory[j + 1], Processed + (j + 1))
    BY <2>1 DEF BytesInOrder
  <2> QED BY <2>1, <2>2 DEF SentAt
<1>7. ASSUME NEW j \in 1..Len(wire) PROVE SentAt(wire[j], Processed + Left + j)'
  <2>1. Processed' + Left' + j = Processed + Left + j
    BY <1>3, <1>4, <1>5
  <2>2. SentAt(wire[j], Processed + Left + j)
    BY <1>7 DEF BytesInOrder
  <2> QED BY <2>1, <2>2 DEF SentAt
<1>8. BytesInOrder'
  BY <1>6, <1>7 DEF BytesInOrder
<1> QED BY <1>3, <1>5, <1>8

\* No byte is taken, and nothing is received.
LEMMA Still ==
    ASSUME BytesInOrder, UNCHANGED <<memory, wire, sent>>
    PROVE  Left' = Left /\ Processed' = Processed /\ BytesInOrder'
<1>1. Left' = Left
  BY DEF Left
<1>2. Processed' = Processed
  BY <1>1 DEF Processed
<1> QED BY <1>1, <1>2 DEF BytesInOrder, SentAt

\* A byte of the line has been processed that does not end it, ...
LEMMA StepGoesOn ==
    ASSUME IInv, IInv', BytesInOrder, Position, CommandsJudged, Unfinished,
           memory # <<>>, Head(memory) # "NUL", Consume,
           Begun + 1 < Len(sent[Made + 1]),
           NEW n \in Node, ~Finished(n), Becomes(n), UNCHANGED <<wire, sent, executed>>
    PROVE  /\ BytesInOrder' /\ Position' /\ CommandsJudged' /\ Unfinished'
           /\ node' = n /\ Made' = Made /\ Begun' = Begun + 1
<1>1. BytesInOrder' /\ Processed' = Processed + 1
  BY Forward
<1>2. Unfinished' /\ node' = n /\ Made' = Made /\ commands' = commands
  BY GoesOn
<1>3. Made < Len(sent)
  BY DEF Position
<1>4. /\ E(Made + 1) = E(Made) + Len(sent[Made + 1]) /\ Processed = E(Made) + Begun
      /\ Len(sent[Made + 1]) \in Nat /\ Begun \in Nat /\ Made \in Nat /\ Len(sent) \in Nat
      /\ E(Made) \in Nat
  <2>1. Made \in 0..Len(sent) /\ Len(sent) \in Nat
    BY <1>3, Counts
  <2>2. E(Made) \in Nat
    BY <2>1, Counts
  <2> QED BY <1>3, <2>1, <2>2, ThisLine
<1>5. Begun' = Begun + 1
  BY <1>1, <1>2, <1>4 DEF Begun, E
<1>6. Processed' < E(Made + 1)
  BY <1>1, <1>4
<1>7. Position'
  BY <1>2, <1>3, <1>4, <1>5, <1>6 DEF Position, E
<1>8. CommandsJudged'
  BY <1>2 DEF CommandsJudged
<1> QED BY <1>1, <1>2, <1>5, <1>7, <1>8

\* ... none has, ...
LEMMA StepStays ==
    ASSUME IInv, IInv', BytesInOrder, Position, CommandsJudged, Unfinished, Stay,
           NEW n \in Node, ~Finished(n), Becomes(n), UNCHANGED <<wire, sent, executed>>
    PROVE  /\ BytesInOrder' /\ Position' /\ CommandsJudged' /\ Unfinished'
           /\ node' = n /\ Made' = Made /\ Begun' = Begun
<1>1. BytesInOrder' /\ Processed' = Processed
  BY Still DEF Stay
<1>2. Unfinished' /\ node' = n /\ Made' = Made /\ commands' = commands
  BY GoesOn
<1>3. Begun' = Begun
  BY <1>1, <1>2 DEF Begun
<1>4. Position'
  BY <1>1, <1>2, <1>3 DEF Position
<1>5. CommandsJudged'
  BY <1>2 DEF CommandsJudged
<1> QED BY <1>1, <1>2, <1>3, <1>4, <1>5

\* ... or its last byte has, and it is a command.
LEMMA StepMakes ==
    ASSUME IInv, IInv', BytesInOrder, Position, CommandsJudged, Unfinished,
           memory # <<>>, Head(memory) # "NUL", Consume,
           Begun + 1 = Len(sent[Made + 1]),
           NEW n \in Node, Finished(n), Judged(n, sent[Made + 1]), Becomes(n),
           UNCHANGED <<wire, sent, executed>>
    PROVE  Understood'
<1>1. BytesInOrder' /\ Processed' = Processed + 1
  BY Forward
<1>2. /\ ~Unfinished' /\ Made \in Nat /\ Made' = Made + 1
      /\ commands'[Made + 1] = n
      /\ \A i \in 1..Made : commands'[i] = commands[i]
  BY IsMade
<1>3. Made < Len(sent)
  BY DEF Position
<1>4. /\ E(Made + 1) = E(Made) + Len(sent[Made + 1]) /\ Processed = E(Made) + Begun
      /\ Len(sent[Made + 1]) \in Nat /\ Begun \in Nat /\ Len(sent) \in Nat
      /\ E(Made) \in Nat
  <2>1. Made \in 0..Len(sent) /\ Len(sent) \in Nat
    BY <1>3, Counts
  <2>2. E(Made) \in Nat
    BY <2>1, Counts
  <2> QED BY <1>3, <2>1, <2>2, ThisLine
<1>5. Processed' = E(Made + 1) /\ E(Made + 1) \in Nat
  BY <1>1, <1>4
<1>6. Begun' = 0
  BY <1>2, <1>5 DEF Begun, E
<1>7. Made' < Len(sent') => Processed' < Ends(sent')[Made' + 1]
  <2> SUFFICES ASSUME Made + 1 < Len(sent) PROVE Processed' < E((Made + 1) + 1)
    BY <1>2 DEF E
  <2> DEFINE k == (Made + 1) + 1
  <2>1. k \in 1..Len(sent) /\ k - 1 = Made + 1
    BY <1>2, <1>4
  <2> HIDE DEF k
  <2>2. E(k) = E(k - 1) + Len(sent[k]) /\ Len(sent[k]) \in Nat /\ Len(sent[k]) >= 2
    BY <2>1, Counts
  <2>3. Processed' < E(k)
    BY <1>5, <2>1, <2>2
  <2> QED BY <2>3 DEF k
<1>8. Position'
  BY <1>2, <1>3, <1>4, <1>6, <1>7 DEF Position
<1>9. CommandsJudged'
  <2> SUFFICES ASSUME NEW i \in 1..(Made + 1) PROVE Judged(commands'[i], sent[i])
    BY <1>2 DEF CommandsJudged, Judged
  <2>1. CASE i = Made + 1
    BY <1>2, <2>1
  <2>2. CASE i # Made + 1
    <3>1. i \in 1..Made
      BY <1>2, <2>2
    <3> QED BY <1>2, <3>1 DEF CommandsJudged
  <2> QED BY <2>1, <2>2
<1> QED BY <1>1, <1>2, <1>8, <1>9 DEF Understood

-----------------------------------------------------------------------------
(***************************************************************************)
(* In its loops the parser has a line that is not finished, and outside of *)
(* addData nothing in the buffer.                                          *)
(***************************************************************************)
\* The end of processWriting: n is written back, COMPLETE only with a known name.
LEMMA LeaveIs ==
    ASSUME NEW n \in Node, Leave(n)
    PROVE  \E m \in Node :
             /\ Becomes(m) /\ m.length = n.length /\ m.receivedCR = n.receivedCR
             /\ n.status # "COMPLETE" => m = n
             /\ n.status = "COMPLETE" =>
                  m.status = IF n.length[1] \in KnownLengths
                             THEN "COMPLETE" ELSE "COMPLETEINVALID"
             /\ pc' = IF n.status = "INVALID" THEN "discardUntilCRLF" ELSE "addData"
<1> DEFINE m == IF n.status = "COMPLETE" /\ n.length[1] \notin KnownLengths
                THEN [n EXCEPT !.status = "COMPLETEINVALID"] ELSE n
<1>1. Becomes(m) /\ pc' = IF n.status = "INVALID" THEN "discardUntilCRLF" ELSE "addData"
  BY DEF Leave
<1>2. /\ m \in Node /\ m.length = n.length /\ m.receivedCR = n.receivedCR
      /\ n.status # "COMPLETE" => m = n
      /\ n.status = "COMPLETE" =>
           m.status = IF n.length[1] \in KnownLengths THEN "COMPLETE" ELSE "COMPLETEINVALID"
  BY DEF Node, Statuses
<1> HIDE DEF m
<1> QED BY <1>1, <1>2

\* When processWriting is left the line is finished, or goes on to be discarded.
LEMMA LoopsLeft ==
    ASSUME IInv, IInv', Unfinished, UNCHANGED executed, NEW n \in Node, Leave(n)
    PROVE  InLoops'
<1>1. PICK m \in Node :
         /\ Becomes(m) /\ (n.status # "COMPLETE" => m = n)
         /\ pc' = IF n.status = "INVALID" THEN "discardUntilCRLF" ELSE "addData"
  BY LeaveIs
<1>2. CASE n.status = "INVALID"
  <2>1. m = n /\ ~Finished(m)
    BY <1>1, <1>2 DEF Finished
  <2>2. Unfinished'
    BY <1>1, <2>1, GoesOn
  <2> QED BY <1>1, <1>2, <2>2 DEF InLoops
<1>3. CASE n.status # "INVALID"
  BY <1>1, <1>3 DEF InLoops
<1> QED BY <1>2, <1>3

\* The line that addData goes on with is not finished.
LEMMA AddDataUnfinished ==
    ASSUME IInv, addData
    PROVE  /\ Unfinished'
           /\ IF Unfinished THEN UNCHANGED list
              ELSE node' = createNewNode /\ list' = Append(list, createNewNode)
<1>1. list' = nodeToProcess /\ list \in Seq(Node)
  BY DEF addData, IInv, TypeOK
<1>2. CASE Unfinished
  BY <1>1, <1>2 DEF nodeToProcess, Unfinished, node, Finished
<1>3. CASE ~Unfinished
  <2>1. list' = Append(list, createNewNode)
    BY <1>1, <1>3 DEF nodeToProcess, Unfinished
  <2>2. Len(list') = Len(list) + 1 /\ list'[Len(list) + 1] = createNewNode /\ list' # <<>>
    BY <1>1, <2>1
  <2>3. node' = createNewNode
    BY <2>2 DEF node, Last
  <2> QED BY <1>3, <2>1, <2>2, <2>3 DEF Unfinished, Finished, createNewNode
<1> QED BY <1>2, <1>3

\* In a loop, the line there is not finished.
LEMMA LoopLine ==
    ASSUME IInv, InLoops, NEW loop \in {"processWriting", "discardUntilCRLF"}, InLoop(loop)
    PROVE  /\ Unfinished /\ node \in Node /\ ~Finished(node) /\ Fits(node)
           /\ list # <<>> /\ UNCHANGED <<wire, sent, executed>> /\ pc = loop
           /\ field \in Fields
<1>1. Unfinished /\ pc = loop
  BY DEF InLoop, InLoops
<1>2. list # <<>> /\ ~Finished(node)
  BY <1>1 DEF Unfinished
<1>3. node \in Node /\ Fits(node)
  BY <1>2, NodeInList, Parts
<1> QED BY <1>1, <1>2, <1>3 DEF InLoop, IInv, TypeOK

\* Every step keeps the loops with their line.
LEMMA InLoopsStep == IInv /\ IInv' /\ InLoops /\ [Next]_vars => InLoops'
<1> SUFFICES ASSUME IInv, IInv', InLoops, [Next]_vars PROVE InLoops'
  OBVIOUS
<1> USE DEF Statuses
<1>1. CASE UNCHANGED vars \/ send
  BY <1>1 DEF vars, parserVars, send, InLoops, Unfinished, node, Finished
<1>2. CASE recv
  BY <1>2 DEF recv, InLoops
<1>3. CASE getFirstCommand
  BY <1>3 DEF getFirstCommand, InLoops
<1>4. CASE addData
  <2>1. Unfinished' /\ pc' # "idle"
    BY <1>4, AddDataUnfinished DEF addData
  <2> QED BY <2>1 DEF InLoops
<1>5. CASE addDataReturns
  BY <1>5 DEF addDataReturns, InLoops
<1>6. CASE processWriting
  <2>0. /\ pc = "processWriting" /\ Unfinished /\ node \in Node /\ ~Finished(node)
        /\ UNCHANGED executed /\ field \in Fields
    <3>1. InLoop("processWriting")
      BY <1>6 DEF processWriting, writeEnd, writeAfterCR, writeSpace, writeCR,
                  writePrintable, writeRejected
    <3> QED BY <3>1, LoopLine
  <2>1. ASSUME NEW n \in Node, ~Finished(n), Becomes(n), UNCHANGED pc PROVE InLoops'
    <3>1. Unfinished'
      BY <2>0, <2>1, GoesOn
    <3> QED BY <2>0, <2>1, <3>1 DEF InLoops
  <2>2. CASE writeEnd
    BY <2>0, <2>2, LoopsLeft DEF writeEnd
  <2>3. CASE writeAfterCR
    <3> DEFINE n == [node EXCEPT !.status =
                        IF Head(memory) = "LF" THEN "COMPLETE" ELSE "INVALID"]
    <3>1. n \in Node /\ Leave(n)
      BY <2>0, <2>3 DEF writeAfterCR, Node
    <3> HIDE DEF n
    <3> QED BY <2>0, <3>1, LoopsLeft
  <2>4. CASE writeSpace
    <3> DEFINE s == statusAfterSpace(field)
               n == [node EXCEPT !.status = s]
    <3>1. s \in {"WRITINGARG1", "WRITINGARG2", "INVALID"}
      BY <2>0 DEF statusAfterSpace, Fields
    <3>2. Becomes(n) /\ UNCHANGED pc
      BY <2>4 DEF writeSpace
    <3> HIDE DEF s
    <3>3. n \in Node /\ ~Finished(n)
      BY <2>0, <3>1 DEF Node, Finished
    <3> HIDE DEF n
    <3> QED BY <2>1, <3>2, <3>3
  <2>5. CASE writeCR
    <3> DEFINE n == [node EXCEPT !.receivedCR = TRUE]
    <3>1. n \in Node /\ ~Finished(n) /\ Becomes(n) /\ UNCHANGED pc
      BY <2>0, <2>5 DEF writeCR, Node, Finished
    <3> HIDE DEF n
    <3> QED BY <2>1, <3>1
  <2>6. CASE writePrintable
    <3> DEFINE more == [node.length EXCEPT ![field] = node.length[field] + 1]
               n == [node EXCEPT !.length = more]
    <3>1. Becomes(n) /\ UNCHANGED pc
      BY <2>6 DEF writePrintable
    <3>2. more \in [Fields -> Nat]
      BY <2>0 DEF Node
    <3> HIDE DEF more
    <3>3. n \in Node /\ ~Finished(n)
      BY <2>0, <3>2 DEF Node, Finished
    <3> HIDE DEF n
    <3> QED BY <2>1, <3>1, <3>3
  <2>7. CASE writeRejected
    <3> DEFINE n == [node EXCEPT !.status = "INVALID"]
    <3>1. n \in Node /\ Leave(n)
      BY <2>0, <2>7 DEF writeRejected, Node
    <3> HIDE DEF n
    <3> QED BY <2>0, <3>1, LoopsLeft
  <2> QED
    BY <1>6, <2>2, <2>3, <2>4, <2>5, <2>6, <2>7 DEF processWriting
<1>7. CASE discardUntilCRLF
  <2>0. /\ pc = "discardUntilCRLF" /\ Unfinished /\ node \in Node /\ ~Finished(node)
        /\ UNCHANGED executed
    <3>1. InLoop("discardUntilCRLF")
      BY <1>7 DEF discardUntilCRLF, discardEnd, discardCR, discardLF, discardOther
    <3> QED BY <3>1, LoopLine
  <2>1. CASE discardEnd \/ discardLF
    BY <2>1 DEF discardEnd, discardLF, InLoops
  <2>2. ASSUME NEW b \in BOOLEAN, Becomes([node EXCEPT !.receivedCR = b]), UNCHANGED pc
        PROVE  InLoops'
    <3> DEFINE n == [node EXCEPT !.receivedCR = b]
    <3>1. n \in Node /\ ~Finished(n) /\ Becomes(n)
      BY <2>0, <2>2 DEF Node, Finished
    <3> HIDE DEF n
    <3>2. Unfinished'
      BY <2>0, <3>1, GoesOn
    <3> QED BY <2>0, <2>2, <3>2 DEF InLoops
  <2>3. CASE discardCR
    BY <2>2, <2>3 DEF discardCR
  <2>4. CASE discardOther
    BY <2>2, <2>4 DEF discardOther
  <2> QED BY <1>7, <2>1, <2>3, <2>4 DEF discardUntilCRLF
<1> QED
  BY <1>1, <1>2, <1>3, <1>4, <1>5, <1>6, <1>7 DEF Next

-----------------------------------------------------------------------------
(***************************************************************************)
(* Each step keeps what is understood.                                     *)
(***************************************************************************)
\* The client adds bytes behind all the others.
LEMMA SendUnderstood ==
    ASSUME IInv, IInv', Understood, send
    PROVE  Understood'
<1> PICK l \in Lines : sent' = Append(sent, l) /\ wire' = wire \o l
  BY DEF send
<1> DEFINE S == Len(sent)
           W == Len(wire)
           e(k) == Ends(sent')[k]
<1>1. /\ sent \in Seq(Lines) /\ wire \in Seq(Bytes)
      /\ l \in Seq(Bytes) /\ Len(l) \in Nat /\ Len(l) >= 2
      /\ S \in Nat /\ W \in Nat
  <2>1. l \in Seq(Bytes) /\ Len(l) >= 2
    BY LineAssumption
  <2>2. sent \in Seq(Lines) /\ wire \in Seq(Bytes)
    BY DEF IInv, TypeOK
  <2>3. Len(l) \in Nat /\ S \in Nat /\ W \in Nat
    BY <2>1, <2>2
  <2> QED BY <2>1, <2>2, <2>3
<1>2. /\ sent' \in Seq(Lines) /\ Len(sent') = S + 1 /\ sent'[S + 1] = l
      /\ \A n \in 1..S : sent'[n] = sent[n]
  BY <1>1
<1>3. /\ Len(wire') = W + Len(l)
      /\ \A j \in 1..W : wire'[j] = wire[j]
      /\ \A j \in (W + 1)..(W + Len(l)) : wire'[j] = l[j - W]
  BY <1>1
<1>4. \A n \in 0..S : e(n) = E(n)
  BY <1>1, EndsMore DEF E
<1>5. e(S) = E(S) /\ e(S + 1) = E(S) + Len(l)
  <2>0. e(S) = E(S)
    <3>1. S \in 0..S
      BY <1>1
    <3> QED BY <1>4, <3>1
  <2>1. \A n \in 1..Len(sent') : e(n) = e(n - 1) + Len(sent'[n])
    BY <1>2, EndsStep
  <2>2. S + 1 \in 1..Len(sent') /\ (S + 1) - 1 = S
    BY <1>1, <1>2
  <2> HIDE DEF e
  <2> QED BY <1>2, <2>0, <2>1, <2>2
<1>6. UNCHANGED <<list, memory, pc, field, executed>>
  BY DEF send, parserVars
<1>7. Left' = Left /\ Left \in Nat /\ Unfinished' = Unfinished /\ node' = node
  BY <1>6, Counts DEF Left, Unfinished, node, Finished
<1>8. commands' = commands /\ Made' = Made /\ Made \in Nat
  <2>1. commands' = commands
    BY <1>6, <1>7 DEF commands
  <2> QED BY <2>1, Counts DEF Made
<1>9. /\ E(S) \in Nat /\ Processed = (E(S) - W) - Left
      /\ \A n \in 0..S : E(n) \in Nat
  BY Counts DEF Processed, E
<1>10. Processed' = Processed
  <2>1. Processed' = (e(S + 1) - Len(wire')) - Left'
    BY <1>2 DEF Processed
  <2> HIDE DEF e, E
  <2> QED BY <1>1, <1>3, <1>5, <1>7, <1>9, <2>1
<1>11. Position /\ Made <= S
  BY DEF Understood, Position
<1>12. Begun' = Begun
  <2>1. Begun' = Processed' - e(Made')
    BY DEF Begun
  <2>2. Made \in 0..S
    BY <1>1, <1>8, <1>11
  <2> QED BY <1>4, <1>8, <1>10, <2>1, <2>2 DEF Begun, E
<1>13. Processed \in Int /\ Begun = Processed - E(Made)
  BY Counts DEF Begun, E
<1> HIDE DEF e
<1>14. Processed < e(Made + 1)
  <2>1. CASE Made < S
    <3>1. Processed < E(Made + 1) /\ Made + 1 \in 0..S
      BY <1>1, <1>8, <1>11, <2>1 DEF Position, E
    <3> QED BY <1>4, <3>1
  <2>2. CASE Made = S
    <3>1. Begun = 0
      BY <1>11, <2>2 DEF Position
    <3>2. Processed = E(S)
      BY <1>9, <1>13, <2>2, <3>1
    <3> QED BY <1>1, <1>5, <1>9, <2>2, <3>2
  <2> QED BY <1>1, <1>8, <1>11, <2>1, <2>2
<1>15. Position'
  <2>1. Made < S + 1
    BY <1>1, <1>8, <1>11
  <2>2. Processed' < Ends(sent')[Made' + 1]
    BY <1>8, <1>10, <1>14 DEF e
  <2> QED BY <1>1, <1>2, <1>7, <1>8, <1>11, <1>12, <2>1, <2>2 DEF Position
<1>16. CommandsJudged'
  <2> SUFFICES ASSUME NEW i \in 1..Made PROVE Judged(commands'[i], sent'[i])
    BY <1>8 DEF CommandsJudged, Judged
  <2>1. sent'[i] = sent[i]
    BY <1>1, <1>2, <1>8, <1>11
  <2> QED BY <1>8, <2>1 DEF Understood, CommandsJudged
<1>17. ASSUME NEW b, NEW q, SentAt(b, q)
       PROVE  \E n \in 1..Len(sent') :
                e(n - 1) < q /\ q <= e(n) /\ b = sent'[n][q - e(n - 1)]
  <2>1. PICK n \in 1..S : E(n - 1) < q /\ q <= E(n) /\ b = sent[n][q - E(n - 1)]
    BY <1>17, SentIs
  <2>2. e(n - 1) = E(n - 1) /\ e(n) = E(n) /\ sent'[n] = sent[n] /\ n \in 1..Len(sent')
    BY <1>1, <1>2, <1>4
  <2> QED BY <2>1, <2>2
<1>18. ASSUME NEW j \in 1..Left PROVE SentAt(memory[j], Processed + j)'
  <2>1. SentAt(memory[j], Processed + j)
    BY DEF Understood, BytesInOrder
  <2>2. memory'[j] = memory[j] /\ Processed' + j = Processed + j
    BY <1>6, <1>10
  <2>3. \E n \in 1..Len(sent') :
          /\ e(n - 1) < Processed + j /\ Processed + j <= e(n)
          /\ memory[j] = sent'[n][(Processed + j) - e(n - 1)]
    BY <2>1, <1>17
  <2> QED BY <2>2, <2>3 DEF SentAt, e
<1>19. ASSUME NEW j \in 1..(W + Len(l)) PROVE SentAt(wire[j], Processed + Left + j)'
  <2>1. CASE j <= W
    <3>1. j \in 1..W /\ wire'[j] = wire[j]
      BY <1>1, <1>3, <2>1
    <3>2. SentAt(wire[j], Processed + Left + j)
      BY <3>1 DEF Understood, BytesInOrder
    <3>3. \E n \in 1..Len(sent') :
            /\ e(n - 1) < Processed + Left + j /\ Processed + Left + j <= e(n)
            /\ wire[j] = sent'[n][(Processed + Left + j) - e(n - 1)]
      BY <3>2, <1>17
    <3> QED BY <1>7, <1>10, <3>1, <3>3 DEF SentAt, e
  <2>2. CASE ~(j <= W)
    <3>1. j - W \in 1..Len(l) /\ wire'[j] = l[j - W] /\ j \in Int
      BY <1>1, <1>3, <2>2
    <3>2. Processed' + Left' + j = E(S) + (j - W)
      <4> DEFINE end == E(S)
      <4>1. /\ Processed \in Int /\ Left \in Int /\ j \in Int /\ W \in Int
            /\ end \in Int /\ Processed = (end - W) - Left
        BY <1>1, <1>7, <1>9, <1>13, <3>1
      <4> HIDE DEF S, W, E, end
      <4>2. Processed + Left + j = end + (j - W)
        BY <4>1
      <4> QED BY <1>7, <1>10, <4>2 DEF end
    <3>3. e((S + 1) - 1) = E(S) /\ e(S + 1) = E(S) + Len(l) /\ S + 1 \in 1..Len(sent')
      <4>1. (S + 1) - 1 = S /\ S \in 0..S
        BY <1>1
      <4> QED BY <1>1, <1>2, <1>4, <1>5, <4>1
    <3> DEFINE q == Processed' + Left' + j
    <3>4. e((S + 1) - 1) < q /\ q <= e(S + 1) /\ wire'[j] = sent'[S + 1][q - e((S + 1) - 1)]
      <4>1. q - E(S) = j - W
        BY <1>1, <1>9, <3>1, <3>2
      <4> QED BY <1>1, <1>2, <1>9, <3>1, <3>2, <3>3, <4>1, SMTT(20)
    <3> QED BY <3>3, <3>4 DEF SentAt, e
  <2> QED BY <2>1, <2>2
<1>20. BytesInOrder'
  BY <1>3, <1>7, <1>18, <1>19 DEF BytesInOrder
<1>21. Unfinished' => Current(sent[Made + 1])'
  <2> SUFFICES ASSUME Unfinished PROVE Current(sent[Made + 1])'
    BY <1>7
  <2>1. Made < S /\ Current(sent[Made + 1])
    BY <1>11 DEF Position, Understood
  <2>2. sent'[Made' + 1] = sent[Made + 1]
    BY <1>1, <1>2, <1>8, <2>1
  <2>3. node' = node /\ Begun' = Begun /\ pc' = pc /\ field' = field
    BY <1>6, <1>7, <1>12
  <2>4. Writing(node)' = Writing(node)
    BY <2>3 DEF Writing
  <2> QED BY <2>1, <2>2, <2>3, <2>4 DEF Current
<1> QED BY <1>15, <1>16, <1>20, <1>21 DEF Understood

\* Outside of the loops the list stays, and so does what is understood of it.
LEMMA SameLines ==
    ASSUME Understood, UNCHANGED <<list, executed, sent>>,
           Processed' = Processed, BytesInOrder',
           pc \in {"idle", "addData", "discardUntilCRLF"}, pc' \in {"idle", "addData"}
    PROVE  Understood'
<1>1. Unfinished' = Unfinished /\ node' = node /\ commands' = commands
  BY DEF Unfinished, node, Finished, commands
<1>2. Made' = Made /\ Begun' = Begun
  BY <1>1 DEF Made, Begun
<1>3. Position' /\ CommandsJudged'
  BY <1>1, <1>2 DEF Understood, Position, CommandsJudged
<1>4. ASSUME Unfinished PROVE Current(sent[Made + 1])'
  <2>1. Current(sent[Made + 1])
    BY <1>4 DEF Understood
  <2>2. IF Writing(node) THEN Writes(node, sent[Made + 1], Begun)
        ELSE Discards(node, sent[Made + 1], Begun)
    <3>1. CASE pc = "discardUntilCRLF"
      BY <2>1, <3>1 DEF Current, Discards, Writing
    <3>2. CASE pc # "discardUntilCRLF"
      BY <2>1, <3>2 DEF Current
    <3> QED BY <3>1, <3>2
  <2>3. Writing(node)' = Writing(node)
    BY <1>1 DEF Writing
  <2> QED BY <1>1, <1>2, <2>2, <2>3 DEF Current
<1> QED BY <1>1, <1>3, <1>4 DEF Understood

\* The bytes that recv() takes from the wire are in the buffer.
LEMMA RecvUnderstood ==
    ASSUME IInv, InLoops, Understood, recv
    PROVE  Understood'
<1> PICK n \in 1..MAXCOMMANDLENGTH :
        /\ n <= Len(wire)
        /\ memory' = SubSeq(wire, 1, n) \o <<"NUL">>
        /\ wire' = SubSeq(wire, n + 1, Len(wire))
  BY DEF recv
<1>1. wire \in Seq(Bytes) /\ n \in Nat /\ Len(wire) \in Nat
  <2>1. wire \in Seq(Bytes)
    BY DEF IInv, TypeOK
  <2> QED BY <2>1, SizeAssumption
<1>2. /\ Len(memory') = n + 1 /\ \A j \in 1..n : memory'[j] = wire[j]
      /\ memory' \in Seq(Bytes)
  <2>1. ASSUME NEW w \in Seq(Bytes), Len(w) = n
        PROVE  /\ Len(w \o <<"NUL">>) = n + 1 /\ w \o <<"NUL">> \in Seq(Bytes)
               /\ \A j \in 1..n : (w \o <<"NUL">>)[j] = w[j]
    BY <1>1, <2>1 DEF Bytes
  <2>2. /\ SubSeq(wire, 1, n) \in Seq(Bytes) /\ Len(SubSeq(wire, 1, n)) = n
        /\ \A j \in 1..n : SubSeq(wire, 1, n)[j] = wire[j]
    BY <1>1
  <2> QED BY <2>1, <2>2
<1>3. /\ Len(wire') = Len(wire) - n
      /\ \A j \in 1..(Len(wire) - n) : wire'[j] = wire[n + j]
  BY <1>1
<1>4. UNCHANGED <<list, executed, sent>> /\ pc = "idle" /\ pc' = "addData"
  BY DEF recv
<1>5. Left = 0 /\ Left' = n
  <2>1. memory = <<>>
    BY <1>4 DEF InLoops
  <2>2. Len(memory') >= 1
    BY <1>1, <1>2
  <2>3. memory' # <<>>
    BY <1>2, <2>2
  <2> QED BY <1>1, <1>2, <2>1, <2>3 DEF Left
<1>6. Processed \in Int /\ Processed = (E(Len(sent)) - Len(wire)) - 0 /\ E(Len(sent)) \in Nat
  <2>1. Len(sent) \in 0..Len(sent)
    BY Counts
  <2> QED BY <1>5, <2>1, Counts DEF Processed, E
<1>7. Processed' = Processed
  <2>1. Processed' = (E(Len(sent)) - Len(wire')) - Left'
    BY <1>4 DEF Processed, E
  <2> QED BY <1>1, <1>3, <1>5, <1>6, <2>1
<1>8. ASSUME NEW j \in 1..n PROVE SentAt(memory[j], Processed + j)'
  <2>1. memory'[j] = wire[j] /\ j \in 1..Len(wire) /\ Processed + Left + j = Processed + j
    BY <1>1, <1>2, <1>5, <1>6
  <2>2. SentAt(wire[j], Processed + Left + j)
    BY <2>1 DEF Understood, BytesInOrder
  <2> QED BY <1>4, <1>7, <2>1, <2>2 DEF SentAt
<1>9. ASSUME NEW j \in 1..(Len(wire) - n) PROVE SentAt(wire[j], Processed + Left + j)'
  <2>1. /\ wire'[j] = wire[n + j] /\ n + j \in 1..Len(wire)
        /\ Processed' + Left' + j = Processed + Left + (n + j)
    BY <1>1, <1>3, <1>5, <1>6, <1>7
  <2>2. SentAt(wire[n + j], Processed + Left + (n + j))
    BY <2>1 DEF Understood, BytesInOrder
  <2> QED BY <1>4, <2>1, <2>2 DEF SentAt
<1>10. BytesInOrder'
  BY <1>3, <1>5, <1>8, <1>9 DEF BytesInOrder
<1> QED BY <1>4, <1>7, <1>10, SameLines

\* Nothing is left in the buffer, and nothing is taken.
LEMMA BufferEmptied ==
    ASSUME IInv, Understood, UNCHANGED <<wire, sent>>, Left = 0, Left' = 0
    PROVE  Processed' = Processed /\ BytesInOrder'
<1>1. Processed' = Processed
  BY DEF Processed
<1> QED BY <1>1 DEF Understood, BytesInOrder, SentAt

\* addData returns when the buffer has no more data.
LEMMA ReturnsUnderstood ==
    ASSUME IInv, Understood, NoNul, ~overran, addDataReturns
    PROVE  Understood'
<1>1. /\ UNCHANGED <<list, executed, sent, wire>> /\ memory' = <<>>
      /\ pc = "addData" /\ pc' = "idle"
  BY DEF addDataReturns, InLoop
<1>2. Left = 0
  <2>1. CASE memory = <<>>
    BY <2>1 DEF Left
  <2>2. CASE memory # <<>>
    <3>1. Len(memory) \in Nat \ {0} /\ Left = Len(memory) - 1
      BY <2>2, BufferIs
    <3>2. charactersProcessed # MAXCOMMANDLENGTH + 1
      BY <3>1, SizeAssumption DEF IInv, TypeOK, WithinBuffer
    <3>3. Head(memory) = "NUL"
      BY <3>2 DEF addDataReturns, Byte
    <3> QED BY <2>2, <3>3, BufferIs DEF Understood
  <2> QED BY <2>1, <2>2
<1>3. Left' = 0
  BY <1>1 DEF Left
<1>4. Processed' = Processed /\ BytesInOrder'
  BY <1>1, <1>2, <1>3, BufferEmptied
<1> QED BY <1>1, <1>4, SameLines

\* Past the NUL, unless there is nothing there.
LEMMA DiscardEndUnderstood ==
    ASSUME IInv, IInv', Understood, NoNul, discardEnd, ~overran'
    PROVE  Understood'
<1>1. /\ UNCHANGED <<list, executed, sent, wire>>
      /\ pc = "discardUntilCRLF" /\ pc' = "addData"
      /\ memory # <<>> /\ Head(memory) = "NUL"
  BY DEF discardEnd, InLoop, Byte
<1>2. Left = 0 /\ Len(memory) = 1
  <2>1. Left = 0 /\ Left = Len(memory) - 1 /\ Len(memory) \in Nat
    BY <1>1, BufferIs DEF Understood
  <2> QED BY <2>1
<1>3. Left' = 0
  <2>1. CASE memory' = Tail(memory)
    <3>1. memory \in Seq(Bytes)
      BY DEF IInv, TypeOK
    <3>2. memory' = <<>>
      BY <1>1, <1>2, <2>1, <3>1
    <3> QED BY <3>2 DEF Left
  <2>2. CASE goesOn
    <3>1. ~(Len(memory') > 1)
      BY <2>2 DEF goesOn
    <3>2. memory' \in Seq(Bytes)
      BY DEF IInv, TypeOK
    <3> DEFINE k == Len(memory')
    <3>3. k \in Nat /\ ~(k > 1) /\ (memory' # <<>> => k # 0)
      BY <3>1, <3>2
    <3> HIDE DEF k
    <3>4. memory' # <<>> => k = 1
      BY <3>3
    <3> QED BY <3>4 DEF Left, k
  <2> QED BY <2>1, <2>2 DEF discardEnd
<1>4. Processed' = Processed /\ BytesInOrder'
  BY <1>1, <1>2, <1>3, BufferEmptied
<1> QED BY <1>1, <1>4, SameLines

\* A command is executed, and is still one of those made.
LEMMA GetUnderstood ==
    ASSUME IInv, Understood, getFirstCommand
    PROVE  Understood'
<1>1. /\ list \in Seq(Node) /\ executed \in Seq(Node) /\ list # <<>>
      /\ Finished(Head(list)) /\ list' = Tail(list)
      /\ executed' = Append(executed, Head(list))
  BY DEF IInv, TypeOK, getFirstCommand, availableCommands
<1>2. ASSUME NEW a \in Seq(Node), NEW x \in Seq(Node), x # <<>>
      PROVE  Append(a, Head(x)) \o Tail(x) = a \o x
  BY <1>2
<1>3. /\ Unfinished' <=> Unfinished
      /\ Unfinished => node' = node
      /\ commands' = commands
  <2>0. Len(list) \in Nat \ {0}
    BY <1>1
  <2>1. CASE Len(list) = 1
    <3>1. list' = <<>> /\ node = Head(list)
      BY <1>1, <2>1 DEF node, Last
    <3>2. ~Unfinished /\ ~Unfinished'
      BY <1>1, <3>1 DEF Unfinished
    <3>3. commands = executed \o list /\ commands' = executed' \o list'
      BY <3>2 DEF commands
    <3>4. Append(executed, Head(list)) \o Tail(list) = executed \o list
      BY <1>1, <1>2
    <3> QED BY <1>1, <3>2, <3>3, <3>4
  <2>2. CASE Len(list) # 1
    <3>0. /\ Len(list) >= 2 /\ list' \in Seq(Node) /\ Len(list') = Len(list) - 1
          /\ \A i \in 1..(Len(list) - 1) : list'[i] = list[i + 1]
      <4>1. Len(list) >= 2 /\ list \in Seq(Node) /\ list' = Tail(list)
        <5>1. \A k \in Nat \ {0} : k # 1 => k >= 2
          OBVIOUS
        <5> QED BY <1>1, <2>0, <2>2, <5>1
      <4>2. ASSUME NEW x \in Seq(Node), Len(x) >= 2
            PROVE  /\ Tail(x) \in Seq(Node) /\ Len(Tail(x)) = Len(x) - 1
                   /\ \A i \in 1..(Len(x) - 1) : Tail(x)[i] = x[i + 1]
        BY <4>2
      <4> QED BY <4>1, <4>2
    <3>1. /\ list' # <<>> /\ node' = node /\ Len(list') = Len(list) - 1
          /\ Len(list) >= 2
      <4>1. Len(list') >= 1 /\ list'[Len(list) - 1] = list[(Len(list) - 1) + 1]
        BY <2>0, <3>0
      <4>2. list' # <<>>
        BY <3>0, <4>1
      <4> QED BY <2>0, <3>0, <4>1, <4>2 DEF node, Last
    <3>2. Unfinished' <=> Unfinished
      BY <1>1, <3>1 DEF Unfinished, Finished
    <3>3. CASE Unfinished
      <4> DEFINE f == Front(list)
      <4>1. /\ f \in Seq(Node) /\ f # <<>> /\ Head(f) = Head(list)
            /\ Front(list') = Tail(f)
        <5>1. f = SubSeq(list, 1, Len(list) - 1)
          BY DEF Front
        <5>2. /\ f \in Seq(Node) /\ Len(f) = Len(list) - 1 /\ f # <<>>
              /\ \A i \in 1..Len(f) : f[i] = list[i]
          BY <1>1, <2>0, <3>1, <5>1
        <5>3. Front(list') = SubSeq(list', 1, Len(list') - 1)
          BY DEF Front
        <5>4. /\ Front(list') \in Seq(Node) /\ Len(Front(list')) = Len(list) - 2
              /\ \A i \in 1..(Len(list) - 2) : Front(list')[i] = list[i + 1]
          <6>1. Len(list') - 1 \in 0..Len(list') /\ Len(list') - 1 = Len(list) - 2
            BY <2>0, <3>0
          <6>2. ASSUME NEW x \in Seq(Node), NEW k \in 0..Len(x)
                PROVE  /\ SubSeq(x, 1, k) \in Seq(Node) /\ Len(SubSeq(x, 1, k)) = k
                       /\ \A i \in 1..k : SubSeq(x, 1, k)[i] = x[i]
            OBVIOUS
          <6>3. /\ Front(list') \in Seq(Node) /\ Len(Front(list')) = Len(list) - 2
                /\ \A i \in 1..(Len(list) - 2) : Front(list')[i] = list'[i]
            BY <3>0, <5>3, <6>1, <6>2
          <6> QED BY <2>0, <3>0, <6>3
        <5> HIDE DEF f
        <5>5. /\ Tail(f) \in Seq(Node) /\ Len(Tail(f)) = Len(list) - 2
              /\ \A i \in 1..(Len(list) - 2) : Tail(f)[i] = list[i + 1]
          BY <2>0, <3>1, <5>2
        <5>6. Front(list') = Tail(f)
          BY <5>4, <5>5, SeqEqual
        <5> QED BY <2>0, <3>1, <5>2, <5>6
      <4> HIDE DEF f
      <4>2. commands = executed \o f /\ commands' = executed' \o Tail(f)
        BY <3>2, <3>3, <4>1 DEF commands, f
      <4> QED BY <1>1, <1>2, <3>1, <3>2, <4>1, <4>2
    <3>4. CASE ~Unfinished
      BY <1>1, <1>2, <3>2, <3>4 DEF commands
    <3> QED BY <3>1, <3>2, <3>3, <3>4
  <2> QED BY <2>1, <2>2
<1>4. UNCHANGED <<memory, wire, sent>> /\ pc = "idle" /\ pc' = "idle"
  BY DEF getFirstCommand
<1>5. Processed' = Processed /\ BytesInOrder'
  BY <1>4, Still DEF Understood
<1>6. Made' = Made /\ Begun' = Begun
  BY <1>3, <1>4, <1>5 DEF Made, Begun
<1>7. Position' /\ CommandsJudged'
  BY <1>3, <1>4, <1>5, <1>6 DEF Understood, Position, CommandsJudged
<1>8. ASSUME Unfinished PROVE Current(sent[Made + 1])'
  <2>1. Current(sent[Made + 1]) /\ node' = node
    BY <1>3, <1>8 DEF Understood
  <2>2. Writing(node)' = Writing(node)
    BY <2>1 DEF Writing
  <2> QED BY <1>4, <1>6, <2>1, <2>2 DEF Current
<1> QED BY <1>3, <1>5, <1>7, <1>8 DEF Understood

\* With a byte in the buffer there is a line to go on with, or to begin.
LEMMA AddDataUnderstood ==
    ASSUME IInv, Understood, addData
    PROVE  Understood'
<1>1. /\ UNCHANGED <<memory, wire, sent, executed>> /\ pc = "addData"
      /\ memory # <<>> /\ Head(memory) # "NUL"
      /\ pc' = IF Writing(node') THEN "processWriting" ELSE "discardUntilCRLF"
      /\ field' = FieldOf(node'.status)
  BY DEF addData, InLoop, Byte, Stay, node
<1>2. Processed' = Processed /\ BytesInOrder'
  BY <1>1, Still DEF Understood
<1>3. Unfinished'
  BY AddDataUnfinished
<1>4. CASE Unfinished
  <2>1. UNCHANGED list
    BY <1>4, AddDataUnfinished
  <2>2. node' = node /\ commands' = commands /\ Made' = Made
    BY <1>1, <2>1 DEF node, commands, Unfinished, Finished, Made
  <2>3. Begun' = Begun
    BY <1>1, <1>2, <2>2 DEF Begun
  <2>4. Position' /\ CommandsJudged'
    BY <1>1, <1>2, <1>3, <1>4, <2>2, <2>3 DEF Understood, Position, CommandsJudged
  <2>5. IF Writing(node) THEN Writes(node, sent[Made + 1], Begun)
        ELSE Discards(node, sent[Made + 1], Begun)
    BY <1>1, <1>4 DEF Understood, Current
  <2>6. Current(sent[Made + 1])'
    <3>1. CASE Writing(node)
      BY <1>1, <2>2, <2>3, <2>5, <3>1 DEF Current
    <3>2. CASE ~Writing(node)
      BY <1>1, <2>2, <2>3, <2>5, <3>2 DEF Current
    <3> QED BY <3>1, <3>2
  <2> QED BY <1>2, <2>4, <2>6 DEF Understood
<1>5. CASE ~Unfinished
  <2>1. list' = Append(list, createNewNode) /\ node' = createNewNode
    BY <1>5, AddDataUnfinished
  <2>2. commands' = commands /\ Made' = Made
    <3>1. Front(list') = list
      <4>1. list \in Seq(Node)
        BY DEF IInv, TypeOK
      <4>2. createNewNode \in Node
        BY DEF createNewNode, Node, Statuses, Fields
      <4> HIDE DEF createNewNode
      <4> QED BY <2>1, <4>1, <4>2 DEF Front
    <3> QED BY <1>1, <1>3, <1>5, <3>1 DEF commands, Made
  <2>3. Position /\ Begun = 0
    BY <1>5 DEF Understood, Position
  <2>4. Begun' = 0
    BY <1>1, <1>2, <2>2, <2>3 DEF Begun
  <2>5. Made < Len(sent)
    <3>1. Made <= Len(sent) /\ Made \in Nat /\ Len(sent) \in Nat
      BY <2>3, Counts DEF Position
    <3>2. SUFFICES ASSUME Made = Len(sent) PROVE FALSE
      BY <3>1
    <3>3. E(Made) \in Nat /\ Processed = (E(Made) - Len(wire)) - Left /\ Begun = Processed - E(Made)
      BY <3>1, <3>2, Counts DEF Processed, Begun, E
    <3>4. Left >= 1 /\ Left \in Nat /\ Len(wire) \in Nat
      BY <1>1, BufferIs, Counts
    <3> QED BY <2>3, <3>3, <3>4
  <2>6. Position'
    BY <1>1, <1>2, <1>3, <2>2, <2>3, <2>4, <2>5 DEF Position
  <2>7. CommandsJudged'
    BY <1>1, <2>2 DEF Understood, CommandsJudged
  <2>8. Current(sent[Made + 1])'
    <3>1. Writes(createNewNode, sent[Made + 1], 0) /\ Writing(createNewNode)
      BY BeginsWritten
    <3> HIDE DEF createNewNode
    <3> QED BY <1>1, <2>1, <2>2, <2>4, <3>1 DEF Current
  <2> QED BY <1>2, <2>6, <2>7, <2>8 DEF Understood
<1> QED BY <1>4, <1>5

-----------------------------------------------------------------------------
\* In a loop: the line that is being read, and the next byte of it.
LEMMA TheLine ==
    ASSUME IInv, InLoops, Understood,
           NEW loop \in {"processWriting", "discardUntilCRLF"}, InLoop(loop)
    PROVE  /\ BytesInOrder /\ Position /\ CommandsJudged
           /\ Made < Len(sent) /\ Made + 1 \in DOMAIN sent
           /\ sent[Made + 1] \in Lines
           /\ Begun \in 0..(Len(sent[Made + 1]) - 1) /\ Begun \in Nat
           /\ Current(sent[Made + 1])
           /\ memory # <<>> /\ Head(memory) # "NUL" =>
                Head(memory) = sent[Made + 1][Begun + 1]
<1>1. Unfinished
  BY LoopLine
<1>2. BytesInOrder /\ Position /\ CommandsJudged /\ Current(sent[Made + 1])
  BY <1>1 DEF Understood
<1>3. Made < Len(sent)
  BY <1>1, <1>2 DEF Position
<1>4. /\ Made + 1 \in 1..Len(sent) /\ sent[Made + 1] \in Lines
      /\ Begun \in 0..(Len(sent[Made + 1]) - 1) /\ Len(sent[Made + 1]) \in Nat
  BY <1>2, <1>3, ThisLine
<1>5. DOMAIN sent = 1..Len(sent)
  BY DEF IInv, TypeOK
<1> QED BY <1>2, <1>3, <1>4, <1>5, NextByte

\* A byte that is not the LF of the CRLF is not the last.
LEMMA NotLast ==
    ASSUME NEW line \in Lines, NEW m \in 0..(Len(line) - 1), line[m + 1] # "LF"
    PROVE  m + 1 < Len(line)
BY LineIs

\* What has to be known of the line after a step in a loop.
LEMMA NowUnderstood ==
    ASSUME BytesInOrder', Position', CommandsJudged', UNCHANGED sent, Made' = Made,
           NEW n, node' = n, NEW b, Begun' = b,
           \/ /\ pc' = "processWriting" /\ Writes(n, sent[Made + 1], b)
              /\ field' = FieldOf(n.status)
           \/ pc' = "discardUntilCRLF" /\ Discards(n, sent[Made + 1], b)
           \/ pc' = "addData" /\ Writing(n) /\ Writes(n, sent[Made + 1], b)
    PROVE  Understood'
<1>1. Current(sent[Made + 1])'
  BY DEF Current
<1> QED BY <1>1 DEF Understood

\* The statuses of a line that is being written.
LEMMA WritesStatus ==
    ASSUME NEW line, NEW m \in Nat, NEW n \in Node, Writes(n, line, m)
    PROVE  /\ n.status \in {"WRITINGCOMMAND", "WRITINGARG1", "WRITINGARG2", "INVALID"}
           /\ FieldOf(n.status) \in Fields
           /\ statusAfterSpace(FieldOf(n.status)) \in
                {"WRITINGARG1", "WRITINGARG2", "INVALID"}
<1>1. CASE n.receivedCR
  <2>1. m - 1 \in Nat /\ Written(n, line, m - 1)
    BY <1>1 DEF Writes
  <2>2. n.status = StatusAfter(Cardinality(Spaces(line, m - 1)))
    BY <2>1 DEF Written
  <2> QED BY <2>1, <2>2, CountNext, StatusIs DEF FieldOf, Fields, statusAfterSpace
<1>2. CASE ~n.receivedCR
  <2>1. n.status = StatusAfter(Cardinality(Spaces(line, m)))
    BY <1>2 DEF Writes, Written
  <2> QED BY <2>1, CountNext, StatusIs DEF FieldOf, Fields, statusAfterSpace
<1>3. n.receivedCR \in BOOLEAN
  BY DEF Node
<1> QED BY <1>1, <1>2, <1>3

\* processWriting reads the bytes of the line it writes, to its LF at most.
LEMMA WritingUnderstood ==
    ASSUME IInv, IInv', InLoops, Understood, processWriting
    PROVE  Understood'
<1> DEFINE line == sent[Made + 1]
           m == Begun
<1>1. InLoop("processWriting") /\ memory # <<>>
  BY DEF processWriting, writeEnd, writeAfterCR, writeSpace, writeCR,
         writePrintable, writeRejected, Byte
<1>2. /\ Unfinished /\ node \in Node /\ ~Finished(node) /\ Fits(node)
      /\ UNCHANGED <<wire, sent, executed>> /\ pc = "processWriting"
      /\ node.receivedCR \in BOOLEAN
  BY <1>1, LoopLine DEF Node
<1>3. /\ BytesInOrder /\ Position /\ CommandsJudged
      /\ line \in Lines /\ m \in 0..(Len(line) - 1) /\ m \in Nat
      /\ Head(memory) # "NUL" => Head(memory) = line[m + 1]
  BY <1>1, TheLine
<1>4. Writes(node, line, m) /\ field = FieldOf(node.status)
  BY <1>1, <1>2, TheLine DEF Current
<1>5. /\ node.status \in {"WRITINGCOMMAND", "WRITINGARG1", "WRITINGARG2", "INVALID"}
      /\ field \in Fields
      /\ statusAfterSpace(field) \in {"WRITINGARG1", "WRITINGARG2", "INVALID"}
  BY <1>2, <1>3, <1>4, WritesStatus
<1> HIDE DEF line, m
<1>6. ASSUME NEW n \in Node, ~Finished(n), Becomes(n), Consume, Head(memory) # "NUL",
             m + 1 < Len(line),
             \/ /\ pc' = "processWriting" /\ Writes(n, line, m + 1)
                /\ field' = FieldOf(n.status)
             \/ pc' = "discardUntilCRLF" /\ Discards(n, line, m + 1)
      PROVE  Understood'
  <2>1. Begun + 1 < Len(sent[Made + 1])
    BY <1>6 DEF line, m
  <2>2. /\ BytesInOrder' /\ Position' /\ CommandsJudged'
        /\ node' = n /\ Made' = Made /\ Begun' = m + 1
    BY <1>1, <1>2, <1>3, <1>6, <2>1, StepGoesOn DEF m
  <2> QED BY <1>2, <1>6, <2>2, NowUnderstood DEF line
<1>7. ASSUME NEW n \in Node, ~Finished(n), Becomes(n), Stay,
             \/ pc' = "discardUntilCRLF" /\ Discards(n, line, m)
             \/ pc' = "addData" /\ Writing(n) /\ Writes(n, line, m)
      PROVE  Understood'
  <2>1. /\ BytesInOrder' /\ Position' /\ CommandsJudged'
        /\ node' = n /\ Made' = Made /\ Begun' = m
    BY <1>2, <1>3, <1>7, StepStays DEF m
  <2> QED BY <1>2, <1>7, <2>1, NowUnderstood DEF line
<1>8. CASE writeEnd
  <2>1. Leave(node) /\ Stay
    BY <1>8 DEF writeEnd
  <2>2. Becomes(node) /\ pc' = IF node.status = "INVALID" THEN "discardUntilCRLF" ELSE "addData"
    BY <1>2, <1>5, <2>1, LeaveIs
  <2>3. CASE node.status = "INVALID"
    <3>1. m \in 0..Len(line)
      BY <1>3, LineIs
    <3>2. Discards(node, line, m)
      BY <1>2, <1>3, <1>4, <2>3, <3>1, WritesEnd
    <3> QED BY <1>2, <1>7, <2>1, <2>2, <2>3, <3>2
  <2>4. CASE node.status # "INVALID"
    <3>1. Writing(node)
      BY <1>5, <2>4 DEF Writing
    <3> QED BY <1>2, <1>4, <1>7, <2>1, <2>2, <2>4, <3>1
  <2> QED BY <2>3, <2>4
<1>9. CASE writeAfterCR
  <2> DEFINE n == [node EXCEPT !.status =
                      IF Head(memory) = "LF" THEN "COMPLETE" ELSE "INVALID"]
  <2>1. /\ Leave(n) /\ Consume /\ node.receivedCR
        /\ Head(memory) # "NUL" /\ Head(memory) = line[m + 1]
    BY <1>3, <1>9 DEF writeAfterCR, Byte
  <2>2. /\ n \in Node /\ n.length = node.length
        /\ n.status = IF Head(memory) = "LF" THEN "COMPLETE" ELSE "INVALID"
    BY <1>2 DEF Node, Statuses
  <2>3. CASE Head(memory) = "LF"
    <3> HIDE DEF n
    <3>1. PICK new \in Node :
            /\ Becomes(new) /\ new.length = node.length
            /\ new.status = IF node.length[1] \in KnownLengths
                            THEN "COMPLETE" ELSE "COMPLETEINVALID"
      BY <2>1, <2>2, <2>3, LeaveIs
    <3>2. m + 1 = Len(line) /\ Judged(new, line)
      BY <1>2, <1>3, <1>4, <2>1, <2>3, <3>1, WritesLF
    <3>3. Finished(new)
      BY <3>1 DEF Finished
    <3>4. Begun + 1 = Len(sent[Made + 1]) /\ Judged(new, sent[Made + 1])
      BY <3>2 DEF line, m
    <3> QED BY <1>1, <1>2, <1>3, <2>1, <3>1, <3>3, <3>4, StepMakes
  <2>4. CASE Head(memory) # "LF"
    <3>1. n = [node EXCEPT !.status = "INVALID"]
      BY <2>4
    <3> HIDE DEF n
    <3>2. Becomes(n) /\ pc' = "discardUntilCRLF" /\ ~Finished(n)
      BY <2>1, <2>2, <2>4, LeaveIs DEF Finished
    <3>3. m + 1 < Len(line) /\ Discards(n, line, m + 1)
      BY <1>2, <1>3, <1>4, <2>1, <2>4, <3>1, WritesBad
    <3> QED BY <1>6, <2>1, <2>2, <3>2, <3>3
  <2> QED BY <2>3, <2>4
<1>10. CASE writeSpace
  <2> DEFINE n == [node EXCEPT !.status = statusAfterSpace(field)]
  <2>1. /\ Becomes(n) /\ Consume /\ ~node.receivedCR /\ pc' = "processWriting"
        /\ field' = FieldOf(statusAfterSpace(field))
        /\ Head(memory) # "NUL" /\ line[m + 1] = "space"
    BY <1>2, <1>3, <1>10 DEF writeSpace, Byte
  <2>2. n \in Node
    <3> DEFINE s == statusAfterSpace(field)
    <3>1. s \in Statuses
      BY <1>5 DEF Statuses
    <3> HIDE DEF s
    <3> QED BY <1>2, <3>1 DEF Node, s
  <2>3. Writes(n, line, m + 1) /\ n.status = statusAfterSpace(field)
    <3> HIDE DEF n
    <3>1. n = [node EXCEPT !.status = statusAfterSpace(FieldOf(node.status))]
      BY <1>4 DEF n
    <3> QED BY <1>2, <1>3, <1>4, <2>1, <3>1, WritesSpace
  <2> HIDE DEF n
  <2>4. ~Finished(n) /\ m + 1 < Len(line)
    BY <1>3, <1>5, <2>1, <2>3, NotLast DEF Finished
  <2> QED BY <1>6, <2>1, <2>2, <2>3, <2>4
<1>11. CASE writeCR
  <2> DEFINE n == [node EXCEPT !.receivedCR = TRUE]
  <2>1. /\ Becomes(n) /\ Consume /\ ~node.receivedCR /\ pc' = "processWriting"
        /\ field' = field /\ Head(memory) # "NUL" /\ line[m + 1] = "CR"
    BY <1>2, <1>3, <1>11 DEF writeCR, Byte
  <2>2. n \in Node
    BY <1>2 DEF Node
  <2> HIDE DEF n
  <2>3. Writes(n, line, m + 1) /\ n.status = node.status
    BY <1>2, <1>3, <1>4, <2>1, WritesCR DEF n
  <2>4. ~Finished(n) /\ m + 1 < Len(line)
    BY <1>2, <1>3, <2>1, <2>3, NotLast DEF Finished
  <2> QED BY <1>4, <1>6, <2>1, <2>2, <2>3, <2>4
<1>12. CASE writePrintable
  <2> DEFINE n == [node EXCEPT !.length[field] = @ + 1]
  <2>1. /\ Becomes(n) /\ Consume /\ ~node.receivedCR /\ pc' = "processWriting"
        /\ field' = field /\ Head(memory) # "NUL" /\ line[m + 1] = "printable"
    BY <1>2, <1>3, <1>12 DEF writePrintable, Byte
  <2>2. n \in Node
    <3> DEFINE more == [node.length EXCEPT ![field] = node.length[field] + 1]
    <3>1. more \in [Fields -> Nat] /\ n = [node EXCEPT !.length = more]
      BY <1>2, <1>5 DEF Node
    <3> HIDE DEF more, n
    <3> QED BY <1>2, <3>1 DEF Node
  <2>3. Writes(n, line, m + 1) /\ n.status = node.status
    <3>1. n = [node EXCEPT !.length[FieldOf(node.status)] = @ + 1]
      BY <1>4
    <3> HIDE DEF n
    <3> QED BY <1>2, <1>3, <1>4, <2>1, <3>1, WritesPrintable
  <2> HIDE DEF n
  <2>4. ~Finished(n) /\ m + 1 < Len(line)
    BY <1>2, <1>3, <2>1, <2>3, NotLast DEF Finished
  <2> QED BY <1>4, <1>6, <2>1, <2>2, <2>3, <2>4
<1>13. CASE writeRejected
  <2> DEFINE n == [node EXCEPT !.status = "INVALID"]
  <2>1. /\ Leave(n) /\ Stay /\ ~node.receivedCR
        /\ \/ line[m + 1] \in {"LF", "other"}
           \/ line[m + 1] = "printable"
              /\ node.length[FieldOf(node.status)] >= maxSize(FieldOf(node.status))
    BY <1>3, <1>4, <1>13 DEF writeRejected, Byte, full
  <2>2. n \in Node /\ n.status = "INVALID"
    BY <1>2 DEF Node, Statuses
  <2> HIDE DEF n
  <2>3. Becomes(n) /\ pc' = "discardUntilCRLF" /\ ~Finished(n)
    BY <2>1, <2>2, LeaveIs DEF Finished
  <2>4. Discards(n, line, m)
    BY <1>2, <1>3, <1>4, <2>1, WritesReject DEF n
  <2> QED BY <1>7, <2>1, <2>2, <2>3, <2>4
<1> QED
  BY <1>8, <1>9, <1>10, <1>11, <1>12, <1>13 DEF processWriting

\* discardUntilCRLF ends with the line that it discards, and with no other.
LEMMA DiscardingUnderstood ==
    ASSUME IInv, IInv', InLoops, Understood, NoStray, NoNul, discardUntilCRLF,
           ~overran'
    PROVE  Understood'
<1> DEFINE line == sent[Made + 1]
           m == Begun
<1>1. InLoop("discardUntilCRLF") /\ memory # <<>>
  BY DEF discardUntilCRLF, discardEnd, discardCR, discardLF, discardOther, Byte
<1>2. /\ Unfinished /\ node \in Node /\ ~Finished(node) /\ Fits(node)
      /\ UNCHANGED <<wire, sent, executed>> /\ pc = "discardUntilCRLF"
  BY <1>1, LoopLine
<1>3. /\ BytesInOrder /\ Position /\ CommandsJudged
      /\ line \in Lines /\ m \in 0..(Len(line) - 1) /\ m \in Nat
      /\ Head(memory) # "NUL" => Head(memory) = line[m + 1]
      /\ ~Stray(line)
  BY <1>1, TheLine DEF NoStray
<1>4. Discards(node, line, m)
  BY <1>1, <1>2, TheLine DEF Current
<1> HIDE DEF line, m
<1>5. ASSUME NEW n \in Node, ~Finished(n), Becomes(n), Consume, Head(memory) # "NUL",
             m + 1 < Len(line), pc' = "discardUntilCRLF", Discards(n, line, m + 1)
      PROVE  Understood'
  <2>1. Begun + 1 < Len(sent[Made + 1])
    BY <1>5 DEF line, m
  <2>2. /\ BytesInOrder' /\ Position' /\ CommandsJudged'
        /\ node' = n /\ Made' = Made /\ Begun' = m + 1
    BY <1>1, <1>2, <1>3, <1>5, <2>1, StepGoesOn DEF m
  <2> QED BY <1>2, <1>5, <2>2, NowUnderstood DEF line
<1>6. CASE discardEnd
  BY <1>6, DiscardEndUnderstood
<1>7. CASE discardCR
  <2> DEFINE n == [node EXCEPT !.receivedCR = TRUE]
  <2>1. /\ Becomes(n) /\ Consume /\ pc' = "discardUntilCRLF"
        /\ Head(memory) # "NUL" /\ line[m + 1] = "CR"
    BY <1>2, <1>3, <1>7 DEF discardCR, Byte
  <2>2. n \in Node /\ ~Finished(n)
    BY <1>2 DEF Node, Finished
  <2> HIDE DEF n
  <2>3. m + 1 < Len(line) /\ Discards(n, line, m + 1)
    BY <1>2, <1>3, <1>4, <2>1, DiscardsCR DEF n
  <2> QED BY <1>5, <2>1, <2>2, <2>3
<1>8. CASE discardLF
  <2> DEFINE n == [node EXCEPT !.status = "COMPLETEINVALID"]
  <2>1. /\ Becomes(n) /\ Consume /\ node.receivedCR
        /\ Head(memory) # "NUL" /\ line[m + 1] = "LF"
    BY <1>3, <1>8 DEF discardLF, Byte
  <2>2. n \in Node /\ Finished(n)
    BY <1>2 DEF Node, Statuses, Finished
  <2> HIDE DEF n
  <2>3. m + 1 = Len(line) /\ Judged(n, line)
    BY <1>2, <1>3, <1>4, <2>1, DiscardsLF DEF n
  <2>4. Begun + 1 = Len(sent[Made + 1]) /\ Judged(n, sent[Made + 1])
    BY <2>3 DEF line, m
  <2> QED BY <1>1, <1>2, <1>3, <2>1, <2>2, <2>4, StepMakes
<1>9. CASE discardOther
  <2> DEFINE n == [node EXCEPT !.receivedCR = FALSE]
  <2>1. /\ Becomes(n) /\ Consume /\ pc' = "discardUntilCRLF"
        /\ Head(memory) # "NUL" /\ line[m + 1] # "CR"
        /\ line[m + 1] = "LF" => ~node.receivedCR
    BY <1>2, <1>3, <1>9 DEF discardOther, Byte
  <2>2. n \in Node /\ ~Finished(n)
    BY <1>2 DEF Node, Finished
  <2> HIDE DEF n
  <2>3. m + 1 < Len(line) /\ Discards(n, line, m + 1)
    BY <1>2, <1>3, <1>4, <2>1, DiscardsOther DEF n
  <2> QED BY <1>5, <2>1, <2>2, <2>3
<1> QED
  BY <1>6, <1>7, <1>8, <1>9 DEF discardUntilCRLF

-----------------------------------------------------------------------------
\* Nothing has been sent.
LEMMA LinesInvInit == Init => LinesInv
<1> SUFFICES ASSUME Init PROVE LinesInv
  OBVIOUS
<1>1. IInv
  BY InitIInv
<1>2. /\ list = <<>> /\ memory = <<>> /\ wire = <<>> /\ sent = <<>> /\ executed = <<>>
      /\ pc = "idle"
  BY DEF Init
<1>3. InLoops
  BY <1>2 DEF InLoops
<1>4. ~Unfinished
  BY <1>2 DEF Unfinished
<1>5. commands = <<>> /\ Made = 0
  BY <1>2, <1>4 DEF commands, Made
<1>6. Left = 0 /\ Len(sent) = 0 /\ Len(wire) = 0
  BY <1>2 DEF Left
<1>7. Processed = 0 /\ Begun = 0
  <2>1. E(0) = 0
    BY <1>1, Counts
  <2> QED BY <1>5, <1>6, <2>1 DEF Processed, Begun, E
<1>8. BytesInOrder
  BY <1>6 DEF BytesInOrder
<1>9. Position /\ CommandsJudged
  BY <1>4, <1>5, <1>6, <1>7 DEF Position, CommandsJudged
<1> QED BY <1>1, <1>3, <1>4, <1>8, <1>9 DEF LinesInv, Understood

\* Bytes past the end of the data are processed for good, and a line is sent for good.
LEMMA LinesInvStep == LinesInv /\ [Next]_vars => LinesInv'
<1> SUFFICES ASSUME LinesInv, [Next]_vars PROVE LinesInv'
  OBVIOUS
<1>1. IInv /\ IInv' /\ InLoops /\ InLoops'
  BY StepIInv, InLoopsStep DEF LinesInv
<1>2. ASSUME ~overran', NoStray', NoNul' PROVE ~overran /\ NoStray /\ NoNul
  <2>1. ~overran
    BY <1>2 DEF Next, vars, parserVars, send, recv, getFirstCommand, addData,
       addDataReturns, processWriting, writeEnd, writeAfterCR, writeSpace, writeCR,
       writePrintable, writeRejected, discardUntilCRLF, discardEnd, goesOn, discardCR,
       discardLF, discardOther
  <2>2. CASE UNCHANGED sent
    BY <1>2, <2>1, <2>2 DEF NoStray, Stray, NoNul
  <2>3. CASE send
    <3>1. PICK l \in Lines : sent' = Append(sent, l)
      BY <2>3 DEF send
    <3>2. sent \in Seq(Lines)
      BY <1>1 DEF IInv, TypeOK
    <3>3. \A i \in DOMAIN sent : i \in DOMAIN sent' /\ sent'[i] = sent[i]
      BY <3>1, <3>2
    <3>4. NoStray
      BY <1>2, <3>3 DEF NoStray, Stray
    <3>5. NoNul
      BY <1>2, <3>3 DEF NoNul
    <3> QED BY <2>1, <3>4, <3>5
  <2>4. UNCHANGED sent \/ send
    BY DEF Next, vars, parserVars, recv, getFirstCommand, addData,
       addDataReturns, processWriting, writeEnd, writeAfterCR, writeSpace, writeCR,
       writePrintable, writeRejected, discardUntilCRLF, discardEnd, discardCR,
       discardLF, discardOther, InLoop
  <2> QED BY <2>2, <2>3, <2>4
<1>3. ASSUME ~overran', NoStray', NoNul' PROVE Understood'
  <2>1. Understood /\ NoStray /\ NoNul /\ ~overran
    BY <1>2, <1>3 DEF LinesInv
  <2>2. CASE UNCHANGED vars
    BY <2>1, <2>2 DEF vars, parserVars, Understood, BytesInOrder, Position,
       CommandsJudged, Current, SentAt, Left, Processed, Begun, Made, commands,
       Unfinished, node, Writing, Finished
  <2> QED
    BY <1>1, <1>3, <2>1, <2>2, SendUnderstood, RecvUnderstood, GetUnderstood,
       AddDataUnderstood, ReturnsUnderstood, WritingUnderstood,
       DiscardingUnderstood DEF Next
<1> QED BY <1>1, <1>3 DEF LinesInv

\* When addData is not running, every line that is there is a command.
LEMMA Understand == LinesInv => LinesRecognised
<1> SUFFICES ASSUME LinesInv, pc = "idle", ~overran, NoStray, NoNul PROVE AsSent
  BY DEF LinesRecognised
<1>1. IInv /\ Position /\ CommandsJudged /\ Left = 0
  BY DEF LinesInv, InLoops, Understood, Left
<1>2. /\ Made \in 0..Len(sent) /\ Len(sent) \in Nat /\ Len(wire) \in Nat
      /\ \A n \in 0..Len(sent) : E(n) \in Nat
      /\ \A a, n \in 0..Len(sent) : a < n => E(a + 1) <= E(n)
      /\ Processed \in Int
  BY <1>1, Counts DEF Position
<1>3. Processed = E(Len(sent)) - Len(wire)
  <2>1. Processed = (E(Len(sent)) - Len(wire)) - 0 /\ E(Len(sent)) \in Nat
    BY <1>1, <1>2 DEF Processed, E
  <2> QED BY <1>2, <2>1
<1>4. Arrived = {n \in 0..Len(sent) : E(n) <= Processed}
  BY <1>3 DEF Arrived, E
<1>5. Made \in Arrived
  <2>1. Begun >= 0 /\ Begun = Processed - E(Made) /\ E(Made) \in Nat
    BY <1>1, <1>2 DEF Position, Begun, E
  <2>2. E(Made) <= Processed
    BY <1>2, <2>1
  <2> QED BY <1>2, <1>4, <2>2
<1>6. ASSUME NEW n \in Arrived PROVE n <= Made
  <2>1. n \in 0..Len(sent) /\ E(n) <= Processed
    BY <1>4
  <2> SUFFICES ASSUME Made < n PROVE FALSE
    BY <1>2, <2>1
  <2>2. Made < Len(sent) /\ Made + 1 \in 0..Len(sent)
    BY <1>2, <2>1
  <2>3. Processed < E(Made + 1)
    BY <1>1, <2>2 DEF Position, E
  <2>4. E(Made + 1) <= E(n) /\ E(Made + 1) \in Nat /\ E(n) \in Nat
    BY <1>2, <2>1, <2>2
  <2> QED BY <1>2, <2>1, <2>3, <2>4
<1>7. DOMAIN commands = 1..Made
  <2>1. commands \in Seq(Node)
    BY <1>1, CommandsAre
  <2> QED BY <2>1 DEF Made
<1> QED BY <1>1, <1>5, <1>6, <1>7 DEF AsSent, Made, CommandsJudged, Judged

\* The invariant of the lines holds of every behaviour.
LEMMA LinesInvariance == Spec => []LinesInv
BY LinesInvInit, LinesInvStep, PTL DEF Spec

\* For any lines, and wherever the network cuts them, each that has arrived is one
\* command, in the order sent, with the verdict and the lengths that its own bytes
\* deserve (commandParser.c, addData): as long as no byte was processed after the
\* end of the data, no line has an LF two bytes after its first CR, and none holds
\* a NUL, at which the parser takes the data of a recv() to end.
THEOREM Recognised == Spec => []LinesRecognised
BY LinesInvariance, Understand, PTL
=============================================================================
