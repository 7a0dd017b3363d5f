-------------------------- MODULE PopServerProofs ---------------------------
(***************************************************************************)
(* Proofs about PopServer, for any table, buffer, users, mails and inputs. *)
(*                                                                         *)
(* TypeOK is not inductive: a handler looks for a cache that is there only *)
(* because the session is in TRANSACTION, the counter of connections stays *)
(* natural only because it is no less than the table holds, and so on.     *)
(* IInv adds what those steps rely on.                                     *)
(***************************************************************************)
EXTENDS PopServer, TLAPS, FiniteSetTheorems, SequenceTheorems

\* Until its send() a turn serves a connection that is still there.
TurnCoherent ==
    /\ pc \in {"write", "list"} => turn \in allocated
    /\ pc \in {"write", "list"} => clientState[turn] = "WRITING"
    /\ pc = "list" => currentCommand[turn] # NULL

\* A lock that was not lost is held, and the flag shows it.
LockHeld == \A u \in Users \ lockLost : Sessions(u) # {} => u \in connected

IInv ==
    /\ TypeOK
    /\ SessionCoherent
    /\ TurnCoherent
    /\ OutputFits
    /\ SlotClean
    /\ ReadingMeansIdle
    /\ ConnectionsNotUndercounted
    /\ ExclusiveMaildrop
    /\ LockHeld
    /\ NoOrphanLock

(***************************************************************************)
(* The operators keep their types.                                         *)
(***************************************************************************)
\* The table is finite, and no slot is numbered 0 (the turn of nobody).
LEMMA SlotsFinite == IsFiniteSet(Slots) /\ 0 \notin Slots
BY TableAssumption, FS_Interval DEF Slots

\* Zeroed memory is not a name, a command or a cache.
LEMMA NullFacts == NULL \notin Users /\ NULL \notin Command /\ NULL \notin Cache
BY NullIsNothingElse

\* DELE and RSET turn a cache into a cache.
LEMMA CacheOperators ==
    ASSUME NEW c \in Cache, NEW n \in Nat
    PROVE  /\ markMailToDelete(c, n) \in Cache
           /\ resetToDelete(c) \in Cache
<1>1. /\ c.toDelete \cup {n} \in SUBSET Nat /\ c.markedToDelete + 1 \in Nat
      /\ {} \in SUBSET Nat /\ 0 \in Nat
  BY DEF Cache
<1>2. markMailToDelete(c, n) \in Cache
  BY <1>1 DEF Cache, markMailToDelete
<1>3. resetToDelete(c) \in Cache
  BY <1>1 DEF Cache, resetToDelete
<1> QED
  BY <1>2, <1>3

\* What a login reads from the directory is a cache.
LEMMA InitCachesType ==
    ASSUME NEW u \in Users, maildir \in [Users -> SUBSET Mail],
           NEW c \in initCaches(u)
    PROVE  c \in Cache
<1>1. IsFiniteSet(maildir[u])
  BY UserAssumption, FS_Subset
<1>2. Cardinality(maildir[u]) \in Nat
  BY <1>1, FS_CardinalityType
<1>3. PICK f \in Bijection(1..Cardinality(maildir[u]), maildir[u]) :
         c = [files |-> f, toDelete |-> {}, markedToDelete |-> 0,
              iterator |-> 0, mail |-> 0, left |-> 0]
  BY DEF initCaches
<1>4. f \in [1..Cardinality(maildir[u]) -> Mail]
  BY <1>3 DEF Bijection, Injection, Surjection, IsInjective
<1>5. f \in Seq(Mail)
  BY <1>2, <1>4, SeqDef
<1> QED
  BY <1>3, <1>5 DEF Cache

\* A command has the argument its operation needs.
LEMMA CommandFields ==
    ASSUME NEW c \in Command
    PROVE  /\ c.op \in {"USER", "PASS"} \cup NumberedOps \cup PlainOps
           /\ c.op = "USER" => c.arg \in Users
           /\ c.op \in NumberedOps => c.arg \in Nat
BY DEF Command, NumberedOps, PlainOps

(***************************************************************************)
(* What a turn relies on, and what its parts do.                           *)
(***************************************************************************)
\* A command that may be executed, and the room there is for its reply.
LEMMA ExecuteFacts ==
    ASSUME IInv, NEW s \in Slots, MayExecute(s)
    PROVE  /\ pc = "loop" /\ s \in allocated /\ clientState[s] = "WRITING"
           /\ Oldest(s) \in Command
           /\ ~Resuming(s) => commands[s] # <<>>
           /\ output[s] \in Nat /\ freeSpace(s) \in Nat
           /\ freeSpace(s) > MAX_SINGLE_LINE_RESPONSE
           /\ LINE <= freeSpace(s)
           /\ Written(freeSpace(s), LINE) = LINE
           /\ output[s] + LINE \in 1..BUFFERSIZE
<1>1. /\ pc = "loop" /\ s \in allocated /\ clientState[s] = "WRITING"
      /\ freeSpace(s) > MAX_SINGLE_LINE_RESPONSE
  BY DEF MayExecute
<1>2. output[s] \in Nat /\ output[s] <= BUFFERSIZE
  BY DEF IInv, TypeOK, OutputFits
<1>3. freeSpace(s) \in Nat /\ LINE <= freeSpace(s)
  BY <1>1, <1>2, BufferAssumption DEF freeSpace
<1>4. Written(freeSpace(s), LINE) = LINE /\ output[s] + LINE \in 1..BUFFERSIZE
  BY <1>2, <1>3, BufferAssumption DEF freeSpace, Written
<1>5. ~Resuming(s) => commands[s] # <<>>
  BY DEF MayExecute, Resuming
<1>6. CASE Resuming(s)
  BY <1>6, <1>1, <1>2, <1>3, <1>4 DEF Resuming, Oldest, IInv, TypeOK
<1>7. CASE ~Resuming(s)
  <2>1. commands[s] \in Seq(Command) /\ commands[s] # <<>>
    BY <1>5, <1>7 DEF IInv, TypeOK
  <2>2. Head(commands[s]) \in Command
    BY <2>1, HeadTailProperties
  <2> QED
    BY <2>2, <1>1, <1>2, <1>3, <1>4, <1>5, <1>7 DEF Oldest
<1> QED
  BY <1>6, <1>7

\* Taking a command from the list changes one slot, and keeps the types.
LEMMA DequeueType ==
    ASSUME IInv, NEW s \in Slots, MayExecute(s), NEW b \in BOOLEAN, Dequeue(s, b)
    PROVE  /\ commands' \in [Slots -> Seq(Command)]
           /\ currentCommand' \in [Slots -> Command \cup {NULL}]
           /\ currentCommand'[s] = IF b THEN NULL ELSE Oldest(s)
           /\ \A t \in Slots \ {s} : /\ commands'[t] = commands[t]
                                     /\ currentCommand'[t] = currentCommand[t]
<1>1. commands[s] \in Seq(Command) /\ commands \in [Slots -> Seq(Command)]
  BY DEF IInv, TypeOK
<1>2. ~Resuming(s) => Tail(commands[s]) \in Seq(Command)
  BY <1>1, ExecuteFacts, HeadTailProperties
<1>3. Oldest(s) \in Command /\ currentCommand \in [Slots -> Command \cup {NULL}]
  BY ExecuteFacts DEF IInv, TypeOK
<1> QED
  BY <1>1, <1>2, <1>3 DEF Dequeue

\* What the handlers of the transaction state find.
LEMMA TransactionFacts ==
    ASSUME IInv, NEW s \in Slots, NEW ops, Executes(s, ops),
           ops \subseteq {"LIST", "STAT", "NOOP", "LISTNO", "DELE", "RSET", "RETR"}
    PROVE  /\ sessionState[s] = "TRANSACTION"
           /\ mailCache[s] \in Cache
           /\ username[s] \in Users
           /\ Oldest(s).op \in ops
<1>1. Oldest(s).op \in ops
  BY DEF Executes
<1>2. sessionState[s] = "TRANSACTION"
  <2>1. CASE Resuming(s)
    BY <2>1 DEF Resuming, IInv, SessionCoherent
  <2>2. CASE ~Resuming(s)
    BY <2>2, <1>1 DEF Executes, popStateNeeded
  <2> QED
    BY <2>1, <2>2
<1> QED
  BY <1>1, <1>2 DEF IInv, SessionCoherent, TypeOK

\* Closing connections keeps the types of the table.
LEMMA ClearSlotsType ==
    ASSUME TypeOK, NEW C \in SUBSET Slots, ClearSlots(C)
    PROVE  /\ allocated' \subseteq Slots
           /\ sessionState' \in
                [Slots -> {"ANY", "AUTHENTICATION", "TRANSACTION", "UPDATE"}]
           /\ clientState' \in [Slots -> {"READING", "WRITING"}]
           /\ username' \in [Slots -> Users \cup {NULL}]
           /\ commands' \in [Slots -> Seq(Command)]
           /\ currentCommand' \in [Slots -> Command \cup {NULL}]
           /\ mailCache' \in [Slots -> Cache \cup {NULL}]
           /\ output' \in [Slots -> Nat]
           /\ listed' \in [Slots -> Seq(Nat)]
<1>1. <<>> \in Seq(Command) /\ <<>> \in Seq(Nat) /\ 0 \in Nat
  BY EmptySeq
<1> QED
  BY <1>1 DEF TypeOK, ClearSlots, Zeroed

\* What closing a connection does, slot by slot.
LEMMA ClearSlotsEffect ==
    ASSUME NEW C \in SUBSET Slots, ClearSlots(C), NEW t \in Slots
    PROVE  /\ t \in C =>
                /\ sessionState'[t] = "ANY" /\ clientState'[t] = "READING"
                /\ username'[t] = NULL /\ commands'[t] = <<>>
                /\ currentCommand'[t] = NULL /\ mailCache'[t] = NULL
                /\ output'[t] = 0
           /\ t \notin C =>
                /\ sessionState'[t] = sessionState[t]
                /\ clientState'[t] = clientState[t]
                /\ username'[t] = username[t] /\ commands'[t] = commands[t]
                /\ currentCommand'[t] = currentCommand[t]
                /\ mailCache'[t] = mailCache[t] /\ output'[t] = output[t]
BY DEF ClearSlots, Zeroed

(***************************************************************************)
(* Every step keeps the types.                                             *)
(***************************************************************************)
\* The steps of a connection (accept, read, write, close) keep the types.
LEMMA TypeConnections ==
    ASSUME IInv, NEW s \in Slots,
           \/ acceptConnection(s) \/ readFromClient(s) \/ readEof(s)
           \/ writeToClient(s) \/ sendFails(s) \/ reap(s)
    PROVE  TypeOK'
<1> USE DEF IInv, TypeOK
<1>1. CASE acceptConnection(s)
  <2>1. output[s] + LINE \in Nat /\ <<>> \in Seq(Command)
    BY BufferAssumption, EmptySeq
  <2>2. concurrentConnections + 1 \in Nat /\ historicConnections + 1 \in Nat
    OBVIOUS
  <2> QED
    BY <1>1, <2>1, <2>2 DEF acceptConnection, Put, userVars
<1>2. CASE readFromClient(s)
  <2>1. PICK lines \in Inputs :
          commands' = [commands EXCEPT ![s] = commands[s] \o lines]
    BY <1>2 DEF readFromClient
  <2>2. commands[s] \o lines \in Seq(Command)
    BY InputAssumption, ConcatProperties
  <2> QED
    BY <1>2, <2>1, <2>2 DEF readFromClient, userVars, statVars
<1>3. CASE readEof(s)
  <2>1. ClearSlots({s}) /\ allocated \in SUBSET Slots /\ s \in allocated
    BY <1>3 DEF readEof, closeClient
  <2>2. concurrentConnections - 1 \in Nat
    <3>1. IsFiniteSet(allocated) /\ allocated # {}
      BY <2>1, SlotsFinite, FS_Subset
    <3>2. Cardinality(allocated) \in Nat /\ Cardinality(allocated) # 0
      BY <3>1, FS_CardinalityType, FS_EmptySet
    <3> QED
      BY <3>2 DEF ConnectionsNotUndercounted
  <2>3. lockLost' \subseteq Users
    BY <1>3 DEF readEof, closeClient, Sessions, SessionCoherent
  <2> QED
    BY <1>3, <2>1, <2>2, <2>3, ClearSlotsType
    DEF readEof, closeClient, toggleUserConnectedOff
<1>4. CASE writeToClient(s)
  <2>1. PICK sent \in 0..output[s] :
          output' = [output EXCEPT ![s] = output[s] - sent]
    BY <1>4 DEF writeToClient
  <2>2. output[s] - sent \in Nat
    OBVIOUS
  <2> QED
    BY <1>4, <2>1, <2>2 DEF writeToClient, GoTo, userVars, statVars
<1>5. ASSUME closeClient(s)
      PROVE  lockLost' \subseteq Users /\ connected' \subseteq connected
  BY <1>5 DEF closeClient, Sessions, SessionCoherent, toggleUserConnectedOff
<1>6. CASE sendFails(s)
  BY <1>6, <1>5, ClearSlotsType DEF sendFails, closeClient, GoTo, statVars
<1>7. CASE reap(s)
  <2>1. CASE closeClient(s)
    BY <1>7, <2>1, <1>5, ClearSlotsType DEF reap, closeClient, GoTo, statVars
  <2>2. CASE UNCHANGED <<slotVars, connected, lockLost>>
    BY <1>7, <2>2 DEF reap, slotVars, GoTo, statVars
  <2> QED
    BY <1>7, <2>1, <2>2 DEF reap
<1> QED
  BY <1>1, <1>2, <1>3, <1>4, <1>6, <1>7

\* The commands that answer in one line keep the types.
LEMMA TypeCommands ==
    ASSUME IInv, NEW s \in Slots,
           \/ refuse(s) \/ checkValidUsername(s) \/ checkValidPassword(s)
           \/ capa(s) \/ report(s) \/ dele(s) \/ rset(s) \/ quit(s)
    PROVE  TypeOK'
<1>1. MayExecute(s)
  BY DEF refuse, checkValidUsername, checkValidPassword, capa, report, dele,
         rset, quit, Executes
<1>2. LINE <= freeSpace(s) /\ Written(freeSpace(s), LINE) = LINE
      /\ output[s] + LINE \in Nat /\ Oldest(s) \in Command
  BY <1>1, ExecuteFacts
<1>3. \A b \in BOOLEAN : Dequeue(s, b) =>
        /\ commands' \in [Slots -> Seq(Command)]
        /\ currentCommand' \in [Slots -> Command \cup {NULL}]
  BY <1>1, DequeueType
<1>4. TypeOK
  BY DEF IInv
<1> USE DEF TypeOK, Put, GoTo
<1>5. CASE refuse(s)
  BY <1>5, <1>2, <1>3, <1>4 DEF refuse, userVars, statVars
<1>6. CASE checkValidUsername(s)
  <2>1. Oldest(s).arg \in Users
    BY <1>6, <1>2, CommandFields DEF checkValidUsername, Executes
  <2> QED
    BY <1>6, <2>1, <1>2, <1>3, <1>4 DEF checkValidUsername, userVars, statVars
<1>7. CASE checkValidPassword(s)
  <2>1. CASE validPassword(username[s], Oldest(s).arg)
             /\ username[s] \notin connected
    <3>1. username[s] \in registered
      BY <2>1 DEF validPassword
    <3>2. PICK c \in initCaches(username[s]) :
            mailCache' = [mailCache EXCEPT ![s] = c]
      BY <1>7, <2>1 DEF checkValidPassword
    <3>3. c \in Cache
      BY <1>4, <3>1, InitCachesType
    <3>4. mailCache' \in [Slots -> Cache \cup {NULL}]
      BY <3>2, <3>3, <1>4
    <3>5. connected' \subseteq registered /\ registered' = registered
      BY <1>7, <2>1, <3>1, <1>4 DEF checkValidPassword
    <3>6. /\ sessionState' \in
               [Slots -> {"ANY", "AUTHENTICATION", "TRANSACTION", "UPDATE"}]
          /\ output' \in [Slots -> Nat]
      BY <1>7, <2>1, <1>2, <1>4 DEF checkValidPassword
    <3> QED
      BY <1>7, <3>4, <3>5, <3>6, <1>2, <1>3, <1>4
      DEF checkValidPassword, statVars
  <2>2. CASE ~(validPassword(username[s], Oldest(s).arg)
               /\ username[s] \notin connected)
    BY <1>7, <2>2, <1>2, <1>3, <1>4 DEF checkValidPassword, statVars
  <2> QED
    BY <2>1, <2>2
<1>8. CASE capa(s)
  BY <1>8, <1>2, <1>3, <1>4 DEF capa, userVars, statVars
<1>9. CASE report(s)
  BY <1>9, <1>2, <1>3, <1>4 DEF report, userVars, statVars
<1>10. CASE dele(s)
  <2>1. mailCache[s] \in Cache /\ Oldest(s).op = "DELE"
    BY <1>10, TransactionFacts DEF dele
  <2>2. Oldest(s).arg \in Nat
    BY <1>2, <2>1, CommandFields DEF NumberedOps
  <2>3. markMailToDelete(mailCache[s], Oldest(s).arg) \in Cache
    BY <2>1, <2>2, CacheOperators
  <2> QED
    BY <1>10, <2>1, <2>3, <1>2, <1>3, <1>4 DEF dele, userVars, statVars
<1>11. CASE rset(s)
  <2>1. resetToDelete(mailCache[s]) \in Cache
    BY <1>11, TransactionFacts, CacheOperators, 0 \in Nat DEF rset
  <2> QED
    BY <1>11, <2>1, <1>2, <1>3, <1>4 DEF rset, userVars, statVars
<1>12. CASE quit(s)
  <2>1. maildir' \in [Users -> SUBSET Mail]
    <3>1. CASE sessionState[s] = "TRANSACTION"
      <4>1. PICK gone \in SUBSET MarkedMails(mailCache[s]) :
              maildir' = [maildir EXCEPT ![username[s]] = @ \ gone]
        BY <1>12, <3>1 DEF quit
      <4> QED
        BY <4>1, <1>4
    <3>2. CASE sessionState[s] # "TRANSACTION"
      BY <1>12, <3>2, <1>4 DEF quit
    <3> QED
      BY <3>1, <3>2
  <2> QED
    BY <1>12, <2>1, <1>2, <1>3, <1>4 DEF quit, userVars, statVars
<1> QED
  BY <1>5, <1>6, <1>7, <1>8, <1>9, <1>10, <1>11, <1>12

\* The room a round of RETR has, and what it takes of it.
LEMMA RetrFacts ==
    ASSUME IInv, NEW s \in Slots, Executes(s, {"RETR"})
    PROVE  /\ mailCache[s] \in Cache
           /\ Oldest(s).op = "RETR" /\ Oldest(s).arg \in Nat
           /\ Header(s) \in Nat /\ Room(s) \in Nat /\ ToRead(s) \in Nat
           /\ Copied(s) \in Nat /\ Copied(s) <= ToRead(s)
           /\ Copied(s) <= Room(s)
           /\ output[s] + Header(s) + Room(s) = BUFFERSIZE
<1>1. MayExecute(s) /\ mailCache[s] \in Cache /\ Oldest(s).op = "RETR"
  BY TransactionFacts DEF Executes
<1>2. Oldest(s).arg \in Nat
  BY <1>1, ExecuteFacts, CommandFields DEF NumberedOps
<1>3. Header(s) \in Nat /\ Header(s) <= freeSpace(s)
  BY <1>1, ExecuteFacts, BufferAssumption DEF Header
<1>4. /\ Room(s) \in Nat
      /\ output[s] + Header(s) + Room(s) = BUFFERSIZE
  BY <1>1, <1>3, ExecuteFacts, BufferAssumption, SMTT(20) DEF Room, freeSpace
<1>5. ToRead(s) \in Nat
  BY <1>1, BufferAssumption DEF ToRead, Cache
<1>6. Copied(s) \in Nat /\ Copied(s) <= ToRead(s) /\ Copied(s) <= Room(s)
  BY <1>4, <1>5, BufferAssumption DEF Copied
<1> QED
  BY <1>1, <1>2, <1>3, <1>4, <1>5, <1>6

\* A message that is written whole or not at all never overflows.
LEMMA WrittenFits ==
    ASSUME NEW space \in Nat, NEW n \in Nat
    PROVE  Written(space, n) \in 0..space
BY DEF Written

\* The room there is at a step of LIST or at its end.
LEMMA ListFacts ==
    ASSUME IInv, pc = "list"
    PROVE  /\ turn \in allocated /\ turn \in Slots
           /\ sessionState[turn] = "TRANSACTION"
           /\ currentCommand[turn] # NULL
           /\ mailCache[turn] \in Cache
           /\ clientState[turn] = "WRITING"
           /\ freeSpace(turn) \in Nat
           /\ output[turn] + freeSpace(turn) = BUFFERSIZE
           /\ mailCount(mailCache[turn]) \in Nat
<1>1. turn \in allocated /\ clientState[turn] = "WRITING"
      /\ currentCommand[turn] # NULL
  BY DEF IInv, TurnCoherent
<1>2. turn \in Slots /\ output[turn] \in Nat /\ output[turn] <= BUFFERSIZE
  BY <1>1 DEF IInv, TypeOK, OutputFits
<1>3. sessionState[turn] = "TRANSACTION" /\ mailCache[turn] \in Cache
  BY <1>1, <1>2 DEF IInv, SessionCoherent, TypeOK
<1>4. mailCount(mailCache[turn]) \in Nat
  BY <1>3, LenProperties DEF Cache, mailCount
<1> QED
  BY <1>1, <1>2, <1>3, <1>4, BufferAssumption DEF freeSpace

\* LIST moves the iterator of a cache to give another.
LEMMA IteratorType ==
    ASSUME NEW c \in Cache, NEW n \in Nat
    PROVE  [c EXCEPT !.iterator = n] \in Cache
BY DEF Cache

\* RETR moves the open mail of a cache to give another.
LEMMA MailType ==
    ASSUME NEW c \in Cache, NEW n \in Nat, NEW k \in Nat
    PROVE  [c EXCEPT !.mail = n] \in Cache
           /\ [c EXCEPT !.mail = n, !.left = k] \in Cache
BY DEF Cache

\* A step of LIST changes nothing of the caches but one iterator.
LEMMA IterateFacts ==
    ASSUME NEW s \in Slots, mailCount(mailCache[s]) \in Nat, continueList(s)
    PROVE  \E n \in Nat : mailCache' = [mailCache EXCEPT ![s].iterator = n]
BY DEF continueList, Remaining

\* The steps of LIST and RETR keep the types.
LEMMA TypeListRetr ==
    ASSUME IInv, NEW s \in Slots,
           \/ list(s) \/ continueList(s) \/ endList(s) \/ retrRefused(s)
           \/ openFails(s) \/ retr(s) \/ readFails(s)
    PROVE  TypeOK'
<1>1. TypeOK /\ 0 \in Nat /\ s \in Slots \cup {0} /\ 0 \in Slots \cup {0}
  BY DEF IInv
<1>2. MayExecute(s) => /\ Written(freeSpace(s), LINE) = LINE
                       /\ output[s] + LINE \in Nat
  BY ExecuteFacts
<1>3. \A b \in BOOLEAN : MayExecute(s) /\ Dequeue(s, b) =>
        /\ commands' \in [Slots -> Seq(Command)]
        /\ currentCommand' \in [Slots -> Command \cup {NULL}]
  BY DequeueType
<1> USE DEF TypeOK, Put, GoTo
<1>4. CASE list(s)
  <2>1. MayExecute(s) /\ mailCache[s] \in Cache /\ <<>> \in Seq(Nat)
    BY <1>4, TransactionFacts, EmptySeq DEF list, Executes
  <2>2. /\ output' \in [Slots -> Nat]
        /\ mailCache' \in [Slots -> Cache \cup {NULL}]
        /\ listed' \in [Slots -> Seq(Nat)]
    <3>1. CASE Resuming(s)
      BY <1>1, <1>4, <3>1 DEF list
    <3>2. CASE ~Resuming(s)
      <4>1. [mailCache[s] EXCEPT !.iterator = 0] \in Cache
        BY <2>1, IteratorType
      <4>2. mailCache' =
              [mailCache EXCEPT ![s] = [mailCache[s] EXCEPT !.iterator = 0]]
        BY <1>4, <3>2 DEF list
      <4>3. mailCache' \in [Slots -> Cache \cup {NULL}]
        BY <1>1, <4>1, <4>2
      <4>4. output' = [output EXCEPT ![s] = output[s] + LINE]
        BY <1>2, <1>4, <2>1, <3>2 DEF list
      <4>5. listed' = [listed EXCEPT ![s] = <<>>]
        BY <1>4, <3>2 DEF list
      <4> QED
        BY <1>1, <1>2, <2>1, <4>3, <4>4, <4>5
    <3> QED
      BY <3>1, <3>2
  <2> QED
    BY <1>1, <1>3, <1>4, <2>1, <2>2 DEF list, userVars, statVars
<1>5. CASE continueList(s)
  <2>1. /\ mailCache[s] \in Cache /\ mailCount(mailCache[s]) \in Nat
        /\ freeSpace(s) \in Nat
    BY <1>5, ListFacts DEF continueList
  <2>2. output[s] + Written(freeSpace(s), LINE) \in Nat
    <3>1. Written(freeSpace(s), LINE) \in Nat
      BY <2>1, BufferAssumption DEF Written
    <3> QED
      BY <1>1, <3>1
  <2>3. mailInfo' \in Nat
    BY <1>1, <1>5, <2>1 DEF continueList, Remaining
  <2>4. mailCache' \in [Slots -> Cache \cup {NULL}]
    <3>1. PICK n \in Nat : mailCache' = [mailCache EXCEPT ![s].iterator = n]
      BY <1>5, <2>1, IterateFacts
    <3>2. mailCache' =
            [mailCache EXCEPT ![s] = [mailCache[s] EXCEPT !.iterator = n]]
      BY <3>1
    <3>3. [mailCache[s] EXCEPT !.iterator = n] \in Cache
      BY <2>1, IteratorType
    <3> QED
      BY <1>1, <3>2, <3>3
  <2>5. Append(listed[s], mailInfo') \in Seq(Nat)
    BY <1>1, <2>3, AppendProperties
  <2> QED
    BY <1>1, <1>5, <2>2, <2>3, <2>4, <2>5 DEF continueList, userVars, statVars
<1>6. CASE endList(s)
  <2>1. output' \in [Slots -> Nat]
    <3>1. freeSpace(s) \in Nat
      BY <1>6, ListFacts DEF endList
    <3>2. Written(freeSpace(s), TERMINATOR) \in Nat
      BY <3>1, BufferAssumption DEF Written
    <3> QED
      BY <1>1, <1>6, <3>2 DEF endList
  <2>2. listed' \in [Slots -> Seq(Nat)]
    BY <1>1, <1>6, EmptySeq DEF endList
  <2> QED
    BY <1>1, <1>6, <2>1, <2>2 DEF endList, userVars, statVars
<1>7. CASE retrRefused(s)
  BY <1>1, <1>2, <1>3, <1>7 DEF retrRefused, Executes, userVars, statVars
<1>8. CASE openFails(s)
  BY <1>1, <1>8 DEF openFails, slotVars, userVars, statVars, Exits
<1>9. CASE retr(s)
  <2>1. Executes(s, {"RETR"}) /\ MayExecute(s)
    BY <1>9 DEF retr, Executes
  <2>2. mailCache' \in [Slots -> Cache \cup {NULL}]
    <3> DEFINE m == IF ReachesEof(s) THEN 0 ELSE Oldest(s).arg
               k == ToRead(s) - Copied(s)
    <3>1. m \in Nat /\ k \in Nat /\ mailCache[s] \in Cache
      BY <2>1, RetrFacts
    <3>2. [mailCache[s] EXCEPT !.mail = m, !.left = k] \in Cache
      BY <3>1, MailType
    <3>3. mailCache' =
            [mailCache EXCEPT ![s] = [mailCache[s] EXCEPT !.mail = m, !.left = k]]
      BY <1>9 DEF retr
    <3> QED
      BY <1>1, <3>2, <3>3
  <2>3. output' \in [Slots -> Nat]
    <3>1. /\ Room(s) - Copied(s) \in Nat /\ Header(s) \in Nat
          /\ Copied(s) \in Nat
      BY <2>1, RetrFacts
    <3>2. Written(Room(s) - Copied(s), TERMINATOR) \in Nat
      BY <3>1, BufferAssumption DEF Written
    <3> QED
      BY <1>1, <1>9, <3>1, <3>2 DEF retr
  <2>4. ReachesEof(s) \in BOOLEAN
    BY DEF ReachesEof
  <2> QED
    BY <1>1, <1>3, <1>9, <2>1, <2>2, <2>3, <2>4 DEF retr, userVars, statVars
<1>10. CASE readFails(s)
  <2>1. Executes(s, {"RETR"}) /\ MayExecute(s)
    BY <1>10 DEF readFails, Executes
  <2>2. mailCache' \in [Slots -> Cache \cup {NULL}]
    <3>1. [mailCache[s] EXCEPT !.mail = Oldest(s).arg] \in Cache
      BY <2>1, RetrFacts, MailType, 0 \in Nat
    <3>2. mailCache' =
            [mailCache EXCEPT ![s] = [mailCache[s] EXCEPT !.mail = Oldest(s).arg]]
      BY <1>10 DEF readFails
    <3> QED
      BY <1>1, <3>1, <3>2
  <2>3. output' \in [Slots -> Nat]
    BY <1>1, <1>10, <2>1, RetrFacts DEF readFails
  <2> QED
    BY <1>1, <1>3, <1>10, <2>1, <2>2, <2>3 DEF readFails, userVars, statVars
<1> QED
  BY <1>4, <1>5, <1>6, <1>7, <1>8, <1>9, <1>10

\* The ends of the server and the monitoring commands keep the types.
LEMMA TypeOthers ==
    ASSUME IInv,
           acceptExits \/ shutdown \/ Administer \/ UNCHANGED vars
    PROVE  TypeOK'
<1> USE DEF IInv, TypeOK
<1>1. CASE acceptExits
  BY <1>1 DEF acceptExits, slotVars, userVars, statVars, Exits
<1>2. CASE shutdown
  <2>1. allocated \in SUBSET Slots /\ ClearSlots(allocated)
    BY <1>2 DEF shutdown
  <2> QED
    BY <1>2, <2>1, ClearSlotsType DEF shutdown, GoTo, statVars, Exits
<1>3. CASE Administer
  <2>1. PICK u \in Administered :
          \/ \E p \in Passwords : addUser(u, p) \/ modifyUserPassword(u, p)
          \/ deleteUser(u)
    BY <1>3 DEF Administer
  <2>2. u \in Users
    BY UserAssumption
  <2>3. CASE \E p \in Passwords : addUser(u, p)
    BY <2>2, <2>3 DEF addUser, slotVars, statVars
  <2>4. CASE \E p \in Passwords : modifyUserPassword(u, p)
    BY <2>2, <2>4 DEF modifyUserPassword, slotVars, statVars
  <2>5. CASE deleteUser(u)
    BY <2>2, <2>5 DEF deleteUser, slotVars, statVars
  <2> QED
    BY <2>1, <2>3, <2>4, <2>5
<1>4. CASE UNCHANGED vars
  BY <1>4 DEF vars, slotVars, userVars, statVars
<1> QED
  BY <1>1, <1>2, <1>3, <1>4

\* Every step keeps the types.
LEMMA TypeStep ==
    ASSUME IInv, [Next]_vars
    PROVE  TypeOK'
BY TypeConnections, TypeCommands, TypeListRetr, TypeOthers
DEF Next, Serve, Execute, FinishTurn

(***************************************************************************)
(* Every step keeps the sessions coherent.                                 *)
(***************************************************************************)
\* A new command is what USER, PASS and the like find: only LIST and RETR are
\* ever resumed.
LEMMA NewCommand ==
    ASSUME IInv, NEW s \in Slots, NEW ops, Executes(s, ops),
           ops \cap {"LIST", "RETR"} = {}
    PROVE  /\ ~Resuming(s)
           /\ Oldest(s).op \in ops
           /\ popStateNeeded(Oldest(s).op) \in {"ANY", sessionState[s]}
BY DEF Executes, Resuming, Oldest, IInv, SessionCoherent

\* USER and PASS find a session that has no maildrop yet.
LEMMA LoginFacts ==
    ASSUME IInv, NEW s \in Slots, Executes(s, {"USER"}) \/ Executes(s, {"PASS"})
    PROVE  sessionState[s] = "AUTHENTICATION" /\ mailCache[s] = NULL
<1>1. sessionState[s] = "AUTHENTICATION"
  BY NewCommand DEF popStateNeeded
<1> QED
  BY <1>1 DEF IInv, SessionCoherent

\* Closing connections leaves the sessions coherent.
LEMMA SessionClosing ==
    ASSUME IInv, NEW C \in SUBSET Slots, ClearSlots(C)
    PROVE  SessionCoherent'
<1> SUFFICES ASSUME NEW t \in Slots
             PROVE  /\ sessionState'[t] = "TRANSACTION" => mailCache'[t] # NULL
                    /\ sessionState'[t] = "AUTHENTICATION" => mailCache'[t] = NULL
                    /\ mailCache'[t] # NULL => username'[t] # NULL
                    /\ currentCommand'[t] # NULL =>
                         /\ sessionState'[t] = "TRANSACTION"
                         /\ currentCommand'[t].op \in {"LIST", "RETR"}
  BY DEF SessionCoherent
<1> QED
  BY ClearSlotsEffect DEF IInv, SessionCoherent

\* The steps of a connection leave the sessions coherent.
LEMMA SessionConnections ==
    ASSUME IInv, NEW s \in Slots,
           \/ acceptConnection(s) \/ readFromClient(s) \/ readEof(s)
           \/ writeToClient(s) \/ sendFails(s) \/ reap(s)
    PROVE  SessionCoherent'
<1> USE DEF IInv, TypeOK, SessionCoherent
<1>1. CASE acceptConnection(s)
  BY <1>1 DEF acceptConnection, SlotClean
<1>2. CASE readFromClient(s)
  BY <1>2 DEF readFromClient
<1>3. CASE writeToClient(s)
  BY <1>3 DEF writeToClient
<1>4. CASE readEof(s) \/ sendFails(s)
  BY <1>4, SessionClosing DEF readEof, sendFails, closeClient
<1>5. CASE reap(s)
  <2>1. CASE closeClient(s)
    BY <2>1, SessionClosing DEF closeClient
  <2>2. CASE UNCHANGED <<slotVars, connected, lockLost>>
    BY <2>2 DEF slotVars
  <2> QED
    BY <1>5, <2>1, <2>2 DEF reap
<1> QED
  BY <1>1, <1>2, <1>3, <1>4, <1>5

\* The commands that answer in one line leave the sessions coherent.
LEMMA SessionCommands ==
    ASSUME IInv, NEW s \in Slots,
           \/ refuse(s) \/ checkValidUsername(s) \/ checkValidPassword(s)
           \/ capa(s) \/ report(s) \/ dele(s) \/ rset(s) \/ quit(s)
    PROVE  SessionCoherent'
<1>1. MayExecute(s)
  BY DEF refuse, checkValidUsername, checkValidPassword, capa, report, dele,
         rset, quit, Executes
<1>2. LINE <= freeSpace(s)
  BY <1>1, ExecuteFacts
<1>3. Dequeue(s, TRUE)
  BY <1>2 DEF refuse, checkValidUsername, checkValidPassword, capa, report,
              dele, rset, quit
<1>4. /\ currentCommand'[s] = NULL
      /\ \A t \in Slots \ {s} : currentCommand'[t] = currentCommand[t]
  BY <1>1, <1>3, DequeueType
<1>5. TypeOK /\ SessionCoherent
  BY DEF IInv
<1> USE DEF TypeOK, SessionCoherent
<1>6. CASE refuse(s)
  BY <1>4, <1>5, <1>6 DEF refuse
<1>7. CASE checkValidUsername(s)
  <2>1. mailCache[s] = NULL
    BY <1>7, LoginFacts DEF checkValidUsername
  <2> QED
    BY <1>4, <1>5, <1>7, <2>1 DEF checkValidUsername
<1>8. CASE checkValidPassword(s)
  <2>1. CASE validPassword(username[s], Oldest(s).arg)
             /\ username[s] \notin connected
    <3>1. username[s] \in Users
      BY <1>5, <2>1 DEF validPassword
    <3>2. PICK c \in initCaches(username[s]) :
            mailCache' = [mailCache EXCEPT ![s] = c]
      BY <1>8, <2>1 DEF checkValidPassword
    <3>3. c # NULL
      BY <1>5, <3>1, InitCachesType, NullFacts
    <3>4. username' = username /\ username[s] # NULL
      BY <1>8, <3>1, NullFacts DEF checkValidPassword
    <3>5. sessionState' = [sessionState EXCEPT ![s] = "TRANSACTION"]
      BY <1>8, <2>1 DEF checkValidPassword
    <3> QED
      BY <1>4, <1>5, <3>2, <3>3, <3>4, <3>5
  <2>2. CASE ~(validPassword(username[s], Oldest(s).arg)
               /\ username[s] \notin connected)
    BY <1>4, <1>5, <1>8, <2>2 DEF checkValidPassword
  <2> QED
    BY <2>1, <2>2
<1>9. CASE capa(s)
  BY <1>4, <1>5, <1>9 DEF capa
<1>10. CASE report(s)
  BY <1>4, <1>5, <1>10 DEF report
<1>11. ASSUME NEW c \in Cache, mailCache' = [mailCache EXCEPT ![s] = c],
              sessionState[s] = "TRANSACTION", username' = username,
              sessionState' = sessionState
       PROVE  SessionCoherent'
  BY <1>4, <1>5, <1>11, NullFacts
<1>12. CASE dele(s)
  <2>1. mailCache[s] \in Cache /\ sessionState[s] = "TRANSACTION"
        /\ Oldest(s).op = "DELE"
    BY <1>12, TransactionFacts DEF dele
  <2>2. Oldest(s).arg \in Nat
    BY <1>1, <2>1, ExecuteFacts, CommandFields DEF NumberedOps
  <2>3. markMailToDelete(mailCache[s], Oldest(s).arg) \in Cache
    BY <2>1, <2>2, CacheOperators
  <2> QED
    BY <1>11, <1>12, <2>1, <2>3 DEF dele
<1>13. CASE rset(s)
  <2>1. mailCache[s] \in Cache /\ sessionState[s] = "TRANSACTION"
    BY <1>13, TransactionFacts DEF rset
  <2>2. resetToDelete(mailCache[s]) \in Cache
    BY <2>1, CacheOperators, 0 \in Nat
  <2> QED
    BY <1>11, <1>13, <2>1, <2>2 DEF rset
<1>14. CASE quit(s)
  BY <1>4, <1>5, <1>14 DEF quit
<1> QED
  BY <1>6, <1>7, <1>8, <1>9, <1>10, <1>12, <1>13, <1>14

\* A step of LIST or RETR replaces the cache by another, in TRANSACTION.
LEMMA SessionTransaction ==
    ASSUME IInv, NEW s \in Slots, sessionState[s] = "TRANSACTION",
           mailCache'[s] # NULL,
           currentCommand'[s] # NULL => currentCommand'[s].op \in {"LIST", "RETR"},
           \A t \in Slots \ {s} : /\ mailCache'[t] = mailCache[t]
                                  /\ currentCommand'[t] = currentCommand[t],
           username' = username, sessionState' = sessionState
    PROVE  SessionCoherent'
BY DEF IInv, SessionCoherent

\* The steps of LIST and RETR leave the sessions coherent.
LEMMA SessionListRetr ==
    ASSUME IInv, NEW s \in Slots,
           \/ list(s) \/ continueList(s) \/ endList(s) \/ retrRefused(s)
           \/ openFails(s) \/ retr(s) \/ readFails(s)
    PROVE  SessionCoherent'
<1> USE DEF IInv, TypeOK
<1>1. \A b \in BOOLEAN : MayExecute(s) /\ Dequeue(s, b) =>
        /\ currentCommand'[s] = IF b THEN NULL ELSE Oldest(s)
        /\ \A t \in Slots \ {s} : currentCommand'[t] = currentCommand[t]
  BY DequeueType
<1>2. TypeOK'
  BY TypeListRetr
<1>3. CASE list(s)
  <2>1. /\ MayExecute(s) /\ mailCache[s] \in Cache
        /\ sessionState[s] = "TRANSACTION" /\ Oldest(s).op = "LIST"
    BY <1>3, TransactionFacts DEF list, Executes
  <2>2. mailCache' = mailCache
          \/ mailCache' = [mailCache EXCEPT ![s] =
                              [mailCache[s] EXCEPT !.iterator = 0]]
    BY <1>3 DEF list
  <2>3. [mailCache[s] EXCEPT !.iterator = 0] \in Cache
    BY <2>1, IteratorType
  <2>4. mailCache'[s] # NULL
        /\ \A t \in Slots \ {s} : mailCache'[t] = mailCache[t]
    BY <2>1, <2>2, <2>3, NullFacts
  <2> QED
    BY <1>1, <1>3, <2>1, <2>4, SessionTransaction DEF list
<1>4. CASE continueList(s)
  <2>1. mailCache[s] \in Cache /\ sessionState[s] = "TRANSACTION"
        /\ mailCount(mailCache[s]) \in Nat
    BY <1>4, ListFacts DEF continueList
  <2>2. PICK n \in Nat : mailCache' = [mailCache EXCEPT ![s].iterator = n]
    BY <1>4, <2>1, IterateFacts
  <2>3. mailCache' =
          [mailCache EXCEPT ![s] = [mailCache[s] EXCEPT !.iterator = n]]
    BY <2>2
  <2>4. [mailCache[s] EXCEPT !.iterator = n] \in Cache
    BY <2>1, IteratorType
  <2>5. mailCache'[s] # NULL
        /\ \A t \in Slots \ {s} : mailCache'[t] = mailCache[t]
    BY <2>3, <2>4, NullFacts
  <2>6. UNCHANGED <<currentCommand, username, sessionState>>
    BY <1>4 DEF continueList
  <2>7. currentCommand[s] # NULL => currentCommand[s].op \in {"LIST", "RETR"}
    BY DEF SessionCoherent
  <2> QED
    BY <2>1, <2>5, <2>6, <2>7, SessionTransaction
<1>5. CASE endList(s)
  BY <1>5 DEF endList, SessionCoherent
<1>6. CASE retrRefused(s)
  BY <1>1, <1>6 DEF retrRefused, Executes, SessionCoherent
<1>7. CASE openFails(s)
  BY <1>7 DEF openFails, slotVars, SessionCoherent
<1>8. ASSUME retr(s) \/ readFails(s)
      PROVE  /\ MayExecute(s) /\ mailCache[s] \in Cache
             /\ sessionState[s] = "TRANSACTION" /\ Oldest(s).op = "RETR"
             /\ Oldest(s).arg \in Nat
             /\ ToRead(s) - Copied(s) \in Nat /\ ReachesEof(s) \in BOOLEAN
  <2>1. Executes(s, {"RETR"}) /\ MayExecute(s)
    BY <1>8 DEF retr, readFails, Executes
  <2>2. ToRead(s) - Copied(s) \in Nat
    BY <2>1, RetrFacts
  <2> QED
    BY <2>1, <2>2, RetrFacts, TransactionFacts DEF ReachesEof
<1>9. CASE retr(s)
  <2> DEFINE m == IF ReachesEof(s) THEN 0 ELSE Oldest(s).arg
             c == [mailCache[s] EXCEPT !.mail = m, !.left = ToRead(s) - Copied(s)]
  <2>1. c \in Cache
    BY <1>8, <1>9, MailType
  <2>2. mailCache' = [mailCache EXCEPT ![s] = c]
    BY <1>9 DEF retr
  <2>3. mailCache'[s] # NULL
        /\ \A t \in Slots \ {s} : mailCache'[t] = mailCache[t]
    BY <2>1, <2>2, NullFacts
  <2> QED
    BY <1>1, <1>8, <1>9, <2>3, SessionTransaction DEF retr
<1>10. CASE readFails(s)
  <2> DEFINE c == [mailCache[s] EXCEPT !.mail = Oldest(s).arg]
  <2>1. c \in Cache
    BY <1>8, <1>10, MailType, 0 \in Nat
  <2>2. mailCache' = [mailCache EXCEPT ![s] = c]
    BY <1>10 DEF readFails
  <2>3. mailCache'[s] # NULL
        /\ \A t \in Slots \ {s} : mailCache'[t] = mailCache[t]
    BY <2>1, <2>2, NullFacts
  <2> QED
    BY <1>1, <1>8, <1>10, <2>3, SessionTransaction DEF readFails
<1> QED
  BY <1>3, <1>4, <1>5, <1>6, <1>7, <1>9, <1>10

\* Every step leaves the sessions coherent.
LEMMA SessionStep ==
    ASSUME IInv, [Next]_vars
    PROVE  SessionCoherent'
<1>1. CASE acceptExits \/ Administer \/ UNCHANGED vars
  <2>1. UNCHANGED slotVars
    BY <1>1 DEF acceptExits, Administer, addUser, modifyUserPassword,
                deleteUser, vars
  <2> QED
    BY <2>1 DEF slotVars, IInv, SessionCoherent
<1>2. CASE shutdown
  BY <1>2, SessionClosing DEF shutdown, IInv, TypeOK
<1> QED
  BY <1>1, <1>2, SessionConnections, SessionCommands, SessionListRetr
  DEF Next, Serve, Execute, FinishTurn

(***************************************************************************)
(* Every step keeps the turn on a connection that is there.                *)
(***************************************************************************)
\* What every command does to the turn.
LEMMA TurnCommands ==
    ASSUME IInv, NEW s \in Slots, Execute(s), ~openFails(s)
    PROVE  /\ MayExecute(s)
           /\ allocated' = allocated /\ clientState' = clientState
           /\ pc' \in {"write", "list"} /\ turn' = s
           /\ pc' = "list" => list(s)
<1>1. MayExecute(s)
  BY DEF Execute, refuse, checkValidUsername, checkValidPassword, capa, report,
         dele, rset, quit, list, retrRefused, retr, readFails, Executes
<1>2. CASE list(s)
  BY <1>1, <1>2 DEF list, GoTo
<1>3. CASE ~list(s)
  BY <1>1, <1>3
  DEF Execute, refuse, checkValidUsername, checkValidPassword, capa, report,
      dele, rset, quit, retrRefused, retr, readFails, GoTo
<1> QED
  BY <1>2, <1>3

\* Every step keeps the turn on a connection that is there.
LEMMA TurnStep ==
    ASSUME IInv, [Next]_vars
    PROVE  TurnCoherent'
<1> USE DEF TurnCoherent
<1>1. ASSUME NEW s \in Slots,
             acceptConnection(s) \/ readFromClient(s) \/ readEof(s)
      PROVE  TurnCoherent'
  BY <1>1 DEF acceptConnection, readFromClient, readEof
<1>2. ASSUME NEW s \in Slots, sendFails(s) \/ reap(s)
      PROVE  TurnCoherent'
  BY <1>2 DEF sendFails, reap, GoTo
<1>3. ASSUME NEW s \in Slots, writeToClient(s)
      PROVE  TurnCoherent'
  BY <1>3 DEF writeToClient, WriteTurn, GoTo, IInv
<1>4. ASSUME NEW s \in Slots, openFails(s)
      PROVE  TurnCoherent'
  BY <1>4 DEF openFails, GoTo
<1>5. ASSUME NEW s \in Slots, Execute(s), ~openFails(s)
      PROVE  TurnCoherent'
  <2>1. /\ MayExecute(s) /\ allocated' = allocated /\ clientState' = clientState
        /\ pc' \in {"write", "list"} /\ turn' = s /\ (pc' = "list" => list(s))
    BY <1>5, TurnCommands
  <2>2. s \in allocated /\ clientState[s] = "WRITING" /\ Oldest(s) \in Command
    BY <2>1, ExecuteFacts
  <2>3. list(s) => currentCommand'[s] = Oldest(s)
    BY <2>1, DequeueType DEF list
  <2> QED
    BY <2>1, <2>2, <2>3, NullFacts
<1>6. ASSUME NEW s \in Slots, continueList(s)
      PROVE  TurnCoherent'
  BY <1>6 DEF continueList, IInv
<1>7. ASSUME NEW s \in Slots, endList(s)
      PROVE  TurnCoherent'
  BY <1>7 DEF endList, GoTo, IInv
<1>8. CASE acceptExits \/ shutdown
  BY <1>8 DEF acceptExits, shutdown, GoTo
<1>9. CASE Administer
  <2>1. UNCHANGED <<allocated, clientState, currentCommand, turn, pc>>
    BY <1>9 DEF Administer, addUser, modifyUserPassword, deleteUser, slotVars
  <2> QED
    BY <2>1 DEF IInv
<1>10. CASE UNCHANGED vars
  BY <1>10 DEF vars, slotVars, IInv
<1> QED
  BY <1>1, <1>2, <1>3, <1>4, <1>5, <1>6, <1>7, <1>8, <1>9, <1>10
  DEF Next, Serve, FinishTurn

(***************************************************************************)
(* Every step keeps the output in the buffer.                              *)
(***************************************************************************)
\* A command adds to its own output, and no more than there is room for.
LEMMA OutputCommands ==
    ASSUME IInv, NEW s \in Slots, Execute(s)
    PROVE  \E n \in 0..freeSpace(s) : output' = [output EXCEPT ![s] = @ + n]
<1>1. output = [output EXCEPT ![s] = @ + 0]
  BY DEF IInv, TypeOK
<1>2. CASE openFails(s)
  <2>1. freeSpace(s) \in Nat
    BY <1>2, ExecuteFacts DEF openFails, Opens, Executes
  <2>2. output' = [output EXCEPT ![s] = @ + 0]
    BY <1>1, <1>2 DEF openFails, slotVars
  <2>3. 0 \in 0..freeSpace(s)
    BY <2>1
  <2> QED
    BY <2>2, <2>3
<1>3. CASE ~openFails(s)
  <2>1. MayExecute(s)
    BY <1>3, TurnCommands
  <2>2. /\ freeSpace(s) \in Nat /\ Written(freeSpace(s), LINE) \in 0..freeSpace(s)
        /\ Written(freeSpace(s), LINE) = LINE
    BY <2>1, ExecuteFacts, WrittenFits, BufferAssumption
  <2>3. CASE list(s)
    BY <1>1, <2>2, <2>3 DEF list, Put
  <2>4. CASE retr(s)
    <3> DEFINE n == Header(s) + Copied(s) +
                      IF ReachesEof(s)
                      THEN Written(Room(s) - Copied(s), TERMINATOR) ELSE 0
    <3>1. /\ Header(s) \in Nat /\ Room(s) \in Nat /\ Copied(s) \in Nat
          /\ Copied(s) <= Room(s) /\ output[s] + Header(s) + Room(s) = BUFFERSIZE
      BY <2>4, RetrFacts DEF retr
    <3>2. /\ Room(s) - Copied(s) \in Nat
          /\ Written(Room(s) - Copied(s), TERMINATOR) \in 0..(Room(s) - Copied(s))
      <4>1. Room(s) - Copied(s) \in Nat
        BY <3>1
      <4> QED
        BY <4>1, WrittenFits, BufferAssumption
    <3>3. Header(s) + Room(s) = freeSpace(s)
      <4>1. output[s] \in Nat /\ BUFFERSIZE \in Nat
        BY <2>1, ExecuteFacts, BufferAssumption
      <4> HIDE DEF n
      <4> QED BY <3>1, <4>1 DEF freeSpace
    <3>4. n \in 0..freeSpace(s)
      <4> DEFINE h == Header(s)
                 r == Room(s)
                 c == Copied(s)
                 w == IF ReachesEof(s) THEN Written(r - c, TERMINATOR) ELSE 0
                 f == freeSpace(s)
      <4>1. n = h + c + w /\ h \in Nat /\ r \in Nat /\ c \in Nat /\ c <= r
        BY <3>1
      <4>2. w \in 0..(r - c)
        BY <3>1, <3>2
      <4>3. h + r = f
        BY <3>3
      <4> HIDE DEF n, h, r, c, w, f
      <4>4. n \in 0..f
        BY <4>1, <4>2, <4>3
      <4> QED BY <4>4 DEF n, f
    <3>5. output' = [output EXCEPT ![s] = @ + n]
      BY <2>4 DEF retr, Put
    <3> QED
      BY <3>4, <3>5
  <2>5. CASE readFails(s)
    <3>1. Header(s) \in 0..freeSpace(s)
      BY <2>2 DEF Header
    <3> QED
      BY <2>5, <3>1 DEF readFails, Put
  <2>6. CASE ~list(s) /\ ~retr(s) /\ ~readFails(s)
    <3>1. output' = [output EXCEPT ![s] = @ + Written(freeSpace(s), LINE)]
      BY <1>3, <2>2, <2>6
      DEF Execute, refuse, checkValidUsername, checkValidPassword, capa, report,
          dele, rset, quit, retrRefused, Put
    <3> QED
      BY <2>2, <3>1
  <2> QED
    BY <2>3, <2>4, <2>5, <2>6
<1> QED
  BY <1>2, <1>3

\* Every step keeps the output in the buffer.
LEMMA OutputStep ==
    ASSUME IInv, [Next]_vars
    PROVE  OutputFits'
<1>1. output \in [Slots -> Nat] /\ \A t \in Slots : output[t] <= BUFFERSIZE
  BY DEF IInv, TypeOK, OutputFits
<1>2. ASSUME NEW s \in Slots, NEW n \in Nat, output[s] + n <= BUFFERSIZE,
             output' = [output EXCEPT ![s] = @ + n]
      PROVE  OutputFits'
  BY <1>1, <1>2 DEF OutputFits
<1>3. ASSUME NEW C \in SUBSET Slots, ClearSlots(C)
      PROVE  OutputFits'
  BY <1>1, <1>3, ClearSlotsEffect, BufferAssumption DEF OutputFits
<1>4. ASSUME output' = output
      PROVE  OutputFits'
  BY <1>1, <1>4 DEF OutputFits
<1>5. ASSUME NEW s \in Slots, acceptConnection(s)
      PROVE  OutputFits'
  <2>1. output[s] = 0 /\ LINE \in Nat /\ LINE <= BUFFERSIZE
    BY <1>5, BufferAssumption DEF acceptConnection, IInv, SlotClean
  <2>2. output' = [output EXCEPT ![s] = @ + LINE]
    BY <1>5 DEF acceptConnection, Put
  <2>3. output[s] + LINE <= BUFFERSIZE
    BY <2>1
  <2> QED
    BY <1>2, <2>1, <2>2, <2>3
<1>6. ASSUME NEW s \in Slots, readEof(s) \/ sendFails(s)
      PROVE  OutputFits'
  BY <1>3, <1>6 DEF readEof, sendFails, closeClient
<1>7. ASSUME NEW s \in Slots, reap(s)
      PROVE  OutputFits'
  BY <1>3, <1>4, <1>7 DEF reap, closeClient, slotVars
<1>8. ASSUME NEW s \in Slots, writeToClient(s)
      PROVE  OutputFits'
  <2>1. PICK sent \in 0..output[s] :
          output' = [output EXCEPT ![s] = @ - sent]
    BY <1>8 DEF writeToClient
  <2> QED
    BY <1>1, <2>1, BufferAssumption DEF OutputFits
<1>9. ASSUME NEW s \in Slots, Execute(s)
      PROVE  OutputFits'
  <2>1. PICK n \in 0..freeSpace(s) : output' = [output EXCEPT ![s] = @ + n]
    BY <1>9, OutputCommands
  <2>2. n \in Nat /\ output[s] + n <= BUFFERSIZE
    BY <1>1, <2>1, BufferAssumption DEF freeSpace
  <2> QED
    BY <1>2, <2>1, <2>2
<1>10. ASSUME NEW s \in Slots, continueList(s) \/ endList(s)
       PROVE  OutputFits'
  <2>1. freeSpace(s) \in Nat /\ output[s] + freeSpace(s) = BUFFERSIZE
    BY <1>10, ListFacts DEF continueList, endList
  <2>2. /\ Written(freeSpace(s), LINE) \in 0..freeSpace(s)
        /\ Written(freeSpace(s), TERMINATOR) \in 0..freeSpace(s)
    BY <2>1, WrittenFits, BufferAssumption
  <2>3. PICK n \in 0..freeSpace(s) : output' = [output EXCEPT ![s] = @ + n]
    BY <1>10, <2>1, <2>2 DEF continueList, endList, Put
  <2>4. n \in Nat /\ output[s] + n <= BUFFERSIZE
    BY <1>1, <2>1, BufferAssumption
  <2> QED
    BY <1>2, <2>3, <2>4
<1>11. CASE shutdown
  BY <1>3, <1>11 DEF shutdown, IInv, TypeOK
<1>12. CASE acceptExits \/ Administer \/ UNCHANGED vars
  BY <1>4, <1>12 DEF acceptExits, Administer, addUser, modifyUserPassword,
                     deleteUser, vars, slotVars
<1>13. ASSUME NEW s \in Slots, readFromClient(s)
       PROVE  OutputFits'
  BY <1>4, <1>13 DEF readFromClient
<1> QED
  BY <1>5, <1>6, <1>7, <1>8, <1>9, <1>10, <1>11, <1>12, <1>13
  DEF Next, Serve, FinishTurn

(***************************************************************************)
(* Every step keeps the free slots clean, and the ones to read from idle.  *)
(***************************************************************************)
\* A step of one slot leaves the others alone.
SameSlot(t) ==
    /\ sessionState'[t] = sessionState[t] /\ clientState'[t] = clientState[t]
    /\ username'[t] = username[t] /\ commands'[t] = commands[t]
    /\ currentCommand'[t] = currentCommand[t]
    /\ mailCache'[t] = mailCache[t] /\ output'[t] = output[t]

\* A connection's step that closes nothing touches its own slot only.
LEMMA Elsewhere ==
    ASSUME IInv, NEW s \in Slots, NEW t \in Slots \ {s},
           \/ acceptConnection(s) \/ readFromClient(s) \/ writeToClient(s)
           \/ Execute(s) \/ continueList(s) \/ endList(s)
    PROVE  SameSlot(t)
<1> USE DEF IInv, TypeOK, SameSlot
<1>1. CASE acceptConnection(s)
  BY <1>1 DEF acceptConnection, Put
<1>2. CASE readFromClient(s) \/ writeToClient(s)
  BY <1>2 DEF readFromClient, writeToClient
<1>3. CASE continueList(s) \/ endList(s)
  BY <1>3 DEF continueList, endList, Put
<1>4. CASE openFails(s)
  BY <1>4 DEF openFails, slotVars
<1>5. CASE Execute(s) /\ ~openFails(s)
  <2>1. MayExecute(s)
    BY <1>5, TurnCommands
  <2>2. output'[t] = output[t]
    <3>1. PICK n \in 0..freeSpace(s) : output' = [output EXCEPT ![s] = @ + n]
      BY <1>5, OutputCommands
    <3> QED
      BY <3>1
  <2>3. commands'[t] = commands[t] /\ currentCommand'[t] = currentCommand[t]
    BY <1>5
    DEF Execute, refuse, checkValidUsername, checkValidPassword, capa, report,
        dele, rset, quit, list, retrRefused, retr, readFails, Dequeue
  <2>4. /\ sessionState'[t] = sessionState[t] /\ clientState'[t] = clientState[t]
        /\ username'[t] = username[t] /\ mailCache'[t] = mailCache[t]
    BY <1>5
    DEF Execute, refuse, checkValidUsername, checkValidPassword, capa, report,
        dele, rset, quit, list, retrRefused, retr, readFails
  <2> QED
    BY <2>2, <2>3, <2>4
<1> QED
  BY <1>1, <1>2, <1>3, <1>4, <1>5

\* Which slots are taken, and by whom.
LEMMA AllocatedStep ==
    ASSUME IInv, NEW s \in Slots,
           \/ readFromClient(s) \/ writeToClient(s)
           \/ Execute(s) \/ continueList(s) \/ endList(s)
    PROVE  s \in allocated /\ allocated' = allocated
<1>1. CASE readFromClient(s)
  BY <1>1 DEF readFromClient
<1>2. CASE writeToClient(s)
  BY <1>2 DEF writeToClient, WriteTurn, IInv, TurnCoherent
<1>3. CASE openFails(s)
  BY <1>3 DEF openFails, Opens, Executes, MayExecute, slotVars
<1>4. CASE Execute(s) /\ ~openFails(s)
  BY <1>4, TurnCommands DEF MayExecute
<1>5. CASE continueList(s) \/ endList(s)
  BY <1>5, ListFacts DEF continueList, endList
<1> QED
  BY <1>1, <1>2, <1>3, <1>4, <1>5

\* The steps that do not touch the table of connections.
LEMMA TableUntouched ==
    ASSUME acceptExits \/ Administer \/ UNCHANGED vars
    PROVE  UNCHANGED slotVars
BY DEF acceptExits, Administer, addUser, modifyUserPassword, deleteUser, vars

\* Every step keeps the free slots clean.
LEMMA SlotCleanStep ==
    ASSUME IInv, [Next]_vars
    PROVE  SlotClean'
<1>1. allocated \subseteq Slots /\ SlotClean
  BY DEF IInv, TypeOK
<1>2. ASSUME NEW C \in SUBSET Slots, ClearSlots(C)
      PROVE  SlotClean'
  <2>1. allocated' = allocated \ C
    BY <1>2 DEF ClearSlots
  <2> QED
    BY <1>1, <1>2, <2>1, ClearSlotsEffect DEF SlotClean
<1>3. ASSUME UNCHANGED slotVars
      PROVE  SlotClean'
  BY <1>1, <1>3 DEF SlotClean, slotVars
<1>4. ASSUME NEW s \in Slots, acceptConnection(s)
      PROVE  SlotClean'
  <2>1. allocated' = allocated \cup {s}
    BY <1>4 DEF acceptConnection
  <2>2. \A t \in Slots \ {s} : SameSlot(t)
    BY <1>4, Elsewhere
  <2> QED
    BY <1>1, <2>1, <2>2 DEF SlotClean, SameSlot
<1>5. ASSUME NEW s \in Slots,
             \/ readFromClient(s) \/ writeToClient(s)
             \/ Execute(s) \/ continueList(s) \/ endList(s)
      PROVE  SlotClean'
  <2>1. s \in allocated /\ allocated' = allocated
    BY <1>5, AllocatedStep
  <2>2. \A t \in Slots \ {s} : SameSlot(t)
    BY <1>5, Elsewhere
  <2> QED
    BY <1>1, <2>1, <2>2 DEF SlotClean, SameSlot
<1>6. ASSUME NEW s \in Slots, readEof(s) \/ sendFails(s) \/ reap(s)
      PROVE  SlotClean'
  BY <1>2, <1>3, <1>6 DEF readEof, sendFails, reap, closeClient, slotVars
<1>7. CASE shutdown
  BY <1>1, <1>2, <1>7 DEF shutdown
<1>8. CASE acceptExits \/ Administer \/ UNCHANGED vars
  BY <1>3, <1>8, TableUntouched
<1> QED
  BY <1>4, <1>5, <1>6, <1>7, <1>8 DEF Next, Serve, FinishTurn

\* Every step keeps the connections to read from idle.
LEMMA IdleStep ==
    ASSUME IInv, [Next]_vars
    PROVE  ReadingMeansIdle'
<1>1. /\ ReadingMeansIdle /\ allocated \subseteq Slots
      /\ clientState \in [Slots -> {"READING", "WRITING"}]
      /\ commands \in [Slots -> Seq(Command)] /\ output \in [Slots -> Nat]
  BY DEF IInv, TypeOK
<1>2. ASSUME NEW C \in SUBSET Slots, ClearSlots(C)
      PROVE  ReadingMeansIdle'
  <2>1. allocated' = allocated \ C
    BY <1>2 DEF ClearSlots
  <2> QED
    <3> SUFFICES ASSUME NEW t \in allocated', clientState'[t] = "READING"
                 PROVE  /\ output'[t] = 0 /\ commands'[t] = <<>>
                        /\ currentCommand'[t] = NULL
      BY DEF ReadingMeansIdle
    <3>1. t \in allocated /\ t \in Slots /\ t \notin C
      BY <1>1, <2>1
    <3>2. /\ clientState'[t] = clientState[t] /\ output'[t] = output[t]
          /\ commands'[t] = commands[t] /\ currentCommand'[t] = currentCommand[t]
      BY <1>2, <3>1, ClearSlotsEffect
    <3> QED BY <1>1, <3>1, <3>2 DEF ReadingMeansIdle
<1>3. ASSUME UNCHANGED slotVars
      PROVE  ReadingMeansIdle'
  BY <1>1, <1>3 DEF ReadingMeansIdle, slotVars
<1>4. ASSUME NEW s \in Slots, clientState'[s] = "WRITING",
             allocated' \subseteq allocated \cup {s},
             \A t \in Slots \ {s} : SameSlot(t)
      PROVE  ReadingMeansIdle'
  BY <1>1, <1>4 DEF ReadingMeansIdle, SameSlot
<1>5. ASSUME NEW s \in Slots, acceptConnection(s) \/ readFromClient(s)
      PROVE  ReadingMeansIdle'
  <2>1. clientState'[s] = "WRITING" /\ allocated' \subseteq allocated \cup {s}
    BY <1>1, <1>5 DEF acceptConnection, readFromClient
  <2>2. \A t \in Slots \ {s} : SameSlot(t)
    BY <1>5, Elsewhere
  <2> QED
    BY <1>4, <2>1, <2>2
<1>6. ASSUME NEW s \in Slots, Execute(s) \/ continueList(s) \/ endList(s)
      PROVE  ReadingMeansIdle'
  <2>1. clientState'[s] = "WRITING"
    <3>1. CASE openFails(s)
      BY <3>1 DEF openFails, Opens, Executes, MayExecute, slotVars
    <3>2. CASE Execute(s) /\ ~openFails(s)
      BY <3>2, TurnCommands DEF MayExecute
    <3>3. CASE continueList(s) \/ endList(s)
      BY <3>3, ListFacts DEF continueList, endList
    <3> QED
      BY <1>6, <3>1, <3>2, <3>3
  <2>2. allocated' \subseteq allocated \cup {s}
    BY <1>6, AllocatedStep
  <2>3. \A t \in Slots \ {s} : SameSlot(t)
    BY <1>6, Elsewhere
  <2> QED
    BY <1>4, <2>1, <2>2, <2>3
<1>7. ASSUME NEW s \in Slots, writeToClient(s)
      PROVE  ReadingMeansIdle'
  <2>1. s \in allocated /\ allocated' = allocated
    BY <1>7, AllocatedStep
  <2>2. \A t \in Slots \ {s} : SameSlot(t)
    BY <1>7, Elsewhere
  <2>3. /\ commands' = commands /\ currentCommand' = currentCommand
        /\ clientState' = [clientState EXCEPT ![s] =
             IF output'[s] = 0 /\ commands[s] = <<>> /\ currentCommand[s] = NULL
             THEN "READING" ELSE @]
    BY <1>7 DEF writeToClient
  <2>4. clientState'[s] = "READING" =>
          output'[s] = 0 /\ commands'[s] = <<>> /\ currentCommand'[s] = NULL
    <3>1. CASE clientState[s] = "WRITING"
      BY <1>1, <2>3, <3>1
    <3>2. CASE clientState[s] = "READING"
      <4>1. pc = "write" /\ turn = s
        BY <1>7, <3>2 DEF writeToClient, WriteTurn
      <4> QED
        BY <3>2, <4>1 DEF IInv, TurnCoherent
    <3> QED
      BY <1>1, <3>1, <3>2
  <2> QED
    BY <1>1, <2>1, <2>2, <2>4 DEF ReadingMeansIdle, SameSlot
<1>8. ASSUME NEW s \in Slots, readEof(s) \/ sendFails(s) \/ reap(s)
      PROVE  ReadingMeansIdle'
  BY <1>2, <1>3, <1>8 DEF readEof, sendFails, reap, closeClient, slotVars
<1>9. CASE shutdown
  BY <1>1, <1>2, <1>9 DEF shutdown
<1>10. CASE acceptExits \/ Administer \/ UNCHANGED vars
  BY <1>3, <1>10, TableUntouched
<1> QED
  BY <1>5, <1>6, <1>7, <1>8, <1>9, <1>10 DEF Next, Serve, FinishTurn

(***************************************************************************)
(* Every step keeps the count of the connections above their number.       *)
(***************************************************************************)
\* Every step keeps the count of connections above their number.
LEMMA CountStep ==
    ASSUME IInv, [Next]_vars
    PROVE  ConnectionsNotUndercounted'
<1>1. /\ IsFiniteSet(allocated) /\ Cardinality(allocated) \in Nat
      /\ concurrentConnections \in Nat
      /\ concurrentConnections >= Cardinality(allocated)
  BY SlotsFinite, FS_Subset, FS_CardinalityType
  DEF IInv, TypeOK, ConnectionsNotUndercounted
<1> USE DEF ConnectionsNotUndercounted
<1>2. ASSUME NEW C, allocated' = allocated \ C,
             concurrentConnections' = concurrentConnections
      PROVE  ConnectionsNotUndercounted'
  <2>1. allocated' \subseteq allocated
    BY <1>2
  <2>2. Cardinality(allocated') <= Cardinality(allocated)
        /\ Cardinality(allocated') \in Nat
    BY <1>1, <2>1, FS_Subset, FS_CardinalityType
  <2> QED
    BY <1>1, <1>2, <2>2
<1>3. ASSUME allocated' = allocated,
             concurrentConnections' = concurrentConnections
      PROVE  ConnectionsNotUndercounted'
  BY <1>1, <1>3
<1>4. ASSUME NEW s \in Slots, acceptConnection(s)
      PROVE  ConnectionsNotUndercounted'
  <2>1. /\ s \notin allocated /\ allocated' = allocated \cup {s}
        /\ concurrentConnections' = concurrentConnections + 1
    BY <1>4 DEF acceptConnection
  <2>2. Cardinality(allocated') = Cardinality(allocated) + 1
    BY <1>1, <2>1, FS_AddElement
  <2> QED
    BY <1>1, <2>1, <2>2
<1>5. ASSUME NEW s \in Slots, readEof(s)
      PROVE  ConnectionsNotUndercounted'
  <2>1. /\ s \in allocated /\ allocated' = allocated \ {s}
        /\ concurrentConnections' = concurrentConnections - 1
    BY <1>5 DEF readEof, closeClient, ClearSlots
  <2>2. Cardinality(allocated') = Cardinality(allocated) - 1
    BY <1>1, <2>1, FS_RemoveElement
  <2> QED
    BY <1>1, <2>1, <2>2
<1>6. ASSUME NEW s \in Slots, sendFails(s)
      PROVE  ConnectionsNotUndercounted'
  BY <1>2, <1>6 DEF sendFails, closeClient, ClearSlots, statVars
<1>7. ASSUME NEW s \in Slots, reap(s)
      PROVE  ConnectionsNotUndercounted'
  BY <1>2, <1>3, <1>7 DEF reap, closeClient, ClearSlots, slotVars, statVars
<1>8. ASSUME NEW s \in Slots,
             \/ readFromClient(s) \/ writeToClient(s)
             \/ Execute(s) \/ continueList(s) \/ endList(s)
      PROVE  ConnectionsNotUndercounted'
  <2>1. allocated' = allocated
    BY <1>8, AllocatedStep
  <2>2. statVars' = statVars
    BY <1>8
    DEF readFromClient, writeToClient, continueList, endList, Execute, refuse,
        checkValidUsername, checkValidPassword, capa, report, dele, rset, quit,
        list, retrRefused, openFails, retr, readFails
  <2> QED
    BY <1>3, <2>1, <2>2 DEF statVars
<1>9. CASE shutdown
  BY <1>2, <1>9 DEF shutdown, ClearSlots, statVars
<1>10. CASE acceptExits \/ Administer \/ UNCHANGED vars
  <2>1. statVars' = statVars
    BY <1>10 DEF acceptExits, Administer, addUser, modifyUserPassword,
                 deleteUser, vars
  <2> QED
    BY <1>3, <1>10, <2>1, TableUntouched DEF slotVars, statVars
<1> QED
  BY <1>4, <1>5, <1>6, <1>7, <1>8, <1>9, <1>10 DEF Next, Serve, FinishTurn

(***************************************************************************)
(* Every step keeps the locks.                                             *)
(***************************************************************************)
LockInv == ExclusiveMaildrop /\ LockHeld /\ NoOrphanLock

\* The steps that neither begin nor end a session.
LEMMA SessionsKept ==
    ASSUME LockInv, UNCHANGED <<connected, lockLost>>,
           \A u : Sessions(u)' = Sessions(u)
    PROVE  LockInv'
BY DEF LockInv, ExclusiveMaildrop, LockHeld, NoOrphanLock

\* Sessions stay the same when no cache appears or goes.
LEMMA SameSessions ==
    ASSUME NEW s \in Slots,
           \A t \in Slots \ {s} :
             mailCache'[t] = mailCache[t] /\ username'[t] = username[t],
           \/ mailCache[s] = NULL /\ mailCache'[s] = NULL
           \/ /\ mailCache[s] # NULL /\ mailCache'[s] # NULL
              /\ username'[s] = username[s]
    PROVE  \A u : Sessions(u)' = Sessions(u)
BY DEF Sessions

\* A connection that closes takes its session with it, and its user's flag.
LEMMA LockClosing ==
    ASSUME LockInv, NEW s \in Slots, closeClient(s)
    PROVE  LockInv'
<1> DEFINE u == username[s]
<1>1. ClearSlots({s})
  BY DEF closeClient
<1>2. \A v : Sessions(v)' = Sessions(v) \ {s}
  BY <1>1, ClearSlotsEffect DEF Sessions
<1>3. \A v : s \in Sessions(v) => v = u
  BY DEF Sessions
<1>4. /\ connected' = connected \ {u}
      /\ lockLost' = IF Sessions(u) \ {s} # {} THEN lockLost \cup {u}
                                               ELSE lockLost \ {u}
  BY DEF closeClient, toggleUserConnectedOff
<1> HIDE DEF u
<1> QED
  BY <1>2, <1>3, <1>4 DEF LockInv, ExclusiveMaildrop, LockHeld, NoOrphanLock

\* A login takes a lock that is free: nobody holds it, or it was lost.
LEMMA LockLogin ==
    ASSUME IInv, LockInv, NEW s \in Slots, checkValidPassword(s)
    PROVE  LockInv'
<1> DEFINE u == username[s]
<1>1. TypeOK /\ username' = username /\ lockLost' = lockLost
  BY DEF IInv, checkValidPassword
<1>2. CASE validPassword(u, Oldest(s).arg) /\ u \notin connected
  <2>1. u \in Users
    BY <1>1, <1>2 DEF validPassword, TypeOK
  <2>2. PICK c \in initCaches(u) : mailCache' = [mailCache EXCEPT ![s] = c]
    BY <1>2 DEF checkValidPassword
  <2>3. c # NULL
    BY <1>1, <2>1, <2>2, InitCachesType, NullFacts DEF TypeOK
  <2>4. \A v : Sessions(v)' = IF v = u THEN Sessions(v) \cup {s} ELSE Sessions(v)
    <3>1. mailCache[s] = NULL
      BY LoginFacts DEF checkValidPassword
    <3>2. /\ mailCache'[s] # NULL
          /\ \A t \in Slots \ {s} : mailCache'[t] = mailCache[t]
      BY <1>1, <2>2, <2>3 DEF TypeOK
    <3> QED
      BY <1>1, <3>1, <3>2 DEF Sessions
  <2>5. connected' = connected \cup {u}
    BY <1>2 DEF checkValidPassword
  <2>6. u \notin lockLost => Sessions(u) = {}
    BY <1>2, <2>1 DEF LockInv, LockHeld
  <2> HIDE DEF u
  <2> QED
    BY <1>1, <2>4, <2>5, <2>6
    DEF LockInv, ExclusiveMaildrop, LockHeld, NoOrphanLock
<1>3. CASE ~(validPassword(u, Oldest(s).arg) /\ u \notin connected)
  <2>1. UNCHANGED <<mailCache, connected>>
    BY <1>3 DEF checkValidPassword
  <2>2. \A v : Sessions(v)' = Sessions(v)
    BY <1>1, <2>1 DEF Sessions
  <2> QED
    BY <1>1, <2>1, <2>2, SessionsKept
<1> QED
  BY <1>2, <1>3

\* Every step keeps the locks, and none is held by nobody.
LEMMA LockStep ==
    ASSUME IInv, [Next]_vars
    PROVE  ExclusiveMaildrop' /\ LockHeld' /\ NoOrphanLock'
<1> SUFFICES LockInv'
  BY DEF LockInv
<1>1. LockInv /\ TypeOK /\ SlotClean
  BY DEF IInv, LockInv
<1>2. ASSUME UNCHANGED <<slotVars, connected, lockLost>>
      PROVE  LockInv'
  <2>1. \A u : Sessions(u)' = Sessions(u)
    BY <1>2 DEF Sessions, slotVars
  <2> QED
    BY <1>1, <1>2, <2>1, SessionsKept
<1>3. ASSUME NEW s \in Slots, readEof(s) \/ sendFails(s) \/ reap(s)
      PROVE  LockInv'
  BY <1>1, <1>2, <1>3, LockClosing DEF readEof, sendFails, reap
<1>4. ASSUME NEW s \in Slots, checkValidPassword(s)
      PROVE  LockInv'
  BY <1>1, <1>4, LockLogin
<1>5. ASSUME NEW s \in Slots,
             \/ acceptConnection(s) \/ readFromClient(s) \/ writeToClient(s)
             \/ Execute(s) /\ ~checkValidPassword(s)
             \/ continueList(s) \/ endList(s)
      PROVE  LockInv'
  <2>1. UNCHANGED <<connected, lockLost>>
    BY <1>5
    DEF acceptConnection, readFromClient, writeToClient, continueList, endList,
        Execute, refuse, checkValidUsername, capa, report, dele, rset, quit,
        list, retrRefused, openFails, retr, readFails, userVars
  <2>2. \A t \in Slots \ {s} :
          mailCache'[t] = mailCache[t] /\ username'[t] = username[t]
    BY <1>5, Elsewhere DEF SameSlot
  <2>3. SessionCoherent /\ SessionCoherent'
    BY SessionStep DEF IInv
  <2>4. CASE dele(s) \/ rset(s) \/ list(s) \/ retr(s) \/ readFails(s)
    <3>1. sessionState[s] = "TRANSACTION"
      BY <2>4, TransactionFacts DEF dele, rset, list, retr, readFails
    <3>2. sessionState' = sessionState /\ username' = username
      BY <2>4 DEF dele, rset, list, retr, readFails
    <3>3. mailCache[s] # NULL /\ mailCache'[s] # NULL
      BY <2>3, <3>1, <3>2 DEF SessionCoherent
    <3> QED
      BY <1>1, <2>1, <2>2, <3>2, <3>3, SameSessions, SessionsKept
  <2>5. CASE continueList(s)
    <3>1. sessionState[s] = "TRANSACTION"
      BY <2>5, ListFacts DEF continueList
    <3>2. sessionState' = sessionState /\ username' = username
      BY <2>5 DEF continueList
    <3>3. mailCache[s] # NULL /\ mailCache'[s] # NULL
      BY <2>3, <3>1, <3>2 DEF SessionCoherent
    <3> QED
      BY <1>1, <2>1, <2>2, <3>2, <3>3, SameSessions, SessionsKept
  <2>6. CASE checkValidUsername(s)
    <3>1. mailCache[s] = NULL /\ mailCache' = mailCache
      BY <2>6, LoginFacts DEF checkValidUsername
    <3> QED
      BY <1>1, <2>1, <2>2, <3>1, SameSessions, SessionsKept
  <2>7. CASE ~(dele(s) \/ rset(s) \/ list(s) \/ retr(s) \/ readFails(s)
               \/ continueList(s) \/ checkValidUsername(s))
    <3>1. UNCHANGED <<mailCache, username>>
      BY <1>5, <2>7
      DEF acceptConnection, readFromClient, writeToClient, endList, Execute,
          refuse, capa, report, quit, retrRefused, openFails, slotVars
    <3>2. \A u : Sessions(u)' = Sessions(u)
      BY <3>1 DEF Sessions
    <3> QED
      BY <1>1, <2>1, <3>2, SessionsKept
  <2> QED
    BY <2>4, <2>5, <2>6, <2>7
<1>6. CASE shutdown
  <2>1. \A t \in Slots : mailCache'[t] = NULL
    <3>1. allocated \in SUBSET Slots /\ ClearSlots(allocated)
      BY <1>1, <1>6 DEF shutdown, TypeOK
    <3> QED
      BY <1>1, <3>1, ClearSlotsEffect DEF SlotClean
  <2>2. \A u : Sessions(u)' = {}
    BY <2>1 DEF Sessions
  <2> QED
    BY <1>6, <2>2
    DEF shutdown, LockInv, ExclusiveMaildrop, LockHeld, NoOrphanLock
<1>7. CASE acceptExits \/ UNCHANGED vars
  BY <1>2, <1>7 DEF acceptExits, userVars, vars
<1>8. CASE Administer
  <2>1. \A u : Sessions(u)' = Sessions(u)
    BY <1>8, TableUntouched DEF Sessions, slotVars
  <2>2. PICK u \in Administered :
          \/ \E p \in Passwords : addUser(u, p) \/ modifyUserPassword(u, p)
          \/ deleteUser(u)
    BY <1>8 DEF Administer
  <2>3. CASE \E p \in Passwords : addUser(u, p) \/ modifyUserPassword(u, p)
    BY <1>1, <2>1, <2>3, SessionsKept DEF addUser, modifyUserPassword
  <2>4. CASE deleteUser(u)
    BY <1>1, <2>1, <2>4
    DEF deleteUser, LockInv, ExclusiveMaildrop, LockHeld, NoOrphanLock
  <2> QED
    BY <2>2, <2>3, <2>4
<1> QED
  BY <1>3, <1>4, <1>5, <1>6, <1>7, <1>8 DEF Next, Serve, FinishTurn

(***************************************************************************)
(* The theorems.                                                           *)
(***************************************************************************)
\* The server starts in the invariant.
LEMMA InitIInv == Init => IInv
<1> SUFFICES ASSUME Init PROVE IInv
  OBVIOUS
<1> USE DEF Init
<1>1. TypeOK
  <2>1. <<>> \in Seq(Command) /\ <<>> \in Seq(Nat) /\ 0 \in Nat
    BY EmptySeq
  <2>2. registered \subseteq Users /\ maildir \in [Users -> SUBSET Mail]
    BY UserAssumption
  <2>3. password \in [Users -> Passwords]
    OBVIOUS
  <2> QED
    BY <2>1, <2>2, <2>3 DEF TypeOK
<1>2. SessionCoherent /\ TurnCoherent
  BY DEF SessionCoherent, TurnCoherent
<1>3. OutputFits
  BY BufferAssumption DEF OutputFits
<1>4. SlotClean /\ ReadingMeansIdle
  BY DEF SlotClean, ReadingMeansIdle
<1>5. ConnectionsNotUndercounted
  BY FS_EmptySet DEF ConnectionsNotUndercounted
<1>6. \A u : Sessions(u) = {}
  BY DEF Sessions
<1>7. ExclusiveMaildrop /\ LockHeld /\ NoOrphanLock
  BY <1>6 DEF ExclusiveMaildrop, LockHeld, NoOrphanLock
<1> QED
  BY <1>1, <1>2, <1>3, <1>4, <1>5, <1>7 DEF IInv

\* Every step keeps the invariant.
LEMMA StepIInv == IInv /\ [Next]_vars => IInv'
<1> SUFFICES ASSUME IInv, [Next]_vars PROVE IInv'
  OBVIOUS
<1>1. TypeOK'
  BY TypeStep
<1>2. SessionCoherent' /\ TurnCoherent'
  BY SessionStep, TurnStep
<1>3. OutputFits' /\ SlotClean' /\ ReadingMeansIdle'
  BY OutputStep, SlotCleanStep, IdleStep
<1>4. ConnectionsNotUndercounted'
  BY CountStep
<1>5. ExclusiveMaildrop' /\ LockHeld' /\ NoOrphanLock'
  BY LockStep
<1> QED
  BY <1>1, <1>2, <1>3, <1>4, <1>5 DEF IInv

\* IInv is an invariant of the server, however it is sized and used.
THEOREM Invariance == Spec => []IInv
BY InitIInv, StepIInv, PTL DEF Spec

\* Every variable keeps its type: no handler reads a cache that is not there,
\* and the counter of connections never goes below zero.
THEOREM TypeCorrect == Spec => []TypeOK
<1>1. IInv => TypeOK
  BY DEF IInv
<1> QED
  BY <1>1, Invariance, PTL

\* The output buffer never overflows: no reply is written unchecked where there
\* may be no room for it, so writeDataToBuffer never ends the server.
THEOREM BufferNeverOverflows == Spec => []OutputFits
<1>1. IInv => OutputFits
  BY DEF IInv
<1> QED
  BY <1>1, Invariance, PTL

\* No connection is left to be read from with a command or a reply pending.
THEOREM NothingPendingWhenReading == Spec => []ReadingMeansIdle
<1>1. IInv => ReadingMeansIdle
  BY DEF IInv
<1> QED
  BY <1>1, Invariance, PTL

\* A slot is given to the next connection with nothing of the one before.
THEOREM SlotsGivenClean == Spec => []SlotClean
<1>1. IInv => SlotClean
  BY DEF IInv
<1> QED
  BY <1>1, Invariance, PTL

\* A command that needs a maildrop, and one that is resumed, finds its own.
THEOREM SessionsCoherent == Spec => []SessionCoherent
<1>1. IInv => SessionCoherent
  BY DEF IInv
<1> QED
  BY <1>1, Invariance, PTL

\* The counter of connections is never below their number.
THEOREM CounterAboveTable == Spec => []ConnectionsNotUndercounted
<1>1. IInv => ConnectionsNotUndercounted
  BY DEF IInv
<1> QED
  BY <1>1, Invariance, PTL

\* A user whose lock was not cleared under a session has at most one session.
THEOREM MaildropExclusion == Spec => []ExclusiveMaildrop
<1>1. IInv => ExclusiveMaildrop
  BY DEF IInv
<1> QED
  BY <1>1, Invariance, PTL

\* A user who is connected has a session: nobody is locked out for good.
THEOREM NobodyLockedOut == Spec => []NoOrphanLock
<1>1. IInv => NoOrphanLock
  BY DEF IInv
<1> QED
  BY <1>1, Invariance, PTL
=============================================================================
