--------------------------- MODULE MaildropProofs ---------------------------
(***************************************************************************)
(* Proofs about the mails of PopServer: a cache and its marks agree, a     *)
(* RETR goes on with its own mail, a session's mails are on disk while it  *)
(* holds its lock, every command is answered, PopServer implements         *)
(* Maildrop, and a LIST prints its mails.  MailInv and ListInv are the     *)
(* invariants; they rest on IInv.                                          *)
(***************************************************************************)
EXTENDS PopServerProofs

\* Two numbers of a cache are two mails: a mail that is marked is marked under
\* its only number.
FilesDistinct ==
    \A s \in Slots : mailCache[s] # NULL => IsInjective(mailCache[s].files)

MailInv == MarkCount /\ FilesDistinct /\ RetrResumable /\ SnapshotOnDisk

\* The marks of one cache, as MarkCount states them, and its names.
GoodCache(c) ==
    /\ c.markedToDelete = Cardinality(c.toDelete)
    /\ c.toDelete \subseteq 1..mailCount(c)
    /\ IsInjective(c.files)

(***************************************************************************)
(* The operators on a cache.                                               *)
(***************************************************************************)
\* The names of a cache are numbered from 1.
LEMMA CacheNumbers ==
    ASSUME NEW c \in Cache
    PROVE  /\ mailCount(c) \in Nat
           /\ DOMAIN c.files = 1..mailCount(c)
           /\ \A n \in 1..mailCount(c) : c.files[n] \in Range(c.files)
BY LenProperties DEF Cache, mailCount, Range

\* A login lists every mail of the maildrop once, and marks none.
LEMMA LoginCache ==
    ASSUME NEW u \in Users, maildir \in [Users -> SUBSET Mail],
           NEW c \in initCaches(u)
    PROVE  /\ GoodCache(c) /\ c.toDelete = {}
           /\ Range(c.files) = maildir[u]
<1>1. PICK f \in Bijection(1..Cardinality(maildir[u]), maildir[u]) :
         c = [files |-> f, toDelete |-> {}, markedToDelete |-> 0,
              iterator |-> 0, mail |-> 0, left |-> 0]
  BY DEF initCaches
<1>2. /\ f \in [1..Cardinality(maildir[u]) -> maildir[u]] /\ IsInjective(f)
      /\ \A m \in maildir[u] : \E n \in 1..Cardinality(maildir[u]) : f[n] = m
  BY <1>1 DEF Bijection, Injection, Surjection
<1>3. Range(f) = maildir[u]
  BY <1>2 DEF Range
<1>4. c.files = f /\ c.toDelete = {} /\ c.markedToDelete = 0
  BY <1>1
<1> QED
  BY <1>2, <1>3, <1>4, FS_EmptySet DEF GoodCache

\* DELE of a mail that is not marked marks it, and counts it.
LEMMA MarkCache ==
    ASSUME NEW c \in Cache, GoodCache(c), NEW n, validMailNo(c, n)
    PROVE  /\ GoodCache(markMailToDelete(c, n))
           /\ markMailToDelete(c, n).files = c.files
           /\ markMailToDelete(c, n).toDelete = c.toDelete \cup {n}
<1> DEFINE d == markMailToDelete(c, n)
<1>1. /\ d.files = c.files /\ d.toDelete = c.toDelete \cup {n}
      /\ d.markedToDelete = c.markedToDelete + 1
  BY DEF Cache, markMailToDelete
<1>2. /\ n \in 1..mailCount(c) /\ n \notin c.toDelete
      /\ c.toDelete \subseteq 1..mailCount(c) /\ mailCount(c) \in Nat
  BY CacheNumbers DEF validMailNo, GoodCache
<1>3. IsFiniteSet(c.toDelete)
  <2>1. IsFiniteSet(1..mailCount(c))
    BY <1>2, FS_Interval
  <2> QED
    BY <1>2, <2>1, FS_Subset
<1>4. Cardinality(c.toDelete \cup {n}) = Cardinality(c.toDelete) + 1
  BY <1>2, <1>3, FS_AddElement
<1> QED
  BY <1>1, <1>2, <1>4 DEF GoodCache, mailCount

\* RSET takes the marks and their count back together.
LEMMA ResetCache ==
    ASSUME NEW c \in Cache, GoodCache(c)
    PROVE  /\ GoodCache(resetToDelete(c))
           /\ resetToDelete(c).files = c.files
           /\ resetToDelete(c).toDelete = {}
<1> DEFINE d == resetToDelete(c)
<1>1. d.files = c.files /\ d.toDelete = {} /\ d.markedToDelete = 0
  BY DEF Cache, resetToDelete
<1> QED
  BY <1>1, FS_EmptySet DEF GoodCache

\* The names and the marks of two caches are the same.
SameMails(c, d) ==
    /\ d.files = c.files /\ d.toDelete = c.toDelete
    /\ d.markedToDelete = c.markedToDelete

\* LIST and RETR move what is not a name or a mark.
LEMMA MovedCache ==
    ASSUME NEW c \in Cache
    PROVE  /\ \A n : SameMails(c, [c EXCEPT !.iterator = n])
           /\ \A n, k : SameMails(c, [c EXCEPT !.mail = n, !.left = k])
           /\ \A n : SameMails(c, [c EXCEPT !.mail = n])
BY DEF Cache, SameMails

(***************************************************************************)
(* What the steps do to the caches.                                        *)
(***************************************************************************)
\* The cache of a slot has the same mails and marks after the step.
Kept(s) ==
    \/ mailCache'[s] = mailCache[s]
    \/ /\ mailCache[s] \in Cache /\ mailCache'[s] \in Cache
       /\ SameMails(mailCache[s], mailCache'[s])

\* The steps of a connection that is not closed, logged in or out, or marked.
Idle(s) ==
    \/ readFromClient(s) \/ writeToClient(s)
    \/ refuse(s) \/ capa(s) \/ report(s) \/ list(s) \/ continueList(s)
    \/ endList(s) \/ retrRefused(s) \/ openFails(s) \/ retr(s) \/ readFails(s)

\* Those steps move the iterator or the open mail at most, and leave the
\* session, its owner and the mails on disk as they are.
LEMMA IdleFacts ==
    ASSUME IInv, NEW s \in Slots, Idle(s)
    PROVE  /\ Kept(s)
           /\ \A t \in Slots \ {s} : mailCache'[t] = mailCache[t]
           /\ UNCHANGED <<allocated, sessionState, username, maildir, lockLost>>
<1> USE DEF IInv, TypeOK
<1>1. UNCHANGED <<allocated, sessionState, username, maildir, lockLost>>
  BY DEF Idle, readFromClient, writeToClient, refuse, capa, report, list,
         continueList, endList, retrRefused, openFails, retr, readFails, slotVars
<1>2. ASSUME NEW c \in Cache, mailCache[s] \in Cache, SameMails(mailCache[s], c),
             mailCache' = [mailCache EXCEPT ![s] = c]
      PROVE  Kept(s) /\ \A t \in Slots \ {s} : mailCache'[t] = mailCache[t]
  BY <1>2 DEF Kept
<1>3. CASE mailCache' = mailCache
  BY <1>1, <1>3 DEF Kept
<1>4. CASE list(s) /\ ~Resuming(s)
  <2> DEFINE c == [mailCache[s] EXCEPT !.iterator = 0]
  <2>1. mailCache[s] \in Cache
    BY <1>4, TransactionFacts DEF list
  <2>2. c \in Cache /\ SameMails(mailCache[s], c)
    BY <2>1, IteratorType, MovedCache
  <2>3. mailCache' = [mailCache EXCEPT ![s] = c]
    BY <1>4 DEF list
  <2> QED
    BY <1>1, <1>2, <2>1, <2>2, <2>3
<1>5. CASE continueList(s)
  <2>1. mailCache[s] \in Cache /\ mailCount(mailCache[s]) \in Nat
    BY <1>5, ListFacts DEF continueList
  <2>2. PICK n \in Nat : mailCache' = [mailCache EXCEPT ![s].iterator = n]
    BY <1>5, <2>1, IterateFacts
  <2> DEFINE c == [mailCache[s] EXCEPT !.iterator = n]
  <2>3. c \in Cache /\ SameMails(mailCache[s], c)
    BY <2>1, IteratorType, MovedCache
  <2>4. mailCache' = [mailCache EXCEPT ![s] = c]
    BY <2>2
  <2> QED
    BY <1>1, <1>2, <2>1, <2>3, <2>4
<1>6. CASE retr(s)
  <2>1. Executes(s, {"RETR"})
    BY <1>6 DEF retr
  <2> DEFINE m == IF ReachesEof(s) THEN 0 ELSE Oldest(s).arg
             k == ToRead(s) - Copied(s)
             c == [mailCache[s] EXCEPT !.mail = m, !.left = k]
  <2>2. m \in Nat /\ k \in Nat /\ mailCache[s] \in Cache
    BY <2>1, RetrFacts
  <2>3. mailCache' = [mailCache EXCEPT ![s] = c]
    BY <1>6 DEF retr
  <2> HIDE DEF m, k
  <2>4. c \in Cache /\ SameMails(mailCache[s], c)
    BY <2>2, MailType, MovedCache
  <2> QED
    BY <1>1, <1>2, <2>2, <2>3, <2>4
<1>7. CASE readFails(s)
  <2> DEFINE c == [mailCache[s] EXCEPT !.mail = Oldest(s).arg]
  <2>1. Oldest(s).arg \in Nat /\ mailCache[s] \in Cache
    BY <1>7, RetrFacts DEF readFails
  <2>2. c \in Cache /\ SameMails(mailCache[s], c)
    BY <2>1, MailType, MovedCache, 0 \in Nat
  <2>3. mailCache' = [mailCache EXCEPT ![s] = c]
    BY <1>7 DEF readFails
  <2> QED
    BY <1>1, <1>2, <2>1, <2>2, <2>3
<1>8. CASE list(s) /\ Resuming(s)
  BY <1>3, <1>8 DEF list
<1> QED
  BY <1>3, <1>4, <1>5, <1>6, <1>7, <1>8
  DEF Idle, readFromClient, writeToClient, refuse, capa, report, endList,
      retrRefused, openFails, slotVars

\* A login that succeeds, and one that is refused.
Logs(s) ==
    /\ checkValidPassword(s)
    /\ validPassword(username[s], Oldest(s).arg)
    /\ username[s] \notin connected

\* A login gives the session a fresh cache of its own maildrop, which nobody
\* else has unless the lock has been lost.
LEMMA LogsFacts ==
    ASSUME IInv, NEW s \in Slots, Logs(s)
    PROVE  /\ sessionState[s] = "AUTHENTICATION" /\ s \in allocated
           /\ username[s] \in Users
           /\ mailCache'[s] \in initCaches(username[s])
           /\ mailCache'[s] \in Cache
           /\ sessionState' = [sessionState EXCEPT ![s] = "TRANSACTION"]
           /\ \A t \in Slots \ {s} : mailCache'[t] = mailCache[t]
           /\ UNCHANGED <<allocated, username, maildir, lockLost>>
<1>1. TypeOK
  BY DEF IInv
<1>2. username[s] \in Users
  BY <1>1 DEF Logs, validPassword, TypeOK
<1>3. PICK c \in initCaches(username[s]) : mailCache' = [mailCache EXCEPT ![s] = c]
  BY DEF Logs, checkValidPassword
<1>4. c \in Cache
  BY <1>1, <1>2, InitCachesType DEF TypeOK
<1>5. sessionState[s] = "AUTHENTICATION" /\ s \in allocated
  BY LoginFacts, ExecuteFacts DEF Logs, checkValidPassword, Executes
<1> QED
  BY <1>1, <1>2, <1>3, <1>4, <1>5 DEF Logs, checkValidPassword, TypeOK

\* A login that is refused changes nothing of the session.
LEMMA RefusedLogin ==
    ASSUME IInv, NEW s \in Slots, checkValidPassword(s), ~Logs(s)
    PROVE  UNCHANGED <<allocated, sessionState, username, mailCache, maildir,
                       lockLost>>
BY DEF Logs, checkValidPassword

\* USER names a session that has no mails yet.
LEMMA UserFacts ==
    ASSUME IInv, NEW s \in Slots, checkValidUsername(s)
    PROVE  /\ sessionState[s] = "AUTHENTICATION" /\ mailCache[s] = NULL
           /\ \A t \in Slots \ {s} : username'[t] = username[t]
           /\ UNCHANGED <<allocated, sessionState, mailCache, maildir, lockLost>>
BY LoginFacts DEF checkValidUsername, IInv, TypeOK

\* DELE marks, RSET takes every mark back; neither touches anything else.
LEMMA MarkFacts ==
    ASSUME IInv, NEW s \in Slots, dele(s) \/ rset(s)
    PROVE  /\ sessionState[s] = "TRANSACTION" /\ s \in allocated
           /\ mailCache[s] \in Cache /\ username[s] \in Users
           /\ \/ mailCache'[s] = mailCache[s]
              \/ \E n : /\ validMailNo(mailCache[s], n)
                        /\ mailCache'[s] = markMailToDelete(mailCache[s], n)
              \/ mailCache'[s] = resetToDelete(mailCache[s])
           /\ \A t \in Slots \ {s} : mailCache'[t] = mailCache[t]
           /\ UNCHANGED <<allocated, sessionState, username, maildir, lockLost>>
<1>1. /\ sessionState[s] = "TRANSACTION" /\ mailCache[s] \in Cache
      /\ username[s] \in Users /\ s \in allocated
  BY TransactionFacts, ExecuteFacts DEF dele, rset, Executes
<1>2. CASE dele(s)
  BY <1>1, <1>2 DEF dele, IInv, TypeOK
<1>3. CASE rset(s)
  BY <1>1, <1>3 DEF rset, IInv, TypeOK
<1> QED
  BY <1>2, <1>3

\* Connections that end take their caches with them, and no mail.
LEMMA ClosingFacts ==
    ASSUME IInv, NEW C \in SUBSET Slots, ClearSlots(C)
    PROVE  /\ allocated' = allocated \ C
           /\ \A t \in C : mailCache'[t] = NULL /\ sessionState'[t] = "ANY"
           /\ \A t \in Slots \ C : /\ mailCache'[t] = mailCache[t]
                                  /\ username'[t] = username[t]
                                  /\ sessionState'[t] = sessionState[t]
                                  /\ currentCommand'[t] = currentCommand[t]
BY ClearSlotsEffect DEF ClearSlots

\* The steps that close connections close these.
Closes(C) ==
    \/ \E s \in C : C = {s} /\ (readEof(s) \/ sendFails(s)
                                \/ (reap(s) /\ closeClient(s)))
    \/ C = allocated /\ shutdown

\* The steps that leave the table of connections and the mails as they are.
Aside ==
    \/ acceptExits \/ Administer \/ UNCHANGED vars
    \/ \E s \in Slots : reap(s) /\ ~closeClient(s)

\* Every step of the server is of one of these kinds.
LEMMA Kinds ==
    ASSUME IInv, [Next]_vars
    PROVE  \/ \E s \in Slots :
               \/ acceptConnection(s) \/ Idle(s) \/ checkValidUsername(s)
               \/ checkValidPassword(s) \/ dele(s) \/ rset(s) \/ quit(s)
           \/ \E C \in SUBSET Slots : Closes(C)
           \/ Aside
<1>1. CASE shutdown
  BY <1>1 DEF Closes, IInv, TypeOK
<1>2. ASSUME NEW s \in Slots, readEof(s) \/ sendFails(s) \/ reap(s)
      PROVE  (\E C \in SUBSET Slots : Closes(C)) \/ Aside
  BY <1>2 DEF Closes, Aside
<1> QED
  BY <1>1, <1>2 DEF Next, Serve, Execute, FinishTurn, Idle, Aside

\* What the closing of connections does.
LEMMA ClosesFacts ==
    ASSUME IInv, NEW C \in SUBSET Slots, Closes(C)
    PROVE  ClearSlots(C) /\ UNCHANGED maildir
BY DEF Closes, readEof, sendFails, reap, closeClient, shutdown

\* What is aside leaves every session and every mail alone, and no lock that
\* was lost becomes one that is held.
LEMMA AsideFacts ==
    ASSUME IInv, Aside
    PROVE  UNCHANGED slotVars /\ UNCHANGED maildir /\ lockLost \subseteq lockLost'
<1>1. CASE acceptExits \/ UNCHANGED vars
  BY <1>1 DEF acceptExits, vars
<1>2. CASE Administer
  BY <1>2 DEF Administer, addUser, modifyUserPassword, deleteUser
<1>3. CASE \E s \in Slots : reap(s) /\ ~closeClient(s)
  BY <1>3 DEF reap
<1> QED
  BY <1>1, <1>2, <1>3 DEF Aside

(***************************************************************************)
(* Every step keeps the marks and their count, and the numbers.            *)
(***************************************************************************)
\* A cache with the same mails and marks is as good.
LEMMA GoodKept ==
    ASSUME NEW c, NEW d, GoodCache(c), SameMails(c, d)
    PROVE  GoodCache(d)
BY DEF GoodCache, SameMails, mailCount

\* Every step keeps the marks of every cache counted.
LEMMA GoodStep ==
    ASSUME IInv, MarkCount, FilesDistinct, [Next]_vars
    PROVE  MarkCount' /\ FilesDistinct'
<1>1. \A t \in Slots : mailCache[t] # NULL => GoodCache(mailCache[t])
  BY DEF MarkCount, FilesDistinct, GoodCache
<1>2. SUFFICES ASSUME NEW t \in Slots, mailCache'[t] # NULL
               PROVE  GoodCache(mailCache'[t])
  BY DEF MarkCount, FilesDistinct, GoodCache, mailCount
<1>3. mailCache[t] \in Cache \cup {NULL} /\ maildir \in [Users -> SUBSET Mail]
  BY DEF IInv, TypeOK
<1>4. ASSUME mailCache'[t] = mailCache[t]
      PROVE  GoodCache(mailCache'[t])
  BY <1>1, <1>2, <1>4
<1>5. ASSUME NEW s \in Slots, Idle(s)
      PROVE  GoodCache(mailCache'[t])
  <2>1. Kept(t)
    BY <1>5, IdleFacts DEF Kept
  <2> QED
    BY <1>1, <1>3, <1>4, <2>1, NullFacts, GoodKept DEF Kept
<1>6. ASSUME NEW s \in Slots, acceptConnection(s) \/ checkValidUsername(s) \/ quit(s)
      PROVE  GoodCache(mailCache'[t])
  BY <1>4, <1>6 DEF acceptConnection, checkValidUsername, quit
<1>7. ASSUME NEW s \in Slots, checkValidPassword(s)
      PROVE  GoodCache(mailCache'[t])
  <2>1. CASE Logs(s) /\ s = t
    BY <1>3, <2>1, LogsFacts, LoginCache
  <2>2. CASE Logs(s) /\ s # t
    BY <1>4, <2>2, LogsFacts
  <2>3. CASE ~Logs(s)
    BY <1>4, <1>7, <2>3, RefusedLogin
  <2> QED
    BY <2>1, <2>2, <2>3
<1>8. ASSUME NEW s \in Slots, dele(s) \/ rset(s)
      PROVE  GoodCache(mailCache'[t])
  <2>1. CASE s = t
    <3>1. mailCache[t] \in Cache /\ GoodCache(mailCache[t])
      BY <1>1, <1>8, <2>1, MarkFacts, NullFacts
    <3> QED
      BY <1>4, <1>8, <2>1, <3>1, MarkFacts, MarkCache, ResetCache
  <2>2. CASE s # t
    BY <1>4, <1>8, <2>2, MarkFacts
  <2> QED
    BY <2>1, <2>2
<1>9. ASSUME NEW C \in SUBSET Slots, Closes(C)
      PROVE  GoodCache(mailCache'[t])
  BY <1>2, <1>4, <1>9, ClosesFacts, ClosingFacts
<1>10. CASE Aside
  BY <1>4, <1>10, AsideFacts DEF slotVars
<1> QED
  BY <1>5, <1>6, <1>7, <1>8, <1>9, <1>10, Kinds

(***************************************************************************)
(* Every step keeps the mail that a RETR has open.                         *)
(***************************************************************************)
\* The mail that a RETR of this slot is to go on with is the one open.
Resumable(t) ==
    currentCommand[t] # NULL /\ currentCommand[t].op = "RETR" =>
        /\ mailCache[t].mail = currentCommand[t].arg
        /\ mailCache[t].left <= SIZE

\* A round of RETR that does not finish leaves its own mail open.
LEMMA RetrRound ==
    ASSUME IInv, NEW s \in Slots, Resumable(s), retr(s)
    PROVE  Resumable(s)'
<1>1. /\ Executes(s, {"RETR"}) /\ MayExecute(s)
      /\ Dequeue(s, ReachesEof(s)) /\ ReachesEof(s) \in BOOLEAN
  BY DEF retr, Executes, ReachesEof
<1>2. currentCommand'[s] = IF ReachesEof(s) THEN NULL ELSE Oldest(s)
  BY <1>1, DequeueType
<1>3. /\ mailCache[s] \in Cache /\ ToRead(s) \in Nat /\ Copied(s) \in Nat
      /\ Oldest(s).op = "RETR"
  BY <1>1, RetrFacts
<1>4. ToRead(s) <= SIZE
  <2>1. CASE Resuming(s)
    BY <1>3, <2>1 DEF Resuming, Oldest, ToRead, Resumable
  <2>2. CASE ~Resuming(s)
    BY <2>2, BufferAssumption DEF ToRead
  <2> QED
    BY <2>1, <2>2
<1>5. ~ReachesEof(s) => /\ mailCache'[s].mail = Oldest(s).arg
                        /\ mailCache'[s].left = ToRead(s) - Copied(s)
  BY <1>3 DEF retr, IInv, TypeOK, Cache
<1>6. ToRead(s) - Copied(s) <= SIZE
  BY <1>3, <1>4, BufferAssumption
<1> QED
  BY <1>2, <1>5, <1>6 DEF Resumable

\* Every other command leaves no RETR to go on with.
LEMMA NoRetrLeft ==
    ASSUME IInv, NEW s \in Slots, Execute(s), ~retr(s), ~openFails(s)
    PROVE  Resumable(s)'
<1>1. MayExecute(s) /\ LINE <= freeSpace(s)
  BY TurnCommands, ExecuteFacts
<1>2. CASE list(s)
  <2>1. currentCommand'[s] = Oldest(s) /\ Oldest(s).op = "LIST"
    BY <1>1, <1>2, DequeueType DEF list, Executes
  <2> QED
    BY <2>1 DEF Resumable
<1>3. CASE ~list(s)
  <2>1. Dequeue(s, TRUE)
    BY <1>1, <1>3
    DEF Execute, refuse, checkValidUsername, checkValidPassword, capa, report,
        dele, rset, quit, retrRefused, readFails
  <2>2. currentCommand'[s] = NULL
    BY <1>1, <2>1, DequeueType
  <2> QED
    BY <2>2 DEF Resumable
<1> QED
  BY <1>2, <1>3

\* Every step keeps the mail of every RETR open.
LEMMA RetrStep ==
    ASSUME IInv, RetrResumable, [Next]_vars
    PROVE  RetrResumable'
<1> SUFFICES ASSUME NEW t \in Slots
             PROVE  Resumable(t)'
  BY DEF RetrResumable, Resumable
<1>1. Resumable(t)
  BY DEF RetrResumable, Resumable
<1>2. ASSUME mailCache'[t] = mailCache[t], currentCommand'[t] = currentCommand[t]
      PROVE  Resumable(t)'
  BY <1>1, <1>2 DEF Resumable
<1>3. ASSUME NEW s \in Slots \ {t},
             \/ acceptConnection(s) \/ readFromClient(s) \/ writeToClient(s)
             \/ Execute(s) \/ continueList(s) \/ endList(s)
      PROVE  Resumable(t)'
  BY <1>2, <1>3, Elsewhere DEF SameSlot
<1>4. CASE acceptConnection(t) \/ readFromClient(t) \/ writeToClient(t) \/ openFails(t)
  BY <1>2, <1>4 DEF acceptConnection, readFromClient, writeToClient, openFails, slotVars
<1>5. CASE Execute(t) /\ ~openFails(t)
  BY <1>1, <1>5, RetrRound, NoRetrLeft
<1>6. CASE continueList(t)
  <2>1. mailCache[t] \in Cache /\ mailCount(mailCache[t]) \in Nat
        /\ mailCache \in [Slots -> Cache \cup {NULL}]
    BY <1>6, ListFacts DEF continueList, IInv, TypeOK
  <2>2. PICK n \in Nat : mailCache' = [mailCache EXCEPT ![t].iterator = n]
    BY <1>6, <2>1, IterateFacts
  <2>3. mailCache'[t].mail = mailCache[t].mail
        /\ mailCache'[t].left = mailCache[t].left
    BY <2>1, <2>2 DEF Cache
  <2> QED
    BY <1>1, <1>6, <2>3 DEF Resumable, continueList
<1>7. CASE endList(t)
  BY <1>1, <1>7 DEF endList, Resumable, IInv, TypeOK
<1>8. ASSUME NEW C \in SUBSET Slots, ClearSlots(C)
      PROVE  Resumable(t)'
  BY <1>1, <1>8, ClearSlotsEffect DEF Resumable
<1>9. ASSUME UNCHANGED slotVars
      PROVE  Resumable(t)'
  BY <1>2, <1>9 DEF slotVars
<1>10. ASSUME NEW s \in Slots, readEof(s) \/ sendFails(s) \/ reap(s)
       PROVE  Resumable(t)'
  BY <1>8, <1>9, <1>10 DEF readEof, sendFails, reap, closeClient
<1>11. CASE shutdown
  BY <1>8, <1>11 DEF shutdown, IInv, TypeOK
<1>12. CASE acceptExits \/ Administer \/ UNCHANGED vars
  BY <1>9, <1>12, TableUntouched
<1> QED
  BY <1>3, <1>4, <1>5, <1>6, <1>7, <1>10, <1>11, <1>12
  DEF Next, Serve, Execute, FinishTurn

(***************************************************************************)
(* Every step keeps the mails of a locked session on disk.                 *)
(***************************************************************************)
\* What a session has been shown is on disk.
Shown(t) ==
    sessionState[t] = "TRANSACTION" /\ username[t] \notin lockLost =>
        Range(mailCache[t].files) \subseteq maildir[username[t]]

\* A lock that closeClient takes off the lost ones is that of no other session.
LEMMA LostStays ==
    ASSUME IInv, NEW s \in Slots, closeClient(s), NEW t \in Slots \ {s},
           mailCache[t] # NULL, username[t] \in lockLost
    PROVE  username[t] \in lockLost'
<1>1. username[t] = username[s] => t \in Sessions(username[s]) \ {s}
  BY DEF Sessions
<1> QED
  BY <1>1 DEF closeClient

\* The QUIT of a session takes its mails from nobody who holds a lock.
LEMMA QuitFacts ==
    ASSUME IInv, NEW s \in Slots, quit(s)
    PROVE  /\ s \in allocated
           /\ sessionState' = [sessionState EXCEPT ![s] = "UPDATE"]
           /\ UNCHANGED <<allocated, username, mailCache, lockLost>>
           /\ sessionState[s] = "TRANSACTION" =>
                /\ username[s] \in Users
                /\ \E gone \in SUBSET MarkedMails(mailCache[s]) :
                      maildir' = [maildir EXCEPT ![username[s]] = @ \ gone]
           /\ sessionState[s] # "TRANSACTION" => maildir' = maildir
<1>1. s \in allocated
  BY ExecuteFacts DEF quit, Executes
<1>2. sessionState[s] = "TRANSACTION" => username[s] \in Users
  BY DEF IInv, TypeOK, SessionCoherent
<1>3. sessionState' = [sessionState EXCEPT ![s] = "UPDATE"]
  BY DEF quit
<1>4. UNCHANGED <<allocated, username, mailCache, lockLost>>
  BY DEF quit
<1>5. /\ sessionState[s] = "TRANSACTION" =>
           \E gone \in SUBSET MarkedMails(mailCache[s]) :
               maildir' = [maildir EXCEPT ![username[s]] = @ \ gone]
      /\ sessionState[s] # "TRANSACTION" => maildir' = maildir
  BY DEF quit
<1> QED
  BY <1>1, <1>2, <1>3, <1>4, <1>5

\* Every step keeps what the locked sessions have been shown on disk.
LEMMA SnapshotStep ==
    ASSUME IInv, SnapshotOnDisk, [Next]_vars
    PROVE  SnapshotOnDisk'
<1>1. SUFFICES ASSUME NEW t \in Slots, sessionState'[t] = "TRANSACTION",
                      username'[t] \notin lockLost'
               PROVE  Range(mailCache'[t].files) \subseteq maildir'[username'[t]]
  BY DEF SnapshotOnDisk
<1>2. /\ Shown(t)
      /\ sessionState[t] = "TRANSACTION" => mailCache[t] # NULL
      /\ maildir \in [Users -> SUBSET Mail]
      /\ mailCache[t] # NULL => username[t] \in Users
  BY DEF SnapshotOnDisk, Shown, IInv, SessionCoherent, TypeOK
<1> DEFINE Goal == Range(mailCache'[t].files) \subseteq maildir'[username'[t]]
<1>3. ASSUME Kept(t), sessionState[t] = "TRANSACTION", username'[t] = username[t],
             username[t] \notin lockLost, maildir' = maildir
      PROVE  Goal
  BY <1>2, <1>3 DEF Shown, Kept, SameMails
<1>4. ASSUME NEW s \in Slots, Idle(s)
      PROVE  Goal
  <2>1. Kept(t)
    BY <1>4, IdleFacts DEF Kept
  <2> QED
    BY <1>1, <1>3, <1>4, <2>1, IdleFacts
<1>5. ASSUME NEW s \in Slots, acceptConnection(s)
      PROVE  Goal
  <2>1. t # s
    BY <1>1, <1>5 DEF acceptConnection, IInv, TypeOK
  <2> QED
    BY <1>1, <1>3, <1>5, <2>1 DEF acceptConnection, Kept, IInv, TypeOK
<1>6. ASSUME NEW s \in Slots, checkValidUsername(s)
      PROVE  Goal
  <2>1. t # s
    BY <1>1, <1>6, UserFacts
  <2> QED
    BY <1>1, <1>3, <1>6, <2>1, UserFacts DEF Kept
<1>7. ASSUME NEW s \in Slots, checkValidPassword(s)
      PROVE  Goal
  <2>1. CASE Logs(s) /\ s = t
    BY <1>2, <2>1, LogsFacts, LoginCache
  <2>2. CASE Logs(s) /\ s # t
    <3>1. /\ mailCache'[t] = mailCache[t]
          /\ UNCHANGED <<username, maildir, lockLost>>
          /\ sessionState' = [sessionState EXCEPT ![s] = "TRANSACTION"]
      BY <2>2, LogsFacts
    <3>2. sessionState[t] = "TRANSACTION"
      BY <1>1, <2>2, <3>1 DEF IInv, TypeOK
    <3> QED
      BY <1>1, <1>3, <3>1, <3>2 DEF Kept
  <2>3. CASE ~Logs(s)
    BY <1>1, <1>3, <1>7, <2>3, RefusedLogin DEF Kept
  <2> QED
    BY <2>1, <2>2, <2>3
<1>8. ASSUME NEW s \in Slots, dele(s) \/ rset(s)
      PROVE  Goal
  <2>1. mailCache'[t].files = mailCache[t].files
    <3>1. CASE s = t
      <4>1. mailCache[t] \in Cache
        BY <1>8, <3>1, MarkFacts
      <4>2. /\ resetToDelete(mailCache[t]).files = mailCache[t].files
            /\ \A n : markMailToDelete(mailCache[t], n).files
                       = mailCache[t].files
        BY <4>1 DEF resetToDelete, markMailToDelete, Cache
      <4> QED
        BY <1>8, <3>1, <4>2, MarkFacts
    <3>2. CASE s # t
      BY <1>8, <3>2, MarkFacts
    <3> QED
      BY <3>1, <3>2
  <2>2. UNCHANGED <<sessionState, username, maildir, lockLost>>
    BY <1>8, MarkFacts
  <2> QED
    BY <1>1, <1>2, <2>1, <2>2 DEF Shown
<1>9. ASSUME NEW s \in Slots, quit(s)
      PROVE  Goal
  <2>1. /\ t # s /\ sessionState[t] = "TRANSACTION"
        /\ UNCHANGED <<username, mailCache, lockLost>>
    BY <1>1, <1>9, QuitFacts DEF IInv, TypeOK
  <2>2. CASE sessionState[s] # "TRANSACTION"
    BY <1>1, <1>3, <1>9, <2>1, <2>2, QuitFacts DEF Kept
  <2>3. CASE sessionState[s] = "TRANSACTION"
    <3>1. mailCache[s] # NULL /\ mailCache[t] # NULL
      BY <2>1, <2>3 DEF IInv, SessionCoherent
    <3>2. username[t] # username[s]
      BY <1>1, <1>2, <2>1, <3>1 DEF IInv, ExclusiveMaildrop, Sessions
    <3>3. maildir'[username[t]] = maildir[username[t]]
      <4>1. PICK gone \in SUBSET MarkedMails(mailCache[s]) :
              maildir' = [maildir EXCEPT ![username[s]] = @ \ gone]
        BY <1>9, <2>3, QuitFacts
      <4> QED
        BY <1>2, <3>1, <3>2, <4>1
    <3> QED
      BY <1>1, <1>2, <2>1, <3>3 DEF Shown
  <2> QED
    BY <2>2, <2>3
<1>10. ASSUME NEW C \in SUBSET Slots, Closes(C)
       PROVE  Goal
  <2>1. ClearSlots(C) /\ maildir' = maildir
    BY <1>10, ClosesFacts
  <2>2. /\ t \notin C /\ sessionState[t] = "TRANSACTION"
        /\ mailCache'[t] = mailCache[t] /\ username'[t] = username[t]
    BY <1>1, <2>1, ClosingFacts
  <2>3. C # allocated
    BY <2>2 DEF IInv, SlotClean
  <2>4. PICK s \in C : C = {s} /\ closeClient(s)
    BY <1>10, <2>3 DEF Closes, readEof, sendFails
  <2>5. username[t] \notin lockLost
    BY <1>1, <1>2, <2>2, <2>4, LostStays
  <2> QED
    BY <1>3, <2>1, <2>2, <2>5 DEF Kept
<1>11. CASE Aside
  BY <1>1, <1>3, <1>11, AsideFacts DEF slotVars, Kept
<1> QED
  BY <1>4, <1>5, <1>6, <1>7, <1>8, <1>9, <1>10, <1>11, Kinds

(***************************************************************************)
(* The invariant.                                                          *)
(***************************************************************************)
\* MailInv holds at the start, when there is no cache.
LEMMA InitMailInv == Init => MailInv
<1> SUFFICES ASSUME Init PROVE MailInv
  OBVIOUS
<1>1. /\ \A s \in Slots : mailCache[s] = NULL /\ currentCommand[s] = NULL
      /\ \A s \in Slots : sessionState[s] = "ANY"
  BY DEF Init
<1> QED
  BY <1>1 DEF MailInv, MarkCount, FilesDistinct, RetrResumable, SnapshotOnDisk

\* MailInv is an invariant of the server.
THEOREM MailInvariance == Spec => []MailInv
<1>1. IInv /\ MailInv /\ [Next]_vars => MailInv'
  BY GoodStep, RetrStep, SnapshotStep DEF MailInv
<1> QED
  BY <1>1, InitMailInv, Invariance, PTL DEF Spec

\* STAT and LIST count the mails that LIST skips, whatever was marked, marked
\* again or taken back.
THEOREM MarksCounted == Spec => []MarkCount
<1>1. MailInv => MarkCount
  BY DEF MailInv
<1> QED
  BY <1>1, MailInvariance, PTL

\* A RETR that goes on finds its own mail open, whatever was executed for other
\* sessions since.
THEOREM RetrGoesOn == Spec => []RetrResumable
<1>1. MailInv => RetrResumable
  BY DEF MailInv
<1> QED
  BY <1>1, MailInvariance, PTL

\* Nobody removes a mail that a session holding its lock has been shown.
THEOREM SnapshotsStay == Spec => []SnapshotOnDisk
<1>1. MailInv => SnapshotOnDisk
  BY DEF MailInv
<1> QED
  BY <1>1, MailInvariance, PTL

(***************************************************************************)
(* The server implements Maildrop.                                         *)
(***************************************************************************)
\* What Maildrop sees of a connection.
SameView(t) ==
    /\ StateOf(t)' = StateOf(t) /\ OwnerOf(t)' = OwnerOf(t)
    /\ SnapshotOf(t)' = SnapshotOf(t) /\ MarksOf(t)' = MarksOf(t)

\* A session whose mails and marks are kept looks the same.
LEMMA ViewKept ==
    ASSUME NEW t \in Slots, Kept(t),
           t \in allocated' <=> t \in allocated,
           sessionState'[t] = sessionState[t],
           username'[t] = username[t] \/ ~InTransaction(t)
    PROVE  SameView(t)
<1>1. StateOf(t)' = StateOf(t) /\ OwnerOf(t)' = OwnerOf(t)
  BY DEF StateOf, OwnerOf, InTransaction
<1>2. CASE mailCache'[t] = mailCache[t]
  BY <1>1, <1>2 DEF SameView, SnapshotOf, MarksOf, InTransaction, MarkedMails
<1>3. CASE SameMails(mailCache[t], mailCache'[t])
  BY <1>1, <1>3
  DEF SameView, SnapshotOf, MarksOf, InTransaction, MarkedMails, SameMails
<1> QED
  BY <1>2, <1>3 DEF Kept

\* What changes nothing that Maildrop sees is a stuttering step of it.
LEMMA Stutters ==
    ASSUME \A t \in Slots : SameView(t), maildir' = maildir
    PROVE  [Promise!Next]_(Promise!vars)
<1>1. UNCHANGED Promise!vars
  BY DEF SameView, Promise!vars
<1> QED
  BY <1>1

\* An accepted connection is opened.
LEMMA AcceptOpens ==
    ASSUME IInv, NEW s \in Slots, acceptConnection(s)
    PROVE  Promise!Open(s)
<1>1. /\ s \notin allocated /\ allocated' = allocated \cup {s}
      /\ sessionState' = [sessionState EXCEPT ![s] = "AUTHENTICATION"]
      /\ UNCHANGED <<username, mailCache, maildir>>
  BY DEF acceptConnection
<1>2. sessionState[s] = "ANY" /\ sessionState'[s] = "AUTHENTICATION"
  BY <1>1 DEF IInv, SlotClean, TypeOK
<1>3. \A t \in Slots \ {s} : SameView(t)
  BY <1>1, ViewKept DEF Kept, IInv, TypeOK
<1>4. StateOf(s) = "closed" /\ StateOf(s)' = "authorization"
  BY <1>1, <1>2 DEF StateOf, InTransaction
<1>5. /\ OwnerOf(s)' = OwnerOf(s) /\ SnapshotOf(s)' = SnapshotOf(s)
      /\ MarksOf(s)' = MarksOf(s)
  BY <1>2 DEF OwnerOf, SnapshotOf, MarksOf, InTransaction
<1> QED
  BY <1>1, <1>3, <1>4, <1>5 DEF SameView, Promise!Open

\* A login takes the maildrop as it is on disk.
LEMMA LoginLogsIn ==
    ASSUME IInv, NEW s \in Slots, Logs(s)
    PROVE  Promise!Login(s, username[s])
<1> DEFINE u == username[s]
<1>1. /\ sessionState[s] = "AUTHENTICATION" /\ s \in allocated
      /\ u \in Users /\ mailCache'[s] \in initCaches(u)
      /\ sessionState' = [sessionState EXCEPT ![s] = "TRANSACTION"]
      /\ \A t \in Slots \ {s} : mailCache'[t] = mailCache[t]
      /\ UNCHANGED <<allocated, username, maildir>>
  BY LogsFacts
<1>2. sessionState'[s] = "TRANSACTION" /\ maildir \in [Users -> SUBSET Mail]
  BY <1>1 DEF IInv, TypeOK
<1>3. Range(mailCache'[s].files) = maildir[u] /\ mailCache'[s].toDelete = {}
  BY <1>1, <1>2, LoginCache
<1>4. \A t \in Slots \ {s} : SameView(t)
  BY <1>1, ViewKept DEF Kept, IInv, TypeOK
<1>5. StateOf(s) = "authorization" /\ StateOf(s)' = "transaction"
  BY <1>1, <1>2 DEF StateOf, InTransaction
<1>6. OwnerOf(s)' = u /\ SnapshotOf(s)' = maildir[u]
  BY <1>1, <1>2, <1>3 DEF OwnerOf, SnapshotOf, InTransaction
<1>7. MarksOf(s) = {} /\ MarksOf(s)' = {}
  BY <1>1, <1>2, <1>3 DEF MarksOf, InTransaction, MarkedMails
<1> QED
  BY <1>1, <1>4, <1>5, <1>6, <1>7 DEF SameView, Promise!Login

\* DELE marks one mail more, of those the session was shown, or none.
LEMMA DeleMarks ==
    ASSUME IInv, MailInv, NEW s \in Slots, NEW n,
           dele(s) \/ rset(s), validMailNo(mailCache[s], n),
           mailCache'[s] = markMailToDelete(mailCache[s], n)
    PROVE  \E m \in Mail : Promise!Mark(s, m)
<1> DEFINE c == mailCache[s]
           m == c.files[n]
<1>1. /\ sessionState[s] = "TRANSACTION" /\ s \in allocated /\ c \in Cache
      /\ \A t \in Slots \ {s} : mailCache'[t] = mailCache[t]
      /\ UNCHANGED <<allocated, sessionState, username, maildir>>
  BY MarkFacts
<1>2. GoodCache(c)
  BY <1>1, NullFacts DEF MailInv, MarkCount, FilesDistinct, GoodCache
<1>3. /\ mailCache'[s].files = c.files
      /\ mailCache'[s].toDelete = c.toDelete \cup {n}
  BY <1>1, <1>2, MarkCache
<1>4. n \in DOMAIN c.files /\ n \notin c.toDelete /\ c.toDelete \subseteq DOMAIN c.files
  BY <1>1, <1>2, CacheNumbers DEF validMailNo, GoodCache
<1>5. m \in Mail /\ m \in Range(c.files)
  BY <1>1, <1>4, ElementOfSeq, CacheNumbers DEF Cache, Range, mailCount
<1>6. m \notin MarkedMails(c)
  BY <1>2, <1>4 DEF MarkedMails, GoodCache, IsInjective
<1>7. MarkedMails(mailCache'[s]) = MarkedMails(c) \cup {m}
  BY <1>3 DEF MarkedMails
<1>8. \A t \in Slots \ {s} : SameView(t)
  BY <1>1, ViewKept DEF Kept
<1>9. /\ StateOf(s) = "transaction" /\ StateOf(s)' = "transaction"
      /\ OwnerOf(s)' = OwnerOf(s)
      /\ SnapshotOf(s) = Range(c.files) /\ SnapshotOf(s)' = Range(c.files)
      /\ MarksOf(s) = MarkedMails(c) /\ MarksOf(s)' = MarkedMails(c) \cup {m}
  BY <1>1, <1>3, <1>7 DEF StateOf, OwnerOf, SnapshotOf, MarksOf, InTransaction
<1> HIDE DEF c, m
<1>10. Promise!Mark(s, m)
  BY <1>1, <1>5, <1>6, <1>8, <1>9 DEF SameView, Promise!Mark
<1> QED
  BY <1>5, <1>10

\* RSET takes every mark back.
LEMMA RsetUnmarks ==
    ASSUME IInv, NEW s \in Slots, dele(s) \/ rset(s),
           mailCache'[s] = resetToDelete(mailCache[s])
    PROVE  Promise!Unmark(s)
<1>1. /\ sessionState[s] = "TRANSACTION" /\ s \in allocated
      /\ mailCache[s] \in Cache
      /\ \A t \in Slots \ {s} : mailCache'[t] = mailCache[t]
      /\ UNCHANGED <<allocated, sessionState, username, maildir>>
  BY MarkFacts
<1>2. mailCache'[s].files = mailCache[s].files /\ mailCache'[s].toDelete = {}
  BY <1>1 DEF resetToDelete, Cache
<1>3. \A t \in Slots \ {s} : SameView(t)
  BY <1>1, ViewKept DEF Kept
<1>4. /\ StateOf(s) = "transaction" /\ StateOf(s)' = "transaction"
      /\ OwnerOf(s)' = OwnerOf(s) /\ SnapshotOf(s)' = SnapshotOf(s)
      /\ MarksOf(s)' = {}
  BY <1>1, <1>2
  DEF StateOf, OwnerOf, SnapshotOf, MarksOf, InTransaction, MarkedMails
<1> QED
  BY <1>1, <1>3, <1>4 DEF SameView, Promise!Unmark

\* QUIT carries out the session's own marks, on its own maildrop; one that has
\* not logged in, or has quit before, deletes nothing.
LEMMA QuitCommits ==
    ASSUME IInv, NEW s \in Slots, quit(s)
    PROVE  [Promise!Next]_(Promise!vars)
<1>1. /\ s \in allocated
      /\ sessionState' = [sessionState EXCEPT ![s] = "UPDATE"]
      /\ UNCHANGED <<allocated, username, mailCache>>
  BY QuitFacts
<1>2. sessionState'[s] = "UPDATE"
  BY <1>1 DEF IInv, TypeOK
<1>3. \A t \in Slots \ {s} : SameView(t)
  BY <1>1, ViewKept DEF Kept, IInv, TypeOK
<1>4. /\ StateOf(s)' = "update" /\ OwnerOf(s)' = NULL
      /\ SnapshotOf(s)' = {} /\ MarksOf(s)' = {}
  BY <1>1, <1>2 DEF StateOf, OwnerOf, SnapshotOf, MarksOf, InTransaction
<1>5. Promise!Leave(s)
  BY <1>3, <1>4 DEF SameView, Promise!Leave
<1>6. CASE sessionState[s] = "TRANSACTION"
  <2>1. /\ StateOf(s) = "transaction" /\ OwnerOf(s) = username[s]
        /\ MarksOf(s) = MarkedMails(mailCache[s])
    BY <1>1, <1>6 DEF StateOf, OwnerOf, MarksOf, InTransaction
  <2>2. \E gone \in SUBSET MarkedMails(mailCache[s]) :
            maildir' = [maildir EXCEPT ![username[s]] = @ \ gone]
    BY <1>6, QuitFacts
  <2>3. Promise!Commit(s)
    BY <1>5, <2>1, <2>2 DEF Promise!Commit
  <2> QED
    BY <2>3 DEF Promise!Next
<1>7. CASE sessionState[s] = "AUTHENTICATION"
  <2>1. StateOf(s) = "authorization" /\ maildir' = maildir
    BY <1>1, <1>7, QuitFacts DEF StateOf, InTransaction
  <2>2. Promise!Abandon(s)
    BY <1>5, <2>1 DEF Promise!Abandon
  <2> QED
    BY <2>2 DEF Promise!Next
<1>8. CASE sessionState[s] \notin {"TRANSACTION", "AUTHENTICATION"}
  <2>1. /\ StateOf(s) = "update" /\ OwnerOf(s) = NULL
        /\ SnapshotOf(s) = {} /\ MarksOf(s) = {} /\ maildir' = maildir
    BY <1>1, <1>8, QuitFacts
    DEF StateOf, OwnerOf, SnapshotOf, MarksOf, InTransaction
  <2>2. \A t \in Slots : SameView(t)
    BY <1>3, <1>4, <2>1 DEF SameView
  <2> QED
    BY <2>1, <2>2, Stutters
<1> QED
  BY <1>6, <1>7, <1>8

\* Connections that are closed, by whatever end, delete nothing.
LEMMA ClosingCloses ==
    ASSUME IInv, NEW C \in SUBSET Slots, Closes(C)
    PROVE  Promise!Close(C)
<1>1. ClearSlots(C) /\ maildir' = maildir
  BY ClosesFacts
<1>2. /\ allocated' = allocated \ C
      /\ \A t \in C : sessionState'[t] = "ANY"
      /\ \A t \in Slots \ C : /\ mailCache'[t] = mailCache[t]
                             /\ username'[t] = username[t]
                             /\ sessionState'[t] = sessionState[t]
  BY <1>1, ClosingFacts
<1>3. \A t \in Slots \ C : SameView(t)
  BY <1>2, ViewKept DEF Kept
<1>4. \A t \in C : /\ StateOf(t)' = "closed" /\ OwnerOf(t)' = NULL
                  /\ SnapshotOf(t)' = {} /\ MarksOf(t)' = {}
  BY <1>2 DEF StateOf, OwnerOf, SnapshotOf, MarksOf, InTransaction
<1> QED
  BY <1>1, <1>3, <1>4 DEF SameView, Promise!Close

\* Every step of the server is one that Maildrop allows.
LEMMA PromiseStep ==
    ASSUME IInv, MailInv, [Next]_vars
    PROVE  [Promise!Next]_(Promise!vars)
<1>1. ASSUME NEW s \in Slots, acceptConnection(s)
      PROVE  [Promise!Next]_(Promise!vars)
  BY <1>1, AcceptOpens DEF Promise!Next
<1>2. ASSUME NEW s \in Slots, Idle(s)
      PROVE  [Promise!Next]_(Promise!vars)
  <2>1. \A t \in Slots : SameView(t)
    BY <1>2, IdleFacts, ViewKept DEF Kept
  <2> QED
    BY <1>2, <2>1, IdleFacts, Stutters
<1>3. ASSUME NEW s \in Slots, checkValidUsername(s)
      PROVE  [Promise!Next]_(Promise!vars)
  <2>1. ~InTransaction(s)
    BY <1>3, UserFacts DEF InTransaction
  <2>2. \A t \in Slots : SameView(t)
    BY <1>3, <2>1, UserFacts, ViewKept DEF Kept
  <2> QED
    BY <1>3, <2>2, UserFacts, Stutters
<1>4. ASSUME NEW s \in Slots, checkValidPassword(s)
      PROVE  [Promise!Next]_(Promise!vars)
  <2>1. CASE Logs(s)
    <3>1. username[s] \in Users /\ Promise!Login(s, username[s])
      BY <2>1, LogsFacts, LoginLogsIn
    <3> QED
      BY <3>1 DEF Promise!Next
  <2>2. CASE ~Logs(s)
    <3>1. \A t \in Slots : SameView(t)
      BY <1>4, <2>2, RefusedLogin, ViewKept DEF Kept
    <3> QED
      BY <1>4, <2>2, <3>1, RefusedLogin, Stutters
  <2> QED
    BY <2>1, <2>2
<1>5. ASSUME NEW s \in Slots, dele(s) \/ rset(s)
      PROVE  [Promise!Next]_(Promise!vars)
  <2>1. CASE mailCache'[s] = mailCache[s]
    <3>1. \A t \in Slots : SameView(t)
      BY <1>5, <2>1, MarkFacts, ViewKept DEF Kept
    <3> QED
      BY <1>5, <3>1, MarkFacts, Stutters
  <2>2. ASSUME NEW n, validMailNo(mailCache[s], n),
               mailCache'[s] = markMailToDelete(mailCache[s], n)
        PROVE  [Promise!Next]_(Promise!vars)
    BY <1>5, <2>2, DeleMarks DEF Promise!Next
  <2>3. CASE mailCache'[s] = resetToDelete(mailCache[s])
    BY <1>5, <2>3, RsetUnmarks DEF Promise!Next
  <2> QED
    BY <1>5, <2>1, <2>2, <2>3, MarkFacts
<1>6. ASSUME NEW s \in Slots, quit(s)
      PROVE  [Promise!Next]_(Promise!vars)
  BY <1>6, QuitCommits
<1>7. ASSUME NEW C \in SUBSET Slots, Closes(C)
      PROVE  [Promise!Next]_(Promise!vars)
  BY <1>7, ClosingCloses DEF Promise!Next
<1>8. CASE Aside
  <2>1. UNCHANGED slotVars /\ maildir' = maildir
    BY <1>8, AsideFacts
  <2>2. \A t \in Slots : SameView(t)
    BY <2>1, ViewKept DEF Kept, slotVars
  <2> QED
    BY <2>1, <2>2, Stutters
<1> QED
  BY <1>1, <1>2, <1>3, <1>4, <1>5, <1>6, <1>7, <1>8, Kinds

\* The server starts as Maildrop does.
LEMMA InitPromise == Init => Promise!Init
<1> SUFFICES ASSUME Init PROVE Promise!Init
  OBVIOUS
<1>1. \A t \in Slots : /\ StateOf(t) = "closed" /\ OwnerOf(t) = NULL
                       /\ SnapshotOf(t) = {} /\ MarksOf(t) = {}
  BY DEF Init, StateOf, OwnerOf, SnapshotOf, MarksOf, InTransaction
<1> QED
  BY <1>1 DEF Init, Promise!Init

\* The server implements Maildrop: no mail is lost but by a QUIT of the session
\* that marked it, all its marks together, and no end of a connection or of the
\* server deletes anything.
THEOREM MailsKept == Spec => MaildropSpec
<1>1. IInv /\ MailInv /\ [Next]_vars => [Promise!Next]_(Promise!vars)
  BY PromiseStep
<1> QED
  BY <1>1, InitPromise, Invariance, MailInvariance, PTL
  DEF Spec, MaildropSpec, Promise!Spec

(***************************************************************************)
(* Every command is answered.                                              *)
(***************************************************************************)
\* A command that leaves the list puts a reply in the output buffer.
Answered(t) ==
    t \in allocated' /\ Len(commands'[t]) < Len(commands[t]) =>
        output'[t] > output[t]

\* A command that is executed is answered at once, in the room that
\* executeFirstCommand has made sure of.
LEMMA ExecuteAnswers ==
    ASSUME IInv, NEW s \in Slots, Execute(s)
    PROVE  Answered(s)
<1>1. TypeOK /\ output[s] \in Nat /\ LINE \in Nat \ {0}
  BY BufferAssumption DEF IInv, TypeOK
<1>2. MayExecute(s) => Written(freeSpace(s), LINE) = LINE
  BY ExecuteFacts
<1>3. CASE openFails(s)
  <2>1. commands' = commands /\ Len(commands[s]) \in Nat
    BY <1>1, <1>3, LenProperties DEF openFails, slotVars, TypeOK
  <2> QED
    BY <2>1 DEF Answered
<1>4. ASSUME MayExecute(s), Resuming(s), NEW b, Dequeue(s, b)
      PROVE  Answered(s)
  <2>1. commands'[s] = commands[s] /\ Len(commands[s]) \in Nat
    BY <1>1, <1>4, LenProperties DEF Dequeue, TypeOK
  <2> QED
    BY <2>1 DEF Answered
<1>5. ASSUME NEW n \in Nat \ {0}, output' = [output EXCEPT ![s] = @ + n]
      PROVE  Answered(s)
  BY <1>1, <1>5 DEF Answered, TypeOK
<1>6. CASE list(s) /\ ~Resuming(s)
  <2>1. output' = [output EXCEPT ![s] = @ + LINE]
    BY <1>2, <1>6 DEF list, Executes, Put
  <2> QED
    BY <1>1, <1>5, <2>1
<1>7. CASE retr(s) /\ ~Resuming(s)
  <2> DEFINE end == IF ReachesEof(s)
                    THEN Written(Room(s) - Copied(s), TERMINATOR) ELSE 0
             n == Header(s) + Copied(s) + end
  <2>1. Executes(s, {"RETR"}) /\ MayExecute(s)
    BY <1>7 DEF retr, Executes
  <2>2. Header(s) = LINE /\ Copied(s) \in Nat /\ Room(s) - Copied(s) \in Nat
    BY <1>2, <1>7, <2>1, RetrFacts DEF Header
  <2>3. end \in Nat
    BY <2>2, BufferAssumption DEF Written
  <2>4. output' = [output EXCEPT ![s] = @ + n]
    BY <1>7 DEF retr, Put
  <2> HIDE DEF end
  <2>5. n \in Nat \ {0}
    BY <1>1, <2>2, <2>3
  <2> HIDE DEF n
  <2> QED
    BY <1>5, <2>4, <2>5
<1>8. CASE readFails(s) /\ ~Resuming(s)
  <2>1. Header(s) = LINE
    BY <1>2, <1>8 DEF readFails, Executes, Header
  <2>2. output' = [output EXCEPT ![s] = @ + LINE]
    BY <1>8, <2>1 DEF readFails, Put
  <2> QED
    BY <1>1, <1>5, <2>2
<1>9. CASE (list(s) \/ retr(s) \/ readFails(s)) /\ Resuming(s)
  BY <1>4, <1>9 DEF list, retr, readFails, Executes
<1>10. CASE \/ refuse(s) \/ checkValidUsername(s) \/ checkValidPassword(s)
            \/ capa(s) \/ report(s) \/ dele(s) \/ rset(s) \/ quit(s)
            \/ retrRefused(s)
  <2>1. MayExecute(s)
    BY <1>10 DEF refuse, checkValidUsername, checkValidPassword, capa, report,
                 dele, rset, quit, retrRefused, Executes
  <2>2. output' = [output EXCEPT ![s] = @ + LINE]
    BY <1>2, <1>10, <2>1
    DEF refuse, checkValidUsername, checkValidPassword, capa, report, dele,
        rset, quit, retrRefused, Put
  <2> QED
    BY <1>1, <1>5, <2>2
<1> QED
  BY <1>3, <1>6, <1>7, <1>8, <1>9, <1>10 DEF Execute

\* No step takes a command from a connection that stays without a reply to it.
LEMMA AnswerStep ==
    ASSUME IInv, [Next]_vars, NEW t \in allocated
    PROVE  Answered(t)
<1>1. t \in Slots /\ commands[t] \in Seq(Command) /\ Len(commands[t]) \in Nat
  BY LenProperties DEF IInv, TypeOK
<1>2. ASSUME commands'[t] = commands[t]
      PROVE  Answered(t)
  BY <1>1, <1>2 DEF Answered
<1>3. ASSUME NEW s \in Slots, s # t,
             \/ acceptConnection(s) \/ readFromClient(s) \/ writeToClient(s)
             \/ Execute(s) \/ continueList(s) \/ endList(s)
      PROVE  Answered(t)
  BY <1>1, <1>2, <1>3, Elsewhere DEF SameSlot
<1>4. ~acceptConnection(t)
  BY DEF acceptConnection
<1>5. CASE readFromClient(t)
  <2>1. PICK lines \in Inputs :
          commands' = [commands EXCEPT ![t] = commands[t] \o lines]
    BY <1>5 DEF readFromClient
  <2>2. lines \in Seq(Command)
    BY InputAssumption
  <2>3. Len(commands[t] \o lines) = Len(commands[t]) + Len(lines)
        /\ Len(lines) \in Nat
    BY <1>1, <2>2, ConcatProperties, LenProperties
  <2>4. commands'[t] = commands[t] \o lines
    BY <1>1, <2>1 DEF IInv, TypeOK
  <2>5. ~(Len(commands'[t]) < Len(commands[t]))
    BY <1>1, <2>3, <2>4
  <2> QED
    BY <2>5 DEF Answered
<1>6. CASE writeToClient(t) \/ continueList(t) \/ endList(t)
  BY <1>2, <1>6 DEF writeToClient, continueList, endList
<1>7. CASE Execute(t)
  BY <1>1, <1>7, ExecuteAnswers
<1>8. ASSUME NEW C \in SUBSET Slots, ClearSlots(C)
      PROVE  Answered(t)
  <2>1. t \notin C => commands'[t] = commands[t]
    BY <1>1, <1>8, ClearSlotsEffect
  <2>2. t \in C => t \notin allocated'
    BY <1>8 DEF ClearSlots
  <2> QED
    BY <1>2, <2>1, <2>2 DEF Answered
<1>9. CASE UNCHANGED slotVars
  BY <1>2, <1>9 DEF slotVars
<1>10. ASSUME NEW s \in Slots, readEof(s) \/ sendFails(s) \/ reap(s)
       PROVE  Answered(t)
  BY <1>8, <1>9, <1>10 DEF readEof, sendFails, reap, closeClient
<1>11. CASE shutdown
  BY <1>8, <1>11 DEF shutdown, IInv, TypeOK
<1>12. CASE acceptExits \/ Administer \/ UNCHANGED vars
  BY <1>9, <1>12, TableUntouched
<1> QED
  BY <1>3, <1>4, <1>5, <1>6, <1>7, <1>10, <1>11, <1>12
  DEF Next, Serve, FinishTurn

\* No reply is dropped, however full the buffer is when the command is executed
\* and however many were sent together.
THEOREM NoReplyDropped == Spec => EveryCommandAnswered
<1>1. IInv /\ [Next]_vars =>
        [\A s \in allocated :
           s \in allocated' /\ Len(commands'[s]) < Len(commands[s]) =>
               output'[s] > output[s]]_vars
  BY AnswerStep DEF Answered
<1> QED
  BY <1>1, Invariance, PTL DEF Spec, EveryCommandAnswered

(***************************************************************************)
(* A LIST prints the unmarked mails, in order and once each, and its       *)
(* terminator, however many turns it takes, as long as the last mail is    *)
(* not marked.  ListInv says what has been printed so far and how much     *)
(* room each line leaves for the terminator.                               *)
(***************************************************************************)
\* The LIST that a slot is to go on with.
Listing(t) == currentCommand[t] # NULL /\ currentCommand[t].op = "LIST"

\* It has printed the unmarked mails that the iterator has passed.
Printed(t) ==
    LET c == mailCache[t] IN
    Listing(t) /\ mailCount(c) \notin c.toDelete =>
        /\ c.iterator <= mailCount(c)
        /\ InOrder(listed[t])
        /\ Range(listed[t]) = (1..c.iterator) \ c.toDelete

\* In a round of LIST, the line printed last was begun with room for more than
\* MAX_SINGLE_LINE_RESPONSE.
ListTurn ==
    pc = "list" => /\ Listing(turn)
                   /\ freeSpace(turn) + LINE > MAX_SINGLE_LINE_RESPONSE

ListInv == ListTurn /\ \A t \in Slots : Printed(t)

\* A number larger than those before it goes to the end of what is in order.
LEMMA InOrderAppend ==
    ASSUME NEW l \in Seq(Nat), InOrder(l), NEW n \in Nat,
           \A m \in Range(l) : m < n
    PROVE  /\ InOrder(Append(l, n))
           /\ Range(Append(l, n)) = Range(l) \cup {n}
<1> DEFINE a == Append(l, n)
<1>1. /\ Len(l) \in Nat /\ DOMAIN l = 1..Len(l)
      /\ a \in Seq(Nat) /\ Len(a) = Len(l) + 1 /\ DOMAIN a = 1..Len(a)
      /\ \A i \in 1..Len(l) : a[i] = l[i]
      /\ a[Len(l) + 1] = n
  BY AppendProperties, LenProperties
<1> HIDE DEF a
<1>2. DOMAIN a = (1..Len(l)) \cup {Len(l) + 1}
  BY <1>1
<1>3. Range(a) = Range(l) \cup {n}
  <2>1. \A i \in DOMAIN a : a[i] \in Range(l) \cup {n}
    BY <1>1, <1>2 DEF Range
  <2>2. \A x \in Range(l) : \E i \in DOMAIN a : a[i] = x
    BY <1>1, <1>2 DEF Range
  <2>3. \E i \in DOMAIN a : a[i] = n
    BY <1>1, <1>2
  <2> QED
    BY <2>1, <2>2, <2>3 DEF Range
<1>4. \A i \in 1..Len(l) : a[i] \in Range(l)
  BY <1>1 DEF Range
<1>5. ASSUME NEW i \in DOMAIN a, NEW j \in DOMAIN a, i < j
      PROVE  a[i] < a[j]
  <2>1. i \in 1..Len(l)
    BY <1>1, <1>5
  <2>2. CASE j = Len(l) + 1
    BY <1>1, <1>4, <2>1, <2>2
  <2>3. CASE j \in 1..Len(l)
    BY <1>1, <1>5, <2>1, <2>3 DEF InOrder
  <2> QED
    BY <1>2, <2>2, <2>3
<1>6. InOrder(a)
  BY <1>5 DEF InOrder
<1> QED
  BY <1>3, <1>6 DEF a

\* A line of LIST is that of the next unmarked mail.
LEMMA ListPrints ==
    ASSUME IInv, NEW t \in Slots, Listing(t), Printed(t), continueList(t),
           mailCount(mailCache[t]) \notin mailCache[t].toDelete
    PROVE  /\ mailCache'[t].iterator <= mailCount(mailCache[t])
           /\ InOrder(listed'[t])
           /\ Range(listed'[t]) = (1..mailCache'[t].iterator) \ mailCache[t].toDelete
<1> DEFINE c == mailCache[t]
           k == mailCount(c)
<1>1. /\ c \in Cache /\ k \in Nat /\ c.iterator \in Nat
      /\ mailCache \in [Slots -> Cache \cup {NULL}]
      /\ listed \in [Slots -> Seq(Nat)] /\ listed[t] \in Seq(Nat)
  BY ListFacts DEF continueList, IInv, TypeOK, Cache
<1>2. /\ c.iterator < k /\ k \notin c.toDelete
      /\ InOrder(listed[t]) /\ Range(listed[t]) = (1..c.iterator) \ c.toDelete
  BY DEF continueList, ListsOn, Printed
<1>3. k \in Remaining(c)
  BY <1>1, <1>2 DEF Remaining
<1>4. PICK n \in Remaining(c) :
        /\ \A m \in Remaining(c) : n <= m
        /\ mailCache' = [mailCache EXCEPT ![t].iterator = n]
        /\ mailInfo' = n
  BY <1>3 DEF continueList
<1>5. /\ n \in 1..k /\ n > c.iterator /\ n \notin c.toDelete /\ n \in Nat
      /\ \A m \in 1..k : m > c.iterator /\ m \notin c.toDelete => n <= m
  BY <1>1, <1>4 DEF Remaining
<1>6. mailCache'[t].iterator = n
  BY <1>1, <1>4 DEF Cache
<1>7. listed'[t] = Append(listed[t], n)
  BY <1>1, <1>4 DEF continueList
<1> HIDE DEF c, k
<1>8. \A m \in Range(listed[t]) : m < n
  BY <1>1, <1>2, <1>5
<1>9. InOrder(listed'[t]) /\ Range(listed'[t]) = Range(listed[t]) \cup {n}
  BY <1>1, <1>2, <1>5, <1>7, <1>8, InOrderAppend
<1>10. (1..n) \ c.toDelete = ((1..c.iterator) \ c.toDelete) \cup {n}
  BY <1>1, <1>5, SMTT(20)
<1> QED
  BY <1>1, <1>2, <1>5, <1>6, <1>9, <1>10 DEF c, k

\* What is listed of a slot is touched by its own LIST and by its end only.
LEMMA ListedElsewhere ==
    ASSUME IInv, NEW s \in Slots, NEW t \in Slots,
           \/ acceptConnection(s) \/ readFromClient(s) \/ writeToClient(s)
           \/ Execute(s) \/ continueList(s) \/ endList(s),
           s # t \/ ~(list(s) \/ continueList(s) \/ endList(s))
    PROVE  listed'[t] = listed[t]
BY DEF acceptConnection, readFromClient, writeToClient, Execute, refuse,
       checkValidUsername, checkValidPassword, capa, report, dele, rset, quit,
       list, retrRefused, openFails, retr, readFails, continueList, endList,
       slotVars, IInv, TypeOK

\* A command that is not LIST leaves no LIST to go on with.
LEMMA NoListLeft ==
    ASSUME IInv, NEW s \in Slots, Execute(s), ~list(s), ~openFails(s)
    PROVE  ~Listing(s)'
<1>1. MayExecute(s) /\ LINE <= freeSpace(s)
  BY TurnCommands, ExecuteFacts
<1>2. CASE retr(s)
  <2>1. Dequeue(s, ReachesEof(s)) /\ ReachesEof(s) \in BOOLEAN
        /\ Oldest(s).op = "RETR"
    BY <1>2 DEF retr, ReachesEof, Executes
  <2>2. currentCommand'[s] = IF ReachesEof(s) THEN NULL ELSE Oldest(s)
    BY <1>1, <2>1, DequeueType
  <2> QED
    BY <2>1, <2>2 DEF Listing
<1>3. CASE ~retr(s)
  <2>1. Dequeue(s, TRUE)
    BY <1>1, <1>3
    DEF Execute, refuse, checkValidUsername, checkValidPassword, capa, report,
        dele, rset, quit, retrRefused, readFails
  <2>2. currentCommand'[s] = NULL
    BY <1>1, <2>1, DequeueType
  <2> QED
    BY <2>2 DEF Listing
<1> QED
  BY <1>2, <1>3

\* A round of LIST that begins goes on where the one before it ended.
LEMMA ListBegins ==
    ASSUME IInv, NEW t \in Slots, Printed(t), list(t)
    PROVE  Printed(t)'
<1>1. MayExecute(t) /\ mailCache[t] \in Cache /\ Oldest(t).op = "LIST"
  BY TransactionFacts DEF list, Executes
<1>2. currentCommand'[t] = Oldest(t)
  BY <1>1, DequeueType DEF list
<1>3. CASE Resuming(t)
  <2>1. /\ currentCommand'[t] = currentCommand[t] /\ Listing(t)
        /\ UNCHANGED <<mailCache, listed>>
    BY <1>1, <1>2, <1>3 DEF list, Oldest, Resuming, Listing
  <2> QED
    BY <2>1 DEF Printed, Listing
<1>4. CASE ~Resuming(t)
  <2>1. mailCache' = [mailCache EXCEPT ![t] = [mailCache[t] EXCEPT !.iterator = 0]]
    BY <1>4 DEF list
  <2>2. mailCache'[t].iterator = 0 /\ mailCount(mailCache'[t]) \in Nat
    <3>1. [mailCache[t] EXCEPT !.iterator = 0] \in Cache
      BY <1>1, IteratorType, 0 \in Nat
    <3> QED
      BY <1>1, <2>1, <3>1, CacheNumbers DEF IInv, TypeOK, Cache
  <2>3. listed'[t] = <<>>
    BY <1>4 DEF list, IInv, TypeOK
  <2>4. InOrder(<<>>) /\ Range(<<>>) = {}
    BY DEF InOrder, Range
  <2> QED
    BY <2>2, <2>3, <2>4 DEF Printed
<1> QED
  BY <1>3, <1>4

\* A step of LIST leaves the names and the marks of its cache.
LEMMA ContinueKeeps ==
    ASSUME IInv, NEW t \in Slots, continueList(t)
    PROVE  /\ mailCount(mailCache'[t]) = mailCount(mailCache[t])
           /\ mailCache'[t].toDelete = mailCache[t].toDelete
           /\ currentCommand'[t] = currentCommand[t]
<1>1. Kept(t)
  BY IdleFacts DEF Idle
<1> QED
  BY <1>1 DEF Kept, SameMails, mailCount, continueList

\* A slot that a step leaves alone has printed as much.
LEMMA PrintedKept ==
    ASSUME NEW t \in Slots, Printed(t), mailCache'[t] = mailCache[t],
           currentCommand'[t] = currentCommand[t], listed'[t] = listed[t]
    PROVE  Printed(t)'
BY DEF Printed, Listing

\* Every step keeps what each LIST under way has printed.
LEMMA PrintedStep ==
    ASSUME IInv, ListInv, [Next]_vars, NEW t \in Slots
    PROVE  Printed(t)'
<1>1. Printed(t)
  BY DEF ListInv
<1>2. ASSUME NEW s \in Slots \ {t},
             \/ acceptConnection(s) \/ readFromClient(s) \/ writeToClient(s)
             \/ Execute(s) \/ continueList(s) \/ endList(s)
      PROVE  Printed(t)'
  BY <1>1, <1>2, Elsewhere, ListedElsewhere, PrintedKept DEF SameSlot
<1>3. CASE acceptConnection(t) \/ readFromClient(t) \/ writeToClient(t) \/ openFails(t)
  BY <1>1, <1>3, PrintedKept
  DEF acceptConnection, readFromClient, writeToClient, openFails, slotVars
<1>4. CASE Execute(t) /\ ~openFails(t)
  BY <1>1, <1>4, ListBegins, NoListLeft DEF Printed
<1>5. CASE continueList(t)
  <2>1. Listing(t)
    BY <1>5 DEF continueList, ListInv, ListTurn
  <2> QED
    BY <1>1, <1>5, <2>1, ListPrints, ContinueKeeps DEF Printed
<1>6. CASE endList(t)
  <2>1. /\ mailCache' = mailCache
        /\ \/ currentCommand'[t] = NULL
           \/ /\ currentCommand'[t] = currentCommand[t]
              /\ listed'[t] = listed[t]
    BY <1>6 DEF endList, IInv, TypeOK
  <2> QED
    BY <1>1, <2>1, PrintedKept DEF Printed, Listing
<1>7. ASSUME NEW C \in SUBSET Slots, ClearSlots(C)
      PROVE  Printed(t)'
  <2>1. t \in C => currentCommand'[t] = NULL
    BY <1>7, ClearSlotsEffect
  <2>2. t \notin C => /\ mailCache'[t] = mailCache[t] /\ listed'[t] = listed[t]
                     /\ currentCommand'[t] = currentCommand[t]
    BY <1>7, ClearSlotsEffect DEF ClearSlots, Zeroed
  <2> QED
    BY <1>1, <2>1, <2>2, PrintedKept DEF Printed, Listing
<1>8. CASE UNCHANGED slotVars
  BY <1>1, <1>8, PrintedKept DEF slotVars
<1>9. ASSUME NEW s \in Slots, readEof(s) \/ sendFails(s) \/ reap(s)
      PROVE  Printed(t)'
  BY <1>7, <1>8, <1>9 DEF readEof, sendFails, reap, closeClient
<1>10. CASE shutdown
  BY <1>7, <1>10 DEF shutdown, IInv, TypeOK
<1>11. CASE acceptExits \/ Administer \/ UNCHANGED vars
  BY <1>8, <1>11, TableUntouched
<1> QED
  BY <1>2, <1>3, <1>4, <1>5, <1>6, <1>9, <1>10, <1>11
  DEF Next, Serve, Execute, FinishTurn

\* A round of LIST begins with room for more than a line, and so does each of
\* its lines.
LEMMA ListTurnStep ==
    ASSUME IInv, ListInv, [Next]_vars
    PROVE  ListTurn'
<1>1. SUFFICES ASSUME pc' = "list"
               PROVE  /\ Listing(turn)'
                      /\ freeSpace(turn)' + LINE > MAX_SINGLE_LINE_RESPONSE
  BY DEF ListTurn
<1>2. ListTurn
  BY DEF ListInv
<1>3. ASSUME NEW s \in Slots, list(s)
      PROVE  /\ Listing(turn)'
             /\ freeSpace(turn)' + LINE > MAX_SINGLE_LINE_RESPONSE
  <2>1. /\ MayExecute(s) /\ Oldest(s).op = "LIST" /\ turn' = s
        /\ Oldest(s) \in Command
    BY <1>3, ExecuteFacts DEF list, Executes, GoTo
  <2>2. currentCommand'[s] = Oldest(s)
    BY <1>3, <2>1, DequeueType DEF list
  <2>3. Listing(s)'
    BY <2>1, <2>2, NullFacts DEF Listing
  <2>4. /\ output[s] \in Nat /\ Written(freeSpace(s), LINE) = LINE
        /\ freeSpace(s) > MAX_SINGLE_LINE_RESPONSE
    BY <2>1, ExecuteFacts
  <2>5. output'[s] = output[s] \/ output'[s] = output[s] + LINE
    BY <1>3, <2>4 DEF list, Put, IInv, TypeOK
  <2>6. freeSpace(s)' + LINE > MAX_SINGLE_LINE_RESPONSE
    BY <2>4, <2>5, BufferAssumption DEF freeSpace
  <2> QED
    BY <2>1, <2>3, <2>6 DEF Listing, freeSpace
<1>4. ASSUME NEW s \in Slots, continueList(s)
      PROVE  /\ Listing(turn)'
             /\ freeSpace(turn)' + LINE > MAX_SINGLE_LINE_RESPONSE
  <2>1. /\ turn = s /\ turn' = s /\ currentCommand' = currentCommand
        /\ Listing(s) /\ freeSpace(s) > MAX_SINGLE_LINE_RESPONSE
    BY <1>2, <1>4 DEF continueList, ListsOn, ListTurn
  <2>2. output[s] \in Nat /\ freeSpace(s) \in Nat
    BY <1>4, <2>1, ListFacts DEF continueList, IInv, TypeOK
  <2>3. Written(freeSpace(s), LINE) = LINE
    BY <2>1, <2>2, BufferAssumption DEF Written
  <2>4. output'[s] = output[s] + LINE
    BY <1>4, <2>3 DEF continueList, Put, IInv, TypeOK
  <2>5. freeSpace(s)' + LINE > MAX_SINGLE_LINE_RESPONSE
    BY <2>1, <2>2, <2>4, BufferAssumption DEF freeSpace
  <2> QED
    BY <2>1, <2>5 DEF Listing, freeSpace
<1>5. CASE UNCHANGED vars
  BY <1>1, <1>2, <1>5 DEF vars, slotVars, ListTurn, Listing, freeSpace
<1>6. ASSUME NEW s \in Slots,
             \/ acceptConnection(s) \/ readFromClient(s) \/ writeToClient(s)
             \/ (Execute(s) /\ ~list(s)) \/ endList(s)
             \/ readEof(s) \/ sendFails(s) \/ reap(s)
      PROVE  FALSE
  BY <1>1, <1>6
  DEF acceptConnection, readFromClient, writeToClient, Execute, refuse,
      checkValidUsername, checkValidPassword, capa, report, dele, rset, quit,
      retrRefused, openFails, retr, readFails, endList, readEof, sendFails, reap,
      GoTo
<1>7. ~(acceptExits \/ shutdown \/ Administer)
  BY <1>1 DEF acceptExits, shutdown, Administer, addUser, modifyUserPassword,
              deleteUser, GoTo
<1> QED
  BY <1>3, <1>4, <1>5, <1>6, <1>7 DEF Next, Serve, FinishTurn

(***************************************************************************)
(* The theorem.                                                            *)
(***************************************************************************)
\* ListInv is an invariant of the server.
THEOREM ListInvariance == Spec => []ListInv
<1>1. Init => ListInv
  BY DEF Init, ListInv, ListTurn, Printed, Listing
<1>2. IInv /\ ListInv /\ [Next]_vars => ListInv'
  BY PrintedStep, ListTurnStep DEF ListInv
<1> QED
  BY <1>1, <1>2, Invariance, PTL DEF Spec

\* A LIST that ends has printed every unmarked mail, and finds room for its
\* terminator, which is no longer than what a line leaves of the room there was.
LEMMA ListEndsSound ==
    ASSUME LINE + TERMINATOR <= MAX_SINGLE_LINE_RESPONSE + 1,
           IInv, ListInv, [Next]_vars, NEW s \in Slots, ListEnds(s),
           mailCount(mailCache[s]) \notin mailCache[s].toDelete
    PROVE  /\ ListsUnmarked(listed[s], mailCache[s])
           /\ output'[s] = output[s] + TERMINATOR
<1>1. pc = "list" /\ turn = s /\ pc' = "write" /\ currentCommand'[s] = NULL
  BY DEF ListEnds
<1>2. /\ mailCache[s] \in Cache /\ mailCount(mailCache[s]) \in Nat
      /\ freeSpace(s) \in Nat /\ currentCommand[s] # NULL
      /\ mailCache[s].iterator \in Nat
  BY <1>1, ListFacts DEF Cache
<1>3. PICK t \in Slots : endList(t)
  BY <1>1
  DEF Next, Serve, FinishTurn, vars, acceptConnection, readFromClient, readEof,
      writeToClient, WriteTurn, sendFails, reap, Execute, refuse,
      checkValidUsername, checkValidPassword, capa, report, dele, rset, quit,
      list, retrRefused, openFails, Opens, retr, readFails, Executes, MayExecute,
      continueList, acceptExits, shutdown, Administer, addUser,
      modifyUserPassword, deleteUser
<1>4. endList(s)
  BY <1>1, <1>3 DEF endList
<1>5. mailCache[s].iterator >= mailCount(mailCache[s])
  BY <1>1, <1>2, <1>4 DEF endList, IInv, TypeOK
<1>6. /\ mailCache[s].iterator <= mailCount(mailCache[s])
      /\ InOrder(listed[s])
      /\ Range(listed[s]) = (1..mailCache[s].iterator) \ mailCache[s].toDelete
      /\ freeSpace(s) + LINE > MAX_SINGLE_LINE_RESPONSE
  BY <1>1 DEF ListInv, ListTurn, Printed
<1>7. mailCache[s].iterator = mailCount(mailCache[s])
  BY <1>2, <1>5, <1>6
<1>8. Written(freeSpace(s), TERMINATOR) = TERMINATOR
  BY <1>2, <1>6, BufferAssumption DEF Written
<1>9. output'[s] = output[s] + TERMINATOR
  BY <1>4, <1>5, <1>8 DEF endList, Put, IInv, TypeOK
<1> QED
  BY <1>6, <1>7, <1>9 DEF ListsUnmarked

\* A LIST prints every unmarked mail once, in order, and its terminator, over
\* however many turns, as long as the last mail is not marked; provided that a
\* line and the terminator fit in the room that is asked for before a line.
THEOREM ListingsSound ==
    ASSUME LINE + TERMINATOR <= MAX_SINGLE_LINE_RESPONSE + 1
    PROVE  Spec => ListingSound
<1>1. IInv /\ ListInv /\ [Next]_vars =>
        [\A s \in Slots :
           ListEnds(s) /\ mailCount(mailCache[s]) \notin mailCache[s].toDelete =>
               /\ ListsUnmarked(listed[s], mailCache[s])
               /\ output'[s] = output[s] + TERMINATOR]_vars
  BY ListEndsSound
<1> QED
  BY <1>1, Invariance, ListInvariance, PTL DEF Spec, ListingSound
=============================================================================
