-------------------------- MODULE EventLoopProofs ---------------------------
(***************************************************************************)
(* Proofs about EventLoop, for any table and any number of connections: no *)
(* call blocks the thread, and no descriptor is beyond an fd_set.          *)
(***************************************************************************)
EXTENDS EventLoop, TLAPS, FiniteSetTheorems

\* Each connection has a socket of its own, which is none of the server's.
Distinct ==
    /\ \A s, t \in Allocated : s # t => socket[s] # socket[t]
    /\ \A s \in Allocated : socket[s] \notin {servSock, 1, 2, udpServSock}

\* A connection has one mail open at most, a free entry none.
Mails ==
    \A s \in Slots :
        /\ mailFile[s] # {} => s \in Allocated
        /\ \E fd \in Nat : mailFile[s] \subseteq {fd}

\* Every descriptor of a connection fits, and so does what was made of them.
SocketsFit == \A s \in Allocated : socket[s] < FD_SETSIZE

\* The server's sockets are ready for what waits at them only.
Sources == servSock \notin readable /\ (udpServSock = 3 => 3 \notin readable)

\* Until a connection is accepted, the sets hold what was in the table.
Watched ==
    pc \in {"select", "asleep", "accept"} =>
        readFds \cup writeFds
            \subseteq {servSock, udpServSock} \cup {socket[s] : s \in Allocated}

\* What is still to be served is as select() reported it.
Reports ==
    /\ pc = "accept" /\ servSock \in readFds => backlog > 0
    /\ pc \in {"accept", "udp"} /\ udpServSock \in readFds =>
         datagrams > 0 \/ udpServSock = 1
    /\ pc \in {"accept", "udp", "clients"} =>
         \A s \in Allocated : (pc = "clients" => s >= i) =>
             /\ socket[s] \in readFds => socket[s] \in readable
             /\ socket[s] \in writeFds => socket[s] \in writable

IInv ==
    /\ TypeOK /\ Distinct /\ Mails /\ SocketsFit /\ SetsFit
    /\ Sources /\ Watched /\ Reports

(***************************************************************************)
(* How many descriptors are open.                                          *)
(***************************************************************************)
\* The entries are finitely many.
LEMMA SlotsFinite == IsFiniteSet(Slots) /\ Cardinality(Slots) = MAX_CONNECTIONS
<1>1. 0 \in Int /\ MAX_CONNECTIONS - 1 \in Int /\ ~(0 > MAX_CONNECTIONS - 1)
  BY TableAssumption
<1> QED
  BY <1>1, FS_Interval, TableAssumption DEF Slots

\* Two sets together have no more elements than one and the other.
LEMMA UnionBound ==
    ASSUME NEW S, NEW T, IsFiniteSet(S), IsFiniteSet(T)
    PROVE  /\ IsFiniteSet(S \cup T)
           /\ Cardinality(S \cup T) \in Nat
           /\ Cardinality(S) \in Nat /\ Cardinality(T) \in Nat
           /\ Cardinality(S \cup T) <= Cardinality(S) + Cardinality(T)
<1>1. /\ IsFiniteSet(S \cup T) /\ IsFiniteSet(S \cap T)
      /\ Cardinality(S \cup T)
           = Cardinality(S) + Cardinality(T) - Cardinality(S \cap T)
  BY FS_Union, FS_Intersection
<1>2. /\ Cardinality(S) \in Nat /\ Cardinality(T) \in Nat
      /\ Cardinality(S \cap T) \in Nat /\ Cardinality(S \cup T) \in Nat
  BY <1>1, FS_CardinalityType
<1> QED
  BY <1>1, <1>2

\* No more sockets than connections.
LEMMA SocketsBound ==
    ASSUME TypeOK
    PROVE  /\ IsFiniteSet({socket[s] : s \in Allocated})
           /\ Cardinality({socket[s] : s \in Allocated}) <= Cardinality(Allocated)
<1> DEFINE T == {socket[s] : s \in Allocated}
           g == [s \in Allocated |-> socket[s]]
<1>1. IsFiniteSet(Allocated)
  BY SlotsFinite, FS_Subset DEF Allocated
<1>2. g \in Surjection(Allocated, T)
  BY DEF Surjection
<1> HIDE DEF T, g
<1>3. IsFiniteSet(T) /\ Cardinality(T) <= Cardinality(Allocated)
  BY <1>1, <1>2, FS_Surjection
<1> QED
  BY <1>3 DEF T

\* No more mails open than connections.
LEMMA MailsBound ==
    ASSUME TypeOK, Mails
    PROVE  /\ IsFiniteSet(UNION {mailFile[s] : s \in Slots})
           /\ Cardinality(UNION {mailFile[s] : s \in Slots}) <= Cardinality(Allocated)
<1> DEFINE U == UNION {mailFile[s] : s \in Slots}
           M == {s \in Slots : mailFile[s] # {}}
           g == [s \in M |-> CHOOSE fd : fd \in mailFile[s]]
<1>1. M \subseteq Allocated /\ IsFiniteSet(Allocated)
  BY SlotsFinite, FS_Subset DEF Allocated, Mails
<1>2. IsFiniteSet(M) /\ Cardinality(M) <= Cardinality(Allocated)
  BY <1>1, FS_Subset
<1>3. g \in Surjection(M, U)
  <2>1. \A s \in M : g[s] \in mailFile[s] /\ mailFile[s] \subseteq {g[s]}
    BY DEF Mails
  <2>2. g \in [M -> U]
    BY <2>1
  <2>3. \A fd \in U : \E s \in M : g[s] = fd
    <3> TAKE fd \in U
    <3>1. PICK s \in Slots : fd \in mailFile[s]
      OBVIOUS
    <3> HIDE DEF g
    <3>2. s \in M
      BY <3>1
    <3> QED
      BY <2>1, <3>1, <3>2
  <2> HIDE DEF g, M, U
  <2> QED
    BY <2>2, <2>3 DEF Surjection
<1> HIDE DEF U, M, g
<1>4. IsFiniteSet(U) /\ Cardinality(U) <= Cardinality(M)
  BY <1>2, <1>3, FS_Surjection
<1>5. /\ Cardinality(U) \in Nat /\ Cardinality(M) \in Nat
      /\ Cardinality(Allocated) \in Nat
  BY <1>1, <1>2, <1>4, FS_CardinalityType
<1>6. IsFiniteSet(U) /\ Cardinality(U) <= Cardinality(Allocated)
  BY <1>2, <1>4, <1>5
<1> QED
  BY <1>6 DEF U

\* A descriptor given while an entry is free fits in an fd_set.
LEMMA LowestFits ==
    ASSUME TypeOK, Mails, Allocated # Slots, NEW fd \in Lowest(Open)
    PROVE  fd \in Nat /\ fd < FD_SETSIZE /\ fd \notin Open
<1> DEFINE own == {servSock, 1, 2, udpServSock}
           S == {socket[s] : s \in Allocated}
           U == UNION {mailFile[s] : s \in Slots}
<1>1. IsFiniteSet(own) /\ Cardinality(own) \in Nat /\ Cardinality(own) <= 4
  <2>1. own \in SUBSET Nat /\ 3 \in Nat /\ \A x \in own : x <= 3
    BY DEF TypeOK, servSock
  <2> HIDE DEF own
  <2>2. IsFiniteSet(own) /\ Cardinality(own) <= 3 + 1
    BY <2>1, FS_BoundedSetOfNaturals
  <2> QED
    BY <2>2, FS_CardinalityType
<1>2. IsFiniteSet(S) /\ Cardinality(S) <= Cardinality(Allocated)
  BY SocketsBound
<1>3. IsFiniteSet(U) /\ Cardinality(U) <= Cardinality(Allocated)
  BY MailsBound
<1>4. /\ Cardinality(Allocated) \in Nat
      /\ Cardinality(Allocated) <= MAX_CONNECTIONS - 1
  <2>1. Allocated \subseteq Slots
    BY DEF Allocated
  <2>2. /\ IsFiniteSet(Allocated)
        /\ Cardinality(Allocated) <= Cardinality(Slots)
        /\ Cardinality(Allocated) # Cardinality(Slots)
    BY <2>1, SlotsFinite, FS_Subset
  <2>3. Cardinality(Allocated) \in Nat
    BY <2>2, FS_CardinalityType
  <2> QED
    BY <2>2, <2>3, SlotsFinite, TableAssumption
<1>5. Open = (own \cup S) \cup U
  BY DEF Open
<1> HIDE DEF own, S, U
<1>6. /\ IsFiniteSet(own \cup S) /\ Cardinality(own \cup S) \in Nat
      /\ Cardinality(S) \in Nat
      /\ Cardinality(own \cup S) <= Cardinality(own) + Cardinality(S)
  BY <1>1, <1>2, UnionBound
<1>7. /\ Cardinality(Open) \in Nat /\ Cardinality(U) \in Nat
      /\ Cardinality(Open) <= Cardinality(own \cup S) + Cardinality(U)
  BY <1>3, <1>5, <1>6, UnionBound
<1>8. Cardinality(Open) <= 2 * MAX_CONNECTIONS + 2
  BY <1>1, <1>2, <1>3, <1>4, <1>6, <1>7, TableAssumption
<1>9. fd \in 0..Cardinality(Open) /\ fd \notin Open
  BY DEF Lowest
<1> QED
  BY <1>7, <1>8, <1>9, SetSizeAssumption, TableAssumption

(***************************************************************************)
(* The invariant holds at first, and every step keeps it.                  *)
(***************************************************************************)
\* Nothing is allocated, open or reported.
LEMMA InitIInv == Init => IInv
<1> SUFFICES ASSUME Init PROVE IInv
  OBVIOUS
<1>1. Allocated = {}
  BY DEF Init, Allocated
<1>2. 0 \in Slots /\ -1 = NOT_ALLOCATED /\ FD_SETSIZE \in Nat /\ 0 < FD_SETSIZE
  BY TableAssumption, SetSizeAssumption DEF Slots, NOT_ALLOCATED
<1>3. TypeOK
  BY <1>2, TableAssumption DEF Init, TypeOK, udpSockets
<1>4. Mails
  BY DEF Init, Mails
<1>5. SetsFit
  BY <1>2 DEF Init, SetsFit
<1>6. Sources
  BY DEF Init, Sources, servSock
<1>7. Distinct /\ SocketsFit /\ Watched /\ Reports
  BY <1>1 DEF Init, Distinct, SocketsFit, Watched, Reports
<1> QED
  BY <1>3, <1>4, <1>5, <1>6, <1>7 DEF IInv

\* Steps that only move on to where nothing has been reported.
LEMMA MovesOn ==
    ASSUME IInv, UNCHANGED <<i, udpServSock, sets, table, kernel>>,
           serverRunning' \in BOOLEAN,
           pc' \in {"test", "prepare", "asleep", "exited"},
           pc' = "asleep" => pc = "select"
    PROVE  IInv'
<1>1. Allocated' = Allocated
  BY DEF Allocated, table
<1>2. TypeOK'
  BY DEF IInv, TypeOK, sets, table, kernel
<1>3. (Distinct /\ Mails /\ SocketsFit)'
  BY <1>1 DEF IInv, Distinct, Mails, SocketsFit, table
<1>4. (SetsFit /\ Sources)'
  BY DEF IInv, SetsFit, Sources, sets, kernel
<1>5. Watched'
  BY <1>1 DEF IInv, Watched, sets, table
<1>6. Reports'
  BY DEF Reports
<1> QED
  BY <1>2, <1>3, <1>4, <1>5, <1>6 DEF IInv

\* The sets are made of what the table holds.
LEMMA AddsSockets == ASSUME IInv, addClientsSocketsToSet PROVE IInv'
<1> USE DEF IInv, addClientsSocketsToSet, setup, table, kernel
<1>1. Allocated' = Allocated
  BY DEF Allocated
<1>2. /\ In("READING") \subseteq {socket[s] : s \in Allocated}
      /\ In("WRITING") \subseteq {socket[s] : s \in Allocated}
  BY DEF In
<1>3. \A s \in Allocated : socket[s] \in Nat
  BY DEF Allocated, TypeOK
<1>4. maxSock' \in {udpServSock} \cup {socket[s] : s \in Allocated}
  BY DEF Highest
<1>5. /\ readFds' \cup writeFds'
           \subseteq {servSock, udpServSock} \cup {socket[s] : s \in Allocated}
      /\ readFds' \subseteq Nat /\ writeFds' \subseteq Nat /\ maxSock' \in Nat
  BY <1>2, <1>3, <1>4 DEF TypeOK, servSock
<1>6. /\ \A fd \in {servSock, udpServSock} : fd < FD_SETSIZE
      /\ \A fd \in {socket[s] : s \in Allocated} : fd < FD_SETSIZE
  BY SetSizeAssumption, TableAssumption DEF TypeOK, servSock, SocketsFit
<1>7. TypeOK'
  BY <1>5 DEF TypeOK
<1>8. SetsFit'
  BY <1>4, <1>5, <1>6 DEF SetsFit
<1>9. (Distinct /\ Mails /\ SocketsFit)'
  BY <1>1 DEF Distinct, Mails, SocketsFit
<1>10. Sources' /\ Reports'
  BY DEF Sources, Reports
<1>11. Watched'
  BY <1>1, <1>5 DEF Watched
<1> QED
  BY <1>7, <1>8, <1>9, <1>10, <1>11

\* What select() leaves in the sets is ready.
LEMMA SelectReports == ASSUME IInv, selectReturns PROVE IInv'
<1> USE DEF IInv, selectReturns, setup, table, kernel
<1>1. Allocated' = Allocated
  BY DEF Allocated
<1>2. /\ readFds' \subseteq readFds /\ writeFds' \subseteq writeFds
      /\ \A fd \in readFds' : CanRead(fd)
      /\ \A fd \in writeFds' : fd \in writable
  BY DEF ReadyToRead, ReadyToWrite
<1>3. TypeOK'
  BY <1>2 DEF TypeOK
<1>4. SetsFit'
  BY <1>2 DEF SetsFit
<1>5. (Distinct /\ Mails /\ SocketsFit)'
  BY <1>1 DEF Distinct, Mails, SocketsFit
<1>6. Sources' /\ Watched'
  BY <1>1, <1>2 DEF Sources, Watched
<1>7. Reports'
  <2>1. servSock \in readFds' => backlog > 0
    BY <1>2 DEF CanRead, Sources, servSock, TypeOK
  <2>2. udpServSock \in readFds' => datagrams > 0 \/ udpServSock = 1
    BY <1>2 DEF CanRead, Sources, servSock, TypeOK
  <2>3. \A s \in Allocated : socket[s] \in readFds' => socket[s] \in readable
    BY <1>2 DEF CanRead, Distinct
  <2> QED
    BY <1>1, <1>2, <2>1, <2>2, <2>3 DEF Reports
<1> QED
  BY <1>3, <1>4, <1>5, <1>6, <1>7

\* Steps of a pass that take nothing from the kernel, but perhaps a datagram.
LEMMA PassesOn ==
    ASSUME IInv, UNCHANGED <<setup, sets, table, backlog, readable, writable, connects>>,
           datagrams' \in 0..connects, i' \in Slots,
           \/ /\ pc = "accept" /\ pc' = "udp" /\ datagrams' = datagrams
           \/ pc = "udp" /\ pc' = "clients"
           \/ /\ pc = "clients" /\ ~Reported(i)
              /\ \/ pc' = "clients" /\ i' = i + 1
                 \/ pc' = "test"
    PROVE  IInv'
<1> USE DEF IInv, setup, sets, table
<1>1. Allocated' = Allocated /\ i \in Int /\ \A s \in Slots : s \in Int
  BY DEF Allocated, Slots, TypeOK
<1>2. TypeOK'
  BY DEF TypeOK
<1>3. (Distinct /\ Mails /\ SocketsFit)'
  BY <1>1 DEF Distinct, Mails, SocketsFit
<1>4. (SetsFit /\ Sources /\ Watched)'
  BY DEF SetsFit, Sources, Watched
<1>5. Reports'
  <2>1. ~(pc' = "accept")
    OBVIOUS
  <2>2. pc' = "udp" /\ udpServSock \in readFds => datagrams' > 0 \/ udpServSock = 1
    BY DEF Reports
  <2>3. ASSUME NEW s \in Allocated, pc' \in {"udp", "clients"}, pc' = "clients" => s >= i'
        PROVE  /\ socket[s] \in readFds => socket[s] \in readable
               /\ socket[s] \in writeFds => socket[s] \in writable
    <3>1. pc = "clients" => s >= i
      BY <1>1, <2>3 DEF Allocated
    <3> QED
      BY <3>1 DEF Reports
  <2> QED
    BY <1>1, <2>1, <2>2, <2>3 DEF Reports
<1> QED
  BY <1>2, <1>3, <1>4, <1>5

\* The descriptor of a new connection was not open, so nothing was reported of it.
LEMMA Accepts == ASSUME IInv, acceptConnection PROVE IInv'
<1> USE DEF IInv, setup, sets
<1>1. PICK fd \in Lowest(Open), s \in Slots \ Allocated :
        /\ socket' = [socket EXCEPT ![s] = fd]
        /\ clientState' = [clientState EXCEPT ![s] = "WRITING"]
        /\ writable' = writable \cup {fd}
  BY DEF acceptConnection
<1>2. /\ pc = "accept" /\ pc' = "udp" /\ backlog > 0 /\ backlog' = backlog - 1
      /\ UNCHANGED <<i, setup, sets, mailFile, datagrams, readable, connects>>
  BY DEF acceptConnection
<1>3. fd \in Nat /\ fd < FD_SETSIZE /\ fd \notin Open
  BY <1>1, LowestFits DEF Allocated
<1>4. Allocated' = Allocated \cup {s}
  BY <1>1, <1>3 DEF Allocated, TypeOK, NOT_ALLOCATED
<1>5. /\ socket'[s] = fd /\ s \notin Allocated
      /\ \A t \in Allocated : socket'[t] = socket[t]
  BY <1>1 DEF TypeOK, Allocated
<1>6. /\ fd \notin {servSock, 1, 2, udpServSock}
      /\ \A t \in Allocated : socket[t] # fd
  BY <1>3 DEF Open
<1>7. fd \notin readFds \cup writeFds
  BY <1>2, <1>6 DEF Watched
<1>8. TypeOK'
  <2>1. backlog' \in 0..connects'
    BY <1>2 DEF TypeOK
  <2> QED
    BY <1>1, <1>2, <1>3, <2>1 DEF TypeOK
<1>9. Distinct'
  BY <1>2, <1>4, <1>5, <1>6 DEF Distinct
<1>10. Mails'
  BY <1>2, <1>4 DEF Mails
<1>11. SocketsFit'
  BY <1>3, <1>4, <1>5 DEF SocketsFit
<1>12. (SetsFit /\ Sources /\ Watched)'
  BY <1>2 DEF SetsFit, Sources, Watched
<1>13. Reports'
  <2>1. \A t \in Allocated :
           /\ socket[t] \in readFds => socket[t] \in readable
           /\ socket[t] \in writeFds => socket[t] \in writable
    BY <1>2 DEF Reports
  <2>2. udpServSock \in readFds => datagrams > 0 \/ udpServSock = 1
    BY <1>2 DEF Reports
  <2> QED
    BY <1>1, <1>2, <1>4, <1>5, <1>7, <2>1, <2>2 DEF Reports
<1> QED
  BY <1>8, <1>9, <1>10, <1>11, <1>12, <1>13

\* The turn of one connection: what was reported of the later ones stays true,
\* because its descriptor is not theirs.
LEMMA TakesTurn ==
    ASSUME IInv, pc = "clients", i \in Allocated, nextEntry,
           UNCHANGED <<setup, sets, backlog, datagrams, connects>>,
           socket' \in {socket, [socket EXCEPT ![i] = NOT_ALLOCATED]},
           clientState' \in [Slots -> {"READING", "WRITING"}],
           mailFile' \in [Slots -> SUBSET Nat], Mails',
           readable' \in {readable, readable \ {socket[i]}},
           writable' \in {writable, writable \ {socket[i]}}
    PROVE  IInv'
<1> USE DEF IInv, setup, sets
<1>1. /\ i \in Int /\ \A s \in Slots : s \in Int
      /\ i' \in Slots /\ pc' \in {"clients", "test"}
      /\ pc' = "clients" => i' = i + 1
  BY TableAssumption DEF nextEntry, Slots, TypeOK
<1>2. /\ Allocated' \subseteq Allocated
      /\ \A s \in Allocated' : socket'[s] = socket[s]
  BY DEF Allocated, TypeOK
<1>3. TypeOK'
  BY <1>1 DEF TypeOK, Allocated
<1>4. (Distinct /\ SocketsFit)'
  BY <1>2 DEF Distinct, SocketsFit
<1>5. (SetsFit /\ Sources)'
  BY DEF SetsFit, Sources
<1>6. Watched'
  BY <1>1 DEF Watched
<1>7. Reports'
  <2>1. ASSUME NEW s \in Allocated', pc' = "clients", s >= i'
        PROVE  /\ socket[s] \in readFds => socket[s] \in readable'
               /\ socket[s] \in writeFds => socket[s] \in writable'
    <3>1. s \in Allocated /\ s >= i /\ s # i
      BY <1>1, <1>2, <2>1 DEF Allocated
    <3>2. socket[s] # socket[i]
      BY <3>1 DEF Distinct
    <3>3. /\ socket[s] \in readFds => socket[s] \in readable
          /\ socket[s] \in writeFds => socket[s] \in writable
      BY <3>1 DEF Reports
    <3> QED
      BY <3>2, <3>3
  <2> QED
    BY <1>1, <1>2, <2>1 DEF Reports
<1> QED
  BY <1>3, <1>4, <1>5, <1>6, <1>7

\* A connection that ends has no mail open any more.
LEMMA Closes ==
    ASSUME IInv, i \in Allocated, closeClient
    PROVE  /\ socket' = [socket EXCEPT ![i] = NOT_ALLOCATED]
           /\ clientState' \in [Slots -> {"READING", "WRITING"}]
           /\ mailFile' \in [Slots -> SUBSET Nat] /\ Mails'
           /\ readable' = readable \ {socket[i]} /\ writable' = writable \ {socket[i]}
<1> USE DEF IInv, closeClient
<1>1. mailFile' \in [Slots -> SUBSET Nat]
  BY DEF TypeOK
<1>2. ASSUME NEW s \in Slots
      PROVE  /\ mailFile'[s] # {} => s \in Allocated'
             /\ \E fd \in Nat : mailFile'[s] \subseteq {fd}
  <2>1. CASE s = i
    BY <2>1 DEF TypeOK
  <2>2. CASE s # i
    BY <2>2 DEF TypeOK, Mails, Allocated
  <2> QED
    BY <2>1, <2>2
<1>3. Mails'
  BY <1>2 DEF Mails
<1> QED
  BY <1>1, <1>3 DEF TypeOK

\* A new descriptor is given to entry i, whose other mail has been closed.
LEMMA Opens ==
    ASSUME IInv, i \in Allocated, openMail
    PROVE  mailFile' \in [Slots -> SUBSET Nat]
<1> PICK fd \in Lowest(Open \ mailFile[i]) : mailFile' = [mailFile EXCEPT ![i] = {fd}]
  BY DEF openMail
<1>1. fd \in Nat
  BY DEF Lowest
<1> QED
  BY <1>1 DEF IInv, TypeOK

\* So it has one mail open, as before.
LEMMA OpensOne ==
    ASSUME IInv, i \in Allocated, openMail, socket' = socket
    PROVE  Mails'
<1> PICK fd \in Lowest(Open \ mailFile[i]) : mailFile' = [mailFile EXCEPT ![i] = {fd}]
  BY DEF openMail
<1>1. fd \in Nat
  BY DEF Lowest
<1>2. ASSUME NEW s \in Slots
      PROVE  /\ mailFile'[s] # {} => s \in Allocated'
             /\ \E d \in Nat : mailFile'[s] \subseteq {d}
  <2>1. CASE s = i
    BY <1>1, <2>1 DEF IInv, TypeOK, Allocated
  <2>2. CASE s # i
    BY <2>2 DEF IInv, TypeOK, Mails, Allocated
  <2> QED
    BY <2>1, <2>2
<1> QED
  BY <1>2 DEF Mails

\* What is reported is of a connection.
LEMMA ReportedAllocated == ASSUME IInv, Reported(i) PROVE i \in Allocated
  BY DEF IInv, TypeOK, Reported, Allocated

\* recv(): the connection is to be written to, closed or as it was.
LEMMA Reads == ASSUME IInv, readFromClient PROVE IInv'
<1>1. /\ pc = "clients" /\ i \in Allocated /\ nextEntry
      /\ UNCHANGED <<setup, sets, backlog, datagrams, connects>>
  BY ReportedAllocated DEF readFromClient
<1>2. clientState \in [Slots -> {"READING", "WRITING"}] /\ mailFile \in [Slots -> SUBSET Nat]
  BY DEF IInv, TypeOK
<1>3. CASE closeClient
  BY <1>1, <1>3, Closes, TakesTurn
<1>4. CASE /\ clientState' = [clientState EXCEPT ![i] = "WRITING"]
           /\ readable' = readable \ {socket[i]}
           /\ UNCHANGED <<socket, mailFile, writable>>
  <2>1. Mails'
    BY <1>4 DEF IInv, Mails, Allocated
  <2> QED
    BY <1>1, <1>2, <1>4, <2>1, TakesTurn
<1>5. CASE UNCHANGED <<table, readable, writable>>
  <2>1. Mails'
    BY <1>5 DEF IInv, Mails, Allocated, table
  <2> QED
    BY <1>1, <1>2, <1>5, <2>1, TakesTurn DEF table
<1> QED
  BY <1>3, <1>4, <1>5 DEF readFromClient

\* A mail that is closed leaves none.
LEMMA ClosesMail ==
    ASSUME IInv, i \in Allocated, closeMail, socket' = socket
    PROVE  mailFile' \in [Slots -> SUBSET Nat] /\ Mails'
<1>1. mailFile' \in [Slots -> SUBSET Nat]
  BY DEF closeMail, IInv, TypeOK
<1>2. ASSUME NEW s \in Slots
      PROVE  /\ mailFile'[s] # {} => s \in Allocated'
             /\ \E fd \in Nat : mailFile'[s] \subseteq {fd}
  <2>1. CASE s = i
    BY <2>1 DEF closeMail, IInv, TypeOK
  <2>2. CASE s # i
    BY <2>2 DEF closeMail, IInv, TypeOK, Mails, Allocated
  <2> QED
    BY <2>1, <2>2
<1> QED
  BY <1>1, <1>2 DEF Mails

\* A command and a send(): the connection stays, with a mail open or not, or ends.
LEMMA ExecutesAndWrites == ASSUME IInv, executeAndWrite PROVE IInv'
<1>1. /\ pc = "clients" /\ i \in Allocated /\ nextEntry
      /\ UNCHANGED <<setup, sets, backlog, datagrams, connects>>
  BY ReportedAllocated DEF executeAndWrite, Writes
<1>2. clientState \in [Slots -> {"READING", "WRITING"}] /\ mailFile \in [Slots -> SUBSET Nat]
  BY DEF IInv, TypeOK
<1>3. CASE closeClient
  BY <1>1, <1>3, Closes, TakesTurn
<1>4. CASE /\ openMail \/ closeMail \/ UNCHANGED mailFile
           /\ \E state \in {"READING", "WRITING"} :
                  clientState' = [clientState EXCEPT ![i] = state]
           /\ writable' \in {writable, writable \ {socket[i]}}
           /\ UNCHANGED <<socket, readable>>
  <2>1. clientState' \in [Slots -> {"READING", "WRITING"}]
    BY <1>2, <1>4
  <2>2. mailFile' \in [Slots -> SUBSET Nat] /\ Mails'
    <3>1. CASE openMail
      BY <1>1, <1>4, <3>1, Opens, OpensOne
    <3>2. CASE UNCHANGED mailFile
      BY <1>2, <1>4, <3>2 DEF IInv, Mails, Allocated
    <3>3. CASE closeMail
      BY <1>1, <1>4, <3>3, ClosesMail
    <3> QED
      BY <1>4, <3>1, <3>2, <3>3
  <2> QED
    BY <1>1, <1>4, <2>1, <2>2, TakesTurn
<1> QED
  BY <1>3, <1>4 DEF executeAndWrite

\* accept() fails or the table is full: nothing is reported any more.
LEMMA Exits == ASSUME IInv, acceptExits PROVE IInv'
<1> USE DEF IInv, acceptExits, setup, sets, table
<1>1. Allocated' = Allocated
  BY DEF Allocated
<1>2. TypeOK'
  BY DEF TypeOK
<1>3. (Distinct /\ Mails /\ SocketsFit)'
  BY <1>1 DEF Distinct, Mails, SocketsFit
<1>4. (SetsFit /\ Sources /\ Watched /\ Reports)'
  BY DEF SetsFit, Sources, Watched, Reports
<1> QED
  BY <1>2, <1>3, <1>4

\* The world outside only makes more ready.
LEMMA WorldAdds ==
    ASSUME IInv, UNCHANGED <<loop, setup, sets, table>>,
           connects' \in 0..MaxConnects, connects <= connects',
           backlog' \in 0..connects', backlog <= backlog',
           datagrams' \in 0..connects', datagrams <= datagrams',
           readable \subseteq readable', writable \subseteq writable',
           readable' \subseteq readable \cup {socket[s] : s \in Allocated},
           writable' \subseteq writable \cup {socket[s] : s \in Allocated}
    PROVE  IInv'
<1> USE DEF IInv, loop, setup, sets, table
<1>1. Allocated' = Allocated
  BY DEF Allocated
<1>2. \A s \in Allocated : socket[s] \in Nat
  BY DEF Allocated, TypeOK
<1>3. TypeOK'
  BY <1>2 DEF TypeOK
<1>4. (Distinct /\ Mails /\ SocketsFit)'
  BY <1>1 DEF Distinct, Mails, SocketsFit
<1>5. (SetsFit /\ Watched)'
  BY <1>1 DEF SetsFit, Watched
<1>6. Sources'
  BY DEF Sources, Distinct
<1>7. Reports'
  <2>1. /\ connects \in Int /\ connects' \in Int
        /\ backlog \in Int /\ backlog' \in Int /\ datagrams \in Int /\ datagrams' \in Int
    BY DEF TypeOK
  <2>2. pc = "accept" /\ servSock \in readFds => backlog' > 0
    BY <2>1 DEF Reports
  <2>3. pc \in {"accept", "udp"} /\ udpServSock \in readFds =>
          datagrams' > 0 \/ udpServSock = 1
    BY <2>1 DEF Reports
  <2>4. pc \in {"accept", "udp", "clients"} =>
          \A s \in Allocated : (pc = "clients" => s >= i) =>
              /\ socket[s] \in readFds => socket[s] \in readable'
              /\ socket[s] \in writeFds => socket[s] \in writable'
    BY DEF Reports
  <2> QED
    BY <1>1, <2>2, <2>3, <2>4 DEF Reports
<1> QED
  BY <1>3, <1>4, <1>5, <1>6, <1>7

\* A client sends or reads, or something comes to the server.
LEMMA WorldSteps ==
    ASSUME IInv, arrives \/ \E s \in Slots : clientSends(s) \/ clientReads(s)
    PROVE  IInv'
<1>1. /\ connects \in 0..MaxConnects
      /\ backlog \in 0..connects /\ datagrams \in 0..connects
  BY DEF IInv, TypeOK
<1>2. CASE arrives
  BY <1>1, <1>2, WorldAdds, TableAssumption DEF arrives
<1>3. ASSUME NEW s \in Slots, clientSends(s) PROVE IInv'
  BY <1>1, <1>3, WorldAdds DEF clientSends
<1>4. ASSUME NEW s \in Slots, clientReads(s) PROVE IInv'
  BY <1>1, <1>4, WorldAdds DEF clientReads
<1> QED
  BY <1>2, <1>3, <1>4

\* A signal changes the flag, and ends a wait.
LEMMA Signals == ASSUME IInv, sigterm_handler PROVE IInv'
<1> USE DEF IInv, sigterm_handler, afterSelectError, sets, table, kernel
<1>1. CASE pc = "asleep"
  BY <1>1, MovesOn
<1>2. CASE pc # "asleep"
  <2>1. Allocated' = Allocated
    BY DEF Allocated
  <2>2. TypeOK'
    BY <1>2 DEF TypeOK
  <2>3. (Distinct /\ Mails /\ SocketsFit)'
    BY <2>1 DEF Distinct, Mails, SocketsFit
  <2>4. (SetsFit /\ Sources)'
    BY DEF SetsFit, Sources
  <2>5. (Watched /\ Reports)'
    BY <1>2, <2>1 DEF Watched, Reports
  <2> QED
    BY <2>2, <2>3, <2>4, <2>5
<1> QED
  BY <1>1, <1>2

\* The steps of the loop.
LEMMA LoopSteps == ASSUME IInv, Loop PROVE IInv'
<1>1. serverRunning \in BOOLEAN /\ datagrams \in 0..connects /\ i \in Slots
  BY DEF IInv, TypeOK
<1>2. CASE running \/ exits \/ selectSleeps \/ openFails
  BY <1>1, <1>2, MovesOn DEF running, exits, selectSleeps, openFails, setup
<1>3. CASE nothingToAccept
  BY <1>1, <1>3, PassesOn DEF nothingToAccept, kernel
<1>4. 0 \in Slots
  BY TableAssumption DEF Slots
<1>5. CASE noDatagram \/ handleUdpRequest
  <2>1. datagrams' \in 0..connects /\ connects' = connects
    BY <1>1, <1>5 DEF noDatagram, handleUdpRequest, kernel, IInv, TypeOK
  <2>2. /\ UNCHANGED <<setup, sets, table, backlog, readable, writable, connects>>
        /\ i' = 0 /\ pc = "udp" /\ pc' = "clients"
    BY <1>5 DEF noDatagram, handleUdpRequest, kernel
  <2> QED
    BY <1>4, <2>1, <2>2, PassesOn
<1>6. CASE skip
  <2>1. /\ i' \in Slots /\ pc = "clients" /\ ~Reported(i)
        /\ \/ pc' = "clients" /\ i' = i + 1
           \/ pc' = "test"
    BY <1>1, <1>4, <1>6, TableAssumption DEF skip, nextEntry, Slots
  <2> QED
    BY <1>1, <1>6, <2>1, PassesOn DEF skip, kernel
<1> QED
  BY <1>2, <1>3, <1>5, <1>6, AddsSockets, SelectReports, Accepts, Exits, Reads,
     ExecutesAndWrites DEF Loop

\* Every step keeps the invariant.
LEMMA NextIInv == IInv /\ [Next]_vars => IInv'
<1> SUFFICES ASSUME IInv, [Next]_vars PROVE IInv'
  OBVIOUS
<1>1. CASE Next
  BY <1>1, LoopSteps, WorldSteps, Signals DEF Next, World
<1>2. CASE UNCHANGED vars
  <2>1. connects \in 0..MaxConnects /\ backlog \in 0..connects /\ datagrams \in 0..connects
    BY DEF IInv, TypeOK
  <2> QED
    BY <1>2, <2>1, WorldAdds DEF vars, kernel
<1> QED
  BY <1>1, <1>2

(***************************************************************************)
(* The theorems.                                                           *)
(***************************************************************************)
\* The invariant holds throughout.
THEOREM LoopInvariant == Spec => []IInv
<1> QED
  BY InitIInv, NextIInv, PTL DEF Spec

\* Each variable keeps its type, and what waits its bound (server/main.c).
THEOREM LoopTypes == Spec => []TypeOK
<1>1. IInv => TypeOK
  BY DEF IInv
<1> QED
  BY <1>1, LoopInvariant, PTL

\* No descriptor in a set is beyond its size, however many connections and mails
\* are open (addClientsSocketsToSet).
THEOREM SelectSetsFit == Spec => []SetsFit
<1>1. IInv => SetsFit
  BY DEF IInv
<1> QED
  BY <1>1, LoopInvariant, PTL

\* No call is made on a descriptor that is not ready (server/main.c,
\* handleClients): the one thread waits in select() only.
THEOREM CallsNeverBlock == Spec => []NeverBlocks
<1>1. ASSUME IInv PROVE NeverBlocks
  <2>1. ASSUME NEW s \in Slots, Turn(s)
        PROVE  socket[s] \in IF socket[s] \in readFds THEN readable ELSE writable
    <3>1. s \in Allocated /\ pc = "clients" /\ i = s /\ i \in Int
      BY <1>1, <2>1 DEF Turn, Reported, Allocated, IInv, TypeOK, Slots
    <3> QED
      BY <1>1, <2>1, <3>1 DEF IInv, Reports, Turn, Reported
  <2> QED
    BY <1>1, <2>1 DEF IInv, Reports, NeverBlocks
<1> QED
  BY <1>1, LoopInvariant, PTL
=============================================================================
