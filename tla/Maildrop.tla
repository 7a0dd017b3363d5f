------------------------------ MODULE Maildrop ------------------------------
(***************************************************************************)
(* What the server promises about the mails it keeps, whatever its event   *)
(* loop, its buffers and its parser do: a connection is in one of the      *)
(* states of RFC 1939; it works on a snapshot of its owner's maildrop; the *)
(* marks it sets reach the maildrop only when it quits, all at once; and   *)
(* nothing else, a dropped connection or a shutdown in particular, removes *)
(* a mail.  PopServer implements this specification.                       *)
(***************************************************************************)
CONSTANTS Connections, Users, Mail, NULL, InitialMail

VARIABLES
    state,      \* the state of each connection
    owner,      \* whose maildrop the connection is working on
    snapshot,   \* the mails it has been shown
    marks,      \* the mails it has asked to delete
    maildrop    \* the mails each user has

vars == <<state, owner, snapshot, marks, maildrop>>

States == {"closed", "authorization", "transaction", "update"}

Init ==
    /\ state = [c \in Connections |-> "closed"]
    /\ owner = [c \in Connections |-> NULL]
    /\ snapshot = [c \in Connections |-> {}]
    /\ marks = [c \in Connections |-> {}]
    /\ maildrop = InitialMail

Open(c) ==
    /\ state[c] = "closed"
    /\ state' = [state EXCEPT ![c] = "authorization"]
    /\ UNCHANGED <<owner, snapshot, marks, maildrop>>

Login(c, u) ==
    /\ state[c] = "authorization"
    /\ state' = [state EXCEPT ![c] = "transaction"]
    /\ owner' = [owner EXCEPT ![c] = u]
    /\ snapshot' = [snapshot EXCEPT ![c] = maildrop[u]]
    /\ UNCHANGED <<marks, maildrop>>

Mark(c, m) ==
    /\ state[c] = "transaction"
    /\ m \in snapshot[c] \ marks[c]
    /\ marks' = [marks EXCEPT ![c] = @ \cup {m}]
    /\ UNCHANGED <<state, owner, snapshot, maildrop>>

Unmark(c) ==
    /\ state[c] = "transaction"
    /\ marks' = [marks EXCEPT ![c] = {}]
    /\ UNCHANGED <<state, owner, snapshot, maildrop>>

Leave(c) ==
    /\ state' = [state EXCEPT ![c] = "update"]
    /\ owner' = [owner EXCEPT ![c] = NULL]
    /\ snapshot' = [snapshot EXCEPT ![c] = {}]
    /\ marks' = [marks EXCEPT ![c] = {}]

\* The marks of a transaction are carried out together, when it quits; a mail
\* that cannot be removed stays.
Commit(c) ==
    /\ state[c] = "transaction"
    /\ \E gone \in SUBSET marks[c] :
           maildrop' = [maildrop EXCEPT ![owner[c]] = @ \ gone]
    /\ Leave(c)

\* Quitting before logging in deletes nothing.
Abandon(c) ==
    /\ state[c] = "authorization"
    /\ Leave(c)
    /\ UNCHANGED maildrop

\* Connections end in any state, several at once when the server stops.
Close(C) ==
    /\ state' = [c \in Connections |-> IF c \in C THEN "closed" ELSE state[c]]
    /\ owner' = [c \in Connections |-> IF c \in C THEN NULL ELSE owner[c]]
    /\ snapshot' = [c \in Connections |-> IF c \in C THEN {} ELSE snapshot[c]]
    /\ marks' = [c \in Connections |-> IF c \in C THEN {} ELSE marks[c]]
    /\ UNCHANGED maildrop

Next ==
    \/ \E c \in Connections :
        \/ Open(c)
        \/ \E u \in Users : Login(c, u)
        \/ \E m \in Mail : Mark(c, m)
        \/ Unmark(c)
        \/ Commit(c)
        \/ Abandon(c)
    \/ \E C \in SUBSET Connections : Close(C)

Spec == Init /\ [][Next]_vars
=============================================================================
