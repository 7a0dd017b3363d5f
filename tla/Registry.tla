------------------------------ MODULE Registry ------------------------------
(***************************************************************************)
(* What the monitoring protocol promises about the users of the server,    *)
(* with no datagrams, states of a parser or retries: a user is added,      *)
(* changed or deleted only by a well formed command that an administrator  *)
(* has asked for.  A command asked for once may take effect any number of  *)
(* times, and at any later moment.                                         *)
(***************************************************************************)
EXTENDS Commands

CONSTANT InitialUsers       \* the password of each user the server begins with

VARIABLES
    users,                  \* the password of each user
    asked                   \* the commands asked for so far

-----------------------------------------------------------------------------
Ask(line) == WellFormed(line) /\ asked' = asked \cup {line} /\ UNCHANGED users

TakeEffect(line) == users' = Effect(users, line) /\ UNCHANGED asked

Init == users = InitialUsers /\ asked = {}

\* Any command may be asked for: those of asked' alone are looked at.
Next ==
    \/ \E line \in asked' : Ask(line)
    \/ \E line \in asked : TakeEffect(line)

Spec == Init /\ [][Next]_<<users, asked>>
=============================================================================
