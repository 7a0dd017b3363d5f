-------------------------- MODULE MCMonitorClient ---------------------------
(***************************************************************************)
(* Instances of MonitorClient for TLC: an administrator who adds (or       *)
(* changes) and deletes one user, and repeats the last line with an empty  *)
(* one; and other senders, whose datagrams are accepted but for the key.   *)
(***************************************************************************)
EXTENDS MonitorClient

TwoUsers == [name \in {<<"ana">>, <<"bea">>} |-> <<"k1">>]

Typed ==
    {<<>>, <<"HELP">>, <<"QUIT">>,
     <<"AU", "SP", "ana", "SP", "k2">>, <<"DU", "SP", "ana">>}

\* And a command that is malformed: it has no password.
TypedAmiss == {<<"AU", "SP", "ana">>, <<"DU", "SP", "ana">>}

OthersDatagrams ==
    {[head |-> TRUE, version |-> "V1.0", auth |-> auth, line |-> line] :
        auth \in {"other", "malformed"}, line \in {<<"MP", "SP", "ana", "SP", "k3">>}}
=============================================================================
