-------------------------- MODULE MCMonitorServer ---------------------------
(***************************************************************************)
(* Datagrams for TLC: lines that an operation begins, words and spaces     *)
(* going on in every way; lines cut by a newline or a NUL; and a few of    *)
(* them with every combination of faults in the lines before.  A name or a *)
(* password of three symbols does not fit its array.                       *)
(***************************************************************************)
EXTENDS MonitorServer

OneUser == [name \in {<<"ana">>} |-> <<"k1">>]

Good == [head |-> TRUE, version |-> "V1.0", auth |-> "key", line |-> <<"LU">>]
ThreeLong == <<"ana", "ana", "ana">>
Lines ==
    {<<op>> \o rest : op \in {"BT", "DU", "MP"}, rest \in BoundedSeq({"SP", "ana"}, 2)}
        \cup {<<"AU">> \o rest : rest \in BoundedSeq({"SP", "ana"}, 4)}
        \cup BoundedSeq({"LU", "ana", "LF", "NUL"}, 2)
        \cup {<<op>> : op \in Ops}
        \cup {<<"AU", "SP", "DU", separator, "k2">> \o rest :
                separator \in {"SP", "LF", "NUL"}, rest \in BoundedSeq({"SP", "DU", "NUL"}, 1)}
        \cup {<<"MP", "SP", name, "SP", "k2">> : name \in {"ana", "bea"}}
        \cup {<<"DU", "SP">> \o ThreeLong,
              <<"AU", "SP", "ana", "SP">> \o ThreeLong,
              <<"MP", "SP", "ana", "SP">> \o ThreeLong}

Faulty ==
    [head : BOOLEAN, version : {"V1.0", "other"}, auth : Auths,
     line : {<<"BT", "SP">>, <<"DU", "SP", "ana">>, <<"AU", "SP", "bea", "SP", "k2">>,
             <<"LU", "NUL", "ana">>}]
        \ {[Good EXCEPT !.line = <<"AU", "SP", "bea", "SP", "k2">>]}

\* The fields are copied before the key is looked at.
AllDatagrams ==
    Faulty \cup {[Good EXCEPT !.auth = "other", !.line = <<"DU", "SP">> \o ThreeLong]}
        \cup {[Good EXCEPT !.line = line] : line \in Lines}
=============================================================================
