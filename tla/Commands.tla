------------------------------ MODULE Commands ------------------------------
(***************************************************************************)
(* The commands of the monitoring protocol, written apart from the         *)
(* automaton that recognises them: which are well formed, and what each    *)
(* does to the users of the server.                                        *)
(*                                                                         *)
(* A command is a sequence of symbols: the two letters of an operation,    *)
(* separators, and words.                                                  *)
(***************************************************************************)
EXTENDS Naturals, Sequences

BareOps == {"BT", "BR", "HC", "CC", "LU", "LC"}
ArgumentOps == {"DU", "AU", "MP"}
Separators == {"SP", "LF", "NUL"}

IsWord(s) == s # <<>> /\ \A i \in DOMAIN s : s[i] \notin Separators

\* The operation and its arguments, each a sequence of symbols.
Spells(line, op, arguments) ==
    CASE Len(arguments) = 0 -> op \in BareOps /\ line = <<op>>
      [] Len(arguments) = 1 ->
            /\ op = "DU" /\ IsWord(arguments[1])
            /\ line = <<op, "SP">> \o arguments[1]
      [] OTHER ->
            /\ op \in {"AU", "MP"} /\ IsWord(arguments[1]) /\ IsWord(arguments[2])
            /\ line = <<op, "SP">> \o arguments[1] \o <<"SP">> \o arguments[2]

\* Every way to cut what follows the operation into at most two arguments.
Cuts(line) ==
    {<<>>, <<SubSeq(line, 3, Len(line))>>}
        \cup {<<SubSeq(line, 3, i - 1), SubSeq(line, i + 1, Len(line))>> :
                i \in 3..Len(line)}

WellFormed(line) ==
    line # <<>> /\ \E arguments \in Cuts(line) : Spells(line, line[1], arguments)

Arguments(line) ==
    CHOOSE arguments \in Cuts(line) : Spells(line, line[1], arguments)

\* The users after a well formed command, and whether it found the user it needs.
Effect(registered, line) ==
    LET name == Arguments(line)[1]
        password == Arguments(line)[2]
    IN CASE line[1] = "DU" ->
                [u \in DOMAIN registered \ {name} |-> registered[u]]
         [] line[1] = "AU" \/ (line[1] = "MP" /\ name \in DOMAIN registered) ->
                [u \in DOMAIN registered \cup {name} |->
                    IF u = name THEN password ELSE registered[u]]
         [] OTHER -> registered

Found(registered, line) ==
    line[1] = "MP" => Arguments(line)[1] \in DOMAIN registered
=============================================================================
