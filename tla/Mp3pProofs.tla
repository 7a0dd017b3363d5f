----------------------------- MODULE Mp3pProofs -----------------------------
(***************************************************************************)
(* The automaton of the command line against the grammar of Commands: for  *)
(* every line, however long, what the automaton makes of it is what the    *)
(* grammar says of it, and the fields the strategies cut from it are its   *)
(* arguments.                                                              *)
(***************************************************************************)
EXTENDS Mp3p, Commands, TLAPS, SequenceTheorems, WellFoundedInduction

(***************************************************************************)
(* Induction on the natural numbers, from the library's theorem on well    *)
(* founded relations.                                                      *)
(***************************************************************************)
LEMMA Least ==
    ASSUME NEW T \in SUBSET Nat, T # {}
    PROVE  \E x \in T : \A y \in T : x <= y
<1> DEFINE R == OpToRel(<, Nat)
<1>1. \E x \in T : \A y \in T : ~(<<y, x>> \in R)
  <2>1. IsWellFoundedOn(R, Nat)
    BY NatLessThanWellFounded, Zenon
  <2> HIDE DEF R
  <2> QED BY <2>1, WFMin
<1>2. \A x, y \in Nat : y < x => <<y, x>> \in R
  BY DEF OpToRel
<1> HIDE DEF R
<1>3. PICK x \in T : \A y \in T : ~(<<y, x>> \in R)
  BY <1>1
<1>4. ASSUME NEW y \in T PROVE x <= y
  <2>1. x \in Nat /\ y \in Nat
    OBVIOUS
  <2>2. ~(y < x)
    BY <1>2, <1>3, <2>1
  <2> QED BY <2>1, <2>2
<1> QED BY <1>4

LEMMA Induct ==
    ASSUME NEW S \in SUBSET Nat, 0 \in S, \A n \in S : n + 1 \in S
    PROVE  S = Nat
<1> SUFFICES ASSUME Nat \ S # {} PROVE FALSE
  OBVIOUS
<1>1. PICK x \in Nat \ S : \A y \in Nat \ S : x <= y
  BY Least
<1>2. x - 1 \in Nat /\ x - 1 \in S
  BY <1>1
<1> QED BY <1>1, <1>2

\* The same up to a bound.
LEMMA InductTo ==
    ASSUME NEW N \in Nat, NEW S, 0 \in S, \A n \in 0..(N - 1) : n \in S => n + 1 \in S
    PROVE  \A n \in 0..N : n \in S
<1> DEFINE U == {n \in Nat : n <= N => n \in S}
<1>1. 0 \in U
  OBVIOUS
<1>2. ASSUME NEW n \in U PROVE n + 1 \in U
  BY <1>2
<1>3. U \in SUBSET Nat
  OBVIOUS
<1> HIDE DEF U
<1>4. U = Nat
  BY <1>1, <1>2, <1>3, Induct
<1> QED BY <1>4 DEF U

-----------------------------------------------------------------------------
(***************************************************************************)
(* The parser at each symbol of a text.                                    *)
(***************************************************************************)
Start(onSuccess) == [state |-> Read("THIRDNEWLINE"), onSuccess |-> onSuccess]

\* The recursive definition of Parsing has a solution, which is Parsing.
LEMMA ParsingStep ==
    ASSUME NEW text, Len(text) \in Nat, NEW onSuccess
    PROVE  /\ Parsing(text, onSuccess)[0] = Start(onSuccess)
           /\ \A n \in 1..Len(text) :
                 Parsing(text, onSuccess)[n]
                   = parseMp3pCharacter(Parsing(text, onSuccess)[n - 1], text[n])
<1> DEFINE N == Len(text)
           Solves(f, k) ==
             f = [n \in 0..k |-> IF n = 0 THEN Start(onSuccess)
                                 ELSE parseMp3pCharacter(f[n - 1], text[n])]
           S == {k \in Nat : \E f : Solves(f, k)}
<1>1. 0 \in S
  <2> DEFINE f == [n \in 0..0 |-> Start(onSuccess)]
  <2>1. Solves(f, 0)
    OBVIOUS
  <2> QED BY <2>1
<1>2. ASSUME NEW k \in S PROVE k + 1 \in S
  <2>1. k \in Nat
    OBVIOUS
  <2>2. PICK f : Solves(f, k)
    OBVIOUS
  <2> DEFINE g == [n \in 0..(k + 1) |-> IF n = k + 1
                      THEN parseMp3pCharacter(f[k], text[k + 1]) ELSE f[n]]
  <2>3. g[0] = Start(onSuccess)
    BY <2>1, <2>2
  <2>4. ASSUME NEW n \in 0..(k + 1), n # 0
        PROVE  g[n] = parseMp3pCharacter(g[n - 1], text[n])
    <3>1. n - 1 \in 0..k /\ g[n - 1] = f[n - 1]
      BY <2>1, <2>4
    <3>2. CASE n = k + 1
      BY <2>1, <3>1, <3>2
    <3>3. CASE n # k + 1
      <4>1. n \in 0..k
        BY <2>1, <3>3
      <4>2. f[n] = parseMp3pCharacter(f[n - 1], text[n])
        BY <2>2, <2>4, <4>1
      <4> QED BY <3>1, <3>3, <4>2
    <3> QED BY <3>2, <3>3
  <2>5. g = [n \in 0..(k + 1) |-> g[n]]
    OBVIOUS
  <2> HIDE DEF g
  <2>6. Solves(g, k + 1)
    BY <2>3, <2>4, <2>5
  <2> HIDE DEF Solves
  <2> QED BY <2>1, <2>6
<1>3. N \in S
  <2>1. S \in SUBSET Nat
    OBVIOUS
  <2> HIDE DEF S
  <2> QED BY <1>1, <1>2, <2>1, Induct
<1> DEFINE P == Parsing(text, onSuccess)
<1>4. P = CHOOSE f : Solves(f, N)
  BY DEF Parsing, Start
<1>5. Solves(P, N)
  BY <1>3, <1>4
<1> HIDE DEF P
<1> QED BY <1>5 DEF P

-----------------------------------------------------------------------------
(***************************************************************************)
(* One symbol.                                                             *)
(***************************************************************************)
Operations == {"BT", "BR", "HC", "CC", "LU", "LC", "DU", "AU", "MP"}

Reads ==
    Operations \cup
    {"THIRDNEWLINE", "ONEARGSEPARATOR", "ONLYUSER", "FIRSTARGSEPARATOR", "USER",
     "SECONDARGSEPARATOR", "PASSWORD"}

Invalid == Dgram("INVALID_COMMAND")

LEMMA OpsAre == Ops = Operations /\ Bare \subseteq Ops /\ WithArguments \subseteq Ops
BY DEF Ops, Operations, Bare, WithArguments

\* The edges, state by state.
Edge(what, class, to) ==
    \/ what = "THIRDNEWLINE" /\ class \in Ops /\ to = Read(class)
    \/ what \in Bare /\ class = "NUL" /\ to = Dgram(what)
    \/ what = "DU" /\ class = "SP" /\ to = Read("ONEARGSEPARATOR")
    \/ what = "ONEARGSEPARATOR" /\ class = "text" /\ to = Read("ONLYUSER")
    \/ what = "ONLYUSER" /\ class = "text" /\ to = Read("ONLYUSER")
    \/ what = "ONLYUSER" /\ class = "NUL" /\ to = Dgram("success")
    \/ what \in {"AU", "MP"} /\ class = "SP" /\ to = Read("FIRSTARGSEPARATOR")
    \/ what = "FIRSTARGSEPARATOR" /\ class = "text" /\ to = Read("USER")
    \/ what = "USER" /\ class = "text" /\ to = Read("USER")
    \/ what = "USER" /\ class = "SP" /\ to = Read("SECONDARGSEPARATOR")
    \/ what = "SECONDARGSEPARATOR" /\ class = "text" /\ to = Read("PASSWORD")
    \/ what = "PASSWORD" /\ class = "text" /\ to = Read("PASSWORD")
    \/ what = "PASSWORD" /\ class = "NUL" /\ to = Dgram("success")

LEMMA EdgesAre ==
    /\ \A what, class, to : Edge(what, class, to) => <<Read(what), class, to>> \in Edges
    /\ \A e \in Edges : \E what, class, to :
          e = <<Read(what), class, to>> /\ Edge(what, class, to)
<1>1. ASSUME NEW what, NEW class, NEW to, Edge(what, class, to)
      PROVE  <<Read(what), class, to>> \in Edges
  BY <1>1 DEF Edge, Edges, Read, Dgram
<1>2. ASSUME NEW e \in Edges
      PROVE  \E what, class, to : e = <<Read(what), class, to>> /\ Edge(what, class, to)
  <2>1. CASE e \in {<<Read("THIRDNEWLINE"), op, Read(op)>> : op \in Ops}
    BY <2>1 DEF Edge
  <2>2. CASE e \in {<<Read(op), "NUL", Dgram(op)>> : op \in Bare}
    BY <2>2 DEF Edge
  <2>3. CASE e \notin {<<Read("THIRDNEWLINE"), op, Read(op)>> : op \in Ops}
             /\ e \notin {<<Read(op), "NUL", Dgram(op)>> : op \in Bare}
    BY <2>3 DEF Edges, Edge
  <2> QED BY <2>1, <2>2, <2>3
<1> QED BY <1>1, <1>2

LEMMA ReadIs == \A a, b : Read(a) = Read(b) => a = b
BY DEF Read

\* From a state a symbol leads to one other.
LEMMA OneEdge ==
    ASSUME NEW what, NEW class, NEW to, NEW other,
           Edge(what, class, to), Edge(what, class, other)
    PROVE  to = other
<1> USE DEF Edge, Ops, Bare, WithArguments
<1>1. CASE what = "THIRDNEWLINE"
  BY <1>1
<1>2. CASE what \in Bare
  BY <1>2
<1>3. CASE what = "DU"
  BY <1>3
<1>4. CASE what = "AU" \/ what = "MP"
  BY <1>4
<1>5. CASE what = "ONEARGSEPARATOR"
  BY <1>5
<1>6. CASE what = "FIRSTARGSEPARATOR"
  BY <1>6
<1>7. CASE what = "SECONDARGSEPARATOR"
  BY <1>7
<1>8. CASE what = "ONLYUSER"
  BY <1>8
<1>9. CASE what = "USER"
  <2>1. CASE class = "text"
    BY <1>9, <2>1
  <2>2. CASE class # "text"
    BY <1>9, <2>2
  <2> QED BY <2>1, <2>2
<1>10. CASE what = "PASSWORD"
  BY <1>10
<1> QED BY <1>1, <1>2, <1>3, <1>4, <1>5, <1>6, <1>7, <1>8, <1>9, <1>10

LEMMA StepEdge ==
    ASSUME NEW what, NEW c, NEW to, Edge(what, Class(Read(what), c), to)
    PROVE  Step(Read(what), c) = to
<1> DEFINE class == Class(Read(what), c)
           from == <<Read(what), class>>
           e == CHOOSE e \in Edges : <<e[1], e[2]>> = from
<1>1. <<Read(what), class, to>> \in Edges
  BY EdgesAre
<1>2. e \in Edges /\ <<e[1], e[2]>> = from
  <2>1. \E g \in Edges : <<g[1], g[2]>> = from
    BY <1>1
  <2> QED BY <2>1
<1>3. from \in DOMAIN Goes /\ Goes[from] = e[3]
  BY <1>2 DEF Goes
<1> HIDE DEF e
<1>4. PICK a, k, b : e = <<Read(a), k, b>> /\ Edge(a, k, b)
  BY <1>2, EdgesAre
<1>5. a = what /\ k = class /\ b = e[3]
  BY <1>2, <1>4, ReadIs
<1>6. e[3] = to
  BY <1>4, <1>5, OneEdge
<1> QED BY <1>3, <1>6 DEF Step

LEMMA StepNoEdge ==
    ASSUME NEW what, NEW c, \A to : ~Edge(what, Class(Read(what), c), to)
    PROVE  Step(Read(what), c) = Invalid
<1> DEFINE from == <<Read(what), Class(Read(what), c)>>
<1>1. ASSUME NEW e \in Edges, <<e[1], e[2]>> = from PROVE FALSE
  <2>1. PICK a, k, b : e = <<Read(a), k, b>> /\ Edge(a, k, b)
    BY EdgesAre
  <2>2. a = what /\ k = Class(Read(what), c)
    BY <1>1, <2>1, ReadIs
  <2> QED BY <2>1, <2>2
<1>2. from \notin DOMAIN Goes
  BY <1>1 DEF Goes
<1>3. Read(what)[1] # "DGRAM"
  BY DEF Read
<1> QED BY <1>2, <1>3 DEF Step, Invalid

LEMMA StepDgram ==
    ASSUME NEW what, NEW c PROVE Step(Dgram(what), c) = Dgram("DISCARD")
<1> DEFINE from == <<Dgram(what), Class(Dgram(what), c)>>
<1>1. ASSUME NEW e \in Edges, <<e[1], e[2]>> = from PROVE FALSE
  <2>1. PICK a, k, b : e = <<Read(a), k, b>> /\ Edge(a, k, b)
    BY EdgesAre
  <2> QED BY <1>1, <2>1 DEF Read, Dgram
<1>2. from \notin DOMAIN Goes
  BY <1>1 DEF Goes
<1> QED BY <1>2 DEF Step, Dgram

-----------------------------------------------------------------------------
(***************************************************************************)
(* A whole line.  What state the automaton is in says what it has read.    *)
(***************************************************************************)
\* The symbols of w from i to j are pieces of words.
Text(w, i, j) == \A k \in i..j : w[k] \notin Separators

\* What has been read of w in state Read(what), after n symbols.
HasRead(w, n, what) ==
    \/ what = "THIRDNEWLINE" /\ n = 0
    \/ what \in Ops /\ n = 1 /\ w[1] = what
    \/ what = "ONEARGSEPARATOR" /\ n = 2 /\ w[1] = "DU" /\ w[2] = "SP"
    \/ what = "ONLYUSER" /\ n >= 3 /\ w[1] = "DU" /\ w[2] = "SP" /\ Text(w, 3, n)
    \/ what = "FIRSTARGSEPARATOR" /\ n = 2 /\ w[1] \in {"AU", "MP"} /\ w[2] = "SP"
    \/ /\ what = "USER" /\ n >= 3 /\ w[1] \in {"AU", "MP"} /\ w[2] = "SP"
       /\ Text(w, 3, n)
    \/ /\ what = "SECONDARGSEPARATOR" /\ n >= 4 /\ w[1] \in {"AU", "MP"} /\ w[2] = "SP"
       /\ Text(w, 3, n - 1) /\ w[n] = "SP"
    \/ /\ what = "PASSWORD" /\ w[1] \in {"AU", "MP"} /\ w[2] = "SP"
       /\ \E i \in 4..(n - 1) : Text(w, 3, i - 1) /\ w[i] = "SP" /\ Text(w, i + 1, n)

\* The first n symbols of w are a well formed command.
Spelled(w, n) ==
    \/ n = 1 /\ w[1] \in Bare
    \/ HasRead(w, n, "ONLYUSER")
    \/ HasRead(w, n, "PASSWORD")

\* Class by class, what a symbol is read as.
LEMMA ClassFirst ==
    ASSUME NEW c, NEW op \in Ops
    PROVE  Class(Read("THIRDNEWLINE"), c) = op <=> c = op
BY DEF Class, Ops, Bare, WithArguments

LEMMA ClassLater ==
    ASSUME NEW what, what # "THIRDNEWLINE", NEW c
    PROVE  /\ Class(Read(what), c) = "text" <=> c \notin Separators
           /\ Class(Read(what), c) = "SP" <=> c = "SP"
           /\ Class(Read(what), c) = "NUL" <=> c = "NUL"
BY DEF Class, Read, Separators, Ops, Bare, WithArguments

\* One more piece of a word.
LEMMA TextMore ==
    ASSUME NEW w, NEW i \in Nat, NEW n \in Nat, i <= n + 1
    PROVE  Text(w, i, n + 1) <=> Text(w, i, n) /\ w[n + 1] \notin Separators
BY DEF Text

LEMMA TextNone == ASSUME NEW w, NEW i \in Nat PROVE Text(w, i, i - 1)
BY DEF Text

\* HasRead state by state.
LEMMA ReadOp ==
    ASSUME NEW w, NEW n, NEW op \in Ops
    PROVE  HasRead(w, n, op) <=> n = 1 /\ w[1] = op
BY DEF HasRead, Ops, Bare, WithArguments

LEMMA ReadStart ==
    ASSUME NEW w, NEW n
    PROVE  HasRead(w, n, "THIRDNEWLINE") <=>
             n = 0
BY DEF HasRead, Ops, Bare, WithArguments

LEMMA ReadOneSeparator ==
    ASSUME NEW w, NEW n
    PROVE  HasRead(w, n, "ONEARGSEPARATOR") <=>
             n = 2 /\ w[1] = "DU" /\ w[2] = "SP"
BY DEF HasRead, Ops, Bare, WithArguments

LEMMA ReadOnlyUser ==
    ASSUME NEW w, NEW n
    PROVE  HasRead(w, n, "ONLYUSER") <=>
             n >= 3 /\ w[1] = "DU" /\ w[2] = "SP" /\ Text(w, 3, n)
BY DEF HasRead, Ops, Bare, WithArguments

LEMMA ReadFirstSeparator ==
    ASSUME NEW w, NEW n
    PROVE  HasRead(w, n, "FIRSTARGSEPARATOR") <=>
             n = 2 /\ w[1] \in {"AU", "MP"} /\ w[2] = "SP"
BY DEF HasRead, Ops, Bare, WithArguments

LEMMA ReadUser ==
    ASSUME NEW w, NEW n
    PROVE  HasRead(w, n, "USER") <=>
             n >= 3 /\ w[1] \in {"AU", "MP"} /\ w[2] = "SP" /\ Text(w, 3, n)
BY DEF HasRead, Ops, Bare, WithArguments

LEMMA ReadSecondSeparator ==
    ASSUME NEW w, NEW n
    PROVE  HasRead(w, n, "SECONDARGSEPARATOR") <=>
             /\ n >= 4 /\ w[1] \in {"AU", "MP"} /\ w[2] = "SP"
             /\ Text(w, 3, n - 1) /\ w[n] = "SP"
BY DEF HasRead, Ops, Bare, WithArguments

LEMMA ReadPassword ==
    ASSUME NEW w, NEW n
    PROVE  HasRead(w, n, "PASSWORD") <=>
             /\ w[1] \in {"AU", "MP"} /\ w[2] = "SP"
             /\ \E i \in 4..(n - 1) : Text(w, 3, i - 1) /\ w[i] = "SP" /\ Text(w, i + 1, n)
BY DEF HasRead, Ops, Bare, WithArguments

\* The edges between states that read, by the symbol itself.
SymbolEdge(a, c, y) ==
    \/ a = "THIRDNEWLINE" /\ c \in Ops /\ y = c
    \/ a = "DU" /\ c = "SP" /\ y = "ONEARGSEPARATOR"
    \/ a = "ONEARGSEPARATOR" /\ c \notin Separators /\ y = "ONLYUSER"
    \/ a = "ONLYUSER" /\ c \notin Separators /\ y = "ONLYUSER"
    \/ a = "AU" /\ c = "SP" /\ y = "FIRSTARGSEPARATOR"
    \/ a = "MP" /\ c = "SP" /\ y = "FIRSTARGSEPARATOR"
    \/ a = "FIRSTARGSEPARATOR" /\ c \notin Separators /\ y = "USER"
    \/ a = "USER" /\ c \notin Separators /\ y = "USER"
    \/ a = "USER" /\ c = "SP" /\ y = "SECONDARGSEPARATOR"
    \/ a = "SECONDARGSEPARATOR" /\ c \notin Separators /\ y = "PASSWORD"
    \/ a = "PASSWORD" /\ c \notin Separators /\ y = "PASSWORD"

LEMMA SymbolEdges ==
    ASSUME NEW a, NEW c, NEW y
    PROVE  Edge(a, Class(Read(a), c), Read(y)) <=> SymbolEdge(a, c, y)
<1> DEFINE class == Class(Read(a), c)
<1>1. CASE a = "THIRDNEWLINE"
  <2>1. \A op \in Ops : class = op <=> c = op
    BY <1>1, ClassFirst
  <2> HIDE DEF class
  <2>2. Edge(a, class, Read(y)) <=> class \in Ops /\ y = class
    BY <1>1, ReadIs DEF Edge, Bare, Read, Dgram
  <2>3. SymbolEdge(a, c, y) <=> c \in Ops /\ y = c
    BY <1>1 DEF SymbolEdge
  <2>4. class \in Ops /\ y = class <=> c \in Ops /\ y = c
    BY <2>1
  <2> QED BY <2>2, <2>3, <2>4 DEF class
<1>2. CASE a # "THIRDNEWLINE"
  <2>1. (class = "text" <=> c \notin Separators) /\ (class = "SP" <=> c = "SP")
    BY <1>2, ClassLater
  <2> HIDE DEF class
  <2>2. \A b : Read(y) # Dgram(b)
    BY DEF Read, Dgram
  <2>3. \A b : Read(y) = Read(b) <=> y = b
    BY ReadIs
  <2>4. Edge(a, class, Read(y)) <=>
          \/ a = "DU" /\ class = "SP" /\ y = "ONEARGSEPARATOR"
          \/ a = "ONEARGSEPARATOR" /\ class = "text" /\ y = "ONLYUSER"
          \/ a = "ONLYUSER" /\ class = "text" /\ y = "ONLYUSER"
          \/ a \in {"AU", "MP"} /\ class = "SP" /\ y = "FIRSTARGSEPARATOR"
          \/ a = "FIRSTARGSEPARATOR" /\ class = "text" /\ y = "USER"
          \/ a = "USER" /\ class = "text" /\ y = "USER"
          \/ a = "USER" /\ class = "SP" /\ y = "SECONDARGSEPARATOR"
          \/ a = "SECONDARGSEPARATOR" /\ class = "text" /\ y = "PASSWORD"
          \/ a = "PASSWORD" /\ class = "text" /\ y = "PASSWORD"
    BY <1>2, <2>2, <2>3, Zenon DEF Edge
  <2>5. Edge(a, class, Read(y)) <=> SymbolEdge(a, c, y)
    BY <1>2, <2>1, <2>4 DEF SymbolEdge
  <2> QED BY <2>5 DEF class
<1> QED BY <1>1, <1>2

\* An edge adds a symbol to what has been read.
LEMMA Forth ==
    ASSUME NEW w, NEW n \in Nat, NEW p \in Nat, p = n + 1, NEW a, NEW y, HasRead(w, n, a),
           SymbolEdge(a, w[p], y)
    PROVE  HasRead(w, p, y)
<1> DEFINE c == w[p]
<1>1. CASE a = "THIRDNEWLINE" /\ c \in Ops /\ y = c
  <2>1. n = 0
    BY <1>1, ReadStart
  <2>2. p = 1
    BY <2>1
  <2> QED BY <1>1, <2>2, ReadOp
<1>2. CASE a = "DU" /\ c = "SP" /\ y = "ONEARGSEPARATOR"
  <2>1. "DU" \in Ops
    BY DEF Ops, WithArguments
  <2>2. n = 1 /\ w[1] = "DU"
    BY <1>2, <2>1, ReadOp
  <2>3. p = 2
    BY <2>2
  <2>9. HasRead(w, p, "ONEARGSEPARATOR")
    BY <1>2, <2>2, <2>3, ReadOneSeparator
  <2> QED BY <1>2, <2>9
<1>3. CASE a = "ONEARGSEPARATOR" /\ c \notin Separators /\ y = "ONLYUSER"
  <2>1. n = 2 /\ w[1] = "DU" /\ w[2] = "SP"
    BY <1>3, ReadOneSeparator
  <2>2. Text(w, 3, p) /\ p >= 3
    BY <1>3, <2>1 DEF Text
  <2>9. HasRead(w, p, "ONLYUSER")
    BY <1>3, <2>1, <2>2, ReadOnlyUser
  <2> QED BY <1>3, <2>9
<1>4. CASE a = "ONLYUSER" /\ c \notin Separators /\ y = "ONLYUSER"
  <2>1. n >= 3 /\ w[1] = "DU" /\ w[2] = "SP" /\ Text(w, 3, n)
    BY <1>4, ReadOnlyUser
  <2>2. Text(w, 3, p) /\ p >= 3
    BY <1>4, <2>1 DEF Text
  <2>9. HasRead(w, p, "ONLYUSER")
    BY <1>4, <2>1, <2>2, ReadOnlyUser
  <2> QED BY <1>4, <2>9
<1>5. CASE (a = "AU" \/ a = "MP") /\ c = "SP" /\ y = "FIRSTARGSEPARATOR"
  <2>1. "AU" \in Ops /\ "MP" \in Ops
    BY DEF Ops, WithArguments
  <2>2. n = 1 /\ (w[1] = "AU" \/ w[1] = "MP")
    BY <1>5, <2>1, ReadOp
  <2>3. p = 2 /\ w[1] \in {"AU", "MP"}
    BY <2>2
  <2>9. HasRead(w, p, "FIRSTARGSEPARATOR")
    BY <1>5, <2>3, ReadFirstSeparator
  <2> QED BY <1>5, <2>9
<1>6. CASE a = "FIRSTARGSEPARATOR" /\ c \notin Separators /\ y = "USER"
  <2>1. n = 2 /\ w[1] \in {"AU", "MP"} /\ w[2] = "SP"
    BY <1>6, ReadFirstSeparator
  <2>2. Text(w, 3, p) /\ p >= 3
    BY <1>6, <2>1 DEF Text
  <2>9. HasRead(w, p, "USER")
    BY <1>6, <2>1, <2>2, ReadUser
  <2> QED BY <1>6, <2>9
<1>7. CASE a = "USER" /\ c \notin Separators /\ y = "USER"
  <2>1. n >= 3 /\ w[1] \in {"AU", "MP"} /\ w[2] = "SP" /\ Text(w, 3, n)
    BY <1>7, ReadUser
  <2>2. Text(w, 3, p) /\ p >= 3
    BY <1>7, <2>1 DEF Text
  <2>9. HasRead(w, p, "USER")
    BY <1>7, <2>1, <2>2, ReadUser
  <2> QED BY <1>7, <2>9
<1>8. CASE a = "USER" /\ c = "SP" /\ y = "SECONDARGSEPARATOR"
  <2>1. n >= 3 /\ w[1] \in {"AU", "MP"} /\ w[2] = "SP" /\ Text(w, 3, n)
    BY <1>8, ReadUser
  <2>2. p >= 4 /\ p - 1 = n
    BY <2>1
  <2>9. HasRead(w, p, "SECONDARGSEPARATOR")
    BY <1>8, <2>1, <2>2, ReadSecondSeparator
  <2> QED BY <1>8, <2>9
<1>9. CASE a = "SECONDARGSEPARATOR" /\ c \notin Separators /\ y = "PASSWORD"
  <2>1. /\ n >= 4 /\ w[1] \in {"AU", "MP"} /\ w[2] = "SP" /\ Text(w, 3, n - 1) /\ w[n] = "SP"
    BY <1>9, ReadSecondSeparator
  <2>2. Text(w, n + 1, p) /\ n \in 4..(p - 1)
    BY <1>9, <2>1 DEF Text
  <2>3. \E i \in 4..(p - 1) : Text(w, 3, i - 1) /\ w[i] = "SP" /\ Text(w, i + 1, p)
    BY <2>1, <2>2
  <2>9. HasRead(w, p, "PASSWORD")
    BY <1>9, <2>1, <2>3, ReadPassword
  <2> QED BY <1>9, <2>9
<1>10. CASE a = "PASSWORD" /\ c \notin Separators /\ y = "PASSWORD"
  <2>1. /\ w[1] \in {"AU", "MP"} /\ w[2] = "SP"
        /\ \E i \in 4..(n - 1) : Text(w, 3, i - 1) /\ w[i] = "SP" /\ Text(w, i + 1, n)
    BY <1>10, ReadPassword
  <2>2. PICK i \in 4..(n - 1) : Text(w, 3, i - 1) /\ w[i] = "SP" /\ Text(w, i + 1, n)
    BY <2>1
  <2>3. Text(w, i + 1, p) /\ i \in 4..(p - 1)
    BY <1>10, <2>2 DEF Text
  <2>4. \E j \in 4..(p - 1) : Text(w, 3, j - 1) /\ w[j] = "SP" /\ Text(w, j + 1, p)
    BY <2>2, <2>3
  <2>9. HasRead(w, p, "PASSWORD")
    BY <1>10, <2>1, <2>4, ReadPassword
  <2> QED BY <1>10, <2>9
<1> QED
  BY <1>1, <1>2, <1>3, <1>4, <1>5, <1>6, <1>7, <1>8, <1>9, <1>10 DEF SymbolEdge

\* What has been read was read by an edge.
LEMMA Back ==
    ASSUME NEW w, NEW n \in Nat, NEW p \in Nat, p = n + 1, NEW y \in Reads, HasRead(w, p, y)
    PROVE  \E a \in Reads : HasRead(w, n, a) /\ SymbolEdge(a, w[p], y)
<1> DEFINE Goal(a) == a \in Reads /\ HasRead(w, n, a) /\ SymbolEdge(a, w[p], y)
<1>1. CASE y \in Ops
  <2>1. n = 0 /\ p = 1 /\ w[p] = y
    BY <1>1, ReadOp
  <2>2. Goal("THIRDNEWLINE")
    BY <1>1, <2>1, ReadStart DEF SymbolEdge, Reads
  <2> QED BY <2>2
<1>2. CASE y = "ONEARGSEPARATOR"
  <2>1. n = 1 /\ p = 2 /\ w[1] = "DU" /\ w[p] = "SP"
    BY <1>2, ReadOneSeparator
  <2>2. Goal("DU")
    BY <1>2, <2>1, ReadOp DEF SymbolEdge, Reads, Operations, Ops, WithArguments
  <2> QED BY <2>2
<1>3. CASE y = "FIRSTARGSEPARATOR"
  <2>1. n = 1 /\ p = 2 /\ w[1] \in {"AU", "MP"} /\ w[p] = "SP"
    BY <1>3, ReadFirstSeparator
  <2>2. Goal(w[1])
    BY <1>3, <2>1, ReadOp DEF SymbolEdge, Reads, Operations, Ops, WithArguments
  <2> QED BY <2>2
<1>4. CASE y = "ONLYUSER"
  <2>1. p >= 3 /\ w[1] = "DU" /\ w[2] = "SP" /\ Text(w, 3, p)
    BY <1>4, ReadOnlyUser
  <2>2. w[p] \notin Separators /\ Text(w, 3, n)
    BY <2>1 DEF Text
  <2>3. CASE n = 2
    <3>1. Goal("ONEARGSEPARATOR")
      BY <1>4, <2>1, <2>2, <2>3, ReadOneSeparator DEF SymbolEdge, Reads
    <3> QED BY <3>1
  <2>4. CASE n # 2
    <3>1. Goal("ONLYUSER")
      BY <1>4, <2>1, <2>2, <2>4, ReadOnlyUser DEF SymbolEdge, Reads
    <3> QED BY <3>1
  <2> QED BY <2>3, <2>4
<1>5. CASE y = "USER"
  <2>1. p >= 3 /\ w[1] \in {"AU", "MP"} /\ w[2] = "SP" /\ Text(w, 3, p)
    BY <1>5, ReadUser
  <2>2. w[p] \notin Separators /\ Text(w, 3, n)
    BY <2>1 DEF Text
  <2>3. CASE n = 2
    <3>1. Goal("FIRSTARGSEPARATOR")
      BY <1>5, <2>1, <2>2, <2>3, ReadFirstSeparator DEF SymbolEdge, Reads
    <3> QED BY <3>1
  <2>4. CASE n # 2
    <3>1. Goal("USER")
      BY <1>5, <2>1, <2>2, <2>4, ReadUser DEF SymbolEdge, Reads
    <3> QED BY <3>1
  <2> QED BY <2>3, <2>4
<1>6. CASE y = "SECONDARGSEPARATOR"
  <2>1. /\ p >= 4 /\ w[1] \in {"AU", "MP"} /\ w[2] = "SP" /\ Text(w, 3, p - 1)
        /\ w[p] = "SP"
    BY <1>6, ReadSecondSeparator
  <2>2. p - 1 = n /\ n >= 3
    BY <2>1
  <2>3. Goal("USER")
    BY <1>6, <2>1, <2>2, ReadUser DEF SymbolEdge, Reads
  <2> QED BY <2>3
<1>7. CASE y = "PASSWORD"
  <2>1. w[1] \in {"AU", "MP"} /\ w[2] = "SP"
    BY <1>7, ReadPassword
  <2>2. PICK i \in 4..(p - 1) : Text(w, 3, i - 1) /\ w[i] = "SP" /\ Text(w, i + 1, p)
    BY <1>7, ReadPassword
  <2>3. w[p] \notin Separators /\ Text(w, i + 1, n)
    BY <2>2 DEF Text
  <2>4. CASE i = n
    <3>1. n >= 4
      BY <2>4
    <3>2. Goal("SECONDARGSEPARATOR")
      BY <1>7, <2>1, <2>2, <2>3, <2>4, <3>1, ReadSecondSeparator DEF SymbolEdge, Reads
    <3> QED BY <3>2
  <2>5. CASE i # n
    <3>1. i \in 4..(n - 1)
      BY <2>5
    <3>2. HasRead(w, n, "PASSWORD")
      BY <2>1, <2>2, <2>3, <3>1, ReadPassword
    <3>3. Goal("PASSWORD")
      BY <1>7, <2>3, <3>2 DEF SymbolEdge, Reads
    <3> QED BY <3>3
  <2> QED BY <2>4, <2>5
<1>8. CASE y = "THIRDNEWLINE"
  BY <1>8, ReadStart
<1> QED BY <1>1, <1>2, <1>3, <1>4, <1>5, <1>6, <1>7, <1>8, OpsAre DEF Reads

\* The states of the automaton, and those that have decided on a command.
States == {Read(what) : what \in Reads} \cup {Dgram(what) : what \in Operations}
            \cup {Invalid, Dgram("DISCARD")}

\* What a parser is after n symbols of w; of a line that holds an operation with
\* arguments, onSuccessCommandState is that operation.
Explains(w, n, parser) ==
    /\ parser.state \in States
    /\ \A what \in Reads : parser.state = Read(what) <=> HasRead(w, n, what)
    /\ n >= 1 /\ w[1] \in WithArguments => parser.onSuccess = w[1]

\* The three ways a symbol is read after a part of a line, and the fourth.
LEMMA Ways ==
    ASSUME NEW a \in Reads, NEW c
    PROVE  /\ \A y : SymbolEdge(a, c, y) =>
                 Step(Read(a), c) = Read(y) /\ c # "NUL" /\ y \in Reads
           /\ a \in Bare /\ c = "NUL" => Step(Read(a), c) = Dgram(a)
           /\ a \in {"ONLYUSER", "PASSWORD"} /\ c = "NUL" =>
                 Step(Read(a), c) = Dgram("success")
           /\ \/ \E y : SymbolEdge(a, c, y)
              \/ a \in Bare \cup {"ONLYUSER", "PASSWORD"} /\ c = "NUL"
              \/ Step(Read(a), c) = Invalid
<1> DEFINE class == Class(Read(a), c)
<1>1. ASSUME NEW y, SymbolEdge(a, c, y)
      PROVE  Step(Read(a), c) = Read(y) /\ c # "NUL" /\ y \in Reads
  <2>1. Edge(a, class, Read(y))
    BY <1>1, SymbolEdges
  <2>2. c # "NUL" /\ y \in Reads
    BY <1>1, OpsAre
    DEF SymbolEdge, Reads, Operations, Separators, Ops, Bare, WithArguments
  <2> QED BY <2>1, <2>2, StepEdge
<1>2. ASSUME a \in Bare \cup {"ONLYUSER", "PASSWORD"}, c = "NUL" PROVE class = "NUL"
  <2>1. a # "THIRDNEWLINE"
    BY <1>2 DEF Bare
  <2> QED BY <1>2, <2>1, ClassLater
<1>3. ASSUME a \in Bare, c = "NUL" PROVE Step(Read(a), c) = Dgram(a)
  <2>1. Edge(a, class, Dgram(a))
    BY <1>2, <1>3 DEF Edge
  <2> QED BY <2>1, StepEdge
<1>4. ASSUME a \in {"ONLYUSER", "PASSWORD"}, c = "NUL"
      PROVE  Step(Read(a), c) = Dgram("success")
  <2>1. Edge(a, class, Dgram("success"))
    BY <1>2, <1>4 DEF Edge
  <2> QED BY <2>1, StepEdge
<1>5. ASSUME ~(\E y : SymbolEdge(a, c, y)),
             ~(a \in Bare \cup {"ONLYUSER", "PASSWORD"} /\ c = "NUL")
      PROVE  Step(Read(a), c) = Invalid
  <2>1. ASSUME NEW to, Edge(a, class, to) PROVE FALSE
    <3>1. \A y : to # Read(y)
      BY <1>5, <2>1, SymbolEdges
    <3>2. a \in Bare \cup {"ONLYUSER", "PASSWORD"} /\ class = "NUL"
      BY <2>1, <3>1 DEF Edge
    <3>3. a # "THIRDNEWLINE"
      BY <3>2 DEF Bare
    <3> QED BY <1>5, <3>2, <3>3, ClassLater
  <2> QED BY <2>1, StepNoEdge
<1> QED BY <1>1, <1>3, <1>4, <1>5

LEMMA Distinct ==
    /\ \A a, b : Read(a) # Dgram(b)
    /\ \A a, b : Read(a) = Read(b) => a = b
    /\ \A a, b : Dgram(a) = Dgram(b) => a = b
    /\ \A op \in Operations : op \notin {"INVALID_COMMAND", "DISCARD", "success"}
    /\ \A op \in Operations : Dgram(op) # Invalid /\ Dgram(op) # Dgram("DISCARD")
    /\ Invalid # Dgram("DISCARD") /\ Dgram("DISCARD") # Dgram("success")
    /\ Invalid # Dgram("success")
<1>1. \A op \in Operations : op \notin {"INVALID_COMMAND", "DISCARD", "success"}
  BY DEF Operations
<1>2. \A a, b : Dgram(a) = Dgram(b) => a = b
  BY DEF Dgram
<1> QED BY <1>1, <1>2 DEF Read, Dgram, Invalid

\* A well formed command leaves the automaton in one of its last states.
LEMMA SpelledIs ==
    ASSUME NEW w, NEW n, NEW a \in Reads,
           \A what \in Reads : HasRead(w, n, what) <=> what = a
    PROVE  Spelled(w, n) <=> a \in Bare \cup {"ONLYUSER", "PASSWORD"}
<1>1. \A op \in Bare : n = 1 /\ w[1] = op <=> op = a
  BY ReadOp, OpsAre DEF Reads
<1>2. "ONLYUSER" \in Reads /\ "PASSWORD" \in Reads
  BY DEF Reads
<1>3. n = 1 /\ w[1] \in Bare <=> a \in Bare
  BY <1>1
<1> QED BY <1>2, <1>3 DEF Spelled

\* What the parser is after one more symbol; what it decides, and when it discards.
LEMMA OneSymbol ==
    ASSUME NEW w, NEW n \in Nat, NEW p \in Nat, p = n + 1, NEW parser,
           Explains(w, n, parser), NEW after, after = parseMp3pCharacter(parser, w[p])
    PROVE  /\ Explains(w, p, after)
           /\ \A op \in Operations :
                 after.state = Dgram(op) <=> w[p] = "NUL" /\ Spelled(w, n) /\ op = w[1]
           /\ after.state = Dgram("DISCARD") <=>
                 parser.state \in {Dgram(what) : what \in Operations} \cup {Dgram("DISCARD")}
<1> DEFINE c == w[p]
           s == parser.state
<1>0. Ends(s) <=> s = Invalid \/ s = Dgram("DISCARD")
  BY DEF Ends, Invalid
\* A state that does not read stays one.
<1>1. ASSUME \A a \in Reads : s # Read(a)
      PROVE  (\A y \in Reads : ~HasRead(w, p, y)) /\ ~Spelled(w, n)
  <2>1. \A a \in Reads : ~HasRead(w, n, a)
    BY <1>1 DEF Explains
  <2>2. \A y \in Reads : ~HasRead(w, p, y)
    BY <2>1, Back
  <2>3. ~Spelled(w, n)
    <3>1. "ONLYUSER" \in Reads /\ "PASSWORD" \in Reads /\ Bare \subseteq Reads
      BY OpsAre DEF Reads
    <3>2. n = 1 /\ w[1] \in Bare => HasRead(w, n, w[1])
      BY ReadOp, OpsAre
    <3> QED BY <2>1, <3>1, <3>2 DEF Spelled
  <2> QED BY <2>2, <2>3
<1>2. CASE Ends(s)
  <2>1. after = parser
    BY <1>2 DEF parseMp3pCharacter
  <2>2. \A a \in Reads : s # Read(a)
    BY <1>0, <1>2, Distinct DEF Invalid
  <2>3. n >= 1
    <3>1. "THIRDNEWLINE" \in Reads /\ HasRead(w, 0, "THIRDNEWLINE")
      BY ReadStart DEF Reads
    <3> QED BY <2>2, <3>1 DEF Explains
  <2>4. Explains(w, p, after)
    BY <1>1, <2>1, <2>2, <2>3 DEF Explains
  <2> QED BY <1>0, <1>1, <1>2, <2>1, <2>2, <2>4, Distinct
<1>3. CASE \E op \in Operations : s = Dgram(op)
  <2>1. PICK op \in Operations : s = Dgram(op)
    BY <1>3
  <2>2. ~Ends(s) /\ \A a \in Reads : s # Read(a)
    BY <1>0, <2>1, Distinct
  <2>3. Step(s, c) = Dgram("DISCARD")
    BY <2>1, StepDgram
  <2>4. s # Read("THIRDNEWLINE")
    BY <2>2 DEF Reads
  <2>5. after = [state |-> Dgram("DISCARD"), onSuccess |-> parser.onSuccess]
    BY <2>2, <2>3, <2>4, Distinct DEF parseMp3pCharacter
  <2>6. n >= 1
    <3>1. "THIRDNEWLINE" \in Reads /\ HasRead(w, 0, "THIRDNEWLINE")
      BY ReadStart DEF Reads
    <3> QED BY <2>2, <3>1 DEF Explains
  <2>7. Explains(w, p, after)
    <3>1. \A y \in Reads : after.state # Read(y)
      BY <2>5, Distinct
    <3> QED BY <1>1, <2>2, <2>5, <2>6, <3>1 DEF Explains, States
  <2> QED BY <1>1, <2>1, <2>2, <2>5, <2>7, Distinct
<1>4. CASE \E a \in Reads : s = Read(a)
  <2>1. PICK a \in Reads : s = Read(a)
    BY <1>4
  <2>2. ~Ends(s) /\ \A what : s # Dgram(what)
    BY <1>0, <2>1, Distinct DEF Invalid
  <2> DEFINE to == Step(s, c)
  <2>3. after = [state |-> IF to = Dgram("success") THEN Dgram(parser.onSuccess) ELSE to,
                 onSuccess |-> IF s = Read("THIRDNEWLINE") /\ c \in Remembered
                               THEN c ELSE parser.onSuccess]
    BY <2>2 DEF parseMp3pCharacter
  <2> HIDE DEF to
  <2>4. \A what \in Reads : HasRead(w, n, what) <=> what = a
    BY <2>1, Distinct DEF Explains
  <2>5. Spelled(w, n) <=> a \in Bare \cup {"ONLYUSER", "PASSWORD"}
    BY <2>4, SpelledIs
  <2>6. \A y \in Reads : HasRead(w, p, y) <=> SymbolEdge(a, c, y)
    BY <2>4, Forth, Back
  \* The operation is remembered when it is read.
  <2>7. p >= 1 /\ w[1] \in WithArguments => after.onSuccess = w[1]
    <3>1. CASE n = 0
      <4>1. "THIRDNEWLINE" \in Reads /\ HasRead(w, n, "THIRDNEWLINE")
        BY <3>1, ReadStart DEF Reads
      <4>2. s = Read("THIRDNEWLINE") /\ p = 1
        BY <3>1, <4>1 DEF Explains
      <4> QED BY <2>3, <4>2 DEF Remembered
    <3>2. CASE n # 0
      <4>1. a # "THIRDNEWLINE"
        BY <2>4, <3>2, ReadStart
      <4>2. s # Read("THIRDNEWLINE")
        BY <2>1, <4>1, Distinct
      <4> QED BY <2>3, <3>2, <4>2 DEF Explains
    <3> QED BY <3>1, <3>2
  <2>8. CASE \E y : SymbolEdge(a, c, y)
    <3>1. PICK y : SymbolEdge(a, c, y)
      BY <2>8
    <3>2. to = Read(y) /\ c # "NUL" /\ y \in Reads
      BY <2>1, <3>1, Ways DEF to
    <3>3. after.state = Read(y)
      BY <2>3, <3>2, Distinct
    <3>4. \A b \in Reads : SymbolEdge(a, c, b) <=> b = y
      BY <2>1, <3>1, <3>2, Ways, Distinct DEF to
    <3>5. Explains(w, p, after)
      BY <2>6, <2>7, <3>2, <3>3, <3>4, Distinct DEF Explains, States
    <3> QED BY <2>2, <3>2, <3>3, <3>5, Distinct
  <2>9. CASE a \in Bare /\ c = "NUL"
    <3>1. to = Dgram(a) /\ a \in Operations
      BY <2>1, <2>9, Ways, OpsAre DEF to
    <3>2. after.state = Dgram(a)
      BY <2>3, <3>1, Distinct
    <3>3. \A b \in Reads : ~SymbolEdge(a, c, b)
      BY <2>9, Ways
    <3>4. Explains(w, p, after)
      BY <2>6, <2>7, <3>1, <3>2, <3>3, Distinct DEF Explains, States
    <3>5. w[1] = a
      BY <2>4, <2>9, ReadOp, OpsAre
    <3> QED BY <2>2, <2>5, <2>9, <3>1, <3>2, <3>4, <3>5, Distinct
  <2>10. CASE a \in {"ONLYUSER", "PASSWORD"} /\ c = "NUL"
    <3>1. to = Dgram("success")
      BY <2>1, <2>10, Ways DEF to
    <3>2. n >= 3 /\ w[1] \in WithArguments
      BY <2>4, <2>10, ReadOnlyUser, ReadPassword DEF WithArguments
    <3>3. parser.onSuccess = w[1] /\ w[1] \in Operations
      BY <3>2, OpsAre DEF Explains
    <3>4. after.state = Dgram(w[1])
      BY <2>3, <3>1, <3>3
    <3>5. \A b \in Reads : ~SymbolEdge(a, c, b)
      BY <2>10, Ways
    <3>6. Explains(w, p, after)
      BY <2>6, <2>7, <3>3, <3>4, <3>5, Distinct DEF Explains, States
    <3> QED BY <2>2, <2>5, <2>10, <3>3, <3>4, <3>6, Distinct
  <2>11. CASE /\ ~\E y : SymbolEdge(a, c, y)
              /\ ~(a \in Bare \cup {"ONLYUSER", "PASSWORD"} /\ c = "NUL")
    <3>1. to = Invalid
      BY <2>1, <2>11, Ways DEF to
    <3>2. after.state = Invalid
      BY <2>3, <3>1, Distinct
    <3>3. Explains(w, p, after)
      BY <2>6, <2>7, <2>11, <3>2, Distinct DEF Explains, States, Invalid
    <3> QED BY <2>2, <2>5, <2>11, <3>2, <3>3, Distinct
  <2> QED BY <2>8, <2>9, <2>10, <2>11
<1>5. s \in States
  BY DEF Explains
<1> QED BY <1>0, <1>2, <1>3, <1>4, <1>5 DEF States

-----------------------------------------------------------------------------
(***************************************************************************)
(* The end of the line.                                                    *)
(***************************************************************************)
LEMMA SameText ==
    ASSUME NEW v, NEW w, NEW n \in Nat, \A k \in 1..n : v[k] = w[k],
           NEW i \in Nat \ {0}, NEW j \in Nat, j <= n
    PROVE  Text(v, i, j) <=> Text(w, i, j)
<1>1. \A k \in i..j : k \in 1..n
  OBVIOUS
<1> QED BY <1>1 DEF Text

\* Whether the first n symbols are a command is a matter of the first n symbols.
LEMMA SameSpelled ==
    ASSUME NEW v, NEW w, NEW n \in Nat, \A k \in 1..n : v[k] = w[k]
    PROVE  Spelled(v, n) => Spelled(w, n)
<1> SUFFICES ASSUME Spelled(v, n) PROVE Spelled(w, n)
  OBVIOUS
<1>1. CASE n = 1 /\ v[1] \in Bare
  BY <1>1 DEF Spelled
<1>2. CASE HasRead(v, n, "ONLYUSER")
  <2>1. n >= 3 /\ v[1] = "DU" /\ v[2] = "SP" /\ Text(v, 3, n)
    BY <1>2, ReadOnlyUser
  <2>2. w[1] = v[1] /\ w[2] = v[2] /\ Text(w, 3, n)
    BY <2>1, SameText
  <2> QED BY <2>1, <2>2, ReadOnlyUser DEF Spelled
<1>3. CASE HasRead(v, n, "PASSWORD")
  <2>1. v[1] \in {"AU", "MP"} /\ v[2] = "SP"
    BY <1>3, ReadPassword
  <2>2. PICK i \in 4..(n - 1) : Text(v, 3, i - 1) /\ v[i] = "SP" /\ Text(v, i + 1, n)
    BY <1>3, ReadPassword
  <2>3. w[1] = v[1] /\ w[2] = v[2] /\ w[i] = v[i]
    BY <2>2
  <2>4. Text(w, 3, i - 1)
    BY <2>2, SameText
  <2>5. Text(w, i + 1, n)
    BY <2>2, SameText
  <2> QED BY <2>1, <2>2, <2>3, <2>4, <2>5, ReadPassword DEF Spelled
<1> QED BY <1>1, <1>2, <1>3 DEF Spelled

\* A command begins with its operation, and has no NUL in it.
LEMMA SpelledWithoutNul ==
    ASSUME NEW w, NEW n \in Nat, Spelled(w, n)
    PROVE  n >= 1 /\ w[1] \in Operations /\ \A k \in 1..n : w[k] # "NUL"
<1>1. CASE n = 1 /\ w[1] \in Bare
  BY <1>1 DEF Bare, Operations
<1>2. CASE HasRead(w, n, "ONLYUSER")
  <2>1. n >= 3 /\ w[1] = "DU" /\ w[2] = "SP" /\ Text(w, 3, n)
    BY <1>2, ReadOnlyUser
  <2> QED BY <2>1 DEF Text, Separators, Operations
<1>3. CASE HasRead(w, n, "PASSWORD")
  <2>1. w[1] \in {"AU", "MP"} /\ w[2] = "SP"
    BY <1>3, ReadPassword
  <2>2. PICK i \in 4..(n - 1) : Text(w, 3, i - 1) /\ w[i] = "SP" /\ Text(w, i + 1, n)
    BY <1>3, ReadPassword
  <2> QED BY <2>1, <2>2 DEF Text, Separators, Operations
<1> QED BY <1>1, <1>2, <1>3 DEF Spelled

\* What the automaton has made of a line once it has read the NUL after it.
LEMMA LineDecided ==
    ASSUME NEW S, NEW line \in Seq(S), NEW onSuccess, NEW state,
           state = ParsedLine(line, onSuccess).state
    PROVE  /\ Spelled(line, Len(line)) => state = Dgram(line[1]) /\ line[1] \in Operations
           /\ ~Spelled(line, Len(line)) =>
                IF \E k \in 1..Len(line) : line[k] = "NUL" /\ Spelled(line, k - 1)
                THEN state = Dgram("DISCARD") ELSE state = Invalid
<1> DEFINE w == Append(line, "NUL")
           N == Len(line)
           P == Parsing(w, onSuccess)
<1>1. N \in Nat /\ Len(w) = N + 1 /\ w[N + 1] = "NUL" /\ \A k \in 1..N : w[k] = line[k]
  OBVIOUS
<1>2. /\ P[0] = Start(onSuccess)
      /\ \A n \in 1..(N + 1) : P[n] = parseMp3pCharacter(P[n - 1], w[n])
  <2>1. Len(w) \in Nat
    BY <1>1
  <2>2. /\ P[0] = Start(onSuccess)
        /\ \A n \in 1..Len(w) : P[n] = parseMp3pCharacter(P[n - 1], w[n])
    <3> HIDE DEF w
    <3> QED BY <2>1, ParsingStep
  <2> HIDE DEF w, P, N
  <2> QED BY <1>1, <2>2
<1>3. state = P[N + 1].state
  BY DEF ParsedLine
<1> HIDE DEF w, P, N
<1>4. Explains(w, 0, P[0])
  <2>1. P[0].state = Read("THIRDNEWLINE") /\ "THIRDNEWLINE" \in Reads
    BY <1>2 DEF Start, Reads
  <2>2. ASSUME NEW what \in Reads PROVE HasRead(w, 0, what) <=> what = "THIRDNEWLINE"
    BY DEF HasRead, Text
  <2> QED BY <2>1, <2>2, Distinct DEF Explains, States
<1>5. \A n \in 0..(N + 1) : Explains(w, n, P[n])
  <2> DEFINE T == {n \in 0..(N + 1) : Explains(w, n, P[n])}
  <2>1. 0 \in T
    BY <1>1, <1>4
  <2>2. ASSUME NEW n \in 0..((N + 1) - 1), n \in T PROVE n + 1 \in T
    <3>1. n \in Nat /\ n + 1 \in 1..(N + 1) /\ (n + 1) - 1 = n
      BY <1>1
    <3>2. P[n + 1] = parseMp3pCharacter(P[n], w[n + 1])
      BY <1>2, <3>1
    <3>3. Explains(w, n + 1, P[n + 1])
      BY <2>2, <3>1, <3>2, OneSymbol
    <3> QED BY <1>1, <3>1, <3>3
  <2>3. N + 1 \in Nat
    BY <1>1
  <2> HIDE DEF T
  <2>4. \A n \in 0..(N + 1) : n \in T
    BY <2>1, <2>2, <2>3, InductTo
  <2> QED BY <2>4 DEF T
\* One symbol after the other.
<1>6. ASSUME NEW k \in 1..(N + 1)
      PROVE  /\ \A op \in Operations : P[k].state = Dgram(op) <=>
                    w[k] = "NUL" /\ Spelled(w, k - 1) /\ op = w[1]
             /\ P[k].state = Dgram("DISCARD") <=>
                    P[k - 1].state \in {Dgram(what) : what \in Operations}
                                        \cup {Dgram("DISCARD")}
             /\ w[k] = "NUL" => \A y \in Reads : P[k].state # Read(y)
  <2>1. k - 1 \in Nat /\ k \in Nat /\ k = (k - 1) + 1 /\ k - 1 \in 0..(N + 1)
    BY <1>1
  <2>2. Explains(w, k - 1, P[k - 1]) /\ P[k] = parseMp3pCharacter(P[k - 1], w[k])
    BY <1>2, <1>5, <2>1
  <2>3. Explains(w, k, P[k])
    BY <1>5, <2>1
  <2>4. ASSUME w[k] = "NUL", NEW y \in Reads, P[k].state = Read(y) PROVE FALSE
    <3>1. HasRead(w, k, y)
      BY <2>3, <2>4 DEF Explains
    <3>2. PICK a \in Reads : SymbolEdge(a, w[k], y)
      BY <2>1, <3>1, Back
    <3> QED BY <2>4, <3>2, Ways
  <2> QED BY <2>1, <2>2, <2>4, OneSymbol
\* Once a command is complete any further symbol discards the datagram.
<1> DEFINE Complete(k) == w[k] = "NUL" /\ Spelled(w, k - 1)
<1>7. \A n \in 0..(N + 1) :
         P[n].state = Dgram("DISCARD") <=> \E k \in 1..(n - 1) : Complete(k)
  <2> DEFINE T == {n \in 0..(N + 1) :
                      P[n].state = Dgram("DISCARD") <=> \E k \in 1..(n - 1) : Complete(k)}
  <2>1. 0 \in T
    <3>1. P[0].state # Dgram("DISCARD")
      BY <1>2, Distinct DEF Start
    <3> QED BY <1>1, <3>1
  <2>2. ASSUME NEW n \in 0..((N + 1) - 1), n \in T PROVE n + 1 \in T
    <3>1. n \in Nat /\ n + 1 \in 1..(N + 1) /\ (n + 1) - 1 = n /\ n + 1 \in 0..(N + 1)
      BY <1>1
    <3>2. P[n + 1].state = Dgram("DISCARD") <=>
            P[n].state \in {Dgram(what) : what \in Operations} \cup {Dgram("DISCARD")}
      BY <1>6, <3>1
    <3>3. P[n].state \in {Dgram(what) : what \in Operations} <=> n >= 1 /\ Complete(n)
      <4>1. CASE n = 0
        <5>1. P[n].state = Read("THIRDNEWLINE")
          BY <1>2, <4>1 DEF Start
        <5> QED BY <4>1, <5>1, Distinct
      <4>2. CASE n # 0
        <5>1. n \in 1..(N + 1) /\ n - 1 \in Nat
          BY <1>1, <3>1, <4>2
        <5>2. \A op \in Operations : P[n].state = Dgram(op) <=> Complete(n) /\ op = w[1]
          BY <1>6, <5>1
        <5>3. Complete(n) => w[1] \in Operations
          BY <5>1, SpelledWithoutNul
        <5> HIDE DEF Complete
        <5> QED BY <3>1, <4>2, <5>2, <5>3
      <4> QED BY <4>1, <4>2
    <3> HIDE DEF Complete
    <3>4. (\E k \in 1..((n + 1) - 1) : Complete(k))
            <=> (\E k \in 1..(n - 1) : Complete(k)) \/ (n >= 1 /\ Complete(n))
      BY <3>1
    <3> QED BY <2>2, <3>1, <3>2, <3>3, <3>4
  <2>3. N + 1 \in Nat
    BY <1>1
  <2> HIDE DEF T
  <2>4. \A n \in 0..(N + 1) : n \in T
    BY <2>1, <2>2, <2>3, InductTo
  <2> QED BY <2>4 DEF T
\* The line and the text it is followed by a NUL in.
<1>8. \A n \in 0..N : Spelled(w, n) <=> Spelled(line, n)
  BY <1>1, SameSpelled
<1>9. ASSUME Spelled(line, N) PROVE state = Dgram(line[1]) /\ line[1] \in Operations
  <2>1. N + 1 \in 1..(N + 1) /\ (N + 1) - 1 = N /\ N \in 0..N
    BY <1>1
  <2>2. Spelled(w, N) /\ N >= 1 /\ w[1] \in Operations /\ w[1] = line[1]
    BY <1>1, <1>8, <1>9, <2>1, SpelledWithoutNul
  <2>3. P[N + 1].state = Dgram(w[1])
    BY <1>1, <1>6, <2>1, <2>2
  <2> QED BY <1>3, <2>2, <2>3
<1>10. ASSUME ~Spelled(line, N)
       PROVE  IF \E k \in 1..N : line[k] = "NUL" /\ Spelled(line, k - 1)
              THEN state = Dgram("DISCARD") ELSE state = Invalid
  <2>1. N + 1 \in 1..(N + 1) /\ (N + 1) - 1 = N /\ N \in 0..N /\ N + 1 \in 0..(N + 1)
    BY <1>1
  <2>2. state = Dgram("DISCARD") <=> \E k \in 1..N : Complete(k)
    BY <1>3, <1>7, <2>1
  <2>3. \A k \in 1..N : Complete(k) <=> line[k] = "NUL" /\ Spelled(line, k - 1)
    <3>1. \A k \in 1..N : k - 1 \in 0..N
      BY <1>1
    <3> QED BY <1>1, <1>8, <3>1
  <2>4. state \in States
    BY <1>3, <1>5, <2>1 DEF Explains
  <2>5. \A op \in Operations : state # Dgram(op)
    BY <1>3, <1>6, <1>8, <1>10, <2>1
  <2>6. \A y \in Reads : state # Read(y)
    BY <1>1, <1>3, <1>6, <2>1
  <2> HIDE DEF Complete
  <2> QED BY <2>2, <2>3, <2>4, <2>5, <2>6 DEF States
<1> QED BY <1>9, <1>10 DEF N
-----------------------------------------------------------------------------
(***************************************************************************)
(* The grammar of Commands, position by position.                          *)
(***************************************************************************)
LEMMA WordIs ==
    ASSUME NEW S, NEW line \in Seq(S), NEW i \in 1..(Len(line) + 1), NEW j \in 0..Len(line)
    PROVE  IsWord(SubSeq(line, i, j)) <=> i <= j /\ Text(line, i, j)
<1> DEFINE s == SubSeq(line, i, j)
<1>1. Len(line) \in Nat
  OBVIOUS
<1>2. CASE i <= j
  <2>1. Len(s) = j - i + 1 /\ \A k \in 1..(j - i + 1) : s[k] = line[i + k - 1]
    BY <1>1, <1>2
  <2>2. s # <<>> /\ DOMAIN s = 1..(j - i + 1)
    BY <1>1, <1>2, <2>1
  <2> HIDE DEF s
  <2>3. ASSUME IsWord(s) PROVE Text(line, i, j)
    <3>1. ASSUME NEW k \in i..j PROVE line[k] \notin Separators
      <4>1. k - i + 1 \in 1..(j - i + 1) /\ i + (k - i + 1) - 1 = k
        BY <1>1, <1>2
      <4> QED BY <2>1, <2>2, <2>3, <4>1 DEF IsWord
    <3> QED BY <3>1 DEF Text
  <2>4. ASSUME Text(line, i, j) PROVE IsWord(s)
    <3>1. ASSUME NEW k \in 1..(j - i + 1) PROVE s[k] \notin Separators
      <4>1. i + k - 1 \in i..j
        BY <1>1, <1>2
      <4> QED BY <2>1, <2>4, <4>1 DEF Text
    <3> QED BY <2>2, <3>1 DEF IsWord
  <2> QED BY <1>2, <2>3, <2>4 DEF s
<1>3. CASE ~(i <= j)
  <2>1. s = <<>>
    BY <1>1, <1>3
  <2> QED BY <1>3, <2>1 DEF IsWord
<1> QED BY <1>2, <1>3

\* A line is its first two symbols and the rest.
LEMMA CutOne ==
    ASSUME NEW S, NEW line \in Seq(S), NEW op, Len(line) >= 3
    PROVE  line = <<op, "SP">> \o SubSeq(line, 3, Len(line))
             <=> line[1] = op /\ line[2] = "SP"
<1> DEFINE n == Len(line)
           a == SubSeq(line, 3, n)
           b == <<op, "SP">>
           q == b \o a
<1>1. n \in Nat /\ n >= 3 /\ DOMAIN line = 1..n
  OBVIOUS
<1>2. Len(a) = n - 2 /\ \A k \in 1..(n - 2) : a[k] = line[k + 2]
  BY <1>1
<1>3. Len(b) = 2 /\ b[1] = op /\ b[2] = "SP"
  OBVIOUS
<1>4. Len(q) = n /\ DOMAIN q = 1..n
  BY <1>1, <1>2, <1>3
<1>5. \A k \in 1..n : q[k] = IF k <= 2 THEN b[k] ELSE a[k - 2]
  BY <1>1, <1>2, <1>3
<1>6. q[1] = op /\ q[2] = "SP"
  <2>1. 1 \in 1..n /\ 2 \in 1..n
    BY <1>1
  <2> HIDE DEF q, a, b, n
  <2> QED BY <1>3, <1>5, <2>1
<1>7. ASSUME line[1] = op, line[2] = "SP" PROVE q = line
  <2>1. ASSUME NEW k \in 1..n PROVE q[k] = line[k]
    <3>1. CASE k <= 2
      <4>1. k = 1 \/ k = 2
        BY <1>1, <3>1
      <4> QED BY <1>6, <1>7, <4>1
    <3>2. CASE ~(k <= 2)
      <4>1. k - 2 \in 1..(n - 2) /\ (k - 2) + 2 = k
        BY <1>1, <3>2
      <4> HIDE DEF q, a, b, n
      <4> QED BY <1>2, <1>5, <3>2, <4>1
    <3> QED BY <3>1, <3>2
  <2>2. q = [k \in 1..n |-> q[k]] /\ line = [k \in 1..n |-> line[k]]
    BY <1>1, <1>4
  <2> HIDE DEF q, n
  <2> QED BY <2>1, <2>2
<1> HIDE DEF n
<1> QED BY <1>6, <1>7

\* A line is its first two symbols, what stands before position i, a space and the
\* rest.
LEMMA CutTwo ==
    ASSUME NEW S, NEW line \in Seq(S), NEW op, NEW i \in 4..(Len(line) - 1)
    PROVE  line = <<op, "SP">> \o SubSeq(line, 3, i - 1) \o <<"SP">>
                    \o SubSeq(line, i + 1, Len(line))
             <=> line[1] = op /\ line[2] = "SP" /\ line[i] = "SP"
<1> DEFINE n == Len(line)
           a == SubSeq(line, 3, i - 1)
           b == SubSeq(line, i + 1, n)
           h == <<op, "SP">>
           p == h \o a
           q == p \o <<"SP">>
           r == q \o b
<1>1. n \in Nat /\ n >= 5 /\ i \in 4..(n - 1) /\ DOMAIN line = 1..n
  OBVIOUS
<1>2. Len(a) = i - 3 /\ \A k \in 1..(i - 3) : a[k] = line[k + 2]
  BY <1>1
<1>3. Len(b) = n - i /\ \A k \in 1..(n - i) : b[k] = line[k + i]
  BY <1>1
<1>4. Len(h) = 2 /\ h[1] = op /\ h[2] = "SP"
  OBVIOUS
<1>5. Len(p) = i - 1 /\ \A k \in 1..(i - 1) : p[k] = IF k <= 2 THEN h[k] ELSE a[k - 2]
  BY <1>1, <1>2, <1>4
<1>6. Len(q) = i /\ q[i] = "SP" /\ \A k \in 1..(i - 1) : q[k] = p[k]
  <2> HIDE DEF p
  <2>1. p \in Seq(S \cup {op, "SP"})
    BY DEF p
  <2> QED BY <1>1, <1>5, <2>1
<1>7. r = [k \in 1..n |-> IF k <= i THEN q[k] ELSE b[k - i]]
  <2>1. q \in Seq(S \cup {op, "SP"}) /\ b \in Seq(S \cup {op, "SP"})
    OBVIOUS
  <2> HIDE DEF q, b, n
  <2>2. Len(q) + Len(b) = n /\ Len(q) = i
    BY <1>1, <1>3, <1>6
  <2>3. /\ r \in Seq(S \cup {op, "SP"}) /\ Len(r) = n
        /\ \A k \in 1..n : r[k] = IF k <= i THEN q[k] ELSE b[k - i]
    BY <2>1, <2>2, ConcatProperties, Zenon
  <2> HIDE DEF r
  <2> QED BY <2>3
<1> HIDE DEF a, b, h, p, q, r, n
<1>8. r[1] = op /\ r[2] = "SP" /\ r[i] = "SP"
  <2>1. /\ 1 \in 1..n /\ 2 \in 1..n /\ i \in 1..n /\ 1 <= i /\ 2 <= i /\ i <= i
        /\ 1 \in 1..(i - 1) /\ 2 \in 1..(i - 1)
    BY <1>1
  <2> QED BY <1>4, <1>5, <1>6, <1>7, <2>1
<1>9. ASSUME line[1] = op, line[2] = "SP", line[i] = "SP" PROVE r = line
  <2>1. ASSUME NEW k \in 1..n PROVE r[k] = line[k]
    <3>1. CASE k = 1 \/ k = 2 \/ k = i
      BY <1>8, <1>9, <3>1
    <3>2. CASE k > 2 /\ k < i
      <4>1. k \in 1..(i - 1) /\ k <= i /\ ~(k <= 2) /\ k - 2 \in 1..(i - 3) /\ (k - 2) + 2 = k
        BY <1>1, <3>2
      <4>2. r[k] = q[k] /\ q[k] = p[k] /\ p[k] = a[k - 2]
        BY <1>5, <1>6, <1>7, <4>1
      <4> QED BY <1>2, <4>1, <4>2
    <3>3. CASE k > i
      <4>1. ~(k <= i) /\ k - i \in 1..(n - i) /\ (k - i) + i = k
        BY <1>1, <3>3
      <4> QED BY <1>3, <1>7, <4>1
    <3>4. k = 1 \/ k = 2 \/ k = i \/ (k > 2 /\ k < i) \/ k > i
      BY <1>1
    <3> QED BY <3>1, <3>2, <3>3, <3>4
  <2>2. line = [k \in 1..n |-> line[k]]
    BY <1>1
  <2>3. r = [k \in 1..n |-> r[k]]
    BY <1>7
  <2> QED BY <2>1, <2>2, <2>3
<1> QED BY <1>8, <1>9 DEF a, b, h, p, q, r, n

LEMMA SpellsNone ==
    ASSUME NEW S, NEW line \in Seq(S), line # <<>>
    PROVE  Spells(line, line[1], <<>>) <=> Len(line) = 1 /\ line[1] \in Bare
<1>1. line = <<line[1]>> <=> Len(line) = 1
  OBVIOUS
<1>2. Spells(line, line[1], <<>>) <=> line[1] \in BareOps /\ line = <<line[1]>>
  BY DEF Spells
<1> QED BY <1>1, <1>2 DEF BareOps, Bare

LEMMA SpellsOne ==
    ASSUME NEW S, NEW line \in Seq(S)
    PROVE  Spells(line, line[1], <<SubSeq(line, 3, Len(line))>>)
             <=> HasRead(line, Len(line), "ONLYUSER")
<1> DEFINE n == Len(line)
           a == SubSeq(line, 3, n)
<1>1. n \in Nat
  OBVIOUS
<1>2. Spells(line, line[1], <<a>>) <=>
        line[1] = "DU" /\ IsWord(a) /\ line = <<line[1], "SP">> \o a
  <2> HIDE DEF a
  <2> QED BY DEF Spells
<1>3. ASSUME n >= 3
      PROVE  Spells(line, line[1], <<a>>) <=> HasRead(line, n, "ONLYUSER")
  <2>1. IsWord(a) <=> Text(line, 3, n)
    <3>1. 3 \in 1..(n + 1) /\ n \in 0..n /\ 3 <= n
      BY <1>1, <1>3
    <3> QED BY <3>1, WordIs
  <2>2. line = <<line[1], "SP">> \o a <=> line[2] = "SP"
    BY <1>3, CutOne
  <2> HIDE DEF a, n
  <2> QED BY <1>2, <1>3, <2>1, <2>2, ReadOnlyUser
<1>4. ASSUME ~(n >= 3)
      PROVE  Spells(line, line[1], <<a>>) <=> HasRead(line, n, "ONLYUSER")
  <2>1. a = <<>>
    BY <1>1, <1>4
  <2>2. ~IsWord(a)
    BY <2>1 DEF IsWord
  <2> HIDE DEF a, n
  <2> QED BY <1>2, <1>4, <2>2, ReadOnlyUser
<1> QED BY <1>3, <1>4

\* A name before position i and a password after it.
TwoWords(line, i) ==
    /\ line[1] \in {"AU", "MP"} /\ line[2] = "SP" /\ line[i] = "SP"
    /\ i \in 4..(Len(line) - 1) /\ Text(line, 3, i - 1) /\ Text(line, i + 1, Len(line))

LEMMA SpellsTwo ==
    ASSUME NEW S, NEW line \in Seq(S), NEW i \in 3..Len(line)
    PROVE  Spells(line, line[1],
                  <<SubSeq(line, 3, i - 1), SubSeq(line, i + 1, Len(line))>>)
             <=> TwoWords(line, i)
<1> DEFINE n == Len(line)
           a == SubSeq(line, 3, i - 1)
           b == SubSeq(line, i + 1, n)
<1>1. n \in Nat /\ i \in 3..n /\ i - 1 \in Nat
  OBVIOUS
<1>2. Spells(line, line[1], <<a, b>>) <=>
        /\ line[1] \in {"AU", "MP"} /\ IsWord(a) /\ IsWord(b)
        /\ line = <<line[1], "SP">> \o a \o <<"SP">> \o b
  <2> DEFINE words == <<a, b>>
  <2>1. Len(words) = 2 /\ words[1] = a /\ words[2] = b
    OBVIOUS
  <2> HIDE DEF a, b, words
  <2>2. Spells(line, line[1], words) <=>
          /\ line[1] \in {"AU", "MP"} /\ IsWord(words[1]) /\ IsWord(words[2])
          /\ line = <<line[1], "SP">> \o words[1] \o <<"SP">> \o words[2]
    BY <2>1, SMTT(20) DEF Spells
  <2> QED BY <2>1, <2>2 DEF words
<1>3. IsWord(a) <=> 3 <= i - 1 /\ Text(line, 3, i - 1)
  <2>1. 3 \in 1..(n + 1) /\ i - 1 \in 0..n
    BY <1>1
  <2> QED BY <2>1, WordIs
<1>4. IsWord(b) <=> i + 1 <= n /\ Text(line, i + 1, n)
  <2>1. i + 1 \in 1..(n + 1) /\ n \in 0..n
    BY <1>1
  <2> QED BY <2>1, WordIs
<1>5. 3 <= i - 1 /\ i + 1 <= n <=> i \in 4..(n - 1)
  BY <1>1
<1>6. TwoWords(line, i) <=>
        /\ line[1] \in {"AU", "MP"} /\ line[2] = "SP" /\ line[i] = "SP"
        /\ i \in 4..(n - 1) /\ Text(line, 3, i - 1) /\ Text(line, i + 1, n)
  BY DEF TwoWords
<1>7. ASSUME i \in 4..(n - 1)
      PROVE  Spells(line, line[1], <<a, b>>) <=> TwoWords(line, i)
  <2>1. line = <<line[1], "SP">> \o a \o <<"SP">> \o b <=> line[2] = "SP" /\ line[i] = "SP"
    BY <1>7, CutTwo
  <2> HIDE DEF a, b, n
  <2> QED BY <1>2, <1>3, <1>4, <1>5, <1>7, <1>6, <2>1
<1>8. ASSUME i \notin 4..(n - 1)
      PROVE  Spells(line, line[1], <<a, b>>) <=> TwoWords(line, i)
  <2> HIDE DEF a, b, n
  <2> QED BY <1>2, <1>3, <1>4, <1>5, <1>8, <1>6
<1> QED BY <1>7, <1>8

LEMMA PasswordIs ==
    ASSUME NEW S, NEW line \in Seq(S)
    PROVE  HasRead(line, Len(line), "PASSWORD") <=> \E i \in 3..Len(line) : TwoWords(line, i)
<1> DEFINE n == Len(line)
<1>1. n \in Nat /\ \A i \in 4..(n - 1) : i \in 3..n
  OBVIOUS
<1>2. HasRead(line, n, "PASSWORD") <=>
        /\ line[1] \in {"AU", "MP"} /\ line[2] = "SP"
        /\ \E i \in 4..(n - 1) : /\ Text(line, 3, i - 1) /\ line[i] = "SP"
                                 /\ Text(line, i + 1, n)
  BY ReadPassword
<1>3. \A i : TwoWords(line, i) <=>
        /\ line[1] \in {"AU", "MP"} /\ line[2] = "SP" /\ line[i] = "SP"
        /\ i \in 4..(n - 1) /\ Text(line, 3, i - 1) /\ Text(line, i + 1, n)
  BY DEF TwoWords
<1> HIDE DEF n
<1>4. HasRead(line, n, "PASSWORD") <=> \E i \in 3..n : TwoWords(line, i)
  BY <1>1, <1>2, <1>3
<1> QED BY <1>4 DEF n

\* The grammar's well formed commands are those the automaton spells.
LEMMA WellFormedIs ==
    ASSUME NEW S, NEW line \in Seq(S)
    PROVE  WellFormed(line) <=> Spelled(line, Len(line))
<1> DEFINE n == Len(line)
           a == SubSeq(line, 3, n)
           Pair(i) == <<SubSeq(line, 3, i - 1), SubSeq(line, i + 1, n)>>
<1>1. n \in Nat /\ (line = <<>> <=> n = 0)
  OBVIOUS
<1>2. Cuts(line) = {<<>>, <<a>>} \cup {Pair(i) : i \in 3..n}
  BY DEF Cuts
<1>3. Spells(line, line[1], <<a>>) <=> HasRead(line, n, "ONLYUSER")
  BY SpellsOne
<1>4. \A i \in 3..n : Spells(line, line[1], Pair(i)) <=> TwoWords(line, i)
  BY SpellsTwo
<1>5. HasRead(line, n, "PASSWORD") <=> \E i \in 3..n : TwoWords(line, i)
  BY PasswordIs
<1>6. line # <<>> => (Spells(line, line[1], <<>>) <=> n = 1 /\ line[1] \in Bare)
  BY SpellsNone
<1>7. line = <<>> => ~Spelled(line, n)
  BY <1>1, SpelledWithoutNul
<1> HIDE DEF n, a, Pair
<1>8. WellFormed(line) <=>
        line # <<>> /\ (\/ Spells(line, line[1], <<>>) \/ Spells(line, line[1], <<a>>)
                        \/ \E i \in 3..n : Spells(line, line[1], Pair(i)))
  BY <1>2 DEF WellFormed
<1>9. Spelled(line, n) <=>
        \/ n = 1 /\ line[1] \in Bare
        \/ HasRead(line, n, "ONLYUSER") \/ HasRead(line, n, "PASSWORD")
  BY DEF Spelled
<1> QED BY <1>3, <1>4, <1>5, <1>6, <1>7, <1>8, <1>9 DEF n

\* The arguments of a well formed command, which has them in one way only.
LEMMA ArgumentsOne ==
    ASSUME NEW S, NEW line \in Seq(S), HasRead(line, Len(line), "ONLYUSER")
    PROVE  Arguments(line) = <<SubSeq(line, 3, Len(line))>>
<1> DEFINE n == Len(line)
           a == SubSeq(line, 3, n)
           Pair(i) == <<SubSeq(line, 3, i - 1), SubSeq(line, i + 1, n)>>
<1>1. Cuts(line) = {<<>>, <<a>>} \cup {Pair(i) : i \in 3..n}
  BY DEF Cuts
<1>2. Spells(line, line[1], <<a>>)
  BY SpellsOne
<1>3. line[1] = "DU" /\ n >= 3
  BY ReadOnlyUser
<1>4. \A i \in 3..n : ~Spells(line, line[1], Pair(i))
  BY <1>3, SpellsTwo DEF TwoWords
<1>5. ~Spells(line, line[1], <<>>)
  BY <1>3 DEF Spells, BareOps
<1> HIDE DEF a, Pair, n
<1>6. Arguments(line) \in Cuts(line) /\ Spells(line, line[1], Arguments(line))
  BY <1>1, <1>2 DEF Arguments
<1> QED BY <1>1, <1>4, <1>5, <1>6 DEF a, n

LEMMA ArgumentsTwo ==
    ASSUME NEW S, NEW line \in Seq(S), NEW i \in 3..Len(line), TwoWords(line, i)
    PROVE  Arguments(line)
             = <<SubSeq(line, 3, i - 1), SubSeq(line, i + 1, Len(line))>>
<1> DEFINE n == Len(line)
           a == SubSeq(line, 3, n)
           Pair(k) == <<SubSeq(line, 3, k - 1), SubSeq(line, k + 1, n)>>
<1>1. Cuts(line) = {<<>>, <<a>>} \cup {Pair(k) : k \in 3..n}
  BY DEF Cuts
<1>2. \A k \in 3..n : Spells(line, line[1], Pair(k)) <=> TwoWords(line, k)
  BY SpellsTwo
<1>3. n \in Nat /\ n >= 5 /\ i \in 4..(n - 1) /\ line[1] \in {"AU", "MP"}
  BY DEF TwoWords
<1>4. ~Spells(line, line[1], <<>>)
  BY <1>3 DEF Spells, BareOps
<1>5. ~Spells(line, line[1], <<a>>)
  BY <1>3, SpellsOne, ReadOnlyUser
<1>6. ASSUME NEW k \in 3..n, TwoWords(line, k) PROVE k = i
  <2>1. line[i] = "SP" /\ line[k] = "SP" /\ "SP" \in Separators
    BY <1>6 DEF TwoWords, Separators
  <2>2. ~(k < i)
    <3>1. k < i => k \in 3..(i - 1)
      BY <1>3
    <3> QED BY <2>1, <3>1 DEF TwoWords, Text
  <2>3. ~(i < k)
    <3>1. i < k => i \in 3..(k - 1)
      BY <1>3
    <3> QED BY <1>6, <2>1, <3>1 DEF TwoWords, Text
  <2> QED BY <1>3, <2>2, <2>3
<1> HIDE DEF a, Pair
<1>7. Arguments(line) \in Cuts(line) /\ Spells(line, line[1], Arguments(line))
  BY <1>1, <1>2 DEF Arguments
<1>8. PICK k \in 3..n : Arguments(line) = Pair(k)
  BY <1>1, <1>4, <1>5, <1>7
<1>9. k = i
  BY <1>2, <1>6, <1>7, <1>8
<1> QED BY <1>8, <1>9 DEF Pair

-----------------------------------------------------------------------------
(***************************************************************************)
(* What the strategies cut from a command, and what they do with it.       *)
(***************************************************************************)
LEMMA LeastIs ==
    ASSUME NEW I \in SUBSET Int, NEW x \in I, \A y \in I : x <= y
    PROVE  Min(I) = x
<1>1. \A z \in I : (\A y \in I : z <= y) => z = x
  OBVIOUS
<1> QED BY <1>1 DEF Min

LEMMA GreatestIs ==
    ASSUME NEW I \in SUBSET Int, NEW x \in I, \A y \in I : y <= x
    PROVE  Max(I) = x
<1>1. \A z \in I : (\A y \in I : z >= y) => z = x
  OBVIOUS
<1> QED BY <1>1 DEF Max

\* The first space is the one after the operation.
LEMMA FirstSpace ==
    ASSUME NEW S, NEW line \in Seq(S), Len(line) >= 2, line[1] # "SP", line[2] = "SP"
    PROVE  SelectInSeq(line, IsSpace) = 2
<1> DEFINE I == {k \in 1..Len(line) : IsSpace(line[k])}
<1>1. 2 \in I /\ I \in SUBSET Int
  BY DEF IsSpace
<1>2. ASSUME NEW k \in I PROVE 2 <= k
  BY <1>2 DEF IsSpace
<1>3. SelectInSeq(line, IsSpace) = IF I # {} THEN Min(I) ELSE 0
  BY DEF SelectInSeq
<1> HIDE DEF I
<1>4. Min(I) = 2
  BY <1>1, <1>2, LeastIs
<1> QED BY <1>1, <1>3, <1>4

\* The next one.
LEMMA NextSpace ==
    ASSUME NEW S, NEW line \in Seq(S), NEW i \in 3..Len(line), line[i] = "SP",
           Text(line, 3, i - 1)
    PROVE  SelectInSubSeq(line, 3, Len(line), IsSpace) = i
<1> DEFINE I == {k \in 3..Len(line) : IsSpace(line[k])}
<1>1. i \in I /\ I \in SUBSET Int
  BY DEF IsSpace
<1>2. ASSUME NEW k \in I PROVE i <= k
  <2>1. k < i => k \in 3..(i - 1)
    OBVIOUS
  <2>2. line[k] = "SP" /\ "SP" \in Separators
    BY DEF IsSpace, Separators
  <2> QED BY <2>1, <2>2 DEF Text
<1>3. SelectInSubSeq(line, 3, Len(line), IsSpace) = IF I # {} THEN Min(I) ELSE 0
  BY DEF SelectInSubSeq
<1> HIDE DEF I
<1>4. Min(I) = i
  BY <1>1, <1>2, LeastIs
<1> QED BY <1>1, <1>3, <1>4

LEMMA NoNextSpace ==
    ASSUME NEW S, NEW line \in Seq(S), Text(line, 3, Len(line))
    PROVE  SelectInSubSeq(line, 3, Len(line), IsSpace) = 0
<1> DEFINE I == {k \in 3..Len(line) : IsSpace(line[k])}
<1>1. I = {}
  BY DEF IsSpace, Separators, Text
<1> QED BY <1>1 DEF SelectInSubSeq

LEMMA LastSpace ==
    ASSUME NEW S, NEW line \in Seq(S), NEW i \in 3..Len(line), line[i] = "SP",
           Text(line, i + 1, Len(line))
    PROVE  SelectLastInSeq(line, IsSpace) = i
<1> DEFINE I == {k \in 1..Len(line) : IsSpace(line[k])}
<1>1. i \in I /\ I \in SUBSET Int
  BY DEF IsSpace
<1>2. ASSUME NEW k \in I PROVE k <= i
  <2>1. i < k => k \in (i + 1)..Len(line)
    OBVIOUS
  <2>2. line[k] = "SP" /\ "SP" \in Separators
    BY DEF IsSpace, Separators
  <2> QED BY <2>1, <2>2 DEF Text
<1>3. SelectLastInSeq(line, IsSpace) = IF I # {} THEN Max(I) ELSE 0
  BY DEF SelectLastInSeq
<1> HIDE DEF I
<1>4. Max(I) = i
  BY <1>1, <1>2, GreatestIs
<1> QED BY <1>1, <1>3, <1>4

\* The fields are the arguments.
LEMMA FieldsOne ==
    ASSUME NEW S, NEW line \in Seq(S), HasRead(line, Len(line), "ONLYUSER")
    PROVE  obtainUsername(line) = Arguments(line)[1]
<1>1. Len(line) >= 3 /\ line[1] = "DU" /\ line[2] = "SP" /\ Text(line, 3, Len(line))
  BY ReadOnlyUser
<1>2. SelectInSeq(line, IsSpace) = 2
  BY <1>1, FirstSpace
<1>3. SelectInSubSeq(line, 3, Len(line), IsSpace) = 0
  BY <1>1, NoNextSpace
<1>4. 2 + 1 = 3
  OBVIOUS
<1>5. obtainUsername(line) = SubSeq(line, 3, Len(line))
  BY <1>2, <1>3, <1>4 DEF obtainUsername
<1> QED BY <1>5, ArgumentsOne

LEMMA FieldsTwo ==
    ASSUME NEW S, NEW line \in Seq(S), HasRead(line, Len(line), "PASSWORD")
    PROVE  obtainUsername(line) = Arguments(line)[1] /\ obtainPassword(line) = Arguments(line)[2]
<1>1. PICK i \in 3..Len(line) : TwoWords(line, i)
  BY PasswordIs
<1>2. /\ Len(line) >= 2 /\ line[1] # "SP" /\ line[2] = "SP" /\ line[i] = "SP"
      /\ Text(line, 3, i - 1) /\ Text(line, i + 1, Len(line))
  BY <1>1 DEF TwoWords
<1>3. SelectInSeq(line, IsSpace) = 2
  BY <1>2, FirstSpace
<1>4. SelectInSubSeq(line, 3, Len(line), IsSpace) = i /\ i # 0
  BY <1>2, NextSpace
<1>5. SelectLastInSeq(line, IsSpace) = i
  BY <1>2, LastSpace
<1>6. 2 + 1 = 3
  OBVIOUS
<1>7. obtainUsername(line) = SubSeq(line, 3, i - 1)
  BY <1>3, <1>4, <1>6 DEF obtainUsername
<1>8. obtainPassword(line) = SubSeq(line, i + 1, Len(line))
  BY <1>5 DEF obtainPassword
<1>9. Arguments(line) = <<SubSeq(line, 3, i - 1), SubSeq(line, i + 1, Len(line))>>
  BY <1>1, ArgumentsTwo
<1> QED BY <1>7, <1>8, <1>9

\* The operation of a command says which of its fields are arguments.
LEMMA OperationIs ==
    ASSUME NEW S, NEW line \in Seq(S), WellFormed(line)
    PROVE  /\ line[1] \in Operations
           /\ line[1] \in {"DU", "AU", "MP"} => obtainUsername(line) = Arguments(line)[1]
           /\ line[1] \in {"AU", "MP"} => obtainPassword(line) = Arguments(line)[2]
<1>1. Spelled(line, Len(line)) /\ Len(line) \in Nat
  BY WellFormedIs
<1>2. line[1] \in Operations
  BY <1>1, SpelledWithoutNul
<1>3. CASE line[1] \in Bare
  BY <1>2, <1>3 DEF Bare
<1>4. CASE HasRead(line, Len(line), "ONLYUSER")
  BY <1>2, <1>4, ReadOnlyUser, FieldsOne
<1>5. CASE HasRead(line, Len(line), "PASSWORD")
  BY <1>2, <1>5, FieldsTwo
<1> QED BY <1>1, <1>3, <1>4, <1>5 DEF Spelled

\* A well formed command that is carried out does to the users what it says.
LEMMA CarriedOut ==
    ASSUME NEW S, NEW line \in Seq(S), WellFormed(line), NEW users
    PROVE  UsersAfter(users, line[1], line) = Effect(users, line)
<1> DEFINE name == Arguments(line)[1]
           password == Arguments(line)[2]
           op == line[1]
<1>1. /\ op \in Operations
      /\ op \in {"DU", "AU", "MP"} => obtainUsername(line) = name
      /\ op \in {"AU", "MP"} => obtainPassword(line) = password
  BY OperationIs
<1>2. Effect(users, line) =
        CASE op = "DU" -> [u \in DOMAIN users \ {name} |-> users[u]]
          [] op = "AU" \/ (op = "MP" /\ name \in DOMAIN users) ->
                [u \in DOMAIN users \cup {name} |-> IF u = name THEN password ELSE users[u]]
          [] OTHER -> users
  BY DEF Effect
<1>3. CASE op = "DU"
  <2>1. UsersAfter(users, op, line) = deleteUserNode(users, name)
    BY <1>1, <1>3 DEF UsersAfter
  <2> HIDE DEF name, password, op
  <2> QED BY <1>2, <1>3, <2>1 DEF deleteUserNode, op
<1>4. CASE op = "MP"
  <2>1. UsersAfter(users, op, line) = modifyUserPassword(users, name, password)
    BY <1>1, <1>4 DEF UsersAfter
  <2> HIDE DEF name, password, op
  <2>2. CASE name \in DOMAIN users
    <3>1. DOMAIN users \cup {name} = DOMAIN users
      BY <2>2
    <3>2. [users EXCEPT ![name] = password]
            = [u \in DOMAIN users |-> IF u = name THEN password ELSE users[u]]
      BY Zenon
    <3> QED BY <1>2, <1>4, <2>1, <2>2, <3>1, <3>2 DEF modifyUserPassword, op
  <2>3. CASE name \notin DOMAIN users
    BY <1>2, <1>4, <2>1, <2>3 DEF modifyUserPassword, op
  <2> QED BY <2>2, <2>3
<1>5. CASE op = "AU"
  <2> DEFINE longer == insertUserNode(users, name, password)
  <2>1. UsersAfter(users, op, line) = modifyUserPassword(longer, name, password)
    BY <1>1, <1>5 DEF UsersAfter
  <2> HIDE DEF name, password, op
  <2>2. longer = [u \in DOMAIN users \cup {name} |->
                    IF u \in DOMAIN users THEN users[u] ELSE password]
    BY DEF insertUserNode
  <2>3. modifyUserPassword(longer, name, password)
          = [u \in DOMAIN users \cup {name} |-> IF u = name THEN password ELSE users[u]]
    BY <2>2 DEF modifyUserPassword
  <2> QED BY <1>2, <1>5, <2>1, <2>3 DEF op
<1>6. CASE op \notin {"DU", "MP", "AU"}
  BY <1>2, <1>6 DEF UsersAfter
<1> QED BY <1>3, <1>4, <1>5, <1>6

\* And is answered by whether it found the user it needs.
LEMMA Answered ==
    ASSUME NEW S, NEW line \in Seq(S), WellFormed(line), NEW users
    PROVE  Status(users, line[1], line) = IF Found(users, line) THEN 200 ELSE 102
<1>1. /\ line[1] \in Operations
      /\ line[1] = "MP" => obtainUsername(line) = Arguments(line)[1]
  BY OperationIs
<1> QED BY <1>1 DEF Status, Found, Operations

-----------------------------------------------------------------------------
(***************************************************************************)
(* A whole datagram.                                                       *)
(***************************************************************************)
\* What the automaton decides about the line of a datagram it comes to.
LEMMA CommandIs ==
    ASSUME NEW d \in DatagramType, NEW onSuccess, d.head, d.auth # "malformed",
           NEW command, command = parseDatagram(d, onSuccess).command
    PROVE  /\ WellFormed(d.line) =>
                d.line[1] \in Operations /\ command = CheckHeaders(d, d.line[1])
           /\ ~WellFormed(d.line) =>
                command = IF \E k \in 1..Len(d.line) :
                               d.line[k] = "NUL" /\ Spelled(d.line, k - 1)
                          THEN "DISCARD" ELSE "INVALID_COMMAND"
<1> DEFINE line == d.line
           state == ParsedLine(line, onSuccess).state
<1>1. command = IF Ends(state) THEN state[2] ELSE CheckHeaders(d, state[2])
  BY DEF parseDatagram
<1>2. line \in Seq(STRING)
  BY DEF DatagramType
<1>3. /\ Spelled(line, Len(line)) => state = Dgram(line[1]) /\ line[1] \in Operations
      /\ ~Spelled(line, Len(line)) =>
           IF \E k \in 1..Len(line) : line[k] = "NUL" /\ Spelled(line, k - 1)
           THEN state = Dgram("DISCARD") ELSE state = Invalid
  BY <1>2, LineDecided
<1>4. WellFormed(line) <=> Spelled(line, Len(line))
  BY <1>2, WellFormedIs
<1> HIDE DEF state
<1>5. CASE WellFormed(line)
  <2>1. state = Dgram(line[1]) /\ line[1] \in Operations
    BY <1>3, <1>4, <1>5
  <2>2. ~Ends(state)
    BY <2>1, Distinct DEF Ends, Invalid
  <2>3. state[2] = line[1]
    BY <2>1 DEF Dgram
  <2> QED BY <1>1, <1>5, <2>1, <2>2, <2>3
<1>6. CASE ~WellFormed(line) /\ \E k \in 1..Len(line) : line[k] = "NUL" /\ Spelled(line, k - 1)
  <2>1. state = Dgram("DISCARD")
    BY <1>3, <1>4, <1>6
  <2> QED BY <1>1, <1>6, <2>1 DEF Ends, Dgram
<1>7. CASE ~WellFormed(line)
           /\ ~\E k \in 1..Len(line) : line[k] = "NUL" /\ Spelled(line, k - 1)
  <2>1. state = Invalid
    BY <1>3, <1>4, <1>7
  <2> QED BY <1>1, <1>7, <2>1 DEF Ends, Dgram, Invalid
<1> QED BY <1>5, <1>6, <1>7

\* The users after a datagram, whatever the static variable was: an accepted
\* command does what it says, and nothing else does anything.
LEMMA UsersDecided ==
    ASSUME NEW d \in DatagramType, NEW onSuccess, NEW users, NEW command,
           command = parseDatagram(d, onSuccess).command
    PROVE  (IF command = "DISCARD" THEN users ELSE UsersAfter(users, command, d.line))
             = IF d.head /\ d.auth = "key" /\ d.version = "V1.0" /\ WellFormed(d.line)
               THEN Effect(users, d.line) ELSE users
<1> DEFINE Refused == command \in {"DISCARD", "BADAUTH", "INVALID_COMMAND",
                                   "INVALID_VERSION", "INVALID_AUTHKEY"}
<1>1. Refused => UsersAfter(users, command, d.line) = users
  BY DEF UsersAfter
<1>2. CASE ~d.head
  <2>1. command = "DISCARD"
    BY <1>2 DEF parseDatagram
  <2> QED BY <1>2, <2>1
<1>3. CASE d.head /\ d.auth = "malformed"
  <2>1. command = "BADAUTH"
    BY <1>3 DEF parseDatagram
  <2> QED BY <1>1, <1>3, <2>1
<1>4. CASE d.head /\ d.auth # "malformed" /\ ~WellFormed(d.line)
  <2>1. command \in {"DISCARD", "INVALID_COMMAND"}
    BY <1>4, CommandIs
  <2> QED BY <1>1, <1>4, <2>1
<1>5. CASE d.head /\ d.auth # "malformed" /\ WellFormed(d.line)
  <2>1. d.line[1] \in Operations /\ command = CheckHeaders(d, d.line[1])
    BY <1>5, CommandIs
  <2>2. CASE d.version = "V1.0" /\ d.auth = "key"
    <3>1. command = d.line[1] /\ command # "DISCARD"
      BY <2>1, <2>2 DEF CheckHeaders, Operations
    <3>2. UsersAfter(users, d.line[1], d.line) = Effect(users, d.line)
      BY <1>5, CarriedOut DEF DatagramType
    <3> QED BY <1>5, <2>2, <3>1, <3>2
  <2>3. CASE ~(d.version = "V1.0" /\ d.auth = "key")
    <3>1. Refused
      BY <2>1, <2>3 DEF CheckHeaders
    <3> QED BY <1>1, <2>3, <3>1
  <2> QED BY <2>2, <2>3
<1> QED BY <1>2, <1>3, <1>4, <1>5

\* The static variable is as it was or an operation with arguments.
LEMMA Remembers ==
    ASSUME NEW d \in DatagramType, NEW onSuccess
    PROVE  parseDatagram(d, onSuccess).onSuccess \in WithArguments \cup {onSuccess}
<1> DEFINE line == d.line
           w == Append(line, "NUL")
           N == Len(line)
           P == Parsing(w, onSuccess)
           O == WithArguments \cup {onSuccess}
<1>1. parseDatagram(d, onSuccess).onSuccess \in {onSuccess, P[N + 1].onSuccess}
  BY DEF parseDatagram, ParsedLine
<1>2. line \in Seq(STRING)
  BY DEF DatagramType
<1>3. N \in Nat /\ Len(w) = N + 1
  BY <1>2
<1> HIDE DEF w, N, line
<1>4. /\ P[0] = Start(onSuccess)
      /\ \A n \in 1..(N + 1) : P[n] = parseMp3pCharacter(P[n - 1], w[n])
  <2>1. Len(w) \in Nat
    BY <1>3
  <2>2. /\ P[0] = Start(onSuccess)
        /\ \A n \in 1..Len(w) : P[n] = parseMp3pCharacter(P[n - 1], w[n])
    BY <2>1, ParsingStep
  <2> HIDE DEF P
  <2> QED BY <1>3, <2>2
<1> HIDE DEF P
<1> DEFINE T == {n \in 0..(N + 1) : P[n].onSuccess \in O}
<1>5. 0 \in T
  BY <1>3, <1>4 DEF Start
<1>6. ASSUME NEW n \in 0..((N + 1) - 1), n \in T PROVE n + 1 \in T
  <2>1. n + 1 \in 1..(N + 1) /\ (n + 1) - 1 = n /\ n + 1 \in 0..(N + 1)
    BY <1>3
  <2>2. P[n + 1] = parseMp3pCharacter(P[n], w[n + 1])
    BY <1>4, <2>1
  <2>3. P[n].onSuccess \in O
    BY <1>6
  <2>4. P[n + 1].onSuccess \in O
    BY <2>2, <2>3 DEF parseMp3pCharacter, Remembered
  <2> QED BY <2>1, <2>4
<1>7. N + 1 \in Nat /\ N + 1 \in 0..(N + 1)
  BY <1>3
<1> HIDE DEF T
<1>8. N + 1 \in T
  BY <1>5, <1>6, <1>7, InductTo
<1> QED BY <1>1, <1>8 DEF T

\* A line of C is never discarded.
LEMMA NeverDiscarded ==
    ASSUME NEW d \in DatagramType, NEW onSuccess, d.head,
           \A k \in 1..Len(d.line) : d.line[k] # "NUL"
    PROVE  parseDatagram(d, onSuccess).command # "DISCARD"
<1>1. CASE d.auth = "malformed"
  BY <1>1 DEF parseDatagram
<1>2. CASE d.auth # "malformed"
  <2>1. CASE WellFormed(d.line)
    BY <1>2, <2>1, CommandIs DEF CheckHeaders, Operations
  <2>2. CASE ~WellFormed(d.line)
    BY <1>2, <2>2, CommandIs
  <2> QED BY <2>1, <2>2
<1> QED BY <1>1, <1>2
=============================================================================
