-------------------------- MODULE MCCommandParser ---------------------------
(***************************************************************************)
(* An instance of CommandParser for TLC: names of two characters, arguments*)
(* of one, and a line of each kind that the parser tells apart.            *)
(***************************************************************************)
EXTENDS CommandParser, TLC

c == "printable"

Ended(bytes) == bytes \o <<"CR", "LF">>

ClientLines ==
    {Ended(text) : text \in
        {<<c, c>>, <<c, c, "space", c>>, <<c, c, "space", c, "space", c>>,
         <<c, c, "space", c, "space", c, "space">>,
         <<>>, <<c>>, <<c, c, c>>, <<c, c, "space", c, c>>,
         <<"other", c>>, <<c, "LF", c>>, <<c, c, "CR">>,
         <<"other", "CR", c, "LF">>, <<c, "NUL", c>>, <<"other", "NUL", c>>}}

\* A line with an LF that ends nothing.
StrayLines == ClientLines \cup {Ended(<<c, c, "CR", c, "LF">>)}

\* What was in memory: nothing, an end of line, a whole command; it may be in the
\* array, or go on beyond it.
Rests == {<<"NUL">>, <<"CR", "LF", "NUL">>, <<c, c, "CR", "LF", "NUL">>,
          <<c, "NUL">>}
=============================================================================
