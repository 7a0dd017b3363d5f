---------------------------- MODULE MCPopServer -----------------------------
(***************************************************************************)
(* Instances of PopServer for TLC: the users, their mails and the lines    *)
(* that clients send.  The sizes keep the relations of the real ones:      *)
(* a line and a LIST terminator fit in the room that is asked for, more    *)
(* than MAX_SINGLE_LINE_RESPONSE and less than BUFFERSIZE, and a mail may  *)
(* need more than one buffer.                                              *)
(***************************************************************************)
EXTENDS PopServer, TLC

CONSTANTS alice, bob, right, wrong, m1, m2, m3

TwoUsers == {alice, bob}
OneUser == {alice}
OnePassword == {right}
ThreeMails == {m1, m2, m3}
TwoMails == {m1, m2}
OneMail == {m1}

AliceHasAll == [u \in Users |-> IF u = alice THEN Mail ELSE {}]

Line(op) == [op |-> op, arg |-> NULL]
Numbered(op, n) == [op |-> op, arg |-> n]
User(u) == [op |-> "USER", arg |-> u]
Pass(p) == [op |-> "PASS", arg |-> p]

\* Who may log in, and how sessions end: no line completed, a name, a
\* password, a quit with a mark before it, and a mail asked for before that,
\* which another session may have deleted.
LoginInputs ==
    {<<>>, <<Numbered("RETR", 1), Numbered("DELE", 1), Line("QUIT")>>}
        \cup {<<User(u)>> : u \in Users} \cup {<<Pass(p)>> : p \in Passwords}

Login == <<User(alice), Pass(right)>>

\* A session's commands, some of them sent together.
MailInputs ==
    {Login, <<Line("LIST")>>, <<Line("RSET")>>, <<Line("QUIT")>>,
     <<Numbered("DELE", 1)>>, <<Numbered("DELE", 2)>>,
     <<Numbered("DELE", 3), Line("LIST")>>,
     <<Numbered("RETR", 1), Line("LIST")>>, <<Numbered("RETR", 4)>>}

\* A session in two batches, so that replies pile up and a LIST and a RETR of
\* several turns have lines behind them: a mail marked twice, marks taken back and
\* made again, lines after QUIT.
CommandInputs ==
    {<<>>,
     <<User(alice), Line("CAPA"), Pass(right), Line("STAT"),
       Numbered("DELE", 1), Numbered("DELE", 1), Line("LIST")>>,
     <<Numbered("RETR", 2), Line("RSET"), Numbered("DELE", 2), Numbered("RETR", 4),
       Line("QUIT"), Line("INVALID"), Line("LIST")>>}
=============================================================================
