---------------------------- MODULE MCMailStream ----------------------------
(***************************************************************************)
(* An instance of MailStream for TLC: every text of a few bytes, longer    *)
(* ones with a dot where a round ends, and some with bytes that are not    *)
(* given.                                                                  *)
(***************************************************************************)
EXTENDS MailStream, TLC

Text == {"CR", "LF", "dot", "text"}

SeqsUpTo(S, n) == UNION {[1..k -> S] : k \in 0..n}

AllMails ==
    SeqsUpTo(Text, 4)
        \cup {<<"dot", "CR", "LF">> \o m : m \in SeqsUpTo(Text, 3)}
        \cup {<<"dot">> \o m : m \in SeqsUpTo({"NUL", "high", "dot", "CR"}, 3)}
\* Stuffed is the mail with each lone dot twice, put together byte by byte.
ASSUME StuffedByteByByte ==
    \A m \in AllMails :
        Stuffed(m) = FlattenSeq([i \in DOMAIN m |->
                                   IF LoneDot(m, i) THEN <<"dot", "dot">> ELSE <<m[i]>>])
=============================================================================
