----------------------------- MODULE MCThreads -----------------------------
(* Instances of Threads for TLC. *)
EXTENDS Threads

\* Every character a user may type, one to a line, and an empty line.
AllLines == {<<c, "nl">> : c \in Char \ {"nl"}} \cup {<<"nl">>}

\* The same without the option that may leave the message pointer unset.
PlainLines == {<<c, "nl">> : c \in Char \ {"nl", "push"}} \cup {<<"nl">>}

=============================================================================
