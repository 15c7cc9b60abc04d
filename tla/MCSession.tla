----------------------------- MODULE MCSession -----------------------------
(* Instances of Session for TLC. *)
EXTENDS Session

\* Every character a user may type, one to a line, and an empty line.
AllLines == {<<c, "nl">> : c \in Char \ {"nl"}} \cup {<<"nl">>}

\* The hypothesis of the theorems about Session, on this instance, and those it
\* follows from.
ASSUME LegibleHere == Legible
ASSUME LengthsFitHere == LengthsFit
ASSUME MemoryFitsHere == MemoryFits

=============================================================================
