------------------------------ MODULE Dialogue ------------------------------
(***************************************************************************)
(* What Console leaves out: what is said.  Every message that leaves the   *)
(* menu is the one the receiver reports, once and rightly, before the menu *)
(* comes back; when a wakeup is lost the menu does not come back, but the  *)
(* report has been made.                                                   *)
(***************************************************************************)
CONSTANTS
  Topics,           \* what may be said
  NoTopic,
  Slip,             \* a topic of which nothing is promised
  Faithful(_, _)    \* whether a report is the right one for a topic

VARIABLES
  phase,    \* as in Console
  topic,    \* what has been said and not yet answered with a menu
  heard     \* the report of it, {} before it is made

Init == phase = "starting" /\ topic = NoTopic /\ heard = {}

Say ==
  /\ phase = "client" /\ phase' = "server"
  /\ topic' \in Topics /\ heard' = {}

Report ==
  /\ phase = "server" /\ heard = {} /\ heard' # {}
  /\ topic = Slip \/ Faithful(topic, heard')
  /\ UNCHANGED <<phase, topic>>

\* The turn passes on, or gets lost, only after the report.
Answered == phase = "starting" \/ (phase = "server" /\ heard # {})

Menu  == Answered /\ phase' = "client" /\ topic' = NoTopic /\ heard' = {}

\* ... or because what is to be said does not leave the menu at all.
Stall ==
  /\ Answered \/ phase = "client"
  /\ phase' = "stalled" /\ topic' = NoTopic /\ heard' = {}

Quit == phase = "client" /\ phase' = "closing" /\ UNCHANGED <<topic, heard>>

End == phase = "closing" /\ phase' = "ended" /\ UNCHANGED <<topic, heard>>

\* exit(0) after a failed system call; a crash, after a slip.
Abort ==
  /\ phase \in {"starting", "client", "stalled"} \/ (phase = "server" /\ topic = Slip)
  /\ phase' = "ended" /\ topic' = NoTopic /\ heard' = {}

Next == Say \/ Report \/ Menu \/ Stall \/ Quit \/ End \/ Abort

Spec == Init /\ [][Next]_<<phase, topic, heard>>

=============================================================================
