------------------------------ MODULE Console ------------------------------
(***************************************************************************)
(* What the program promises the person at the terminal, without threads:  *)
(* one side speaks at a time.  The server starts; then the client's menu   *)
(* and the receiver's report take turns until the user quits, and then     *)
(* everything ends.                                                        *)
(***************************************************************************)
CONSTANT MayStall   \* TRUE if a wakeup may be lost, and the conversation with it

VARIABLE phase

Phase == {"starting", "client", "server", "stalled", "closing", "ended"}

Init == phase = "starting"

\* The menu appears, after the server has started or has reported a message.
Menu == phase \in {"starting", "server"} /\ phase' = "client"

\* A message leaves: the client is silent until the receiver has reported it.
Send == phase = "client" /\ phase' = "server"

Stall == MayStall /\ phase \in {"starting", "server", "client"} /\ phase' = "stalled"

Quit == phase = "client" /\ phase' = "closing"

End == phase = "closing" /\ phase' = "ended"

\* exit(0) after a failed system call, or a crash.
Abort == phase \in {"starting", "client", "server", "stalled"} /\ phase' = "ended"

Next == Menu \/ Send \/ Stall \/ Quit \/ End \/ Abort

\* Safety alone: no promise that anything happens.
SafeSpec == Init /\ [][Next]_phase

Spec == Init /\ [][Next]_phase /\ WF_phase(Menu) /\ WF_phase(End)

=============================================================================
