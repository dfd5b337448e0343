------------------------- MODULE ConnectionLifecycle ------------------------
(***************************************************************************)
(* What the observers of the nMusicServerClient... notifications count on: *)
(* the connection state that each client announces goes round one cycle.   *)
(* "Connected" is only ever announced by an attempt that was itself        *)
(* announced, possibly after questions for a password, and an attempt ends *)
(* in "Connected" or in "Disconnected".  A connection that is gone without *)
(* a word may be replaced by a new attempt.                                *)
(***************************************************************************)
CONSTANT Clients
VARIABLE status

States == {"none", "Connecting", "RequiresAuthentication", "Connected", "Disconnected"}

TypeOK == status \in [Clients -> States]

Init == status = [c \in Clients |-> "none"]

Becomes(c, from, to) ==
  /\ status[c] \in from
  /\ status' = [status EXCEPT ![c] = to]

Attempt(c) == Becomes(c, {"none", "Disconnected", "Connected"}, "Connecting")
Ask(c) == Becomes(c, {"Connecting", "RequiresAuthentication"}, "RequiresAuthentication")
Succeed(c) == Becomes(c, {"Connecting", "RequiresAuthentication"}, "Connected")
GiveUp(c) == Becomes(c, {"Connecting", "RequiresAuthentication"}, "Disconnected")
Close(c) == Becomes(c, {"Connected"}, "Disconnected")

Next == \E c \in Clients : Attempt(c) \/ Ask(c) \/ Succeed(c) \/ GiveUp(c) \/ Close(c)

Spec == Init /\ [][Next]_status
=============================================================================
