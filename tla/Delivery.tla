------------------------------ MODULE Delivery ------------------------------
(***************************************************************************)
(* What the notification service promises, without channel, workers,       *)
(* attempts or emails: an event is refused or accepted at once; only an    *)
(* accepted event is sent to anybody; and while the service is up every    *)
(* accepted event is closed sooner or later - delivered, or given up.      *)
(* Events are lost for two reasons only: the process dies, with all it has *)
(* accepted, or the service was taken down first.                          *)
(***************************************************************************)
EXTENDS Naturals

CONSTANTS
  Events,
  Mails      \* the mails an event may consist of

VARIABLES
  phase,     \* where each event stands
  copies,    \* how often each mail of an event was sent
  up         \* the service has not been taken down

vars == <<phase, copies, up>>

Phases == {"new", "refused", "accepted", "closed", "lost"}

Init ==
  /\ phase = [e \in Events |-> "new"]
  /\ copies = [e \in Events |-> [m \in Mails |-> 0]]
  /\ up = TRUE

Move(e, from, to) ==
  /\ phase[e] = from
  /\ phase' = [phase EXCEPT ![e] = to]
  /\ UNCHANGED <<copies, up>>

Accept(e) == Move(e, "new", "accepted")
Refuse(e) == Move(e, "new", "refused")
Close(e)  == Move(e, "accepted", "closed")

Forget(e) == ~up /\ Move(e, "accepted", "lost")

Deliver(e) ==
  /\ phase[e] = "accepted"
  /\ \E m \in Mails : copies' = [copies EXCEPT ![e][m] = @ + 1]
  /\ UNCHANGED <<phase, up>>

TakeDown == up /\ up' = FALSE /\ UNCHANGED <<phase, copies>>

\* The process dies and starts again, empty.
Crash ==
  /\ phase' = [e \in Events |-> IF phase[e] = "accepted" THEN "lost" ELSE phase[e]]
  /\ up' = TRUE
  /\ UNCHANGED copies

Next ==
  \/ \E e \in Events : Accept(e) \/ Refuse(e) \/ Deliver(e) \/ Close(e) \/ Forget(e)
  \/ TakeDown \/ Crash

Spec == Init /\ [][Next]_vars /\ \A e \in Events : WF_vars(up /\ Close(e))
=============================================================================
