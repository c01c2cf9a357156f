---------------------------- MODULE Notification ----------------------------
(***************************************************************************)
(* The notification service: a bounded channel of events and a pool of     *)
(* workers that email each event to the employee, to its recipients or to  *)
(* both.                                                                   *)
(*                                                                         *)
(* Publish never blocks: with a full channel the event is dropped.  A      *)
(* handler sends one email after the other; an email that fails is logged  *)
(* and passed over.  Only a panic makes an attempt fail, and then the      *)
(* whole event is handled again, up to MaxRetries times.  Stop closes the  *)
(* channel and waits for the workers, at most 30 seconds; main then        *)
(* cancels their context.  The process may also die at any moment - a      *)
(* signal, log.Fatalf - and what it had accepted dies with it.             *)
(***************************************************************************)
EXTENDS Naturals, Sequences, FiniteSets

CONSTANTS
  Events,      \* notification events; each is published once
  Kind,        \* the type of each event
  Recipients,  \* the number of recipients read when the event was published
  Workers,     \* cfg.Workers
  BufferSize,  \* cfg.BufferSize
  MaxRetries   \* cfg.MaxRetries

Kinds == {"LEAVE_APPLIED", "LEAVE_APPROVED", "LEAVE_REJECTED",
          "LEAVE_WITHDRAWAL_PENDING", "LEAVE_WITHDRAWN", "LEAVE_CANCELLED",
          "EMPLOYEE_CREATED", "PASSWORD_CHANGED"}

ASSUME NotificationAssumption ==
  /\ Kind \in [Events -> Kinds]
  /\ Recipients \in [Events -> Nat]
  /\ Workers # {}
  /\ BufferSize \in Nat \ {0}
  /\ MaxRetries \in Nat \ {0}

VARIABLES
  queue,      \* the channel
  fate,       \* what has become of each event
  worker,     \* what each worker is doing
  sent,       \* how often each mail of an event was sent
  stop,       \* Stop: not called, waiting, or returned (all exited, or timed out)
  cancelled   \* the context is cancelled

vars == <<queue, fate, worker, sent, stop, cancelled>>

\* "lost": to this process, as the context was cancelled; "gone": with an earlier one.
Fates == {"new", "dropped", "queued", "taken", "done", "given up", "lost", "gone"}

At(phase) == [phase |-> phase, event |-> <<>>, attempt |-> 0, next |-> 1]
Idle == At("idle")
Exited == At("exited")

-----------------------------------------------------------------------------
(***************************************************************************)
(* The mails a handler sends for an event, in this order, by addressee:    *)
(* the employee or one of the recipients.                                  *)
(***************************************************************************)
Employee == 0

ToEmployee == <<Employee>>

ToRecipients(e) == [i \in 1 .. Recipients[e] |-> i]

OnLeaveApplied(e) == ToRecipients(e)

OnLeaveApproved(e) == ToEmployee \o ToRecipients(e)

OnLeaveRejected(e) == ToEmployee \o ToRecipients(e)

OnLeaveWithdrawalPending(e) == ToRecipients(e)

\* Both texts, the employee's and the record copy, go to the recipients.
OnLeaveWithdrawn(e) == ToRecipients(e) \o ToRecipients(e)

OnLeaveCancelled == ToEmployee

OnEmployeeCreated == ToEmployee

OnPasswordChanged == ToEmployee

\* The dispatch by event type.
Process(e) ==
  CASE Kind[e] = "LEAVE_APPLIED"            -> OnLeaveApplied(e)
    [] Kind[e] = "LEAVE_APPROVED"           -> OnLeaveApproved(e)
    [] Kind[e] = "LEAVE_REJECTED"           -> OnLeaveRejected(e)
    [] Kind[e] = "LEAVE_WITHDRAWAL_PENDING" -> OnLeaveWithdrawalPending(e)
    [] Kind[e] = "LEAVE_WITHDRAWN"          -> OnLeaveWithdrawn(e)
    [] Kind[e] = "LEAVE_CANCELLED"          -> OnLeaveCancelled
    [] Kind[e] = "EMPLOYEE_CREATED"         -> OnEmployeeCreated
    [] Kind[e] = "PASSWORD_CHANGED"         -> OnPasswordChanged

\* The mails of all events, by their position.
Mails == UNION {DOMAIN Process(e) : e \in Events}

-----------------------------------------------------------------------------
Handling(e, n) == [phase |-> "handling", event |-> e, attempt |-> n, next |-> 1]

Init ==
  /\ queue = <<>>
  /\ fate = [e \in Events |-> "new"]
  /\ worker = [w \in Workers |-> Idle]
  /\ sent = [e \in Events |-> [m \in Mails |-> 0]]
  /\ stop = "running"
  /\ cancelled = FALSE

Closed == stop # "running"

-----------------------------------------------------------------------------
Enqueue(e) ==
  /\ Len(queue) < BufferSize
  /\ queue' = Append(queue, e)
  /\ fate' = [fate EXCEPT ![e] = "queued"]

\* The channel is full, or the employee or the recipients cannot be read.
Drop(e) ==
  /\ fate' = [fate EXCEPT ![e] = "dropped"]
  /\ UNCHANGED queue

\* After the commit; no request publishes once the server has begun to stop.
Publish(e) ==
  /\ ~Closed /\ fate[e] = "new"
  /\ Enqueue(e) \/ Drop(e)
  /\ UNCHANGED <<worker, sent, stop, cancelled>>

\* A cancelled worker takes one more event, forgets it and exits.
Take(w) ==
  /\ worker[w] = Idle /\ queue # <<>>
  /\ queue' = Tail(queue)
  /\ worker' = [worker EXCEPT ![w] = IF cancelled THEN Exited ELSE Handling(Head(queue), 1)]
  /\ fate' = [fate EXCEPT ![Head(queue)] = IF cancelled THEN "lost" ELSE "taken"]
  /\ UNCHANGED <<sent, stop, cancelled>>

ExitWhenClosed(w) ==
  /\ worker[w] = Idle /\ Closed
  /\ worker' = [worker EXCEPT ![w] = Exited]
  /\ UNCHANGED <<queue, fate, sent, stop, cancelled>>

\* The channel is closed and drained.
Exit(w) ==
  /\ worker[w] = Idle /\ Closed /\ queue = <<>>
  /\ worker' = [worker EXCEPT ![w] = Exited]
  /\ UNCHANGED <<queue, fate, sent, stop, cancelled>>

-----------------------------------------------------------------------------
\* The email API has accepted the message.
Accepted(e, m) == sent' = [sent EXCEPT ![e][m] = @ + 1]

\* One email is sent, or fails - when rendered or delivered, or refused by the
\* API for its rate - and is logged.
RenderAndSend(e, m) == Accepted(e, m) \/ UNCHANGED sent

HasNext(w) == worker[w].next <= Len(Process(worker[w].event))

\* The handler goes on to the next mail either way.
Send(w) ==
  /\ worker[w].phase = "handling" /\ HasNext(w)
  /\ RenderAndSend(worker[w].event, worker[w].next)
  /\ worker' = [worker EXCEPT ![w].next = @ + 1]
  /\ UNCHANGED <<queue, fate, stop, cancelled>>

Release(w, f) ==
  /\ worker' = [worker EXCEPT ![w] = Idle]
  /\ fate' = [fate EXCEPT ![worker[w].event] = f]

\* The handler returns: the attempt has succeeded.
Finish(w) ==
  /\ worker[w].phase = "handling" /\ ~HasNext(w)
  /\ Release(w, "done")
  /\ UNCHANGED <<queue, sent, stop, cancelled>>

PanicUnrecovered(w) ==
  /\ worker[w].phase = "handling"
  /\ worker' = [worker EXCEPT ![w] = Exited]
  /\ fate' = [fate EXCEPT ![worker[w].event] = "lost"]
  /\ UNCHANGED <<queue, sent, stop, cancelled>>

PanicOneTooMany(w) ==
  /\ worker[w].phase = "handling"
  /\ IF worker[w].attempt > MaxRetries
     THEN Release(w, "given up")
     ELSE /\ worker' = [worker EXCEPT ![w].phase = "waiting"]
          /\ UNCHANGED fate
  /\ UNCHANGED <<queue, sent, stop, cancelled>>

\* The handler panics: safeProcess recovers, and the attempt has failed.
Panic(w) ==
  /\ worker[w].phase = "handling"
  /\ IF worker[w].attempt = MaxRetries
     THEN Release(w, "given up")
     ELSE /\ worker' = [worker EXCEPT ![w].phase = "waiting"]
          /\ UNCHANGED fate
  /\ UNCHANGED <<queue, sent, stop, cancelled>>

\* The back-off is over: the event is handled again from its first recipient.
Retry(w) ==
  /\ worker[w].phase = "waiting"
  /\ worker' = [worker EXCEPT ![w] = Handling(@.event, @.attempt + 1)]
  /\ UNCHANGED <<queue, fate, sent, stop, cancelled>>

\* The context is cancelled during the back-off.
AbandonRetry(w) ==
  /\ worker[w].phase = "waiting" /\ cancelled
  /\ Release(w, "lost")
  /\ UNCHANGED <<queue, sent, stop, cancelled>>

-----------------------------------------------------------------------------
Stop ==
  /\ stop = "running"
  /\ stop' = "waiting"
  /\ UNCHANGED <<queue, fate, worker, sent, cancelled>>

StopReturns ==
  /\ stop = "waiting"
  /\ \A w \in Workers : worker[w] = Exited
  /\ stop' = "drained"
  /\ UNCHANGED <<queue, fate, worker, sent, cancelled>>

StopTimesOut ==
  /\ stop = "waiting"
  /\ stop' = "timed out"
  /\ UNCHANGED <<queue, fate, worker, sent, cancelled>>

\* main's deferred calls run in the opposite order: Stop, then cancel.
Cancel ==
  /\ stop \in {"drained", "timed out"} /\ ~cancelled
  /\ cancelled' = TRUE
  /\ UNCHANGED <<queue, fate, worker, sent, stop>>

(***************************************************************************)
(* The process dies, and starts again: the channel is empty, and nobody    *)
(* has noted which events it held.  (In main the router only returns with  *)
(* an error, and log.Fatalf skips the deferred Stop: this is how the       *)
(* program ends.)                                                          *)
(***************************************************************************)
Die ==
  /\ queue' = <<>>
  /\ worker' = [w \in Workers |-> Idle]
  /\ fate' = [e \in Events |-> IF fate[e] \in {"queued", "taken", "lost"} THEN "gone" ELSE fate[e]]
  /\ stop' = "running"
  /\ cancelled' = FALSE
  /\ UNCHANGED sent

Handle(w) == Send(w) \/ Finish(w) \/ Panic(w)
Resume(w) == Retry(w) \/ AbandonRetry(w)

Work == \E w \in Workers : Take(w) \/ Exit(w) \/ Handle(w) \/ Resume(w)

Next ==
  \/ \E e \in Events : Publish(e)
  \/ Work
  \/ Stop \/ StopReturns \/ StopTimesOut \/ Cancel \/ Die

\* The Go runtime does not let all workers rest while one can run, and every
\* timer fires.
Fairness == WF_vars(Work) /\ WF_vars(StopReturns \/ StopTimesOut)

Spec == Init /\ [][Next]_vars
FairSpec == Spec /\ Fairness

-----------------------------------------------------------------------------
Busy ==
  {b \in [phase : {"handling", "waiting"}, event : Events,
          attempt : 1 .. MaxRetries, next : Nat \ {0}] :
     /\ b.next <= Len(Process(b.event)) + 1
     /\ b.phase = "waiting" => b.attempt < MaxRetries}

TypeOK ==
  /\ queue \in Seq(Events) /\ Len(queue) <= BufferSize
  /\ fate \in [Events -> Fates]
  /\ worker \in [Workers -> {Idle, Exited} \cup Busy]
  /\ sent \in [Events -> [Mails -> Nat]]
  /\ stop \in {"running", "waiting", "drained", "timed out"}
  /\ cancelled \in BOOLEAN

(***************************************************************************)
(* Whatever panics or dies, no mail is sent more often than the event is   *)
(* attempted, none that the event's type does not call for, and none of an *)
(* event that was dropped.                                                 *)
(***************************************************************************)
BoundedCopies ==
  \A e \in Events, m \in Mails :
    /\ sent[e][m] <= MaxRetries
    /\ fate[e] \in {"new", "dropped", "queued"} \/ m \notin DOMAIN Process(e) => sent[e][m] = 0

(***************************************************************************)
(* "Stop drains in-flight events and shuts down workers gracefully": when  *)
(* it returns before the deadline, every event that this process accepted  *)
(* has been handled, or given up after its last attempt.                   *)
(***************************************************************************)
StopDrains ==
  stop = "drained" => \A e \in Events : fate[e] \notin {"queued", "taken", "lost"}

(***************************************************************************)
(* The service implements Delivery: an accepted event is closed sooner or  *)
(* later, whatever panics, and is lost only with the process or once the   *)
(* context is cancelled; nothing is sent of any other event.               *)
(***************************************************************************)
DeliveryPhase(e) ==
  CASE fate[e] = "new" -> "new"
    [] fate[e] = "dropped" -> "refused"
    [] fate[e] \in {"queued", "taken"} -> "accepted"
    [] fate[e] \in {"done", "given up"} -> "closed"
    [] fate[e] \in {"lost", "gone"} -> "lost"

Promise ==
  INSTANCE Delivery WITH phase <- [e \in Events |-> DeliveryPhase(e)],
                         copies <- sent,
                         up <- ~cancelled

ImplementsDelivery == Promise!Spec

(***************************************************************************)
(* service.go: "It handles each event with retry logic so transient email  *)
(* failures are recovered without losing the event."  An event is done     *)
(* only when all its mails were sent.                                      *)
(***************************************************************************)
FailuresAreRetried ==
  \A e \in Events : fate[e] = "done" => \A m \in DOMAIN Process(e) : sent[e][m] > 0
=============================================================================
