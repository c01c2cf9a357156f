------------------------- MODULE NotificationProofs -------------------------
(***************************************************************************)
(* Proofs about Notification, for any events, any number of workers and    *)
(* any capacity of the channel: types, that no event is in two places or   *)
(* in none, how often a mail is sent, that Stop drains, and that each step *)
(* is one that Delivery allows.                                            *)
(***************************************************************************)
EXTENDS Server, SequenceTheorems, FiniteSetTheorems, TLAPS

-----------------------------------------------------------------------------
(* Sequences.                                                              *)

LEMMA RecipientsAreASequence ==
  ASSUME NEW e \in Events
  PROVE  ToRecipients(e) \in Seq(Nat)
<1>1. Recipients[e] \in Nat
  BY NotificationAssumption
<1>2. ToRecipients(e) \in [1 .. Recipients[e] -> Nat]
  BY DEF ToRecipients
<1> QED BY <1>1, <1>2, SeqDef

\* The mails of an event, in their order.
LEMMA ProcessIsASequence ==
  ASSUME NEW e \in Events
  PROVE  /\ Process(e) \in Seq(Nat)
         /\ Len(Process(e)) \in Nat
         /\ DOMAIN Process(e) = 1 .. Len(Process(e))
<1>1. ToEmployee \in Seq(Nat)
  BY DEF ToEmployee, Employee
<1>2. ToRecipients(e) \in Seq(Nat)
  BY RecipientsAreASequence
<1>3. /\ ToEmployee \o ToRecipients(e) \in Seq(Nat)
      /\ ToRecipients(e) \o ToRecipients(e) \in Seq(Nat)
  BY <1>1, <1>2, ConcatProperties
<1>4. Kind[e] \in Kinds
  BY NotificationAssumption
<1>5. Process(e) \in {ToEmployee, ToRecipients(e), ToEmployee \o ToRecipients(e),
                      ToRecipients(e) \o ToRecipients(e)}
  BY <1>4 DEF Process, Kinds, OnLeaveApplied, OnLeaveApproved, OnLeaveRejected,
              OnLeaveWithdrawalPending, OnLeaveWithdrawn, OnLeaveCancelled,
              OnEmployeeCreated, OnPasswordChanged
<1>6. Process(e) \in Seq(Nat)
  BY <1>1, <1>2, <1>3, <1>5
<1> QED BY <1>6, LenProperties

LEMMA MailsArePositions == Mails \subseteq Nat \ {0}
BY ProcessIsASequence DEF Mails

\* Taking the head of a channel without repetitions leaves the rest of it.
LEMMA TailKeepsTheRest ==
  ASSUME NEW q \in Seq(Events), q # <<>>,
         \A i, j \in DOMAIN q : q[i] = q[j] => i = j
  PROVE  /\ \A i, j \in DOMAIN Tail(q) : Tail(q)[i] = Tail(q)[j] => i = j
         /\ \A e \in Events : (\E i \in DOMAIN Tail(q) : Tail(q)[i] = e)
              <=> e # Head(q) /\ \E i \in DOMAIN q : q[i] = e
<1>1. /\ Len(q) \in Nat /\ Len(q) > 0 /\ DOMAIN q = 1 .. Len(q)
      /\ Head(q) = q[1]
  BY EmptySeq, LenProperties
<1>2. /\ DOMAIN Tail(q) = 1 .. Len(q) - 1
      /\ \A i \in 1 .. Len(q) - 1 : Tail(q)[i] = q[i + 1]
  BY <1>1, HeadTailProperties, LenProperties
<1>3. ASSUME NEW e \in Events, NEW i \in DOMAIN q, q[i] = e, e # Head(q)
      PROVE  \E k \in DOMAIN Tail(q) : Tail(q)[k] = e
  <2>1. i - 1 \in DOMAIN Tail(q) /\ Tail(q)[i - 1] = e
    BY <1>1, <1>2, <1>3
  <2> QED BY <2>1
<1>4. ASSUME NEW e \in Events, NEW k \in DOMAIN Tail(q), Tail(q)[k] = e
      PROVE  e # Head(q) /\ \E i \in DOMAIN q : q[i] = e
  <2>1. k + 1 \in DOMAIN q /\ q[k + 1] = e /\ 1 \in DOMAIN q /\ k + 1 # 1
    BY <1>1, <1>2, <1>4
  <2> QED BY <2>1, <1>1
<1>5. ASSUME NEW i \in DOMAIN Tail(q), NEW j \in DOMAIN Tail(q), Tail(q)[i] = Tail(q)[j]
      PROVE  i = j
  <2>1. /\ i + 1 \in DOMAIN q /\ j + 1 \in DOMAIN q
        /\ q[i + 1] = q[j + 1] /\ i \in Int /\ j \in Int
    BY <1>1, <1>2, <1>5
  <2>2. i + 1 = j + 1
    BY <2>1
  <2> QED BY <2>1, <2>2
<1> QED BY <1>3, <1>4, <1>5

\* Putting in an event that is not there.
LEMMA AppendAddsOne ==
  ASSUME NEW q \in Seq(Events), NEW a \in Events,
         \A i, j \in DOMAIN q : q[i] = q[j] => i = j,
         ~\E i \in DOMAIN q : q[i] = a
  PROVE  LET r == Append(q, a) IN
         /\ \A i, j \in DOMAIN r : r[i] = r[j] => i = j
         /\ \A e \in Events : (\E i \in DOMAIN r : r[i] = e)
              <=> e = a \/ \E i \in DOMAIN q : q[i] = e
<1> DEFINE r == Append(q, a)
<1>1. Len(q) \in Nat /\ DOMAIN q = 1 .. Len(q)
  BY LenProperties
<1>2. /\ DOMAIN r = 1 .. Len(q) + 1
      /\ \A i \in 1 .. Len(q) : r[i] = q[i]
      /\ r[Len(q) + 1] = a
  BY <1>1, AppendProperties, LenProperties
<1> HIDE DEF r
<1>3. \A i, j \in DOMAIN r : r[i] = r[j] => i = j
  BY <1>1, <1>2
<1>4. ASSUME NEW e \in Events
      PROVE  (\E i \in DOMAIN r : r[i] = e) <=> e = a \/ \E i \in DOMAIN q : q[i] = e
  <2>1. ASSUME NEW i \in DOMAIN r, r[i] = e, e # a PROVE \E k \in DOMAIN q : q[k] = e
    BY <1>1, <1>2, <2>1
  <2>2. ASSUME e = a PROVE \E i \in DOMAIN r : r[i] = e
    BY <1>1, <1>2, <2>2
  <2>3. ASSUME NEW i \in DOMAIN q, q[i] = e PROVE \E k \in DOMAIN r : r[k] = e
    BY <1>1, <1>2, <2>3
  <2> QED BY <2>1, <2>2, <2>3
<1> QED BY <1>3, <1>4 DEF r

-----------------------------------------------------------------------------
(* Types.                                                                  *)

LEMMA WorkerAfter ==
  ASSUME NEW e \in Events, NEW n \in 1 .. MaxRetries
  PROVE  Handling(e, n) \in Busy
BY ProcessIsASequence DEF Handling, Busy

LEMMA BusyIsHandlingOrWaiting ==
  ASSUME TypeOK, NEW w \in Workers
  PROVE  /\ worker[w] \in {Idle, Exited} \cup Busy
         /\ worker[w].phase \in {"handling", "waiting"} <=> worker[w] \in Busy
<1>1. worker[w] \in {Idle, Exited} \cup Busy
  BY DEF TypeOK
<1>2. Idle.phase = "idle" /\ Exited.phase = "exited"
  BY DEF Idle, Exited, At
<1>3. \A b \in Busy : b.phase \in {"handling", "waiting"}
  BY DEF Busy
<1> QED BY <1>1, <1>2, <1>3

LEMMA InitType == Init => TypeOK
<1> SUFFICES ASSUME Init PROVE TypeOK
  OBVIOUS
<1>1. queue \in Seq(Events) /\ Len(queue) <= BufferSize
  BY NotificationAssumption, EmptySeq DEF Init
<1>2. sent \in [Events -> [Mails -> Nat]] /\ fate \in [Events -> Fates]
  BY DEF Init, Fates
<1> QED BY <1>1, <1>2 DEF Init, TypeOK

LEMMA AcceptedType ==
  ASSUME TypeOK, NEW e \in Events, NEW m \in Mails, Accepted(e, m)
  PROVE  sent' \in [Events -> [Mails -> Nat]]
<1> DEFINE row == [sent[e] EXCEPT ![m] = @ + 1]
<1>1. sent[e] \in [Mails -> Nat]
  BY DEF TypeOK
<1>2. row \in [Mails -> Nat]
  BY <1>1
<1>3. sent' = [sent EXCEPT ![e] = row]
  BY DEF Accepted
<1> HIDE DEF row
<1> QED BY <1>2, <1>3 DEF TypeOK

LEMMA NextType == TypeOK /\ [Next]_vars => TypeOK'
<1> SUFFICES ASSUME TypeOK, [Next]_vars PROVE TypeOK'
  OBVIOUS
<1> USE NotificationAssumption
<1>1. CASE UNCHANGED vars
  BY <1>1 DEF vars, TypeOK
<1>2. ASSUME NEW e \in Events, Publish(e) PROVE TypeOK'
  <2>1. CASE Enqueue(e)
    <3>1. queue' \in Seq(Events) /\ Len(queue') = Len(queue) + 1
      BY <2>1, AppendProperties DEF Enqueue, TypeOK
    <3>2. Len(queue) \in Nat /\ Len(queue) < BufferSize /\ BufferSize \in Nat
      BY <2>1, LenProperties DEF Enqueue, TypeOK
    <3>3. Len(queue') <= BufferSize
      BY <3>1, <3>2
    <3>4. fate' \in [Events -> Fates]
      BY <2>1 DEF Enqueue, TypeOK, Fates
    <3> QED BY <1>2, <3>1, <3>3, <3>4 DEF Publish, TypeOK
  <2>2. CASE Drop(e)
    BY <1>2, <2>2 DEF Publish, Drop, TypeOK, Fates
  <2> QED BY <1>2, <2>1, <2>2 DEF Publish
<1>3. ASSUME NEW w \in Workers, Take(w) PROVE TypeOK'
  <2>a. queue \in Seq(Events) /\ queue # <<>> /\ queue' = Tail(queue)
    BY <1>3 DEF Take, TypeOK
  <2>b. /\ Head(queue) \in Events /\ Tail(queue) \in Seq(Events)
        /\ Len(Tail(queue)) = Len(queue) - 1 /\ Len(queue) \in Nat
    BY <2>a, HeadTailProperties, LenProperties
  <2>1. Head(queue) \in Events /\ queue' \in Seq(Events) /\ Len(queue') <= BufferSize
    <3>1. Len(queue) <= BufferSize /\ BufferSize \in Nat
      BY DEF TypeOK
    <3> QED BY <2>a, <2>b, <3>1
  <2>2. Handling(Head(queue), 1) \in Busy
    BY <2>1, WorkerAfter
  <2>3. worker' \in [Workers -> {Idle, Exited} \cup Busy]
    BY <1>3, <2>2 DEF Take, TypeOK
  <2>4. fate' \in [Events -> Fates]
    BY <1>3, <2>1 DEF Take, TypeOK, Fates
  <2> QED BY <1>3, <2>1, <2>3, <2>4 DEF Take, TypeOK
<1>4. ASSUME NEW w \in Workers, Exit(w) PROVE TypeOK'
  BY <1>4 DEF Exit, TypeOK
<1>5. ASSUME NEW w \in Workers, Send(w) PROVE TypeOK'
  <2>1. worker[w] \in Busy
    BY <1>5, BusyIsHandlingOrWaiting DEF Send
  <2>2. worker[w].event \in Events /\ worker[w].next \in Nat
    BY <2>1 DEF Busy
  <2>3. worker[w].next \in DOMAIN Process(worker[w].event)
    BY <1>5, <2>1, <2>2, ProcessIsASequence DEF Send, HasNext, Busy
  <2>4. worker[w].next \in Mails
    BY <2>2, <2>3 DEF Mails
  <2>5. sent' \in [Events -> [Mails -> Nat]]
    <3>1. CASE UNCHANGED sent
      BY <3>1 DEF TypeOK
    <3>2. CASE Accepted(worker[w].event, worker[w].next)
      BY <2>2, <2>4, <3>2, AcceptedType
    <3> QED BY <1>5, <3>1, <3>2 DEF Send, RenderAndSend
  <2>6. [worker[w] EXCEPT !.next = @ + 1] \in Busy
    <3>1. /\ worker[w].next < Len(Process(worker[w].event)) + 1
          /\ Len(Process(worker[w].event)) \in Nat /\ worker[w].phase = "handling"
      BY <1>5, <2>2, ProcessIsASequence DEF Send, HasNext
    <3>2. worker[w].next + 1 \in Nat \ {0}
      BY <2>2
    <3>3. worker[w].next + 1 <= Len(Process(worker[w].event)) + 1
      BY <2>2, <3>1
    <3> DEFINE b == worker[w]
    <3>4. /\ b \in [phase : {"handling", "waiting"}, event : Events,
                    attempt : 1 .. MaxRetries, next : Nat \ {0}]
          /\ b.phase = "handling"
      BY <2>1, <3>1 DEF Busy
    <3>5. b.next + 1 \in Nat \ {0} /\ b.next + 1 <= Len(Process(b.event)) + 1
      BY <3>2, <3>3
    <3> HIDE DEF b
    <3>6. [b EXCEPT !.next = @ + 1] \in Busy
      BY <3>4, <3>5 DEF Busy
    <3> QED BY <3>6 DEF b
  <2>7. worker' \in [Workers -> {Idle, Exited} \cup Busy]
    BY <1>5, <2>6 DEF Send, TypeOK
  <2> QED BY <1>5, <2>5, <2>7 DEF Send, TypeOK
<1>6. ASSUME NEW w \in Workers, NEW f \in Fates, Release(w, f),
             UNCHANGED <<queue, sent, stop, cancelled>>
      PROVE  TypeOK'
  BY <1>6 DEF Release, TypeOK
<1>7. ASSUME NEW w \in Workers, Finish(w) PROVE TypeOK'
  BY <1>6, <1>7 DEF Finish, Fates
<1>8. ASSUME NEW w \in Workers, Panic(w) PROVE TypeOK'
  <2>1. CASE worker[w].attempt = MaxRetries
    BY <1>6, <1>8, <2>1 DEF Panic, Fates
  <2>2. CASE worker[w].attempt # MaxRetries
    <3>1. [worker[w] EXCEPT !.phase = "waiting"] \in Busy
      <4>1. worker[w] \in Busy
        BY <1>8, BusyIsHandlingOrWaiting DEF Panic
      <4>2. worker[w].attempt < MaxRetries
        BY <2>2, <4>1 DEF Busy
      <4> QED BY <4>1, <4>2 DEF Busy
    <3> QED BY <1>8, <2>2, <3>1 DEF Panic, TypeOK
  <2> QED BY <2>1, <2>2
<1>9. ASSUME NEW w \in Workers, Retry(w) PROVE TypeOK'
  <2>1. worker[w] \in Busy
    BY <1>9, BusyIsHandlingOrWaiting DEF Retry
  <2>2. worker[w].event \in Events /\ worker[w].attempt + 1 \in 1 .. MaxRetries
    BY <1>9, <2>1 DEF Retry, Busy
  <2>3. Handling(worker[w].event, worker[w].attempt + 1) \in Busy
    BY <2>2, WorkerAfter
  <2> QED BY <1>9, <2>3 DEF Retry, TypeOK
<1>10. ASSUME NEW w \in Workers, AbandonRetry(w) PROVE TypeOK'
  BY <1>6, <1>10 DEF AbandonRetry, Fates
<1>11. CASE Stop \/ StopReturns \/ StopTimesOut \/ Cancel
  BY <1>11 DEF Stop, StopReturns, StopTimesOut, Cancel, TypeOK
<1>12. CASE Die
  <2>1. queue' \in Seq(Events) /\ Len(queue') <= BufferSize
    BY <1>12, EmptySeq DEF Die
  <2>2. fate' \in [Events -> Fates]
    BY <1>12 DEF Die, TypeOK, Fates
  <2> QED BY <1>12, <2>1, <2>2 DEF Die, TypeOK
<1> QED
  BY <1>1, <1>2, <1>3, <1>4, <1>5, <1>7, <1>8, <1>9, <1>10, <1>11, <1>12
  DEF Next, Work, Handle, Resume

(***************************************************************************)
(* Every variable keeps its type; the capacity of the channel and the      *)
(* number of attempts are never exceeded.                                  *)
(***************************************************************************)
THEOREM NotificationTypeCorrectness == Spec => []TypeOK
BY InitType, NextType, PTL DEF Spec

-----------------------------------------------------------------------------
(* Where events are.                                                       *)

\* Worker w has taken the event e.
Holds(w, e) == worker[w].phase \in {"handling", "waiting"} /\ worker[w].event = e

InChannel(e) == \E i \in DOMAIN queue : queue[i] = e
InHands(e) == \E w \in Workers : Holds(w, e)

ChannelInv ==
  /\ \A e \in Events : fate[e] = "queued" <=> InChannel(e)
  /\ \A i, j \in DOMAIN queue : queue[i] = queue[j] => i = j

HandsInv ==
  /\ \A e \in Events : fate[e] = "taken" <=> InHands(e)
  /\ \A v, w \in Workers, e \in Events : Holds(v, e) /\ Holds(w, e) => v = w

Placed == TypeOK /\ ChannelInv /\ HandsInv

\* What a worker that does something holds before and after it.
LEMMA HandlerHolds ==
  ASSUME TypeOK, NEW w \in Workers, worker[w].phase \in {"handling", "waiting"}
  PROVE  /\ worker[w] \in Busy
         /\ worker[w].event \in Events
         /\ \A e \in Events : Holds(w, e) <=> e = worker[w].event
<1>1. worker[w] \in Busy
  BY BusyIsHandlingOrWaiting
<1> QED BY <1>1 DEF Busy, Holds

LEMMA OneWorkerMoves ==
  ASSUME TypeOK, NEW w \in Workers, NEW b, worker' = [worker EXCEPT ![w] = b]
  PROVE  /\ worker'[w] = b
         /\ \A v \in Workers \ {w} : worker'[v] = worker[v]
         /\ \A v \in Workers \ {w}, e \in Events : Holds(v, e)' <=> Holds(v, e)
         /\ \A e \in Events :
              Holds(w, e)' <=> b.phase \in {"handling", "waiting"} /\ b.event = e
<1>1. worker'[w] = b /\ \A v \in Workers \ {w} : worker'[v] = worker[v]
  BY DEF TypeOK
<1> QED BY <1>1 DEF Holds

LEMMA IdleHoldsNothing ==
  /\ Idle.phase = "idle" /\ Exited.phase = "exited"
  /\ ~(Idle.phase \in {"handling", "waiting"}) /\ ~(Exited.phase \in {"handling", "waiting"})
BY DEF Idle, Exited, At

LEMMA InitPlaced == Init => Placed
<1> SUFFICES ASSUME Init PROVE Placed
  OBVIOUS
<1>1. \A w \in Workers, e \in Events : ~Holds(w, e)
  BY IdleHoldsNothing DEF Init, Holds
<1>2. HandsInv
  BY <1>1 DEF Init, HandsInv, InHands
<1>3. DOMAIN queue = {} /\ \A e \in Events : fate[e] = "new"
  BY DEF Init
<1>4. ChannelInv
  BY <1>3 DEF ChannelInv, InChannel
<1> QED BY <1>2, <1>4, InitType DEF Placed

LEMMA ChannelInvIsKept ==
  ASSUME ChannelInv, UNCHANGED queue,
         \A e \in Events : fate[e] = "queued" <=> fate'[e] = "queued"
  PROVE  ChannelInv'
BY DEF ChannelInv, InChannel

\* A worker lets its event go.
LEMMA ReleasePlaced ==
  ASSUME Placed, TypeOK', NEW w \in Workers, NEW f \in Fates \ {"queued", "taken"},
         worker[w].phase \in {"handling", "waiting"}, Release(w, f), UNCHANGED queue
  PROVE  Placed'
<1> DEFINE a == worker[w].event
<1>1. a \in Events /\ \A e \in Events : Holds(w, e) <=> e = a
  BY HandlerHolds DEF Placed
<1>2. /\ worker' = [worker EXCEPT ![w] = Idle]
      /\ fate' = [fate EXCEPT ![a] = f]
  BY DEF Release
<1> HIDE DEF a
<1>3. fate[a] = "taken"
  BY <1>1 DEF Placed, HandsInv, InHands
<1>4. fate'[a] = f /\ \A e \in Events \ {a} : fate'[e] = fate[e]
  BY <1>1, <1>2 DEF Placed, TypeOK
<1>5. ChannelInv'
  BY <1>3, <1>4, ChannelInvIsKept DEF Placed
<1>6. \A v \in Workers, e \in Events : Holds(v, e)' <=> v # w /\ Holds(v, e)
  BY <1>2, OneWorkerMoves, IdleHoldsNothing DEF Placed
<1>7. \A v \in Workers \ {w} : ~Holds(v, a)
  BY <1>1 DEF Placed, HandsInv
<1>8. ASSUME NEW e \in Events PROVE (fate[e] = "taken")' <=> InHands(e)'
  <2>1. InHands(e)' <=> \E v \in Workers \ {w} : Holds(v, e)
    BY <1>6 DEF InHands
  <2>2. CASE e = a
    BY <2>1, <2>2, <1>4, <1>7
  <2>3. CASE e # a
    BY <2>1, <2>3, <1>1, <1>4 DEF Placed, HandsInv, InHands
  <2> QED BY <2>2, <2>3
<1>9. HandsInv'
  BY <1>6, <1>8 DEF Placed, HandsInv
<1> QED BY <1>5, <1>9 DEF Placed

\* A worker keeps its event, or has none.
LEMMA KeepPlaced ==
  ASSUME Placed, TypeOK', NEW w \in Workers, NEW b,
         worker' = [worker EXCEPT ![w] = b],
         \A e \in Events :
           Holds(w, e) <=> b.phase \in {"handling", "waiting"} /\ b.event = e,
         UNCHANGED <<queue, fate>>
  PROVE  Placed'
<1>1. TypeOK
  BY DEF Placed
<1>2. ASSUME NEW v \in Workers, NEW e \in Events PROVE Holds(v, e)' <=> Holds(v, e)
  <2>1. CASE v = w
    BY <1>1, <2>1, OneWorkerMoves
  <2>2. CASE v # w
    BY <1>1, <2>2, OneWorkerMoves
  <2> QED BY <2>1, <2>2
<1>3. HandsInv'
  BY <1>2 DEF Placed, HandsInv, InHands
<1>4. ChannelInv'
  BY ChannelInvIsKept DEF Placed
<1> QED BY <1>3, <1>4 DEF Placed

LEMMA NextPlaced == Placed /\ [Next]_vars => Placed'
<1> SUFFICES ASSUME Placed, [Next]_vars PROVE Placed'
  OBVIOUS
<1>t. TypeOK /\ TypeOK'
  BY NextType DEF Placed
<1>1. ASSUME UNCHANGED <<queue, fate, worker>> PROVE Placed'
  BY <1>t, <1>1 DEF Placed, ChannelInv, HandsInv, InChannel, InHands, Holds
<1>2. ASSUME NEW a \in Events, Publish(a) PROVE Placed'
  <2>1. fate[a] = "new" /\ UNCHANGED worker
    BY <1>2 DEF Publish
  <2>2. PICK f \in {"queued", "dropped"} : fate' = [fate EXCEPT ![a] = f]
    BY <1>2 DEF Publish, Enqueue, Drop
  <2>3. fate'[a] = f /\ \A e \in Events \ {a} : fate'[e] = fate[e]
    BY <1>t, <2>2 DEF TypeOK
  <2>4. HandsInv'
    BY <2>1, <2>3 DEF Placed, HandsInv, InHands, Holds
  <2>5. CASE Drop(a)
    <3>1. fate' = [fate EXCEPT ![a] = "dropped"] /\ UNCHANGED queue
      BY <2>5 DEF Drop
    <3>2. fate'[a] = "dropped"
      BY <1>t, <3>1 DEF TypeOK
    <3> QED BY <1>t, <2>1, <2>3, <2>4, <3>1, <3>2, ChannelInvIsKept DEF Placed
  <2>6. CASE Enqueue(a)
    <3>1. queue \in Seq(Events) /\ queue' = Append(queue, a) /\ fate'[a] = "queued"
      BY <1>t, <2>6 DEF Enqueue, TypeOK
    <3>2. ~\E i \in DOMAIN queue : queue[i] = a
      BY <2>1 DEF Placed, ChannelInv, InChannel
    <3>3. /\ \A i, j \in DOMAIN queue' : queue'[i] = queue'[j] => i = j
          /\ \A e \in Events : (\E i \in DOMAIN queue' : queue'[i] = e)
               <=> e = a \/ \E i \in DOMAIN queue : queue[i] = e
      BY <3>1, <3>2, AppendAddsOne DEF Placed, ChannelInv
    <3>4. ChannelInv'
      BY <2>3, <3>1, <3>3 DEF Placed, ChannelInv, InChannel
    <3> QED BY <1>t, <2>4, <3>4 DEF Placed
  <2> QED BY <1>2, <2>5, <2>6 DEF Publish
<1>3. ASSUME NEW w \in Workers, Take(w) PROVE Placed'
  <2> DEFINE a == Head(queue)
             b == IF cancelled THEN Exited ELSE Handling(a, 1)
             f == IF cancelled THEN "lost" ELSE "taken"
  <2>1. /\ queue \in Seq(Events) /\ queue # <<>> /\ queue' = Tail(queue)
        /\ worker[w] = Idle
        /\ worker' = [worker EXCEPT ![w] = b]
        /\ fate' = [fate EXCEPT ![a] = f]
    BY <1>3, <1>t DEF Take, TypeOK
  <2>2. a \in Events /\ 1 \in DOMAIN queue /\ queue[1] = a
    BY <2>1, HeadTailProperties, LenProperties, EmptySeq
  <2>3. b.phase = (IF cancelled THEN "exited" ELSE "handling")
        /\ (~cancelled => b.event = a)
    BY IdleHoldsNothing DEF Handling
  <2>f. f # "queued" /\ (f = "taken" <=> ~cancelled)
    OBVIOUS
  <2> HIDE DEF a, b, f
  <2>4. fate[a] = "queued"
    BY <2>2 DEF Placed, ChannelInv, InChannel
  <2>5. fate'[a] = f /\ \A e \in Events \ {a} : fate'[e] = fate[e]
    BY <1>t, <2>1, <2>2 DEF TypeOK
  <2>6. /\ \A i, j \in DOMAIN queue' : queue'[i] = queue'[j] => i = j
        /\ \A e \in Events : (\E i \in DOMAIN queue' : queue'[i] = e)
             <=> e # a /\ \E i \in DOMAIN queue : queue[i] = e
    BY <2>1, TailKeepsTheRest DEF Placed, ChannelInv, a
  <2>7. ChannelInv'
    BY <2>f, <2>5, <2>6 DEF Placed, ChannelInv, InChannel
  <2>8. \A e \in Events : ~Holds(w, e)
    BY <2>1, IdleHoldsNothing DEF Holds
  <2>9. \A v \in Workers : ~Holds(v, a)
    BY <2>2, <2>4 DEF Placed, HandsInv, InHands
  <2>10. /\ \A v \in Workers \ {w}, e \in Events : Holds(v, e)' <=> Holds(v, e)
         /\ \A e \in Events : Holds(w, e)' <=> ~cancelled /\ e = a
    <3>1. /\ \A v \in Workers \ {w}, e \in Events : Holds(v, e)' <=> Holds(v, e)
          /\ \A e \in Events :
               Holds(w, e)' <=> b.phase \in {"handling", "waiting"} /\ b.event = e
      BY <1>t, <2>1, OneWorkerMoves
    <3>2. b.phase \in {"handling", "waiting"} <=> ~cancelled
      BY <2>3
    <3> QED BY <2>3, <3>1, <3>2
  <2>11. ASSUME NEW e \in Events PROVE (fate[e] = "taken")' <=> InHands(e)'
    <3>1. CASE e = a
      BY <2>f, <2>5, <2>9, <2>10, <3>1 DEF InHands
    <3>2. CASE e # a
      BY <2>5, <2>8, <2>10, <3>2 DEF Placed, HandsInv, InHands
    <3> QED BY <3>1, <3>2
  <2>12. HandsInv'
    BY <2>9, <2>10, <2>11 DEF Placed, HandsInv
  <2> QED BY <1>t, <2>7, <2>12 DEF Placed
<1>4. ASSUME NEW w \in Workers, Exit(w) PROVE Placed'
  BY <1>4, <1>t, KeepPlaced, IdleHoldsNothing DEF Exit, Holds
<1>5. ASSUME NEW w \in Workers, Send(w) PROVE Placed'
  <2> DEFINE b == [worker[w] EXCEPT !.next = @ + 1]
  <2>1. worker' = [worker EXCEPT ![w] = b] /\ UNCHANGED <<queue, fate>>
    BY <1>5 DEF Send
  <2>2. worker[w] \in Busy
    BY <1>5, <1>t, HandlerHolds DEF Send
  <2>3. b.phase = worker[w].phase /\ b.event = worker[w].event
    BY <2>2 DEF Busy
  <2> HIDE DEF b
  <2> QED BY <1>t, <2>1, <2>3, KeepPlaced DEF Holds
<1>6. ASSUME NEW w \in Workers, Finish(w) PROVE Placed'
  BY <1>6, <1>t, ReleasePlaced DEF Finish, Fates
<1>7. ASSUME NEW w \in Workers, Panic(w) PROVE Placed'
  <2>1. CASE worker[w].attempt = MaxRetries
    BY <1>7, <1>t, <2>1, ReleasePlaced DEF Panic, Fates
  <2>2. CASE worker[w].attempt # MaxRetries
    <3> DEFINE b == [worker[w] EXCEPT !.phase = "waiting"]
    <3>1. worker' = [worker EXCEPT ![w] = b] /\ UNCHANGED <<queue, fate>>
      BY <1>7, <2>2 DEF Panic
    <3>2. worker[w] \in Busy
      BY <1>7, <1>t, HandlerHolds DEF Panic
    <3>3. b.phase = "waiting" /\ b.event = worker[w].event
      BY <3>2 DEF Busy
    <3> HIDE DEF b
    <3> QED BY <1>t, <1>7, <3>1, <3>3, KeepPlaced DEF Holds, Panic
  <2> QED BY <2>1, <2>2
<1>8. ASSUME NEW w \in Workers, Retry(w) PROVE Placed'
  <2> DEFINE b == Handling(worker[w].event, worker[w].attempt + 1)
  <2>1. worker' = [worker EXCEPT ![w] = b] /\ UNCHANGED <<queue, fate>>
    BY <1>8 DEF Retry
  <2>2. b.phase = "handling" /\ b.event = worker[w].event
    BY DEF Handling
  <2> HIDE DEF b
  <2>3. \A e \in Events :
          Holds(w, e) <=> b.phase \in {"handling", "waiting"} /\ b.event = e
    BY <1>8, <2>2 DEF Holds, Retry
  <2> QED BY <1>t, <2>1, <2>3, KeepPlaced
<1>9. ASSUME NEW w \in Workers, AbandonRetry(w) PROVE Placed'
  BY <1>9, <1>t, ReleasePlaced DEF AbandonRetry, Fates
<1>10. CASE Stop \/ StopReturns \/ StopTimesOut \/ Cancel
  BY <1>1, <1>10 DEF Stop, StopReturns, StopTimesOut, Cancel
<1>11. CASE Die
  <2>1. DOMAIN queue' = {} /\ \A e \in Events : fate'[e] \notin {"queued", "taken"}
    BY <1>11 DEF Die
  <2>2. \A w \in Workers, e \in Events : ~Holds(w, e)'
    BY <1>11, IdleHoldsNothing DEF Die, Holds
  <2>3. ChannelInv'
    BY <2>1 DEF ChannelInv, InChannel
  <2>4. HandsInv'
    BY <2>1, <2>2 DEF HandsInv, InHands
  <2> QED BY <1>t, <2>3, <2>4 DEF Placed
<1> QED
  BY <1>1, <1>2, <1>3, <1>4, <1>5, <1>6, <1>7, <1>8, <1>9, <1>10, <1>11
  DEF Next, Work, Handle, Resume, vars

-----------------------------------------------------------------------------
(* How often a mail is sent.                                               *)

\* A mail that the attempt under way has yet to come to was sent in earlier
\* attempts only.
Attempts(w, m) ==
  IF worker[w].phase = "handling" /\ m >= worker[w].next
  THEN worker[w].attempt - 1
  ELSE worker[w].attempt

Copied ==
  \A e \in Events, m \in Mails :
    /\ fate[e] \in {"new", "dropped", "queued"} => sent[e][m] = 0
    /\ m \notin DOMAIN Process(e) => sent[e][m] = 0
    /\ sent[e][m] <= MaxRetries
    /\ \A w \in Workers : Holds(w, e) => sent[e][m] <= Attempts(w, m)

CopiesInv == Placed /\ Copied

LEMMA CopiedIsBounded == CopiesInv => BoundedCopies
BY DEF CopiesInv, Copied, BoundedCopies

LEMMA InitCopied == Init => Copied
<1> SUFFICES ASSUME Init PROVE Copied
  OBVIOUS
<1>1. \A w \in Workers, e \in Events : ~Holds(w, e)
  BY IdleHoldsNothing DEF Init, Holds
<1>2. \A e \in Events, m \in Mails : sent[e][m] = 0
  BY DEF Init
<1> QED BY <1>1, <1>2, NotificationAssumption DEF Copied

\* Nothing is sent, and the attempts go on.
LEMMA CopiedIsKept ==
  ASSUME Copied, UNCHANGED sent,
         \A e \in Events : fate'[e] \in {"new", "dropped", "queued"}
                             => fate[e] \in {"new", "dropped", "queued"},
         \A e \in Events, m \in Mails, w \in Workers :
           Holds(w, e)' => sent[e][m] <= Attempts(w, m)'
  PROVE  Copied'
BY DEF Copied

\* A worker lets its event go.
LEMMA ReleaseCopied ==
  ASSUME CopiesInv, NEW w \in Workers, NEW f \in {"done", "given up", "lost"},
         worker[w].phase \in {"handling", "waiting"}, Release(w, f), UNCHANGED sent
  PROVE  Copied'
<1>t. TypeOK /\ Copied
  BY DEF CopiesInv, Placed
<1>1. worker' = [worker EXCEPT ![w] = Idle]
  BY DEF Release
<1>2. /\ \A v \in Workers \ {w} : worker'[v] = worker[v]
      /\ \A v \in Workers, e \in Events : Holds(v, e)' => v # w /\ Holds(v, e)
  BY <1>t, <1>1, OneWorkerMoves, IdleHoldsNothing
<1>3. \A e \in Events : fate'[e] = fate[e] \/ fate'[e] = f
  BY <1>t DEF Release, TypeOK
<1>4. ASSUME NEW e \in Events, NEW m \in Mails, NEW v \in Workers, Holds(v, e)'
      PROVE  sent[e][m] <= Attempts(v, m)'
  <2>1. Holds(v, e) /\ worker'[v] = worker[v]
    BY <1>2, <1>4
  <2> QED BY <1>t, <2>1 DEF Copied, Attempts
<1> QED BY <1>t, <1>3, <1>4, CopiedIsKept

LEMMA NextCopied == CopiesInv /\ [Next]_vars => Copied'
<1> SUFFICES ASSUME CopiesInv, [Next]_vars PROVE Copied'
  OBVIOUS
<1>t. TypeOK /\ TypeOK' /\ Copied /\ Placed
  BY NextType DEF CopiesInv, Placed
<1>n. /\ MaxRetries \in Nat \ {0}
      /\ \A m \in Mails : m \in Nat /\ m > 0
      /\ \A e \in Events, m \in Mails : sent[e][m] \in Nat
  <2>1. MaxRetries \in Nat \ {0}
    BY NotificationAssumption
  <2>2. \A m \in Mails : m \in Nat /\ m > 0
    BY MailsArePositions
  <2>3. sent \in [Events -> [Mails -> Nat]]
    BY <1>t DEF TypeOK
  <2> QED BY <2>1, <2>2, <2>3
<1>1. ASSUME UNCHANGED <<worker, sent>>,
             \A e \in Events : fate'[e] \in {"new", "dropped", "queued"}
                                 => fate[e] \in {"new", "dropped", "queued"}
      PROVE  Copied'
  BY <1>t, <1>1, CopiedIsKept DEF Copied, Holds, Attempts
<1>2. ASSUME NEW a \in Events, Publish(a) PROVE Copied'
  <2>1. fate[a] = "new" /\ UNCHANGED <<worker, sent>>
    BY <1>2 DEF Publish
  <2>2. \A e \in Events \ {a} : fate'[e] = fate[e]
    BY <1>2, <1>t DEF Publish, Enqueue, Drop, TypeOK
  <2> QED BY <1>1, <2>1, <2>2
<1>3. ASSUME NEW w \in Workers, Take(w) PROVE Copied'
  <2> DEFINE a == Head(queue)
             b == IF cancelled THEN Exited ELSE Handling(a, 1)
  <2>1. /\ queue \in Seq(Events) /\ queue # <<>>
        /\ worker' = [worker EXCEPT ![w] = b] /\ UNCHANGED sent
    BY <1>3, <1>t DEF Take, TypeOK
  <2>2. a \in Events /\ 1 \in DOMAIN queue /\ queue[1] = a
    BY <2>1, HeadTailProperties, LenProperties, EmptySeq
  <2>3. fate[a] = "queued"
    BY <1>t, <2>2 DEF Placed, ChannelInv, InChannel
  <2>4. \A e \in Events :
          fate'[e] = fate[e] \/ (e = a /\ fate'[e] \in {"lost", "taken"})
    BY <1>3, <1>t, <2>2 DEF Take, TypeOK
  <2>5. b.phase \in {"handling", "waiting"} =>
          b.phase = "handling" /\ b.event = a /\ b.attempt = 1 /\ b.next = 1
    BY IdleHoldsNothing DEF Handling
  <2> HIDE DEF a, b
  <2>6. \A m \in Mails : sent[a][m] = 0
    BY <1>t, <2>2, <2>3 DEF Copied
  <2>7. ASSUME NEW e \in Events, NEW m \in Mails, Holds(w, e)'
        PROVE  sent[e][m] <= Attempts(w, m)'
    <3>1. e = a /\ worker'[w] = b /\ b.phase \in {"handling", "waiting"}
      <4>1. /\ worker'[w] = b
            /\ Holds(w, e)' <=> b.phase \in {"handling", "waiting"} /\ b.event = e
        BY <1>t, <2>1, OneWorkerMoves
      <4> QED BY <2>5, <2>7, <4>1
    <3>2. Attempts(w, m)' \in {0, 1}
      BY <2>5, <3>1 DEF Attempts
    <3> QED BY <2>6, <3>1, <3>2
  <2>8. ASSUME NEW e \in Events, NEW m \in Mails, NEW v \in Workers \ {w}, Holds(v, e)'
        PROVE  sent[e][m] <= Attempts(v, m)'
    <3>1. Holds(v, e) /\ worker'[v] = worker[v]
      BY <1>t, <2>1, <2>8, OneWorkerMoves
    <3> QED BY <1>t, <3>1 DEF Copied, Attempts
  <2>9. \A e \in Events, m \in Mails, v \in Workers :
          Holds(v, e)' => sent[e][m] <= Attempts(v, m)'
    BY <2>7, <2>8
  <2> QED BY <1>t, <2>1, <2>4, <2>9, CopiedIsKept
<1>4. ASSUME NEW w \in Workers, Exit(w) PROVE Copied'
  <2>1. worker' = [worker EXCEPT ![w] = Exited] /\ UNCHANGED <<fate, sent>>
    BY <1>4 DEF Exit
  <2>2. /\ \A v \in Workers \ {w} : worker'[v] = worker[v]
        /\ \A v \in Workers, e \in Events : Holds(v, e)' => v # w /\ Holds(v, e)
    BY <1>t, <2>1, OneWorkerMoves, IdleHoldsNothing
  <2> QED BY <1>t, <2>1, <2>2, CopiedIsKept DEF Copied, Attempts
<1>5. ASSUME NEW w \in Workers, Send(w) PROVE Copied'
  <2> DEFINE a == worker[w].event
             n == worker[w].next
             b == [worker[w] EXCEPT !.next = @ + 1]
  <2>1. /\ worker' = [worker EXCEPT ![w] = b] /\ UNCHANGED fate
        /\ worker[w].phase = "handling" /\ n <= Len(Process(a))
        /\ sent' = [sent EXCEPT ![a][n] = @ + 1] \/ UNCHANGED sent
    BY <1>5 DEF Send, HasNext, RenderAndSend, Accepted
  <2>2. /\ worker[w] \in Busy /\ a \in Events
        /\ \A e \in Events : Holds(w, e) <=> e = a
    BY <1>t, <2>1, HandlerHolds
  <2>3. /\ b.phase = "handling" /\ b.event = a /\ b.next = n + 1
        /\ b.attempt = worker[w].attempt
        /\ worker[w].attempt \in 1 .. MaxRetries /\ n \in Nat \ {0}
    BY <2>1, <2>2 DEF Busy
  <2> HIDE DEF a, b, n
  <2>4. n \in DOMAIN Process(a) /\ n \in Mails
    BY <2>1, <2>2, <2>3, ProcessIsASequence DEF Mails
  <2>5. /\ \A v \in Workers \ {w}, e \in Events :
             Holds(v, e)' => Holds(v, e) /\ e # a /\ worker'[v] = worker[v]
        /\ \A e \in Events : Holds(w, e)' <=> e = a
        /\ worker'[w] = b
    <3>1. \A v \in Workers \ {w} : ~Holds(v, a)
      BY <1>t, <2>2 DEF Placed, HandsInv
    <3>2. /\ worker'[w] = b
          /\ \A v \in Workers \ {w} : worker'[v] = worker[v]
          /\ \A v \in Workers \ {w}, e \in Events : Holds(v, e)' <=> Holds(v, e)
          /\ \A e \in Events :
               Holds(w, e)' <=> b.phase \in {"handling", "waiting"} /\ b.event = e
      BY <1>t, <2>1, OneWorkerMoves
    <3>3. \A e \in Events : Holds(w, e)' <=> e = a
      BY <2>3, <3>2
    <3> QED BY <3>1, <3>2, <3>3
  <2>6. fate[a] = "taken"
    BY <1>t, <2>2 DEF Placed, HandsInv, InHands
  <2>7. \A e \in Events, m \in Mails :
          \/ sent'[e][m] = sent[e][m]
          \/ e = a /\ m = n /\ sent'[e][m] = sent[e][m] + 1
    <3>1. CASE UNCHANGED sent
      BY <3>1
    <3>2. CASE sent' = [sent EXCEPT ![a][n] = @ + 1]
      <4>1. a \in DOMAIN sent /\ n \in DOMAIN sent[a]
        BY <1>t, <2>2, <2>4 DEF TypeOK
      <4> QED BY <3>2, <4>1
    <3> QED BY <2>1, <3>1, <3>2
  <2>8. ASSUME NEW e \in Events, NEW m \in Mails
        PROVE  /\ fate'[e] \in {"new", "dropped", "queued"} => sent'[e][m] = 0
               /\ m \notin DOMAIN Process(e) => sent'[e][m] = 0
               /\ sent'[e][m] <= MaxRetries
               /\ \A v \in Workers : Holds(v, e)' => sent'[e][m] <= Attempts(v, m)'
    <3>1. CASE e # a
      BY <1>t, <2>1, <2>5, <2>7, <3>1 DEF Copied, Attempts
    <3>2. CASE e = a
      <4>1. /\ sent[a][m] <= Attempts(w, m) /\ sent[a][m] \in Nat
            /\ m \notin DOMAIN Process(a) => sent[a][m] = 0
        BY <1>t, <1>n, <2>2 DEF Copied
      <4>2. Attempts(w, m) = IF m >= n THEN worker[w].attempt - 1 ELSE worker[w].attempt
        BY <2>1 DEF Attempts, n
      <4>3. Attempts(w, m)' = IF m >= n + 1 THEN worker[w].attempt - 1 ELSE worker[w].attempt
        BY <2>3, <2>5 DEF Attempts
      <4>n. /\ \/ sent'[a][m] = sent[a][m]
               \/ m = n /\ sent'[a][m] = sent[a][m] + 1
            /\ m \in Nat /\ n \in Nat /\ MaxRetries \in Nat
            /\ worker[w].attempt \in Nat /\ worker[w].attempt <= MaxRetries
        BY <1>n, <2>2, <2>3, <2>7
      <4>4. sent'[a][m] <= Attempts(w, m)'
        BY <4>n, <4>1, <4>2, <4>3
      <4>5. sent'[a][m] <= MaxRetries
        BY <4>n, <4>1, <4>2
      <4>6. m \notin DOMAIN Process(a) => sent'[a][m] = 0
        BY <2>2, <2>4, <2>7, <4>1
      <4>7. \A v \in Workers : Holds(v, e)' => v = w
        BY <2>5, <3>2
      <4>8. fate'[e] = "taken"
        BY <2>1, <2>6, <3>2
      <4> QED BY <3>2, <4>4, <4>5, <4>6, <4>7, <4>8
    <3> QED BY <3>1, <3>2
  <2> QED BY <2>8 DEF Copied
<1>6. ASSUME NEW w \in Workers, Finish(w) PROVE Copied'
  BY <1>6, ReleaseCopied DEF Finish
<1>7. ASSUME NEW w \in Workers, NEW b, worker' = [worker EXCEPT ![w] = b],
             UNCHANGED <<fate, sent>>, worker[w].phase \in {"handling", "waiting"},
             b.event = worker[w].event,
             \A m \in Mails : Attempts(w, m) <=
               IF b.phase = "handling" /\ m >= b.next THEN b.attempt - 1 ELSE b.attempt,
             b.attempt \in Nat
      PROVE  Copied'
  <2>1. /\ worker'[w] = b
        /\ \A v \in Workers \ {w} : worker'[v] = worker[v]
        /\ \A v \in Workers, e \in Events : Holds(v, e)' => Holds(v, e)
    <3>1. /\ worker'[w] = b
          /\ \A v \in Workers \ {w} : worker'[v] = worker[v]
          /\ \A v \in Workers \ {w}, e \in Events : Holds(v, e)' <=> Holds(v, e)
          /\ \A e \in Events :
               Holds(w, e)' <=> b.phase \in {"handling", "waiting"} /\ b.event = e
      BY <1>t, <1>7, OneWorkerMoves
    <3>2. \A e \in Events : Holds(w, e) <=> e = worker[w].event
      BY <1>t, <1>7, HandlerHolds
    <3>3. \A e \in Events : Holds(w, e)' => Holds(w, e)
      BY <1>7, <3>1, <3>2
    <3> QED BY <3>1, <3>3
  <2>2. worker[w].attempt \in Nat
    BY <1>t, <1>7, HandlerHolds DEF Busy
  <2>3. ASSUME NEW e \in Events, NEW m \in Mails, NEW v \in Workers, Holds(v, e)'
        PROVE  sent[e][m] <= Attempts(v, m)'
    <3>1. sent[e][m] <= Attempts(v, m) /\ sent[e][m] \in Nat
      BY <1>t, <1>n, <2>1, <2>3 DEF Copied
    <3>2. CASE v # w
      BY <2>1, <3>1, <3>2 DEF Attempts
    <3>3. CASE v = w
      <4>1. Attempts(w, m) \in Int /\ Attempts(w, m)' \in Int
        BY <1>7, <2>1, <2>2 DEF Attempts
      <4>2. Attempts(w, m) <= Attempts(w, m)'
        BY <1>7, <2>1 DEF Attempts
      <4> QED BY <3>1, <3>3, <4>1, <4>2
    <3> QED BY <3>2, <3>3
  <2> QED BY <1>t, <1>7, <2>3, CopiedIsKept
<1>8. ASSUME NEW w \in Workers, Panic(w) PROVE Copied'
  <2>1. CASE worker[w].attempt = MaxRetries
    BY <1>8, <2>1, ReleaseCopied DEF Panic
  <2>2. CASE worker[w].attempt # MaxRetries
    <3> DEFINE b == [worker[w] EXCEPT !.phase = "waiting"]
    <3>1. worker' = [worker EXCEPT ![w] = b] /\ UNCHANGED <<fate, sent>>
      BY <1>8, <2>2 DEF Panic
    <3>2. worker[w] \in Busy
      BY <1>8, <1>t, HandlerHolds DEF Panic
    <3>3. /\ b.phase = "waiting" /\ b.event = worker[w].event
          /\ b.attempt = worker[w].attempt /\ b.attempt \in Nat
      BY <3>2 DEF Busy
    <3> HIDE DEF b
    <3>4. \A m \in Mails : Attempts(w, m) <= b.attempt
      BY <3>3 DEF Attempts
    <3> QED BY <1>7, <1>8, <3>1, <3>3, <3>4 DEF Panic
  <2> QED BY <2>1, <2>2
<1>9. ASSUME NEW w \in Workers, Retry(w) PROVE Copied'
  <2> DEFINE b == Handling(worker[w].event, worker[w].attempt + 1)
  <2>1. worker' = [worker EXCEPT ![w] = b] /\ UNCHANGED <<fate, sent>>
    BY <1>9 DEF Retry
  <2>2. worker[w] \in Busy /\ worker[w].phase = "waiting"
    BY <1>9, <1>t, HandlerHolds DEF Retry
  <2>3. /\ b.event = worker[w].event /\ b.attempt = worker[w].attempt + 1
        /\ worker[w].attempt \in Nat
    BY <2>2 DEF Busy, Handling
  <2> HIDE DEF b
  <2>4. \A m \in Mails : Attempts(w, m) = worker[w].attempt
    BY <2>2 DEF Attempts
  <2>5. \A m \in Mails : Attempts(w, m) <=
          IF b.phase = "handling" /\ m >= b.next THEN b.attempt - 1 ELSE b.attempt
    BY <2>3, <2>4
  <2>6. /\ worker[w].phase \in {"handling", "waiting"}
        /\ b.event = worker[w].event /\ b.attempt \in Nat
    BY <2>2, <2>3
  <2> QED BY <1>7, <2>1, <2>5, <2>6
<1>10. ASSUME NEW w \in Workers, AbandonRetry(w) PROVE Copied'
  BY <1>10, ReleaseCopied DEF AbandonRetry
<1>11. CASE Stop \/ StopReturns \/ StopTimesOut \/ Cancel
  BY <1>1, <1>11 DEF Stop, StopReturns, StopTimesOut, Cancel
<1>12. CASE Die
  <2>1. \A w \in Workers, e \in Events : ~Holds(w, e)'
    BY <1>12, IdleHoldsNothing DEF Die, Holds
  <2>2. \A e \in Events : fate'[e] = fate[e] \/ fate'[e] = "gone"
    BY <1>12 DEF Die
  <2>3. UNCHANGED sent
    BY <1>12 DEF Die
  <2>4. \A e \in Events : fate'[e] \in {"new", "dropped", "queued"}
                             => fate[e] \in {"new", "dropped", "queued"}
    BY <2>2
  <2> QED BY <1>t, <2>1, <2>3, <2>4, CopiedIsKept
<1>13. CASE UNCHANGED vars
  BY <1>1, <1>13 DEF vars
<1> QED
  BY <1>2, <1>3, <1>4, <1>5, <1>6, <1>8, <1>9, <1>10, <1>11, <1>12, <1>13
  DEF Next, Work, Handle, Resume

(***************************************************************************)
(* Whatever panics, waits, dies or starts again, no mail is sent more than *)
(* MaxRetries times, and none that the event does not call for.            *)
(***************************************************************************)
THEOREM CopiesAreBounded == Spec => []BoundedCopies
<1>1. Init => CopiesInv
  BY InitPlaced, InitCopied DEF CopiesInv
<1>2. CopiesInv /\ [Next]_vars => CopiesInv'
  BY NextPlaced, NextCopied DEF CopiesInv
<1> QED BY <1>1, <1>2, CopiedIsBounded, PTL DEF Spec

-----------------------------------------------------------------------------
(* Stop.                                                                   *)

\* A worker exits on its own only when the channel is closed and empty; an
\* event is lost only once the context is cancelled, which is after Stop.
Draining ==
  /\ cancelled => stop \in {"drained", "timed out"}
  /\ ~cancelled => /\ \A e \in Events : fate[e] # "lost"
                   /\ (\E w \in Workers : worker[w] = Exited) => Closed /\ queue = <<>>
  /\ stop = "drained" => /\ \A w \in Workers : worker[w] = Exited
                         /\ queue = <<>>
                         /\ \A e \in Events : fate[e] # "lost"

DrainInv == Placed /\ Draining

LEMMA DrainingDrains == DrainInv => StopDrains
<1> SUFFICES ASSUME DrainInv, stop = "drained", NEW e \in Events
             PROVE  fate[e] \notin {"queued", "taken", "lost"}
  BY DEF StopDrains
<1>1. /\ \A w \in Workers : worker[w] = Exited
      /\ queue = <<>> /\ fate[e] # "lost"
  BY DEF DrainInv, Draining
<1>2. ~InChannel(e)
  BY <1>1 DEF InChannel
<1>3. ~InHands(e)
  BY <1>1, IdleHoldsNothing DEF InHands, Holds
<1> QED BY <1>1, <1>2, <1>3 DEF DrainInv, Placed, ChannelInv, HandsInv

LEMMA BusyIsNotAtRest == Idle \notin Busy /\ Exited \notin Busy /\ Idle # Exited
BY IdleHoldsNothing DEF Busy

LEMMA NextDraining == DrainInv /\ [Next]_vars => Draining'
<1> SUFFICES ASSUME DrainInv, [Next]_vars PROVE Draining'
  OBVIOUS
<1>t. TypeOK /\ TypeOK' /\ Draining /\ Workers # {}
  BY NextType, NotificationAssumption DEF DrainInv, Placed
<1>1. CASE UNCHANGED vars
  BY <1>t, <1>1 DEF vars, Draining, Closed
<1>2. ASSUME NEW a \in Events, Publish(a) PROVE Draining'
  <2>1. /\ stop = "running" /\ UNCHANGED <<worker, stop, cancelled>>
        /\ \A e \in Events : fate'[e] = "lost" => fate[e] = "lost"
    BY <1>2, <1>t DEF Publish, Closed, Enqueue, Drop, TypeOK
  <2> QED BY <1>t, <2>1 DEF Draining, Closed
\* What a worker with an event, or an idle one, does while nothing is cancelled.
<1>3. ASSUME NEW w \in Workers, worker[w] # Exited, worker'[w] # Exited,
             \A v \in Workers \ {w} : worker'[v] = worker[v],
             queue = <<>> => queue' = <<>>,
             UNCHANGED <<stop, cancelled>>,
             ~cancelled => \A e \in Events : fate'[e] = "lost" => fate[e] = "lost"
      PROVE  Draining'
  <2>1. stop # "drained"
    BY <1>t, <1>3 DEF Draining
  <2>2. \A v \in Workers : worker'[v] = Exited => worker[v] = Exited
    BY <1>3
  <2> QED BY <1>t, <1>3, <2>1, <2>2 DEF Draining, Closed
<1>4. ASSUME NEW w \in Workers, Take(w) PROVE Draining'
  <2>1. /\ worker[w] # Exited /\ queue # <<>> /\ UNCHANGED <<stop, cancelled>>
        /\ \A v \in Workers \ {w} : worker'[v] = worker[v]
    BY <1>4, <1>t, BusyIsNotAtRest DEF Take, TypeOK
  <2>2. CASE cancelled
    BY <1>t, <2>1, <2>2 DEF Draining
  <2>3. CASE ~cancelled
    <3>1. worker'[w] # Exited
      <4>1. worker'[w] = Handling(Head(queue), 1)
        BY <1>4, <1>t, <2>3 DEF Take, TypeOK
      <4>2. worker'[w].phase = "handling"
        BY <4>1 DEF Handling
      <4> QED BY <4>2, IdleHoldsNothing
    <3>2. \A e \in Events : fate'[e] = "lost" => fate[e] = "lost"
      BY <1>4, <1>t, <2>3 DEF Take, TypeOK
    <3> QED BY <1>3, <2>1, <3>1, <3>2
  <2> QED BY <2>2, <2>3
<1>5. ASSUME NEW w \in Workers, Exit(w) PROVE Draining'
  <2>1. /\ worker[w] # Exited /\ queue = <<>> /\ Closed
        /\ UNCHANGED <<queue, fate, stop, cancelled>>
    BY <1>5, BusyIsNotAtRest DEF Exit
  <2> QED BY <1>t, <2>1 DEF Draining, Closed
<1>6. ASSUME NEW w \in Workers, Send(w) PROVE Draining'
  <2>1. worker[w] \in Busy /\ worker[w] # Exited
    BY <1>6, <1>t, HandlerHolds, BusyIsNotAtRest DEF Send
  <2>2. /\ worker'[w].phase = "handling"
        /\ \A v \in Workers \ {w} : worker'[v] = worker[v]
    BY <1>6, <1>t, <2>1 DEF Send, TypeOK, Busy
  <2> QED BY <1>3, <1>6, <2>1, <2>2, IdleHoldsNothing DEF Send
<1>7. ASSUME NEW w \in Workers, NEW f, Release(w, f), f = "lost" => cancelled,
             worker[w].phase \in {"handling", "waiting"},
             UNCHANGED <<queue, stop, cancelled>>
      PROVE  Draining'
  <2>1. worker[w] # Exited /\ worker[w].event \in Events
    BY <1>7, <1>t, HandlerHolds, BusyIsNotAtRest
  <2>2. /\ worker'[w] = Idle
        /\ \A v \in Workers \ {w} : worker'[v] = worker[v]
        /\ \A e \in Events : fate'[e] = f \/ fate'[e] = fate[e]
    BY <1>7, <1>t, <2>1 DEF Release, TypeOK
  <2> QED BY <1>3, <1>7, <2>1, <2>2, BusyIsNotAtRest
<1>8. ASSUME NEW w \in Workers, Finish(w) PROVE Draining'
  BY <1>7, <1>8 DEF Finish
<1>9. ASSUME NEW w \in Workers, Panic(w) PROVE Draining'
  <2>1. CASE worker[w].attempt = MaxRetries
    BY <1>7, <1>9, <2>1 DEF Panic
  <2>2. CASE worker[w].attempt # MaxRetries
    <3>1. worker[w] \in Busy /\ worker[w] # Exited
      BY <1>9, <1>t, HandlerHolds, BusyIsNotAtRest DEF Panic
    <3>2. /\ worker'[w].phase = "waiting" /\ UNCHANGED <<queue, fate, stop, cancelled>>
          /\ \A v \in Workers \ {w} : worker'[v] = worker[v]
      <4>1. /\ worker' = [worker EXCEPT ![w].phase = "waiting"]
            /\ UNCHANGED <<queue, fate, stop, cancelled>>
        BY <1>9, <2>2 DEF Panic
      <4>2. DOMAIN worker[w] = {"phase", "event", "attempt", "next"}
        BY <3>1 DEF Busy
      <4> QED BY <1>t, <4>1, <4>2 DEF TypeOK
    <3> QED BY <1>3, <3>1, <3>2, IdleHoldsNothing
  <2> QED BY <2>1, <2>2
<1>10. ASSUME NEW w \in Workers, Retry(w) PROVE Draining'
  <2>1. worker[w] \in Busy /\ worker[w] # Exited
    BY <1>10, <1>t, HandlerHolds, BusyIsNotAtRest DEF Retry
  <2>2. /\ worker'[w].phase = "handling" /\ UNCHANGED <<queue, fate, stop, cancelled>>
        /\ \A v \in Workers \ {w} : worker'[v] = worker[v]
    BY <1>10, <1>t DEF Retry, TypeOK, Handling
  <2> QED BY <1>3, <2>1, <2>2, IdleHoldsNothing
<1>11. ASSUME NEW w \in Workers, AbandonRetry(w) PROVE Draining'
  BY <1>7, <1>11 DEF AbandonRetry
<1>12. CASE Stop
  BY <1>t, <1>12 DEF Stop, Draining, Closed
<1>13. CASE StopReturns
  <2>1. /\ stop = "waiting" /\ stop' = "drained"
        /\ \A w \in Workers : worker[w] = Exited
        /\ UNCHANGED <<queue, fate, worker, cancelled>>
    BY <1>13 DEF StopReturns
  <2>2. ~cancelled
    BY <1>t, <2>1 DEF Draining
  <2>3. queue = <<>> /\ \A e \in Events : fate[e] # "lost"
    BY <1>t, <2>1, <2>2 DEF Draining
  <2> QED BY <2>1, <2>2, <2>3 DEF Draining, Closed
<1>14. CASE StopTimesOut
  BY <1>t, <1>14 DEF StopTimesOut, Draining, Closed
<1>15. CASE Cancel
  BY <1>t, <1>15 DEF Cancel, Draining, Closed
<1>16. CASE Die
  <2>1. /\ stop' = "running" /\ cancelled' = FALSE
        /\ \A w \in Workers : worker'[w] # Exited
        /\ \A e \in Events : fate'[e] # "lost"
    BY <1>16, BusyIsNotAtRest DEF Die
  <2> QED BY <2>1 DEF Draining
<1> QED
  BY <1>1, <1>2, <1>4, <1>5, <1>6, <1>8, <1>9, <1>10, <1>11, <1>12, <1>13, <1>14,
     <1>15, <1>16
  DEF Next, Work, Handle, Resume

LEMMA InitDraining == Init => Draining
BY BusyIsNotAtRest DEF Init, Draining

(***************************************************************************)
(* When Stop returns before its deadline no event is in the channel, with  *)
(* a worker or lost, however many workers there are and whatever panicked. *)
(***************************************************************************)
THEOREM StopDrainsTheService == Spec => []StopDrains
<1>1. Init => DrainInv
  BY InitPlaced, InitDraining DEF DrainInv
<1>2. DrainInv /\ [Next]_vars => DrainInv'
  BY NextPlaced, NextDraining DEF DrainInv
<1> QED BY <1>1, <1>2, DrainingDrains, PTL DEF Spec

-----------------------------------------------------------------------------
(* Each step is one that Delivery allows.                                  *)

LEMMA PhaseStays ==
  ASSUME NEW e \in Events, fate'[e] = fate[e]
  PROVE  DeliveryPhase(e)' = DeliveryPhase(e)
BY DEF DeliveryPhase

LEMMA PhasesStay ==
  ASSUME UNCHANGED fate
  PROVE  [e \in Events |-> DeliveryPhase(e)]' = [e \in Events |-> DeliveryPhase(e)]
BY PhaseStays

\* One event moves, and nothing else changes.
LEMMA OneEventMoves ==
  ASSUME NEW a \in Events, NEW f, fate' = [fate EXCEPT ![a] = f], TypeOK,
         UNCHANGED <<sent, cancelled>>
  PROVE  Promise!Move(a, DeliveryPhase(a), DeliveryPhase(a)')
<1>1. \A e \in Events \ {a} : DeliveryPhase(e)' = DeliveryPhase(e)
  BY PhaseStays DEF TypeOK
<1> QED BY <1>1 DEF Promise!Move

\* A handler is done with its event.
LEMMA Settle ==
  ASSUME Placed, NEW w \in Workers, worker[w].phase \in {"handling", "waiting"},
         NEW f \in {"done", "given up", "lost"}, Release(w, f),
         f = "lost" => cancelled, UNCHANGED <<sent, cancelled>>
  PROVE  Promise!Next
<1>1. PICK a \in Events : a = worker[w].event /\ Holds(w, a)
  BY HandlerHolds DEF Placed
<1>2. fate' = [fate EXCEPT ![a] = f] /\ TypeOK
  BY <1>1 DEF Release, Placed
<1>3. fate[a] = "taken" /\ fate'[a] = f
  BY <1>1, <1>2 DEF Placed, HandsInv, InHands, TypeOK
<1>4. /\ DeliveryPhase(a) = "accepted"
      /\ DeliveryPhase(a)' = IF f = "lost" THEN "lost" ELSE "closed"
  BY <1>3 DEF DeliveryPhase
<1>5. Promise!Move(a, DeliveryPhase(a), DeliveryPhase(a)')
  BY <1>2, OneEventMoves
<1>6. CASE f = "lost"
  BY <1>4, <1>5, <1>6 DEF Promise!Next, Promise!Forget
<1>7. CASE f # "lost"
  BY <1>4, <1>5, <1>7 DEF Promise!Next, Promise!Close
<1> QED BY <1>6, <1>7

LEMMA InitDelivers == Init => Promise!Init
<1> SUFFICES ASSUME Init PROVE Promise!Init
  OBVIOUS
<1>1. \A e \in Events : DeliveryPhase(e) = "new"
  BY DEF Init, DeliveryPhase
<1> QED BY <1>1 DEF Init, Promise!Init

LEMMA StepDelivers == Placed /\ [Next]_vars => [Promise!Next]_Promise!vars
<1> SUFFICES ASSUME Placed, [Next]_vars PROVE [Promise!Next]_Promise!vars
  OBVIOUS
<1>t. TypeOK
  BY DEF Placed
<1>1. ASSUME UNCHANGED <<fate, sent, cancelled>> PROVE UNCHANGED Promise!vars
  BY <1>1, PhasesStay DEF Promise!vars
<1>2. ASSUME NEW a \in Events, Publish(a) PROVE Promise!Next
  <2>1. PICK f \in {"queued", "dropped"} : fate' = [fate EXCEPT ![a] = f]
    BY <1>2 DEF Publish, Enqueue, Drop
  <2>2. /\ fate[a] = "new" /\ fate'[a] = f /\ UNCHANGED <<sent, cancelled>>
    BY <1>2, <1>t, <2>1 DEF Publish, TypeOK
  <2>3. /\ DeliveryPhase(a) = "new"
        /\ DeliveryPhase(a)' = IF f = "queued" THEN "accepted" ELSE "refused"
    BY <2>2 DEF DeliveryPhase
  <2>4. Promise!Move(a, DeliveryPhase(a), DeliveryPhase(a)')
    BY <1>t, <2>1, <2>2, OneEventMoves
  <2> QED BY <2>3, <2>4 DEF Promise!Next, Promise!Accept, Promise!Refuse
<1>3. ASSUME NEW w \in Workers, Take(w) PROVE Promise!Next \/ UNCHANGED Promise!vars
  <2>1. PICK a \in Events : a = Head(queue) /\ InChannel(a)
    <3>1. queue \in Seq(Events) /\ queue # <<>>
      BY <1>3, <1>t DEF Take, TypeOK
    <3> QED BY <3>1, HeadTailProperties, LenProperties, EmptySeq DEF InChannel
  <2>2. PICK f \in {"lost", "taken"} :
          /\ f = IF cancelled THEN "lost" ELSE "taken"
          /\ fate' = [fate EXCEPT ![a] = f] /\ UNCHANGED <<sent, cancelled>>
    BY <1>3, <2>1 DEF Take
  <2>3. fate[a] = "queued" /\ fate'[a] = f
    BY <1>t, <2>1, <2>2 DEF Placed, ChannelInv, TypeOK
  <2>4. /\ DeliveryPhase(a) = "accepted"
        /\ DeliveryPhase(a)' = IF f = "lost" THEN "lost" ELSE "accepted"
    BY <2>3 DEF DeliveryPhase
  <2>5. Promise!Move(a, DeliveryPhase(a), DeliveryPhase(a)')
    BY <1>t, <2>2, OneEventMoves
  <2>6. CASE cancelled
    BY <2>2, <2>4, <2>5, <2>6 DEF Promise!Next, Promise!Forget
  <2>7. CASE ~cancelled
    BY <2>2, <2>4, <2>5, <2>7 DEF Promise!Move, Promise!vars
  <2> QED BY <2>6, <2>7
<1>4. ASSUME NEW w \in Workers, Exit(w) PROVE UNCHANGED Promise!vars
  BY <1>1, <1>4 DEF Exit
<1>5. ASSUME NEW w \in Workers, Send(w) PROVE Promise!Next \/ UNCHANGED Promise!vars
  <2>1. worker[w] \in Busy /\ UNCHANGED <<fate, cancelled>>
    BY <1>5, <1>t, HandlerHolds DEF Send
  <2>2. PICK a \in Events : a = worker[w].event /\ Holds(w, a)
    BY <1>5, <1>t, HandlerHolds DEF Send
  <2>3. CASE UNCHANGED sent
    BY <1>1, <2>1, <2>3
  <2>4. CASE Accepted(a, worker[w].next)
    <3>1. worker[w].next \in DOMAIN Process(a)
      BY <1>5, <2>1, <2>2, ProcessIsASequence DEF Send, HasNext, Busy
    <3>2. PICK m \in Mails : sent' = [sent EXCEPT ![a][m] = @ + 1]
      BY <2>4, <3>1 DEF Mails, Accepted
    <3>3. fate[a] = "taken"
      BY <2>2 DEF Placed, HandsInv, InHands
    <3>4. DeliveryPhase(a) = "accepted"
      BY <3>3 DEF DeliveryPhase
    <3>5. Promise!Deliver(a)
      BY <2>1, <3>2, <3>4, PhasesStay DEF Promise!Deliver
    <3> QED BY <3>5 DEF Promise!Next
  <2> QED BY <1>5, <2>2, <2>3, <2>4 DEF Send, RenderAndSend
<1>6. ASSUME NEW w \in Workers, Finish(w) PROVE Promise!Next
  BY <1>6, Settle DEF Finish
<1>7. ASSUME NEW w \in Workers, Panic(w) PROVE Promise!Next \/ UNCHANGED Promise!vars
  BY <1>1, <1>7, Settle DEF Panic
<1>8. ASSUME NEW w \in Workers, Retry(w) PROVE UNCHANGED Promise!vars
  BY <1>1, <1>8 DEF Retry
<1>9. ASSUME NEW w \in Workers, AbandonRetry(w) PROVE Promise!Next
  BY <1>9, Settle DEF AbandonRetry
<1>10. CASE Stop \/ StopReturns \/ StopTimesOut
  BY <1>1, <1>10 DEF Stop, StopReturns, StopTimesOut
<1>11. CASE Cancel
  <2>1. Promise!TakeDown
    BY <1>11, PhasesStay DEF Cancel, Promise!TakeDown
  <2> QED BY <2>1 DEF Promise!Next
<1>12. CASE Die
  <2>1. ASSUME NEW e \in Events
        PROVE  DeliveryPhase(e)' = IF DeliveryPhase(e) = "accepted" THEN "lost"
                                   ELSE DeliveryPhase(e)
    <3>1. /\ fate[e] \in Fates
          /\ fate'[e] = IF fate[e] \in {"queued", "taken", "lost"} THEN "gone" ELSE fate[e]
      BY <1>12, <1>t DEF Die, TypeOK
    <3> QED BY <3>1 DEF DeliveryPhase, Fates
  <2>2. Promise!Crash
    BY <1>12, <2>1 DEF Die, Promise!Crash
  <2> QED BY <2>2 DEF Promise!Next
<1>13. CASE UNCHANGED vars
  BY <1>1, <1>13 DEF vars
<1> QED
  BY <1>2, <1>3, <1>4, <1>5, <1>6, <1>7, <1>8, <1>9, <1>10, <1>11, <1>12, <1>13
  DEF Next, Work, Handle, Resume

(***************************************************************************)
(* The service does nothing that Delivery does not promise: what it has    *)
(* accepted it closes, or loses with the process or after the context was  *)
(* cancelled, and it sends nothing else.  That it does close it is checked *)
(* by TLC, under fairness (ImplementsDelivery).                            *)
(***************************************************************************)
THEOREM StepsAreDelivery == Spec => Promise!Init /\ [][Promise!Next]_Promise!vars
<1>1. Spec => []Placed
  BY InitPlaced, NextPlaced, PTL DEF Spec
<1> QED BY <1>1, InitDelivers, StepDelivers, PTL DEF Spec

-----------------------------------------------------------------------------
(* The server: its requests leave the notification service as it is, so that
   what is proved of Notification holds in the server; and a mail goes out only
   for what was committed, or whose COMMIT failed. *)

LEMMA ServerStep == [ServerNext]_allVars => [Next]_vars
<1> SUFFICES ASSUME [ServerNext]_allVars PROVE [Next]_vars
  OBVIOUS
<1>1. CASE UNCHANGED allVars
  BY <1>1 DEF allVars
<1>2. ASSUME NEW r \in Events, Arrive(r) PROVE UNCHANGED vars
  BY <1>2 DEF Arrive
<1>3. ASSUME NEW r \in Events, Serve(r) PROVE [Next]_vars
  BY <1>3 DEF Serve, BeginTransaction, NeedSecond, TakeSecond, ReturnSecond, Commit,
              FailToCommit, Refuse, LookUp, PublishAndAnswer, Next
<1>4. CASE Notify
  BY <1>4 DEF Notify, Next
<1>5. CASE StopServer
  BY <1>5 DEF StopServer, Next
<1>6. CASE DieServing
  BY <1>6 DEF DieServing, Next
<1> QED BY <1>1, <1>2, <1>3, <1>4, <1>5, <1>6 DEF ServerNext

(***************************************************************************)
(* Every behaviour of the server is one of the notification service: what  *)
(* holds of every behaviour of Notification, as CopiesAreBounded and       *)
(* StopDrainsTheService, holds while requests are served.                  *)
(***************************************************************************)
THEOREM ServerIsNotification == ServerSpec => Spec
<1>1. ServerInit => Init
  BY DEF ServerInit
<1> QED BY <1>1, ServerStep, PTL DEF ServerSpec, Spec

-----------------------------------------------------------------------------
(* Only after the commit.                                                  *)

Recorded(r) == r \in written \cup failed

\* An event that was published belongs to a request that came to its end.
PublishedAreRecorded ==
  \A r \in Events :
    step[r] \in {"ended", "looking up"} \/ fate[r] # "new" => Recorded(r)

AnnounceInv ==
  CopiesInv /\ step \in [Events -> Steps] /\ PublishedAreRecorded

LEMMA AnnouncesWhatIsRecorded == AnnounceInv => MailsAnnounceCommits
<1> SUFFICES ASSUME AnnounceInv, NEW e \in Events, NEW m \in Mails, sent[e][m] > 0
             PROVE  e \in written \cup failed
  BY DEF MailsAnnounceCommits
<1>1. fate[e] # "new"
  BY DEF AnnounceInv, CopiesInv, Copied
<1> QED BY <1>1 DEF AnnounceInv, PublishedAreRecorded, Recorded

LEMMA InitAnnounce == ServerInit => AnnounceInv
<1> SUFFICES ASSUME ServerInit PROVE AnnounceInv
  OBVIOUS
<1>1. CopiesInv
  BY InitPlaced, InitCopied DEF ServerInit, CopiesInv
<1>2. /\ step \in [Events -> Steps]
      /\ \A r \in Events : step[r] = "idle" /\ fate[r] = "new"
  BY DEF ServerInit, Init, Steps
<1> QED BY <1>1, <1>2 DEF AnnounceInv, PublishedAreRecorded

\* The workers touch no event that was not published.
LEMMA WorkLeavesNewEvents ==
  ASSUME Placed, Work \/ StopReturns \/ StopTimesOut \/ Cancel, NEW e \in Events,
         fate[e] = "new"
  PROVE  fate'[e] = "new"
<1>t. TypeOK
  BY DEF Placed
<1>1. ASSUME NEW w \in Workers, Take(w) PROVE fate'[e] = "new"
  <2>1. queue \in Seq(Events) /\ queue # <<>>
    BY <1>1, <1>t DEF Take, TypeOK
  <2>2. Head(queue) \in Events /\ InChannel(Head(queue))
    BY <2>1, HeadTailProperties, LenProperties, EmptySeq DEF InChannel
  <2>3. fate[Head(queue)] = "queued"
    BY <2>2 DEF Placed, ChannelInv
  <2> QED BY <1>1, <1>t, <2>2, <2>3 DEF Take, TypeOK
<1>2. ASSUME NEW w \in Workers, NEW f, Release(w, f),
             worker[w].phase \in {"handling", "waiting"}
      PROVE  fate'[e] = "new"
  <2>1. ~Holds(w, e)
    BY DEF Placed, HandsInv, InHands
  <2>2. worker[w].event # e /\ worker[w].event \in Events
    BY <1>2, <1>t, <2>1, HandlerHolds
  <2> QED BY <1>2, <1>t, <2>2 DEF Release, TypeOK
<1>3. ASSUME NEW w \in Workers, Exit(w) \/ Handle(w) \/ Resume(w) PROVE fate'[e] = "new"
  BY <1>2, <1>3
  DEF Exit, Handle, Send, Finish, Panic, Resume, Retry, AbandonRetry
<1>4. CASE StopReturns \/ StopTimesOut \/ Cancel
  BY <1>4 DEF StopReturns, StopTimesOut, Cancel
<1> QED BY <1>1, <1>3, <1>4 DEF Work

LEMMA NextAnnounce == AnnounceInv /\ [ServerNext]_allVars => AnnounceInv'
<1> SUFFICES ASSUME AnnounceInv, [ServerNext]_allVars PROVE AnnounceInv'
  OBVIOUS
<1>c. CopiesInv'
  BY ServerStep, NextPlaced, NextCopied DEF AnnounceInv, CopiesInv
<1>t. /\ step \in [Events -> Steps] /\ PublishedAreRecorded
      /\ Placed /\ TypeOK
  BY DEF AnnounceInv, CopiesInv, Placed
<1>k. ASSUME step' \in [Events -> Steps],
             written \subseteq written', failed \subseteq failed',
             \A r \in Events : step'[r] \in {"ended", "looking up"}
                               => step[r] \in {"ended", "looking up"} \/ Recorded(r)',
             \A r \in Events : fate'[r] # "new" => fate[r] # "new" \/ Recorded(r)'
      PROVE  AnnounceInv'
  BY <1>c, <1>t, <1>k DEF AnnounceInv, PublishedAreRecorded, Recorded
<1>g. ASSUME NEW a \in Events, NEW from \in Steps, NEW to \in Steps, Go(a, from, to)
      PROVE  /\ step[a] = from /\ step'[a] = to
             /\ step' \in [Events -> Steps]
             /\ \A r \in Events \ {a} : step'[r] = step[r]
  BY <1>t, <1>g DEF Go
<1>1. CASE UNCHANGED allVars
  BY <1>c, <1>t, <1>1 DEF allVars, vars, serverVars, AnnounceInv, PublishedAreRecorded,
                          Recorded
<1>2. ASSUME NEW a \in Events, Arrive(a) \/ BeginTransaction(a) \/ NeedSecond(a)
                               \/ TakeSecond(a) \/ ReturnSecond(a)
      PROVE  AnnounceInv'
  <2>1. /\ UNCHANGED <<fate, written, failed>>
        /\ \E from \in Steps, to \in Steps \ {"ended", "looking up"} : Go(a, from, to)
    BY <1>2 DEF Arrive, BeginTransaction, NeedSecond, TakeSecond, ReturnSecond, vars, Steps
  <2> QED BY <1>g, <1>k, <2>1
<1>3. ASSUME NEW a \in Events, Commit(a) \/ FailToCommit(a) PROVE AnnounceInv'
  <2>1. /\ UNCHANGED fate /\ written \subseteq written' /\ failed \subseteq failed'
        /\ \E from \in Steps : Go(a, from, "ended")
        /\ Recorded(a)'
    BY <1>3 DEF Commit, FailToCommit, vars, Steps, BeforeCommit, Recorded
  <2>2. "ended" \in Steps
    BY DEF Steps
  <2> QED BY <1>g, <1>k, <2>1, <2>2
<1>4. ASSUME NEW a \in Events, Refuse(a) PROVE AnnounceInv'
  <2>1. /\ UNCHANGED <<fate, written, failed>>
        /\ step' = [step EXCEPT ![a] = "error"] /\ "error" \in Steps
    BY <1>4 DEF Refuse, vars, Steps, Answered
  <2>2. /\ step' \in [Events -> Steps]
        /\ \A r \in Events : step'[r] = "error" \/ step'[r] = step[r]
    BY <1>t, <2>1
  <2> QED BY <1>k, <2>1, <2>2
<1>5. ASSUME NEW a \in Events, LookUp(a) PROVE AnnounceInv'
  <2>1. /\ UNCHANGED <<fate, written, failed>> /\ Go(a, "ended", "looking up")
        /\ "ended" \in Steps /\ "looking up" \in Steps
    BY <1>5 DEF LookUp, vars, Steps
  <2> QED BY <1>g, <1>k, <2>1
<1>6. ASSUME NEW a \in Events, PublishAndAnswer(a) PROVE AnnounceInv'
  <2>1. /\ step[a] \in {"ended", "looking up"} /\ UNCHANGED <<written, failed>>
        /\ \E from \in Steps : Go(a, from, "ok")
        /\ "ok" \in Steps
    BY <1>6 DEF PublishAndAnswer, Published, Go, Steps, Answered
  <2>2. Recorded(a)'
    BY <1>t, <2>1 DEF PublishedAreRecorded, Recorded
  <2>3. \A r \in Events \ {a} : fate'[r] = fate[r]
    BY <1>6, <1>t DEF PublishAndAnswer, Publish, Enqueue, Drop, TypeOK
  <2>4. \A r \in Events : step'[r] = "ok" \/ step'[r] = step[r]
    BY <1>g, <2>1
  <2> QED BY <1>g, <1>k, <2>1, <2>2, <2>3, <2>4
<1>7. CASE Notify
  <2>1. \A r \in Events : fate'[r] # "new" => fate[r] # "new"
    BY <1>7, <1>t, WorkLeavesNewEvents DEF Notify
  <2> QED BY <1>k, <1>t, <1>7, <2>1 DEF Notify, serverVars
<1>8. CASE StopServer
  BY <1>k, <1>t, <1>8 DEF StopServer, Stop, serverVars
<1>9. CASE DieServing
  <2>1. /\ UNCHANGED <<written, failed>>
        /\ \A r \in Events : fate'[r] # "new" => fate[r] # "new"
    BY <1>9 DEF DieServing, Die
  <2>2. /\ step' \in [Events -> Steps]
        /\ \A r \in Events : step'[r] = "dead" \/ step'[r] = step[r]
    BY <1>9, <1>t DEF DieServing, Steps
  <2> QED BY <1>k, <2>1, <2>2
<1> QED
  BY <1>1, <1>2, <1>3, <1>4, <1>5, <1>6, <1>7, <1>8, <1>9 DEF ServerNext, Serve

(***************************************************************************)
(* Whatever requests are under way, however they fail and whenever the     *)
(* process dies: a mail is sent only for a request whose transaction was   *)
(* committed, or whose COMMIT failed unnoticed.                            *)
(***************************************************************************)
THEOREM MailsFollowCommits == ServerSpec => []MailsAnnounceCommits
BY InitAnnounce, NextAnnounce, AnnouncesWhatIsRecorded, PTL DEF ServerSpec

-----------------------------------------------------------------------------
(* The connections.  A step is taken by one request, and the connections in   *)
(* use change by what that request takes or gives back.                       *)

With1 == {r \in Events : Held(r) = 1}
With2 == {r \in Events : Held(r) = 2}

PoolInv ==
  /\ step \in [Events -> Steps]
  /\ IsFiniteSet(With1) /\ IsFiniteSet(With2)
  /\ InUse <= MaxOpen
  /\ \A r \in Events : step[r] \in {"waiting", "reading", "read"} => r \in Nested

LEMMA CountApart ==
  ASSUME NEW S, NEW r, IsFiniteSet(S \ {r})
  PROVE  /\ IsFiniteSet(S)
         /\ Cardinality(S) = Cardinality(S \ {r}) + IF r \in S THEN 1 ELSE 0
         /\ Cardinality(S \ {r}) \in Nat
<1>1. Cardinality(S \ {r}) \in Nat
  BY FS_CardinalityType
<1>2. CASE r \in S
  <2>1. S = (S \ {r}) \cup {r}
    BY <1>2
  <2>2. /\ IsFiniteSet((S \ {r}) \cup {r})
        /\ Cardinality((S \ {r}) \cup {r}) = Cardinality(S \ {r}) + 1
    BY FS_AddElement
  <2> QED BY <1>1, <1>2, <2>1, <2>2
<1>3. CASE r \notin S
  <2>1. S = S \ {r}
    BY <1>3
  <2>2. Cardinality(S) = Cardinality(S \ {r}) /\ IsFiniteSet(S)
    BY <2>1, Zenon
  <2> QED BY <1>1, <1>3, <2>2
<1> QED BY <1>2, <1>3

LEMMA InUseIsANumber ==
  ASSUME PoolInv
  PROVE  InUse \in Nat /\ InUse = Cardinality(With1) + 2 * Cardinality(With2)
BY FS_CardinalityType DEF PoolInv, InUse, With1, With2

LEMMA OneRequestMoves ==
  ASSUME PoolInv, NEW r \in Events, \A q \in Events \ {r} : step'[q] = step[q]
  PROVE  /\ IsFiniteSet(With1') /\ IsFiniteSet(With2')
         /\ InUse' = InUse + Held(r)' - Held(r)
<1>1. \A q \in Events \ {r} : Held(q)' = Held(q)
  BY DEF Held
<1>2. With1' \ {r} = With1 \ {r} /\ With2' \ {r} = With2 \ {r}
  BY <1>1 DEF With1, With2
<1>3. IsFiniteSet(With1 \ {r}) /\ IsFiniteSet(With2 \ {r})
  BY FS_RemoveElement DEF PoolInv
<1> DEFINE a == Cardinality(With1 \ {r})
           b == Cardinality(With2 \ {r})
<1>4. /\ Cardinality(With1) = a + IF r \in With1 THEN 1 ELSE 0
      /\ Cardinality(With2) = b + IF r \in With2 THEN 1 ELSE 0
      /\ a \in Nat /\ b \in Nat
  BY <1>3, CountApart
<1>5. /\ Cardinality(With1') = Cardinality(With1' \ {r}) + IF r \in With1' THEN 1 ELSE 0
      /\ Cardinality(With2') = Cardinality(With2' \ {r}) + IF r \in With2' THEN 1 ELSE 0
      /\ IsFiniteSet(With1') /\ IsFiniteSet(With2')
  BY <1>2, <1>3, CountApart
<1>6. /\ Cardinality(With1') = a + IF r \in With1' THEN 1 ELSE 0
      /\ Cardinality(With2') = b + IF r \in With2' THEN 1 ELSE 0
  BY <1>2, <1>5
<1> HIDE DEF a, b
<1>7. /\ Held(r) \in {0, 1, 2} /\ Held(r)' \in {0, 1, 2}
      /\ (r \in With1 <=> Held(r) = 1) /\ (r \in With2 <=> Held(r) = 2)
      /\ (r \in With1' <=> Held(r)' = 1) /\ (r \in With2' <=> Held(r)' = 2)
  BY DEF Held, With1, With2
<1>8. /\ InUse = Cardinality(With1) + 2 * Cardinality(With2)
      /\ InUse' = Cardinality(With1') + 2 * Cardinality(With2')
  BY DEF InUse, With1, With2
<1>9. Cardinality(With1) + 2 * Cardinality(With2) = a + 2 * b + Held(r)
  BY <1>4, <1>7
<1>10. Cardinality(With1') + 2 * Cardinality(With2') = a + 2 * b + Held(r)'
  BY <1>4, <1>6, <1>7
<1> QED BY <1>4, <1>5, <1>7, <1>8, <1>9, <1>10

\* A request that takes a connection found one free.
LEMMA MoveKeepsPool ==
  ASSUME PoolInv, NEW r \in Events, step' \in [Events -> Steps],
         \A q \in Events \ {r} : step'[q] = step[q],
         \/ Held(r)' <= Held(r)
         \/ Held(r)' = Held(r) + 1 /\ ConnectionIsFree,
         step'[r] \in {"waiting", "reading", "read"} => r \in Nested
  PROVE  PoolInv'
<1>1. /\ IsFiniteSet(With1') /\ IsFiniteSet(With2')
      /\ InUse' = InUse + Held(r)' - Held(r)
  BY OneRequestMoves
<1>2. /\ InUse \in Nat /\ InUse <= MaxOpen /\ MaxOpen \in Nat
      /\ Held(r) \in Nat /\ Held(r)' \in Nat
  BY InUseIsANumber, ServerAssumption DEF PoolInv, Held
<1>3. InUse' <= MaxOpen
  BY <1>1, <1>2 DEF ConnectionIsFree
<1>4. \A q \in Events : step'[q] \in {"waiting", "reading", "read"} => q \in Nested
  BY DEF PoolInv
<1> QED BY <1>1, <1>3, <1>4 DEF PoolInv

LEMMA InitPool == ServerInit => PoolInv
<1> SUFFICES ASSUME ServerInit PROVE PoolInv
  OBVIOUS
<1>1. step \in [Events -> Steps] /\ \A r \in Events : step[r] = "idle"
  BY DEF ServerInit, Steps
<1>2. With1 = {} /\ With2 = {}
  <2>1. \A r \in Events : Held(r) = 0
    BY <1>1 DEF Held
  <2> QED BY <2>1 DEF With1, With2
<1>3. InUse = 0
  BY <1>2, FS_EmptySet DEF InUse, With1, With2
<1> QED BY <1>1, <1>2, <1>3, FS_EmptySet, ServerAssumption DEF PoolInv

LEMMA NextPool == PoolInv /\ [ServerNext]_allVars => PoolInv'
<1> SUFFICES ASSUME PoolInv, [ServerNext]_allVars PROVE PoolInv'
  OBVIOUS
<1>t. step \in [Events -> Steps]
  BY DEF PoolInv
<1>g. ASSUME NEW r \in Events, NEW from, NEW to \in Steps, Go(r, from, to)
      PROVE  /\ step[r] = from /\ step'[r] = to /\ step' \in [Events -> Steps]
             /\ \A q \in Events \ {r} : step'[q] = step[q]
  BY <1>t, <1>g DEF Go
<1>u. ASSUME UNCHANGED step PROVE PoolInv'
  BY <1>u DEF PoolInv, With1, With2, InUse, Held
<1>1. CASE UNCHANGED allVars \/ Notify \/ StopServer
  BY <1>1, <1>u DEF allVars, serverVars, Notify, StopServer
<1>2. ASSUME NEW r \in Events, Arrive(r) PROVE PoolInv'
  <2>1. Go(r, "idle", "arrived") /\ "arrived" \in Steps
    BY <1>2 DEF Arrive, Steps
  <2>2. /\ step[r] = "idle" /\ step'[r] = "arrived" /\ step' \in [Events -> Steps]
        /\ \A q \in Events \ {r} : step'[q] = step[q]
    BY <1>g, <2>1
  <2>3. Held(r) = 0 /\ Held(r)' = 0
    BY <2>2 DEF Held
  <2>4. step'[r] \notin {"waiting", "reading", "read"}
    BY <2>2
  <2> QED BY <2>1, <2>2, <2>3, <2>4, MoveKeepsPool
<1>3. ASSUME NEW r \in Events, BeginTransaction(r) PROVE PoolInv'
  <2>1. Go(r, "arrived", "begun") /\ "begun" \in Steps /\ ConnectionIsFree
    BY <1>3 DEF BeginTransaction, Steps
  <2>2. /\ step[r] = "arrived" /\ step'[r] = "begun" /\ step' \in [Events -> Steps]
        /\ \A q \in Events \ {r} : step'[q] = step[q]
    BY <1>g, <2>1
  <2>3. Held(r) = 0 /\ Held(r)' = 1
    BY <2>2 DEF Held
  <2>4. step'[r] \notin {"waiting", "reading", "read"}
    BY <2>2
  <2> QED BY <2>1, <2>2, <2>3, <2>4, MoveKeepsPool
<1>4. ASSUME NEW r \in Events, NeedSecond(r) PROVE PoolInv'
  <2>1. Go(r, "begun", "waiting") /\ "waiting" \in Steps /\ r \in Nested
    BY <1>4 DEF NeedSecond, Steps
  <2>2. /\ step[r] = "begun" /\ step'[r] = "waiting" /\ step' \in [Events -> Steps]
        /\ \A q \in Events \ {r} : step'[q] = step[q]
    BY <1>g, <2>1
  <2>3. Held(r) = 1 /\ Held(r)' = 1
    BY <2>2 DEF Held
  <2> QED BY <2>1, <2>2, <2>3, MoveKeepsPool
<1>5. ASSUME NEW r \in Events, TakeSecond(r) PROVE PoolInv'
  <2>1. Go(r, "waiting", "reading") /\ "reading" \in Steps /\ ConnectionIsFree
    BY <1>5 DEF TakeSecond, Steps
  <2>2. /\ step[r] = "waiting" /\ step'[r] = "reading" /\ step' \in [Events -> Steps]
        /\ \A q \in Events \ {r} : step'[q] = step[q]
    BY <1>g, <2>1
  <2>3. Held(r) = 1 /\ Held(r)' = 2
    BY <2>2 DEF Held
  <2>4. r \in Nested
    BY <2>2 DEF PoolInv
  <2> QED BY <2>1, <2>2, <2>3, <2>4, MoveKeepsPool
<1>6. ASSUME NEW r \in Events, ReturnSecond(r) PROVE PoolInv'
  <2>1. Go(r, "reading", "read") /\ "read" \in Steps
    BY <1>6 DEF ReturnSecond, Steps
  <2>2. /\ step[r] = "reading" /\ step'[r] = "read" /\ step' \in [Events -> Steps]
        /\ \A q \in Events \ {r} : step'[q] = step[q]
    BY <1>g, <2>1
  <2>3. Held(r) = 2 /\ Held(r)' = 1
    BY <2>2 DEF Held
  <2>4. r \in Nested
    BY <2>2 DEF PoolInv
  <2> QED BY <2>1, <2>2, <2>3, <2>4, MoveKeepsPool
<1>7. ASSUME NEW r \in Events, Commit(r) \/ FailToCommit(r) PROVE PoolInv'
  <2>1. Go(r, BeforeCommit(r), "ended") /\ "ended" \in Steps
    BY <1>7 DEF Commit, FailToCommit, Steps
  <2>2. /\ step'[r] = "ended" /\ step' \in [Events -> Steps]
        /\ \A q \in Events \ {r} : step'[q] = step[q]
    BY <1>g, <2>1
  <2>3. Held(r) \in Nat /\ Held(r)' = 0
    BY <2>2 DEF Held
  <2>4. step'[r] \notin {"waiting", "reading", "read"}
    BY <2>2
  <2> QED BY <2>2, <2>3, <2>4, MoveKeepsPool
<1>8. ASSUME NEW r \in Events, Refuse(r) PROVE PoolInv'
  <2>1. /\ step' = [step EXCEPT ![r] = "error"] /\ "error" \in Steps
    BY <1>8 DEF Refuse, Steps, Answered
  <2>2. /\ step'[r] = "error" /\ step' \in [Events -> Steps]
        /\ \A q \in Events \ {r} : step'[q] = step[q]
    BY <1>t, <2>1
  <2>3. Held(r) \in Nat /\ Held(r)' = 0
    BY <2>2 DEF Held
  <2>4. step'[r] \notin {"waiting", "reading", "read"}
    BY <2>2
  <2> QED BY <2>2, <2>3, <2>4, MoveKeepsPool
<1>9. ASSUME NEW r \in Events, LookUp(r) PROVE PoolInv'
  <2>1. Go(r, "ended", "looking up") /\ "looking up" \in Steps
    BY <1>9 DEF LookUp, Steps
  <2>2. /\ step[r] = "ended" /\ step'[r] = "looking up"
    BY <1>g, <2>1
  <2>3. step' \in [Events -> Steps] /\ \A q \in Events \ {r} : step'[q] = step[q]
    BY <1>g, <2>1
  <2>4. Held(r) = 0 /\ Held(r)' = 1
    BY <2>2 DEF Held
  <2>5. step'[r] \notin {"waiting", "reading", "read"} /\ ConnectionIsFree
    BY <1>9, <2>2 DEF LookUp
  <2> QED BY <2>3, <2>4, <2>5, MoveKeepsPool
<1>10. ASSUME NEW r \in Events, PublishAndAnswer(r) PROVE PoolInv'
  <2>1. Go(r, Published(r), "ok") /\ "ok" \in Steps
    BY <1>10 DEF PublishAndAnswer, Steps, Answered
  <2>2. /\ step'[r] = "ok" /\ step' \in [Events -> Steps]
        /\ \A q \in Events \ {r} : step'[q] = step[q]
    BY <1>g, <2>1
  <2>3. Held(r) \in Nat /\ Held(r)' = 0
    BY <2>2 DEF Held
  <2>4. step'[r] \notin {"waiting", "reading", "read"}
    BY <2>2
  <2> QED BY <2>2, <2>3, <2>4, MoveKeepsPool
<1>11. CASE DieServing
  <2>1. /\ step' \in [Events -> Steps]
        /\ \A r \in Events :
             step'[r] \notin {"begun", "waiting", "reading", "read", "looking up"}
    BY <1>11, <1>t DEF DieServing, Steps, InFlight, Answered
  <2>2. \A r \in Events : Held(r)' = 0
    BY <2>1 DEF Held
  <2>3. With1' = {} /\ With2' = {}
    BY <2>2 DEF With1, With2
  <2>4. InUse' = 0
    BY <2>3, FS_EmptySet DEF InUse, With1, With2
  <2>5. IsFiniteSet(With1') /\ IsFiniteSet(With2')
    BY <2>3, FS_EmptySet
  <2>6. InUse' <= MaxOpen
    BY <2>4, ServerAssumption
  <2> QED BY <2>1, <2>5, <2>6 DEF PoolInv
<1> QED
  BY <1>1, <1>2, <1>3, <1>4, <1>5, <1>6, <1>7, <1>8, <1>9, <1>10, <1>11
  DEF ServerNext, Serve

LEMMA PoolInvHolds == ServerSpec => []PoolInv
BY InitPool, NextPool, PTL DEF ServerSpec

(***************************************************************************)
(* The server keeps its types, and never has more connections in use than  *)
(* the pool may open, for any requests and any size of the pool.           *)
(***************************************************************************)
THEOREM ServerTypeCorrectness == ServerSpec => []ServerTypeOK
<1> DEFINE Requests == written \subseteq Events /\ failed \subseteq Events
<1>1. ServerInit => Requests
  BY DEF ServerInit
<1>2. Requests /\ [ServerNext]_allVars => Requests'
  <2> SUFFICES ASSUME Requests, [ServerNext]_allVars PROVE Requests'
    OBVIOUS
  <2>1. CASE UNCHANGED <<written, failed>>
    BY <2>1
  <2>2. ASSUME NEW r \in Events, Commit(r) \/ FailToCommit(r) PROVE Requests'
    BY <2>2 DEF Commit, FailToCommit
  <2> QED
    BY <2>1, <2>2
    DEF ServerNext, allVars, serverVars, Arrive, Serve, BeginTransaction, NeedSecond,
        TakeSecond, ReturnSecond, Refuse, LookUp, PublishAndAnswer, Notify, StopServer,
        DieServing
<1>3. PoolInv /\ Requests /\ TypeOK => ServerTypeOK
  BY DEF PoolInv, ServerTypeOK
<1> HIDE DEF Requests
<1>4. ServerSpec => []Requests
  BY <1>1, <1>2, PTL DEF ServerSpec
<1>5. ServerSpec => []TypeOK
  BY ServerIsNotification, NotificationTypeCorrectness, PTL
<1> QED BY <1>3, <1>4, <1>5, PoolInvHolds, PTL
=============================================================================
