------------------------------- MODULE Server -------------------------------
(***************************************************************************)
(* The requests the server handles at the same time, and what they share:  *)
(* the pool of database connections and the notification service.          *)
(*                                                                         *)
(* A request takes a connection for its transaction and keeps it to the    *)
(* end; without a free one it waits, with no time limit.  Some requests    *)
(* read through the pool in the middle of their transaction: CreateEmployee*)
(* lists the leave types, UpdateEmployeeRole, UpdateEmployeeInfo and       *)
(* AdjustLeaveBalance read a role, FinalizePayroll the leaves.  They hold  *)
(* one connection while they wait for another: MaxOpen of them at once     *)
(* wait for each other for ever, here as in the code, which does nothing   *)
(* against it.                                                             *)
(*                                                                         *)
(* After the commit a request that changes a leave, creates an employee or *)
(* sets a password publishes its event; Events are those requests.  One    *)
(* that publishes nothing behaves like one whose event is dropped.         *)
(***************************************************************************)
EXTENDS Notification

CONSTANTS
  Nested,     \* requests that read through the pool inside their transaction
  MaxOpen     \* SetMaxOpenConns

ASSUME ServerAssumption == Nested \subseteq Events /\ MaxOpen \in Nat \ {0}

VARIABLES
  step,       \* how far each request is
  written,    \* requests whose transaction was committed
  failed      \* requests whose COMMIT failed

serverVars == <<step, written, failed>>
allVars == <<vars, serverVars>>

Answered == {"ok", "error"}

Steps == {"idle", "arrived", "begun", "waiting", "reading", "read", "ended", "looking up"}
           \cup Answered \cup {"dead"}

HeldAfterRefusal(r) ==
  CASE step[r] = "reading" -> 2
    [] step[r] \in {"begun", "waiting", "read", "looking up", "error"} -> 1
    [] OTHER -> 0

\* The connections a request holds: committing or rolling back frees them.
Held(r) ==
  CASE step[r] = "reading" -> 2
    [] step[r] \in {"begun", "waiting", "read", "looking up"} -> 1
    [] OTHER -> 0

InUse ==
  LET one == {r \in Events : Held(r) = 1}
      two == {r \in Events : Held(r) = 2}
  IN Cardinality(one) + 2 * Cardinality(two)

ConnectionIsFree == InUse < MaxOpen

ServerInit ==
  /\ Init
  /\ step = [r \in Events |-> "idle"]
  /\ written = {}
  /\ failed = {}

-----------------------------------------------------------------------------
Go(r, from, to) == step[r] = from /\ step' = [step EXCEPT ![r] = to]

Arrive(r) == ~Closed /\ Go(r, "idle", "arrived") /\ UNCHANGED <<vars, written, failed>>

\* BeginTxx takes a connection, or the only statement of the request does.
BeginTransaction(r) ==
  /\ ConnectionIsFree
  /\ Go(r, "arrived", "begun")
  /\ UNCHANGED <<vars, written, failed>>

\* The request comes to a read that is not part of its transaction ...
NeedSecond(r) ==
  /\ r \in Nested
  /\ Go(r, "begun", "waiting")
  /\ UNCHANGED <<vars, written, failed>>

\* ... for which it takes a connection of its own ...
TakeSecond(r) ==
  /\ ConnectionIsFree
  /\ Go(r, "waiting", "reading")
  /\ UNCHANGED <<vars, written, failed>>

\* ... which it gives back.
ReturnSecond(r) == Go(r, "reading", "read") /\ UNCHANGED <<vars, written, failed>>

BeforeCommit(r) == IF r \in Nested THEN "read" ELSE "begun"

Commit(r) ==
  /\ Go(r, BeforeCommit(r), "ended")
  /\ written' = written \cup {r}
  /\ UNCHANGED <<vars, failed>>

\* COMMIT fails: ExecuteTransaction assigns the error where its caller does not
\* look, and the request goes on as after a commit.
FailToCommit(r) ==
  /\ Go(r, BeforeCommit(r), "ended")
  /\ failed' = failed \cup {r}
  /\ UNCHANGED <<vars, written>>

\* A check or a statement fails: rolled back, answered with the error.
Refuse(r) ==
  /\ step[r] \in {"begun", "read"}
  /\ step' = [step EXCEPT ![r] = "error"]
  /\ UNCHANGED <<vars, written, failed>>

-----------------------------------------------------------------------------
\* The event of a new employee is made of the request's own input.
LooksUp(e) == Kind[e] # "EMPLOYEE_CREATED"

\* The employee and the recipients are read after the commit ...
LookUp(r) ==
  /\ LooksUp(r) /\ ConnectionIsFree
  /\ Go(r, "ended", "looking up")
  /\ UNCHANGED <<vars, written, failed>>

Published(r) == IF LooksUp(r) THEN "looking up" ELSE "ended"

PublishBeforeCommit(r) ==
  /\ \/ /\ step[r] = "begun" /\ fate[r] = "new" /\ Publish(r)
        /\ UNCHANGED step
     \/ /\ Go(r, Published(r), "ok") /\ UNCHANGED vars
  /\ UNCHANGED <<written, failed>>

\* ... and the event is published, or dropped, and the request answered.
PublishAndAnswer(r) ==
  /\ Go(r, Published(r), "ok")
  /\ Publish(r)
  /\ UNCHANGED <<written, failed>>

-----------------------------------------------------------------------------
InFlight(r) == step[r] \notin {"idle", "dead"} \cup Answered

\* main returns once nobody is served any more.
StopServer ==
  /\ \A r \in Events : ~InFlight(r)
  /\ Stop
  /\ UNCHANGED serverVars

\* The process dies: PostgreSQL rolls back what was open, clients get no answer.
DieServing ==
  /\ Die
  /\ step' = [r \in Events |-> IF InFlight(r) THEN "dead" ELSE step[r]]
  /\ UNCHANGED <<written, failed>>

Serve(r) ==
  \/ BeginTransaction(r) \/ NeedSecond(r) \/ TakeSecond(r) \/ ReturnSecond(r)
  \/ Commit(r) \/ FailToCommit(r) \/ Refuse(r)
  \/ LookUp(r) \/ PublishAndAnswer(r)

Notify ==
  /\ Work \/ StopReturns \/ StopTimesOut \/ Cancel
  /\ UNCHANGED serverVars

ServerNext ==
  \/ \E r \in Events : Arrive(r) \/ Serve(r)
  \/ Notify
  \/ StopServer
  \/ DieServing

\* Nor does it let all requests rest while one can go on.
ServerSpec ==
  /\ ServerInit /\ [][ServerNext]_allVars
  /\ Fairness /\ WF_allVars(\E r \in Events : Serve(r))

-----------------------------------------------------------------------------
ServerTypeOK ==
  /\ TypeOK
  /\ step \in [Events -> Steps]
  /\ InUse <= MaxOpen
  /\ written \subseteq Events /\ failed \subseteq Events

(***************************************************************************)
(* "It never blocks the caller": every request is answered sooner or       *)
(* later, or dies with the process, whatever the state of the channel, the *)
(* workers and the pool.  True of instances with fewer Nested requests     *)
(* than connections, and only of them.                                     *)
(***************************************************************************)
RequestsAreServed ==
  \A r \in Events : step[r] = "arrived" ~> step[r] \in Answered \cup {"dead"}

(***************************************************************************)
(* "after the transaction committed": no mail announces a change that was  *)
(* rolled back, whenever the request failed and whatever died meanwhile -  *)
(* except one whose COMMIT failed, which goes unnoticed.                   *)
(***************************************************************************)
MailsAnnounceCommits ==
  \A e \in Events : (\E m \in Mails : sent[e][m] > 0) => e \in written \cup failed
=============================================================================
