------------------------------ MODULE LeaveFlow ------------------------------
(***************************************************************************)
(* The life of the leaves of one employee: apply, edit, cancel, approve,   *)
(* reject and withdraw, as served by leaveflow.LeaveFlowService, with the  *)
(* approval log and the balance row each of them writes.                   *)
(*                                                                         *)
(* A request is served by a worker (the goroutine of an HTTP request) in   *)
(* the steps the database can tell apart.  ActionLeave reads the leave and *)
(* then its approval log through the connection pool, before it opens the  *)
(* transaction that writes both back; Create and UpdateLeave read the      *)
(* balance and then the other leaves in statements of their own (READ      *)
(* COMMITTED, no lock); CancleLeave reads the status before it writes it.  *)
(* The writes of one transaction are one step: the rows it updates stay    *)
(* locked until it commits.                                                *)
(*                                                                         *)
(* With one worker requests are served one after the other; with two they  *)
(* interleave.                                                             *)
(***************************************************************************)
EXTENDS ApprovalLog, FiniteSetsExt

CONSTANTS
  Leaves,        \* ids a new leave may get
  NoLeave,       \* no leave
  Workers,       \* requests served at the same time
  ApplicantRoles,\* roles the applicant's token may carry
  Kinds,         \* kinds of leave types that are applied for
  Days,          \* number of days an application may ask for
  EditDays,      \* number of days an edit may ask for ({}: no edit)
  Slots,         \* disjoint date ranges of one month of the current year
  Opening,       \* opening balances
  MaxCharge      \* bound: no request is accepted once a leave is charged more

\* The kinds of leave types: early leaves have no balance, paid and unpaid
\* ones have one each; unpaid days are for those who have no paid ones left.
Buckets == {"REGULAR", "UNPAID"}

LeaveTypes == Buckets \cup {"EARLY"}

ASSUME LeaveFlowAssumption ==
  /\ IsFiniteSet(Leaves) /\ NoLeave \notin Leaves
  /\ ApplicantRoles \subseteq Roles
  /\ Kinds \subseteq LeaveTypes
  /\ Days \subseteq Nat \ {0}
  /\ EditDays \subseteq Nat \ {0}
  /\ Slots \subseteq Nat \ {0}
  /\ Opening \in [Buckets -> Nat]
  /\ MaxCharge \in Nat

VARIABLES
  status,        \* Tbl_Leave.status, "ABSENT" before the leave is inserted
  days,          \* Tbl_Leave.days
  kind,          \* Tbl_Leave.leave_type_id
  slot,          \* Tbl_Leave.start_date .. end_date
  log,           \* Tbl_Leave_Flow.approval_log
  closing,       \* Tbl_Leave_balance.closing
  job,           \* what each worker is doing
  charged,       \* history: days taken off the balance for the leave
  everApproved   \* history: leaves that have been APPROVED

leaveVars == <<status, days, kind, slot, log>>
ledgerVars == <<closing, charged, everApproved>>
vars == <<leaveVars, ledgerVars, job>>

Statuses == {"ABSENT", "Pending", "APPROVED", "REJECTED", "CANCELLED",
             "WITHDRAWAL_PENDING", "WITHDRAWN"}

Actions == {"APPROVE", "REJECT", "WITHDRAW"}

-----------------------------------------------------------------------------
(***************************************************************************)
(* A job: the operation, how far it has come ("read": first read done,     *)
(* "checked": validated, about to write), the request's inputs and the     *)
(* copies of database values the request goes on to use.                   *)
(***************************************************************************)
Job ==
  [op : {"IDLE", "CREATE", "EDIT", "CANCEL"} \cup Actions,
   step : {"none", "read", "checked"},
   leave : Leaves \cup {NoLeave},
   role : Roles,                \* acting approver, or the applicant's role
   days : Nat,                  \* requested days, or the leave's days as read
   kind : LeaveTypes,           \* requested type, or the leave's type as read
   slot : Nat,                  \* requested dates
   status : Statuses,           \* status as read
   log : Logs,                  \* approval log as read
   closing : Int]               \* balance as read

Idle ==
  [op |-> "IDLE", step |-> "none", leave |-> NoLeave, role |-> "EMPLOYEE",
   days |-> 0, kind |-> "REGULAR", slot |-> 0, status |-> "ABSENT",
   log |-> NoFlow, closing |-> 0]

Exists(l) == status[l] # "ABSENT"

\* The statuses that overlap, and count as the early leave of the month.
Active(l) == status[l] \in {"Pending", "APPROVED"}

AcceptsRequest(w) ==
  /\ job[w] = Idle
  /\ \A l \in Leaves : charged[l] \in -MaxCharge .. MaxCharge

Serving(w, op, step) == job[w].op = op /\ job[w].step = step

Finish(w) == job' = [job EXCEPT ![w] = Idle]

-----------------------------------------------------------------------------
Init ==
  /\ status = [l \in Leaves |-> "ABSENT"]
  /\ days = [l \in Leaves |-> 0]
  /\ kind = [l \in Leaves |-> "REGULAR"]
  /\ slot = [l \in Leaves |-> 0]
  /\ log = [l \in Leaves |-> NoFlow]
  /\ closing = Opening
  /\ job = [w \in Workers |-> Idle]
  /\ charged = [l \in Leaves |-> 0]
  /\ everApproved = {}

-----------------------------------------------------------------------------
(***************************************************************************)
(* Create and UpdateLeave.                                                 *)
(***************************************************************************)
EarlyLeaveThisMonth == \E l \in Leaves : Active(l) /\ kind[l] = "EARLY"

PaidDaysUsedUp == closing["REGULAR"] <= 0

(***************************************************************************)
(* First reads of the validation: the closing balance, for unpaid days the *)
(* paid one too, which has to be used up; or for an early leave the early  *)
(* leaves of the month (the edited one is not excluded).                   *)
(***************************************************************************)
StartBooking(w, op, l, role, d, k, s) ==
  /\ AcceptsRequest(w)
  /\ k = "EARLY" => ~EarlyLeaveThisMonth
  /\ k = "UNPAID" => PaidDaysUsedUp
  /\ job' = [job EXCEPT ![w] =
       [Idle EXCEPT !.op = op, !.step = "read", !.leave = l, !.role = role,
                    !.days = d, !.kind = k, !.slot = s,
                    !.closing = IF k = "EARLY" THEN 0 ELSE closing[k]]]
  /\ UNCHANGED <<leaveVars, ledgerVars>>

StartCreate(w) ==
  \E role \in ApplicantRoles, d \in Days, k \in Kinds, s \in Slots :
    StartBooking(w, "CREATE", NoLeave, role, d, k, s)

StartEdit(w) ==
  \E l \in Leaves, d \in EditDays, k \in Kinds, s \in Slots :
    /\ Exists(l)
    /\ StartBooking(w, "EDIT", l, "EMPLOYEE", d, k, s)

PendingDays(k, except) ==
  SumFunctionOnSet(days,
    {l \in Leaves \ {except} : status[l] = "Pending" /\ kind[l] = k})

NoPaidDaysPending == PendingDays("REGULAR", NoLeave) = 0

OriginalDays(l) == IF l = NoLeave THEN 0 ELSE days[l]

IgnoresPendingLeaves(j) ==
  /\ j.kind \in Buckets => j.closing >= j.days
  /\ \A l \in Leaves \ {j.leave} : Active(l) => slot[l] # j.slot

IgnoresOverlap(j) ==
  /\ j.kind \in Buckets =>
       j.closing - PendingDays(j.kind, j.leave) + OriginalDays(j.leave) >= j.days
  /\ j.kind = "UNPAID" => NoPaidDaysPending

(***************************************************************************)
(* Enough balance once the other pending leaves are counted - with the     *)
(* days of the edited leave added back; no paid leave pending, if the days *)
(* are unpaid (the edited one included); no active leave on the dates.     *)
(***************************************************************************)
BookingAllowed(j) ==
  /\ j.kind \in Buckets =>
       j.closing - PendingDays(j.kind, j.leave) + OriginalDays(j.leave) >= j.days
  /\ j.kind = "UNPAID" => NoPaidDaysPending
  /\ \A l \in Leaves \ {j.leave} : Active(l) => slot[l] # j.slot

CheckBooking(w) ==
  /\ Serving(w, "CREATE", "read") \/ Serving(w, "EDIT", "read")
  /\ BookingAllowed(job[w])
  /\ job' = [job EXCEPT ![w].step = "checked"]
  /\ UNCHANGED <<leaveVars, ledgerVars>>

(***************************************************************************)
(* InsertLeave and the creation of the approval log, then the commit.      *)
(***************************************************************************)
CommitCreate(w) ==
  /\ Serving(w, "CREATE", "checked")
  /\ \E l \in Leaves :
       /\ ~Exists(l)
       /\ status' = [status EXCEPT ![l] = "Pending"]
       /\ days' = [days EXCEPT ![l] = job[w].days]
       /\ kind' = [kind EXCEPT ![l] = job[w].kind]
       /\ slot' = [slot EXCEPT ![l] = job[w].slot]
       /\ log' = [log EXCEPT ![l] = GenerateApprovalLog(job[w].role)]
  /\ Finish(w)
  /\ UNCHANGED ledgerVars

\* UPDATE Tbl_Leave_Flow ... WHERE leave_id: without a row nothing is written.
UpdateApprovalLog(l, newLog) ==
  log' = IF HasFlow(log[l]) THEN [log EXCEPT ![l] = newLog] ELSE log

\* An edit regenerates the log as if an EMPLOYEE had applied; an empty log is
\* not written.
RegenerateApprovalLog(l) ==
  LET newLog == GenerateApprovalLog("EMPLOYEE") IN
  IF HasFlow(newLog) THEN UpdateApprovalLog(l, newLog) ELSE UNCHANGED log

(***************************************************************************)
(* UPDATE ... WHERE status = 'Pending': the guard is evaluated by the      *)
(* update itself, and no row means an error and a rollback (Abort).        *)
(***************************************************************************)
CommitEdit(w) ==
  /\ Serving(w, "EDIT", "checked")
  /\ status[job[w].leave] = "Pending"
  /\ days' = [days EXCEPT ![job[w].leave] = job[w].days]
  /\ kind' = [kind EXCEPT ![job[w].leave] = job[w].kind]
  /\ slot' = [slot EXCEPT ![job[w].leave] = job[w].slot]
  /\ RegenerateApprovalLog(job[w].leave)
  /\ Finish(w)
  /\ UNCHANGED <<status, ledgerVars>>

-----------------------------------------------------------------------------
StartCancelOfRejected(w) ==
  \E l \in Leaves :
    /\ AcceptsRequest(w)
    /\ Exists(l)
    /\ status[l] \notin {"APPROVED", "CANCELLED"}
    /\ job' = [job EXCEPT ![w] =
         [Idle EXCEPT !.op = "CANCEL", !.step = "checked", !.leave = l]]
    /\ UNCHANGED <<leaveVars, ledgerVars>>

(***************************************************************************)
(* CancleLeave: refused for three statuses, judged on the status read      *)
(* before; the write is unconditional and touches nothing else.            *)
(***************************************************************************)
StartCancel(w) ==
  \E l \in Leaves :
    /\ AcceptsRequest(w)
    /\ Exists(l)
    /\ status[l] \notin {"APPROVED", "REJECTED", "CANCELLED"}
    /\ job' = [job EXCEPT ![w] =
         [Idle EXCEPT !.op = "CANCEL", !.step = "checked", !.leave = l]]
    /\ UNCHANGED <<leaveVars, ledgerVars>>

CommitCancel(w) ==
  /\ Serving(w, "CANCEL", "checked")
  /\ status' = [status EXCEPT ![job[w].leave] = "CANCELLED"]
  /\ Finish(w)
  /\ UNCHANGED <<days, kind, slot, log, ledgerVars>>

-----------------------------------------------------------------------------
(***************************************************************************)
(* ActionLeave.  First read: the leave, by another employee than its owner.*)
(***************************************************************************)
StartAction(w) ==
  \E a \in Actions, r \in Approvers, l \in Leaves :
    /\ AcceptsRequest(w)
    /\ Exists(l)
    /\ job' = [job EXCEPT ![w] =
         [Idle EXCEPT !.op = a, !.step = "read", !.leave = l, !.role = r,
                      !.days = days[l], !.kind = kind[l], !.status = status[l]]]
    /\ UNCHANGED <<leaveVars, ledgerVars>>

AcceptsUnroutedLeave(action, st, flow, r) ==
  \/ ~HasFlow(flow)
  \/ /\ HasStage(flow, r)
     /\ action = "APPROVE" => st = "Pending" /\ flow[r] = "WAITING"
     /\ action = "REJECT" => flow[r] = "WAITING"
     /\ action = "WITHDRAW" => st \in {"APPROVED", "WITHDRAWAL_PENDING"}

WithdrawWithoutStatusGuard(action, st, flow, r) ==
  /\ HasStage(flow, r)
  /\ action = "APPROVE" => st = "Pending" /\ flow[r] = "WAITING"
  /\ action = "REJECT" => flow[r] = "WAITING"

(***************************************************************************)
(* ActionValidator: the role has a stage; the stage and the status allow   *)
(* the action.  (Without a row in Tbl_Leave_Flow the code dereferences nil *)
(* and the request dies: nothing changes.)                                 *)
(***************************************************************************)
ActionValidator(action, st, flow, r) ==
  /\ HasStage(flow, r)
  /\ action = "APPROVE" => st = "Pending" /\ flow[r] = "WAITING"
  /\ action = "REJECT" => flow[r] = "WAITING"
  /\ action = "WITHDRAW" => st \in {"APPROVED", "WITHDRAWAL_PENDING"}

\* Second read: the approval log; then validation, with the status read before.
ReadApprovalLog(w) ==
  LET j == job[w] IN
  /\ j.op \in Actions /\ j.step = "read"
  /\ ActionValidator(j.op, j.status, log[j.leave], j.role)
  /\ job' = [job EXCEPT ![w].step = "checked", ![w].log = log[j.leave]]
  /\ UNCHANGED <<leaveVars, ledgerVars>>

\* UpdateLeaveStatusTx and UpdateApprovalLog: absolute values, no condition.
WriteBack(l, newStatus, newLog) ==
  /\ status' = [status EXCEPT ![l] = newStatus]
  /\ UpdateApprovalLog(l, newLog)
  /\ UNCHANGED <<days, kind, slot>>

\* An early leave has no balance bucket.
Cost(k, d) == IF k = "EARLY" THEN 0 ELSE d

Charge(l, k, d) ==
  /\ closing' = [b \in Buckets |-> IF b = k THEN closing[b] - d ELSE closing[b]]
  /\ charged' = [charged EXCEPT ![l] = @ + Cost(k, d)]

\* Some higher stage still has to approve: the leave keeps its status.
ApproveStage(w) ==
  LET j == job[w]  newLog == ApprovedLog(j.log, j.role) IN
  /\ Serving(w, "APPROVE", "checked")
  /\ ~AllStagesSettled(newLog)
  /\ UpdateApprovalLog(j.leave, newLog)
  /\ Finish(w)
  /\ UNCHANGED <<status, days, kind, slot, ledgerVars>>

ApproveFinalWithoutDeduction(w) ==
  LET j == job[w]  newLog == ApprovedLog(j.log, j.role) IN
  /\ Serving(w, "APPROVE", "checked")
  /\ AllStagesSettled(newLog)
  /\ WriteBack(j.leave, "APPROVED", newLog)
  /\ everApproved' = everApproved \cup {j.leave}
  /\ Finish(w)
  /\ UNCHANGED <<closing, charged>>

\* Every stage is settled: APPROVED, and the days read before are deducted.
ApproveFinal(w) ==
  LET j == job[w]  newLog == ApprovedLog(j.log, j.role) IN
  /\ Serving(w, "APPROVE", "checked")
  /\ AllStagesSettled(newLog)
  /\ WriteBack(j.leave, "APPROVED", newLog)
  /\ Charge(j.leave, j.kind, j.days)
  /\ everApproved' = everApproved \cup {j.leave}
  /\ Finish(w)

RejectStage(w) ==
  LET j == job[w] IN
  /\ Serving(w, "REJECT", "checked")
  /\ WriteBack(j.leave, "REJECTED", RejectedLog(j.log, j.role))
  /\ Finish(w)
  /\ UNCHANGED ledgerVars

\* A higher stage has to confirm the withdrawal.
WithdrawStage(w) ==
  LET j == job[w]  newLog == WithdrawnLog(j.log, j.role) IN
  /\ Serving(w, "WITHDRAW", "checked")
  /\ ~AllStagesSettledForWithdraw(newLog)
  /\ WriteBack(j.leave, "WITHDRAWAL_PENDING", newLog)
  /\ Finish(w)
  /\ UNCHANGED ledgerVars

WithdrawFinalWithoutRefund(w) ==
  LET j == job[w]  newLog == WithdrawnLog(j.log, j.role) IN
  /\ Serving(w, "WITHDRAW", "checked")
  /\ AllStagesSettledForWithdraw(newLog)
  /\ WriteBack(j.leave, "WITHDRAWN", newLog)
  /\ Finish(w)
  /\ UNCHANGED ledgerVars

\* The final withdrawal gives the days read before back.
WithdrawFinal(w) ==
  LET j == job[w]  newLog == WithdrawnLog(j.log, j.role) IN
  /\ Serving(w, "WITHDRAW", "checked")
  /\ AllStagesSettledForWithdraw(newLog)
  /\ WriteBack(j.leave, "WITHDRAWN", newLog)
  /\ Charge(j.leave, j.kind, -j.days)
  /\ Finish(w)
  /\ UNCHANGED everApproved

-----------------------------------------------------------------------------
(***************************************************************************)
(* The request ends without an effect: refused by a check, failed          *)
(* statement and rollback, client gone, process crashed.                   *)
(***************************************************************************)
Abort(w) ==
  /\ job[w] # Idle
  /\ Finish(w)
  /\ UNCHANGED <<leaveVars, ledgerVars>>

Next ==
  \E w \in Workers :
    \/ StartCreate(w) \/ StartEdit(w) \/ CheckBooking(w)
    \/ CommitCreate(w) \/ CommitEdit(w)
    \/ StartCancel(w) \/ CommitCancel(w)
    \/ StartAction(w) \/ ReadApprovalLog(w)
    \/ ApproveStage(w) \/ ApproveFinal(w) \/ RejectStage(w)
    \/ WithdrawStage(w) \/ WithdrawFinal(w)
    \/ Abort(w)

Spec == Init /\ [][Next]_vars
-----------------------------------------------------------------------------
TypeOK ==
  /\ status \in [Leaves -> Statuses]
  /\ days \in [Leaves -> Nat]
  /\ kind \in [Leaves -> LeaveTypes]
  /\ slot \in [Leaves -> Nat]
  /\ log \in [Leaves -> Logs]
  /\ closing \in [Buckets -> Int]
  /\ job \in [Workers -> Job]
  /\ charged \in [Leaves -> Int]
  /\ everApproved \subseteq Leaves
  /\ \A w \in Workers :
       job[w].op \in Actions \cup {"EDIT", "CANCEL"} =>
         /\ job[w].leave \in Leaves
         /\ job[w].op \in Actions => job[w].role \in Approvers

(***************************************************************************)
(* However requests interleave: the balance moves, and a leave is          *)
(* withdrawn or waits for its withdrawal, only for leaves that had been    *)
(* approved at some time.  (Validation on a stale status, and the log and  *)
(* status written back unconditionally, do not go as far as to withdraw or *)
(* charge a leave nobody ever approved.)                                   *)
(***************************************************************************)
OnlyApprovedIsWithdrawn ==
  \A l \in Leaves :
    charged[l] # 0 \/ status[l] \in {"WITHDRAWAL_PENDING", "WITHDRAWN"}
      => l \in everApproved

(***************************************************************************)
(* However requests interleave: a leave whose applicant outranks every     *)
(* approver of the flow (no row in Tbl_Leave_Flow) is never decided - it   *)
(* stays Pending, and blocks its dates, until it is cancelled.             *)
(***************************************************************************)
UnroutedIsNeverDecided ==
  \A l \in Leaves :
    ~HasFlow(log[l]) => status[l] \in {"ABSENT", "Pending", "CANCELLED"}

(***************************************************************************)
(* One request at a time: days are off the balance exactly while the       *)
(* leave is granted - from the final approval to the final withdrawal -    *)
(* and they are the days the leave has now, edits included.                *)
(***************************************************************************)
ChargedWhileGranted ==
  \A l \in Leaves :
    /\ status[l] \in {"APPROVED", "WITHDRAWAL_PENDING"}
         => charged[l] = Cost(kind[l], days[l])
    /\ status[l] \in {"ABSENT", "Pending", "WITHDRAWN"} => charged[l] = 0

(***************************************************************************)
(* One request at a time: the status column and the approval log, two      *)
(* tables written by separate statements, tell the same story.             *)
(***************************************************************************)
InLog(l, state) == \E r \in Approvers : log[l][r] = state

LogAgreesWithStatus ==
  \A l \in Leaves :
    /\ status[l] = "Pending" /\ HasFlow(log[l]) => InLog(l, "WAITING")
    /\ status[l] = "Pending" => ~InLog(l, "REJECTED") /\ ~InLog(l, "WITHDRAWN")
    /\ status[l] = "APPROVED" =>
         AllStagesSettled(log[l]) /\ InLog(l, "APPROVED")
    /\ status[l] = "REJECTED" <=> InLog(l, "REJECTED")
    /\ status[l] = "WITHDRAWAL_PENDING" =>
         InLog(l, "WITHDRAWN") /\ InLog(l, "WAITING")
    /\ status[l] = "WITHDRAWN" =>
         AllStagesSettledForWithdraw(log[l]) /\ InLog(l, "WITHDRAWN")

(***************************************************************************)
(* One request at a time: once a role approved, nobody at its stage or     *)
(* below is still asked; and a withdrawal only ever waits for stages above *)
(* one that withdrew.                                                      *)
(***************************************************************************)
OnlyHigherStagesWait ==
  \A l \in Leaves : \A q \in Approvers :
    log[l][q] = "WAITING" =>
      /\ \A r \in Approvers : log[l][r] = "APPROVED" => Stage[r] < Stage[q]
      /\ InLog(l, "WITHDRAWN") =>
           \E r \in Approvers : log[l][r] = "WITHDRAWN" /\ Stage[r] < Stage[q]

(***************************************************************************)
(* One request at a time: no two active leaves of the employee share dates,*)
(* whatever sequence of applications, edits and decisions led there.       *)
(***************************************************************************)
NoOverlap ==
  \A l, m \in Leaves : l # m /\ Active(l) /\ Active(m) => slot[l] # slot[m]

(***************************************************************************)
(* One request at a time: if all pending leaves can be approved without    *)
(* overdrawing a balance, that stays so - unless the step edits a leave.   *)
(***************************************************************************)
PendingIsCovered ==
  \A b \in Buckets : PendingDays(b, NoLeave) <= closing[b]

OnlyEditsOverbook ==
  [][PendingIsCovered =>
       \/ PendingIsCovered'
       \/ \E l \in Leaves :
            Exists(l) /\ (days'[l] # days[l] \/ kind'[l] # kind[l])]_vars

(***************************************************************************)
(* "Rejection is always final": a rejected leave stays rejected.           *)
(***************************************************************************)
RejectionIsFinal ==
  [][\A l \in Leaves : status[l] = "REJECTED" => status'[l] = "REJECTED"]_vars

(***************************************************************************)
(* "checks if employee has sufficient leave balance": the balance never    *)
(* goes below zero, as approvals only deduct days that had been checked.   *)
(***************************************************************************)
NeverOverdrawn == \A b \in Buckets : closing[b] >= 0

(***************************************************************************)
(* One request at a time: LeaveFlow implements LeaveLedger.                *)
(***************************************************************************)
LedgerPhase(l) ==
  CASE status[l] = "ABSENT" -> "none"
    [] status[l] = "Pending" -> "booked"
    [] status[l] \in {"APPROVED", "WITHDRAWAL_PENDING"} -> "granted"
    [] status[l] = "WITHDRAWN" -> "released"
    [] OTHER -> IF charged[l] = 0 THEN "released" ELSE "forfeited"

\* Only an early leave is charged nothing; the others are by their kind.
TakenFrom(l) == [b \in Buckets |-> IF b = kind[l] THEN charged[l] ELSE 0]

Ledger ==
  INSTANCE LeaveLedger WITH phase <- [l \in Leaves |-> LedgerPhase(l)],
                            taken <- [l \in Leaves |-> TakenFrom(l)],
                            Amounts <- Days \cup EditDays \cup {0},
                            balance <- closing

ImplementsLedger == Ledger!Spec
=============================================================================
