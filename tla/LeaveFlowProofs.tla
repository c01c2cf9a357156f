--------------------------- MODULE LeaveFlowProofs ---------------------------
(***************************************************************************)
(* Proofs about LeaveFlow, for every set of leaves and workers, every      *)
(* validated approval flow and every balance; the last part assumes that   *)
(* requests are served one at a time.                                      *)
(***************************************************************************)
EXTENDS LeaveNotices, SumTheorems

-----------------------------------------------------------------------------
(* The approval log: what the functions of ApprovalLog return.             *)

LEMMA GenerateType ==
  ASSUME NEW r \in Roles
  PROVE  GenerateApprovalLog(r) \in Logs
BY DEF GenerateApprovalLog, Logs, StageStates

LEMMA NoFlowType == NoFlow \in Logs
BY DEF NoFlow, Logs

LEMMA WrittenLogType ==
  ASSUME NEW lg \in Logs, NEW r \in Approvers
  PROVE  /\ ApprovedLog(lg, r) \in Logs
         /\ RejectedLog(lg, r) \in Logs
         /\ WithdrawnLog(lg, r) \in Logs
BY DEF ApprovedLog, RejectedLog, WithdrawnLog, StampStage, SkipStages,
       SkipAllWaitingStages, ResetLogForWithdraw, Logs, StageStates

LEMMA ApproversAreRoles == Approvers \subseteq Roles
BY StageAssumption DEF WellFormed, Approvers, Roles

-----------------------------------------------------------------------------
(* Type correctness.                                                       *)

LEMMA InitType == Init => TypeOK
BY LeaveFlowAssumption, NoFlowType
   DEF Init, TypeOK, Idle, Job, Statuses, Roles, Actions, LeaveTypes, Buckets

LEMMA IdleIsJob == Idle \in Job
BY NoFlowType DEF Idle, Job, Statuses, Roles, LeaveTypes, Buckets

LEMMA StartBookingType ==
  ASSUME TypeOK, NEW w \in Workers, NEW op \in {"CREATE", "EDIT"},
         NEW l \in Leaves \cup {NoLeave}, op = "EDIT" => l \in Leaves,
         NEW role \in Roles, NEW d \in Nat, NEW k \in LeaveTypes,
         NEW s \in Nat, StartBooking(w, op, l, role, d, k, s)
  PROVE  TypeOK'
<1> DEFINE seen == IF k = "EARLY" THEN 0 ELSE closing[k]
           new == [Idle EXCEPT !.op = op, !.step = "read", !.leave = l,
                     !.role = role, !.days = d, !.kind = k, !.slot = s,
                     !.closing = seen]
<1>a. seen \in Int
  BY DEF TypeOK, LeaveTypes
<1>1. new \in Job /\ new.op = op /\ new.leave = l
  <2> HIDE DEF seen
  <2> QED BY <1>a, IdleIsJob DEF Job
<1>2. job' = [job EXCEPT ![w] = new]
  BY DEF StartBooking
<1> QED
  BY <1>1, <1>2 DEF TypeOK, StartBooking, leaveVars, ledgerVars, Actions

\* Finishing a job keeps the types of the jobs.
LEMMA FinishType ==
  ASSUME TypeOK, NEW w \in Workers, Finish(w),
         status' \in [Leaves -> Statuses], days' \in [Leaves -> Nat],
         kind' \in [Leaves -> LeaveTypes],
         slot' \in [Leaves -> Nat], log' \in [Leaves -> Logs],
         closing' \in [Buckets -> Int], charged' \in [Leaves -> Int],
         everApproved' \subseteq Leaves
  PROVE  TypeOK'
<1>1. Idle.op = "IDLE" BY DEF Idle
<1> QED
  BY <1>1, IdleIsJob DEF TypeOK, Finish, Actions

\* Taking a step within a job keeps its operation, its leave and its role.
LEMMA AdvanceType ==
  ASSUME TypeOK, NEW w \in Workers, NEW j \in Job,
         job' = [job EXCEPT ![w] = j],
         j.op = job[w].op, j.leave = job[w].leave, j.role = job[w].role,
         UNCHANGED <<leaveVars, ledgerVars>>
  PROVE  TypeOK'
BY DEF TypeOK, leaveVars, ledgerVars

LEMMA UpdateApprovalLogType ==
  ASSUME TypeOK, NEW l \in Leaves, NEW lg \in Logs, UpdateApprovalLog(l, lg)
  PROVE  log' \in [Leaves -> Logs]
BY DEF TypeOK, UpdateApprovalLog

LEMMA ChargeType ==
  ASSUME TypeOK, NEW l \in Leaves, NEW k, NEW d \in Int, Charge(l, k, d)
  PROVE  closing' \in [Buckets -> Int] /\ charged' \in [Leaves -> Int]
<1>1. Cost(k, d) \in Int
  BY DEF Cost
<1> QED
  BY <1>1 DEF TypeOK, Charge

LEMMA NextType == TypeOK /\ [Next]_vars => TypeOK'
<1> SUFFICES ASSUME TypeOK, [Next]_vars PROVE TypeOK'
  OBVIOUS
<1> USE LeaveFlowAssumption
<1>1. CASE UNCHANGED vars
  BY <1>1 DEF TypeOK, vars, leaveVars, ledgerVars
<1>2. CASE Next
  <2> SUFFICES ASSUME NEW w \in Workers,
                      \/ StartCreate(w) \/ StartEdit(w) \/ CheckBooking(w)
                      \/ CommitCreate(w) \/ CommitEdit(w)
                      \/ StartCancel(w) \/ CommitCancel(w)
                      \/ StartAction(w) \/ ReadApprovalLog(w)
                      \/ ApproveStage(w) \/ ApproveFinal(w) \/ RejectStage(w)
                      \/ WithdrawStage(w) \/ WithdrawFinal(w)
                      \/ Abort(w)
               PROVE  TypeOK'
    BY <1>2 DEF Next
  <2>j. job[w] \in Job
    BY DEF TypeOK
  <2>1. CASE StartCreate(w)
    BY <2>1, StartBookingType DEF StartCreate
  <2>2. CASE StartEdit(w)
    BY <2>2, StartBookingType DEF StartEdit, Roles
  <2>3. CASE CheckBooking(w)
    <3>1. [job[w] EXCEPT !.step = "checked"] \in Job
      BY <2>j DEF Job
    <3> QED
      BY <2>3, <2>j, <3>1, AdvanceType DEF CheckBooking, Job
  <2>4. CASE CommitCreate(w)
    <3>1. GenerateApprovalLog(job[w].role) \in Logs
      BY <2>j, GenerateType DEF Job
    <3>2. /\ status' \in [Leaves -> Statuses] /\ days' \in [Leaves -> Nat]
          /\ kind' \in [Leaves -> LeaveTypes]
          /\ slot' \in [Leaves -> Nat] /\ log' \in [Leaves -> Logs]
      BY <2>4, <2>j, <3>1 DEF CommitCreate, TypeOK, Job, Statuses
    <3> QED
      BY <2>4, <3>2, FinishType DEF CommitCreate, TypeOK, ledgerVars
  <2>5. CASE CommitEdit(w)
    <3>1. job[w].leave \in Leaves
      BY <2>5 DEF CommitEdit, Serving, TypeOK
    <3>2. log' \in [Leaves -> Logs]
      BY <2>5, <3>1, GenerateType, UpdateApprovalLogType
         DEF CommitEdit, RegenerateApprovalLog, Roles, TypeOK
    <3>3. /\ days' \in [Leaves -> Nat] /\ slot' \in [Leaves -> Nat]
          /\ kind' \in [Leaves -> LeaveTypes]
      BY <2>5, <2>j, <3>1 DEF CommitEdit, TypeOK, Job
    <3> QED
      BY <2>5, <3>2, <3>3, FinishType DEF CommitEdit, TypeOK, ledgerVars
  <2>6. CASE StartCancel(w)
    <3>1. PICK l \in Leaves : job' = [job EXCEPT ![w] =
             [Idle EXCEPT !.op = "CANCEL", !.step = "checked", !.leave = l]]
      BY <2>6 DEF StartCancel
    <3>2. [Idle EXCEPT !.op = "CANCEL", !.step = "checked", !.leave = l] \in Job
      BY IdleIsJob DEF Job
    <3> QED
      BY <2>6, <3>1, <3>2
         DEF TypeOK, StartCancel, leaveVars, ledgerVars, Actions, Idle
  <2>7. CASE CommitCancel(w)
    <3>1. status' \in [Leaves -> Statuses]
      BY <2>7 DEF CommitCancel, TypeOK, Statuses
    <3> QED
      BY <2>7, <3>1, FinishType DEF CommitCancel, TypeOK, ledgerVars
  <2>8. CASE StartAction(w)
    <3>1. PICK a \in Actions, r \in Approvers, l \in Leaves :
             job' = [job EXCEPT ![w] =
               [Idle EXCEPT !.op = a, !.step = "read", !.leave = l, !.role = r,
                      !.days = days[l], !.kind = kind[l], !.status = status[l]]]
      BY <2>8 DEF StartAction
    <3> DEFINE new ==
          [Idle EXCEPT !.op = a, !.step = "read", !.leave = l, !.role = r,
                       !.days = days[l], !.kind = kind[l], !.status = status[l]]
    <3>2. new \in Job /\ new.op = a /\ new.leave = l /\ new.role = r
      BY IdleIsJob, ApproversAreRoles DEF Job, TypeOK, Actions
    <3> QED
      BY <2>8, <3>1, <3>2 DEF TypeOK, StartAction, leaveVars, ledgerVars
  <2>9. CASE ReadApprovalLog(w)
    <3>1. job[w].leave \in Leaves /\ log[job[w].leave] \in Logs
      BY <2>9 DEF ReadApprovalLog, TypeOK
    <3> DEFINE new == [job[w] EXCEPT !.step = "checked",
                                     !.log = log[job[w].leave]]
    <3>2. new \in Job /\ new.op = job[w].op /\ new.leave = job[w].leave
            /\ new.role = job[w].role
      BY <2>j, <3>1 DEF Job
    <3>3. job' = [job EXCEPT ![w] = new]
      BY <2>9 DEF ReadApprovalLog, TypeOK
    <3> QED
      BY <2>9, <3>2, <3>3, AdvanceType DEF ReadApprovalLog
  <2>10. ASSUME job[w].op \in Actions
         PROVE  /\ job[w].leave \in Leaves
                /\ ApprovedLog(job[w].log, job[w].role) \in Logs
                /\ RejectedLog(job[w].log, job[w].role) \in Logs
                /\ WithdrawnLog(job[w].log, job[w].role) \in Logs
                /\ job[w].days \in Int /\ -job[w].days \in Int
    BY <2>10, <2>j, WrittenLogType DEF TypeOK, Job
  <2>11. CASE ApproveStage(w)
    <3>1. log' \in [Leaves -> Logs]
      BY <2>10, <2>11, UpdateApprovalLogType DEF ApproveStage, Serving, Actions
    <3> QED
      BY <2>11, <3>1, FinishType DEF ApproveStage, TypeOK, ledgerVars
  <2>12. CASE ApproveFinal(w)
    <3>1. log' \in [Leaves -> Logs]
      BY <2>10, <2>12, UpdateApprovalLogType
         DEF ApproveFinal, WriteBack, Serving, Actions
    <3>2. closing' \in [Buckets -> Int] /\ charged' \in [Leaves -> Int]
      BY <2>10, <2>12, ChargeType DEF ApproveFinal, Serving, Actions
    <3>3. status' \in [Leaves -> Statuses] /\ everApproved' \subseteq Leaves
      BY <2>10, <2>12
         DEF ApproveFinal, WriteBack, Serving, Actions, TypeOK, Statuses
    <3> QED
      BY <2>12, <3>1, <3>2, <3>3, FinishType DEF ApproveFinal, WriteBack, TypeOK
  <2>13. CASE RejectStage(w)
    <3>1. log' \in [Leaves -> Logs]
      BY <2>10, <2>13, UpdateApprovalLogType
         DEF RejectStage, WriteBack, Serving, Actions
    <3>2. status' \in [Leaves -> Statuses]
      BY <2>13 DEF RejectStage, WriteBack, TypeOK, Statuses
    <3> QED
      BY <2>13, <3>1, <3>2, FinishType
         DEF RejectStage, WriteBack, TypeOK, ledgerVars
  <2>14. CASE WithdrawStage(w)
    <3>1. log' \in [Leaves -> Logs]
      BY <2>10, <2>14, UpdateApprovalLogType
         DEF WithdrawStage, WriteBack, Serving, Actions
    <3>2. status' \in [Leaves -> Statuses]
      BY <2>14 DEF WithdrawStage, WriteBack, TypeOK, Statuses
    <3> QED
      BY <2>14, <3>1, <3>2, FinishType
         DEF WithdrawStage, WriteBack, TypeOK, ledgerVars
  <2>15. CASE WithdrawFinal(w)
    <3>1. log' \in [Leaves -> Logs]
      BY <2>10, <2>15, UpdateApprovalLogType
         DEF WithdrawFinal, WriteBack, Serving, Actions
    <3>2. closing' \in [Buckets -> Int] /\ charged' \in [Leaves -> Int]
      BY <2>10, <2>15, ChargeType DEF WithdrawFinal, Serving, Actions
    <3>3. status' \in [Leaves -> Statuses]
      BY <2>15 DEF WithdrawFinal, WriteBack, TypeOK, Statuses
    <3> QED
      BY <2>15, <3>1, <3>2, <3>3, FinishType DEF WithdrawFinal, WriteBack, TypeOK
  <2>16. CASE Abort(w)
    BY <2>16, FinishType DEF Abort, TypeOK, leaveVars, ledgerVars
  <2> QED
    BY <2>1, <2>2, <2>3, <2>4, <2>5, <2>6, <2>7, <2>8, <2>9, <2>11, <2>12,
       <2>13, <2>14, <2>15, <2>16
<1> QED
  BY <1>1, <1>2

(***************************************************************************)
(* Every variable keeps its type, and a request that acts on a leave has   *)
(* one, for any number of leaves, workers and stages.                      *)
(***************************************************************************)
THEOREM TypeCorrectness == Spec => []TypeOK
BY InitType, NextType, PTL DEF Spec

-----------------------------------------------------------------------------
(***************************************************************************)
(* OnlyApprovedIsWithdrawn under interleaving.  A request may act on a     *)
(* status that is out of date, but a status, current or copied, that       *)
(* allows a withdrawal is seen only of a leave that was approved, and      *)
(* everApproved never shrinks.                                             *)
(***************************************************************************)
Granted == {"APPROVED", "WITHDRAWAL_PENDING", "WITHDRAWN"}

ApprovedBefore ==
  /\ \A l \in Leaves :
       charged[l] # 0 \/ status[l] \in Granted => l \in everApproved
  /\ \A w \in Workers :
       job[w].op \in Actions =>
         /\ job[w].status \in Granted => job[w].leave \in everApproved
         /\ job[w].op = "WITHDRAW" /\ job[w].step = "checked"
              => job[w].status \in Granted

LEMMA ApprovedBeforeInit == Init => ApprovedBefore
BY DEF Init, ApprovedBefore, Granted, Idle, Actions

\* Steps that only start, advance or end a request that decides nothing.
LEMMA ApprovedBeforeQuiet ==
  ASSUME TypeOK, ApprovedBefore, NEW w \in Workers,
         NEW j, job' = [job EXCEPT ![w] = j],
         j.op \in Actions =>
           /\ j.status \in Granted => j.leave \in everApproved
           /\ j.op = "WITHDRAW" /\ j.step = "checked" => j.status \in Granted,
         \A l \in Leaves : status'[l] \in Granted => status[l] \in Granted,
         UNCHANGED ledgerVars
  PROVE  ApprovedBefore'
BY DEF TypeOK, ApprovedBefore, ledgerVars

LEMMA ApprovedBeforeStep ==
  ASSUME TypeOK, ApprovedBefore, NEW w \in Workers
  PROVE  /\ StartCreate(w) => ApprovedBefore'
         /\ StartEdit(w) => ApprovedBefore'
         /\ CheckBooking(w) => ApprovedBefore'
         /\ CommitCreate(w) => ApprovedBefore'
         /\ CommitEdit(w) => ApprovedBefore'
         /\ StartCancel(w) => ApprovedBefore'
         /\ CommitCancel(w) => ApprovedBefore'
         /\ StartAction(w) => ApprovedBefore'
         /\ ReadApprovalLog(w) => ApprovedBefore'
         /\ ApproveStage(w) => ApprovedBefore'
         /\ ApproveFinal(w) => ApprovedBefore'
         /\ RejectStage(w) => ApprovedBefore'
         /\ WithdrawStage(w) => ApprovedBefore'
         /\ WithdrawFinal(w) => ApprovedBefore'
         /\ Abort(w) => ApprovedBefore'
<1>idle. Idle.op \notin Actions
  BY DEF Idle, Actions
<1>1. ASSUME StartCreate(w) PROVE ApprovedBefore'
  BY <1>1, ApprovedBeforeQuiet
     DEF StartCreate, StartBooking, Idle, Actions, leaveVars
<1>2. ASSUME StartEdit(w) PROVE ApprovedBefore'
  BY <1>2, ApprovedBeforeQuiet
     DEF StartEdit, StartBooking, Idle, Actions, leaveVars
<1>3. ASSUME CheckBooking(w) PROVE ApprovedBefore'
  <2>1. job[w].op \notin Actions
    BY <1>3 DEF CheckBooking, Serving, Actions
  <2>2. job' = [job EXCEPT ![w] = [job[w] EXCEPT !.step = "checked"]]
    BY <1>3 DEF CheckBooking
  <2>3. [job[w] EXCEPT !.step = "checked"].op \notin Actions
    BY <2>1 DEF TypeOK, Job
  <2> QED
    BY <1>3, <2>2, <2>3, ApprovedBeforeQuiet DEF CheckBooking, leaveVars
<1>4. ASSUME CommitCreate(w) PROVE ApprovedBefore'
  BY <1>4, <1>idle, ApprovedBeforeQuiet DEF CommitCreate, Finish, TypeOK, Granted
<1>5. ASSUME CommitEdit(w) PROVE ApprovedBefore'
  BY <1>5, <1>idle, ApprovedBeforeQuiet DEF CommitEdit, Finish
<1>6. ASSUME StartCancel(w) PROVE ApprovedBefore'
  BY <1>6, ApprovedBeforeQuiet DEF StartCancel, Idle, Actions, leaveVars
<1>7. ASSUME CommitCancel(w) PROVE ApprovedBefore'
  BY <1>7, <1>idle, ApprovedBeforeQuiet
     DEF CommitCancel, Finish, TypeOK, Granted
<1>8. ASSUME StartAction(w) PROVE ApprovedBefore'
  <2>1. PICK a \in Actions, r \in Approvers, l \in Leaves :
           job' = [job EXCEPT ![w] =
             [Idle EXCEPT !.op = a, !.step = "read", !.leave = l, !.role = r,
                    !.days = days[l], !.kind = kind[l], !.status = status[l]]]
    BY <1>8 DEF StartAction
  <2>2. status[l] \in Granted => l \in everApproved
    BY DEF ApprovedBefore
  <2> QED
    BY <1>8, <2>1, <2>2, ApprovedBeforeQuiet DEF StartAction, Idle, leaveVars
<1>9. ASSUME ReadApprovalLog(w) PROVE ApprovedBefore'
  <2> DEFINE new == [job[w] EXCEPT !.step = "checked",
                                   !.log = log[job[w].leave]]
  <2>1. job' = [job EXCEPT ![w] = new]
    BY <1>9 DEF ReadApprovalLog, TypeOK
  <2>2. /\ new.op = job[w].op /\ new.leave = job[w].leave
        /\ new.status = job[w].status
    BY DEF TypeOK, Job
  <2>3. job[w].op = "WITHDRAW" => job[w].status \in Granted
    BY <1>9 DEF ReadApprovalLog, ActionValidator, Granted
  <2> HIDE DEF new
  <2>4. /\ new.status \in Granted => new.leave \in everApproved
        /\ new.op = "WITHDRAW" => new.status \in Granted
    BY <1>9, <2>2, <2>3 DEF ApprovedBefore, ReadApprovalLog
  <2> QED
    BY <1>9, <2>1, <2>4, ApprovedBeforeQuiet DEF ReadApprovalLog, leaveVars
<1>10. ASSUME ApproveStage(w) PROVE ApprovedBefore'
  BY <1>10, <1>idle, ApprovedBeforeQuiet DEF ApproveStage, Finish
<1>11. ASSUME ApproveFinal(w) PROVE ApprovedBefore'
  BY <1>11, <1>idle
     DEF ApproveFinal, WriteBack, Charge, Finish, TypeOK, ApprovedBefore
<1>12. ASSUME RejectStage(w) PROVE ApprovedBefore'
  BY <1>12, <1>idle, ApprovedBeforeQuiet
     DEF RejectStage, WriteBack, Finish, TypeOK, Granted
<1>w. ASSUME Serving(w, "WITHDRAW", "checked")
      PROVE  job[w].leave \in everApproved
  BY <1>w DEF Serving, ApprovedBefore, Actions
<1>13. ASSUME WithdrawStage(w) PROVE ApprovedBefore'
  BY <1>13, <1>idle, <1>w
     DEF WithdrawStage, WriteBack, Finish, TypeOK, ApprovedBefore, ledgerVars
<1>14. ASSUME WithdrawFinal(w) PROVE ApprovedBefore'
  BY <1>14, <1>idle, <1>w
     DEF WithdrawFinal, WriteBack, Charge, Finish, TypeOK, ApprovedBefore
<1>15. ASSUME Abort(w) PROVE ApprovedBefore'
  BY <1>15, <1>idle, ApprovedBeforeQuiet DEF Abort, Finish, leaveVars
<1> QED
  BY <1>1, <1>2, <1>3, <1>4, <1>5, <1>6, <1>7, <1>8, <1>9, <1>10, <1>11,
     <1>12, <1>13, <1>14, <1>15

LEMMA ApprovedBeforeNext == TypeOK /\ ApprovedBefore /\ [Next]_vars => ApprovedBefore'
<1>1. ASSUME ApprovedBefore, UNCHANGED vars PROVE ApprovedBefore'
  BY <1>1 DEF ApprovedBefore, vars, leaveVars, ledgerVars
<1> QED
  BY <1>1, ApprovedBeforeStep DEF Next

(***************************************************************************)
(* However many requests interleave, and whatever the approval flow: only  *)
(* a leave that was approved at some time is charged to the balance, waits *)
(* for its withdrawal or is withdrawn.                                     *)
(***************************************************************************)
THEOREM WithdrawnWasApproved == Spec => []OnlyApprovedIsWithdrawn
<1>1. ApprovedBefore => OnlyApprovedIsWithdrawn
  BY DEF ApprovedBefore, OnlyApprovedIsWithdrawn, Granted
<1> QED
  BY <1>1, TypeCorrectness, ApprovedBeforeInit, ApprovedBeforeNext, PTL DEF Spec

-----------------------------------------------------------------------------
(***************************************************************************)
(* UnroutedIsNeverDecided under interleaving.  A validated request found   *)
(* a stage in the log, and no step takes the last stage out of a log, so   *)
(* what it writes back later goes to a leave that still has one.           *)
(***************************************************************************)
Routed ==
  /\ UnroutedIsNeverDecided
  /\ \A w \in Workers :
       /\ job[w].op \in Actions \cup {"EDIT", "CANCEL"} => Exists(job[w].leave)
       /\ job[w].op \in Actions /\ job[w].step = "checked"
            => HasFlow(log[job[w].leave])

LEMMA RoutedInit == Init => Routed
BY DEF Init, Routed, UnroutedIsNeverDecided, Idle, Actions

\* Whatever a processor writes back still has the stage of the acting role.
LEMMA WrittenLogHasFlow ==
  ASSUME NEW lg \in Logs, NEW r \in Approvers
  PROVE  /\ HasFlow(ApprovedLog(lg, r))
         /\ HasFlow(RejectedLog(lg, r))
         /\ HasFlow(WithdrawnLog(lg, r))
<1>1. /\ ApprovedLog(lg, r)[r] = "APPROVED"
      /\ RejectedLog(lg, r)[r] = "REJECTED"
      /\ WithdrawnLog(lg, r)[r] = "WITHDRAWN"
  BY DEF Logs, ApprovedLog, RejectedLog, WithdrawnLog, StampStage, SkipStages,
         SkipAllWaitingStages, ResetLogForWithdraw
<1> QED
  BY <1>1 DEF HasFlow, HasStage

LEMMA UpdateKeepsFlow ==
  ASSUME TypeOK, NEW l \in Leaves, NEW lg, HasFlow(lg), UpdateApprovalLog(l, lg)
  PROVE  \A m \in Leaves : HasFlow(log'[m]) <=> HasFlow(log[m])
BY DEF TypeOK, UpdateApprovalLog

\* Steps after which the worker's request decides nothing, or has been
\* validated against the log as it is now.
LEMMA RoutedQuiet ==
  ASSUME TypeOK, Routed, NEW w \in Workers,
         NEW j, job' = [job EXCEPT ![w] = j],
         j.op \in Actions \cup {"EDIT", "CANCEL"} =>
           j.leave \in Leaves /\ Exists(j.leave),
         j.op \in Actions /\ j.step = "checked" => HasFlow(log[j.leave]),
         \A l \in Leaves : HasFlow(log'[l]) <=> HasFlow(log[l]),
         \A l \in Leaves :
           /\ Exists(l) => status'[l] # "ABSENT"
           /\ \/ status'[l] = status[l]
              \/ status'[l] = "CANCELLED"
              \/ HasFlow(log[l])
  PROVE  Routed'
<1>1. UnroutedIsNeverDecided'
  BY DEF Routed, UnroutedIsNeverDecided
<1>2. ASSUME NEW v \in Workers
      PROVE  /\ job'[v].op \in Actions \cup {"EDIT", "CANCEL"}
                  => status'[job'[v].leave] # "ABSENT"
             /\ job'[v].op \in Actions /\ job'[v].step = "checked"
                  => HasFlow(log'[job'[v].leave])
  <2>1. CASE v = w
    BY <2>1 DEF TypeOK
  <2>2. CASE v # w
    BY <2>2 DEF TypeOK, Routed, Exists
  <2> QED
    BY <2>1, <2>2
<1> QED
  BY <1>1, <1>2 DEF Routed, Exists

\* A request about to write for an action.
LEMMA ServedAction ==
  ASSUME TypeOK, Routed, NEW w \in Workers, job[w].op \in Actions,
         job[w].step = "checked"
  PROVE  /\ job[w].leave \in Leaves /\ Exists(job[w].leave)
         /\ HasFlow(log[job[w].leave])
         /\ HasFlow(ApprovedLog(job[w].log, job[w].role))
         /\ HasFlow(RejectedLog(job[w].log, job[w].role))
         /\ HasFlow(WithdrawnLog(job[w].log, job[w].role))
BY WrittenLogHasFlow DEF TypeOK, Routed, Job

\* The statuses and logs an action writes back.
LEMMA WriteBackRouted ==
  ASSUME TypeOK, Routed, NEW w \in Workers, job[w].op \in Actions,
         job[w].step = "checked", NEW st \in Statuses \ {"ABSENT"}, NEW lg,
         HasFlow(lg), WriteBack(job[w].leave, st, lg), Finish(w)
  PROVE  Routed'
<1>1. Idle.op \notin Actions \cup {"EDIT", "CANCEL"}
  BY DEF Idle, Actions
<1>2. /\ job[w].leave \in Leaves
      /\ HasFlow(log[job[w].leave])
  BY ServedAction
<1>3. \A l \in Leaves : HasFlow(log'[l]) <=> HasFlow(log[l])
  BY <1>2, UpdateKeepsFlow DEF WriteBack
<1>4. \A l \in Leaves :
        /\ Exists(l) => status'[l] # "ABSENT"
        /\ status'[l] = status[l] \/ HasFlow(log[l])
  BY <1>2 DEF WriteBack, TypeOK, Exists
<1> QED
  BY <1>1, <1>3, <1>4, RoutedQuiet DEF Finish

\* The request StartBooking leaves behind.
LEMMA StartBookingJob ==
  ASSUME NEW w, NEW op, NEW l, NEW role, NEW d, NEW k, NEW s,
         StartBooking(w, op, l, role, d, k, s)
  PROVE  \E j : job' = [job EXCEPT ![w] = j] /\ j.op = op /\ j.leave = l
<1> DEFINE seen == IF k = "EARLY" THEN 0 ELSE closing[k]
           new == [Idle EXCEPT !.op = op, !.step = "read", !.leave = l,
                     !.role = role, !.days = d, !.kind = k, !.slot = s,
                     !.closing = seen]
<1>1. job' = [job EXCEPT ![w] = new]
  BY DEF StartBooking
<1>2. new.op = op /\ new.leave = l
  <2> HIDE DEF seen
  <2> QED BY DEF Idle
<1> HIDE DEF new
<1> QED
  BY <1>1, <1>2

LEMMA RoutedNext == TypeOK /\ Routed /\ [Next]_vars => Routed'
<1> SUFFICES ASSUME TypeOK, Routed, [Next]_vars PROVE Routed'
  OBVIOUS
<1>1. CASE UNCHANGED vars
  BY <1>1 DEF Routed, UnroutedIsNeverDecided, Exists, vars, leaveVars
<1>2. ASSUME NEW w \in Workers,
             \/ StartCreate(w) \/ StartEdit(w) \/ CheckBooking(w)
             \/ CommitCreate(w) \/ CommitEdit(w)
             \/ StartCancel(w) \/ CommitCancel(w)
             \/ StartAction(w) \/ ReadApprovalLog(w)
             \/ ApproveStage(w) \/ ApproveFinal(w) \/ RejectStage(w)
             \/ WithdrawStage(w) \/ WithdrawFinal(w)
             \/ Abort(w)
      PROVE  Routed'
  <2>idle. Idle.op \notin Actions \cup {"EDIT", "CANCEL"}
    BY DEF Idle, Actions
  <2>1. CASE StartCreate(w)
    <3>1. \E j : job' = [job EXCEPT ![w] = j] /\ j.op = "CREATE"
      BY <2>1, StartBookingJob DEF StartCreate
    <3> QED
      BY <2>1, <3>1, RoutedQuiet
         DEF StartCreate, StartBooking, Actions, leaveVars, Exists
  <2>2. CASE StartEdit(w)
    <3>1. \E j : /\ job' = [job EXCEPT ![w] = j]
                 /\ j.op = "EDIT" /\ j.leave \in Leaves /\ Exists(j.leave)
      BY <2>2, StartBookingJob DEF StartEdit
    <3> QED
      BY <2>2, <3>1, RoutedQuiet
         DEF StartEdit, StartBooking, Actions, leaveVars, Exists
  <2>3. CASE CheckBooking(w)
    <3> DEFINE new == [job[w] EXCEPT !.step = "checked"]
    <3>1. job' = [job EXCEPT ![w] = new]
      BY <2>3 DEF CheckBooking
    <3>2. new.op = job[w].op /\ new.leave = job[w].leave
            /\ new.op \notin Actions
      BY <2>3 DEF CheckBooking, Serving, Actions, TypeOK, Job
    <3>3. new.op = "EDIT" => new.leave \in Leaves /\ Exists(new.leave)
      BY <3>2 DEF TypeOK, Routed
    <3>4. new.op # "CANCEL"
      BY <2>3, <3>2 DEF CheckBooking, Serving
    <3> HIDE DEF new
    <3> QED
      BY <2>3, <3>1, <3>2, <3>3, <3>4, RoutedQuiet
         DEF CheckBooking, leaveVars, Exists
  <2>4. CASE CommitCreate(w)
    <3>1. PICK l \in Leaves :
            /\ ~Exists(l)
            /\ status' = [status EXCEPT ![l] = "Pending"]
            /\ log' = [log EXCEPT ![l] = GenerateApprovalLog(job[w].role)]
      BY <2>4 DEF CommitCreate
    <3>2. UnroutedIsNeverDecided'
      BY <3>1 DEF TypeOK, Routed, UnroutedIsNeverDecided
    <3>3. ASSUME NEW v \in Workers
          PROVE  /\ job'[v].op \in Actions \cup {"EDIT", "CANCEL"}
                      => status'[job'[v].leave] # "ABSENT"
                 /\ job'[v].op \in Actions /\ job'[v].step = "checked"
                      => HasFlow(log'[job'[v].leave])
      <4>1. CASE v = w
        BY <4>1, <2>4, <2>idle DEF CommitCreate, Finish, TypeOK
      <4>2. CASE v # w
        <5>1. job'[v] = job[v]
          BY <4>2, <2>4 DEF CommitCreate, Finish, TypeOK
        <5>2. job[v].op \in Actions \cup {"EDIT", "CANCEL"} =>
                /\ job[v].leave \in Leaves /\ Exists(job[v].leave)
                /\ job[v].leave # l
          BY <3>1 DEF TypeOK, Routed
        <5> QED
          BY <3>1, <5>1, <5>2 DEF TypeOK, Routed, Exists
      <4> QED
        BY <4>1, <4>2
    <3> QED
      BY <3>2, <3>3 DEF Routed, Exists
  <2>5. CASE CommitEdit(w)
    <3>1. job[w].leave \in Leaves
      BY <2>5 DEF CommitEdit, Serving, TypeOK
    <3>2. \A l \in Leaves : HasFlow(log'[l]) <=> HasFlow(log[l])
      BY <2>5, <3>1, UpdateKeepsFlow DEF CommitEdit, RegenerateApprovalLog
    <3> QED
      BY <2>5, <3>2, <2>idle, RoutedQuiet DEF CommitEdit, Finish, Exists
  <2>6. CASE StartCancel(w)
    BY <2>6, RoutedQuiet DEF StartCancel, Idle, Actions, leaveVars, Exists
  <2>7. CASE CommitCancel(w)
    <3>1. \A l \in Leaves : status'[l] \in {status[l], "CANCELLED"}
      BY <2>7 DEF CommitCancel, TypeOK
    <3> QED
      BY <2>7, <3>1, <2>idle, RoutedQuiet DEF CommitCancel, Finish, Exists
  <2>8. CASE StartAction(w)
    BY <2>8, RoutedQuiet DEF StartAction, Idle, Actions, leaveVars, Exists
  <2>9. CASE ReadApprovalLog(w)
    <3> DEFINE new == [job[w] EXCEPT !.step = "checked",
                                     !.log = log[job[w].leave]]
    <3>1. job' = [job EXCEPT ![w] = new]
      BY <2>9 DEF ReadApprovalLog, TypeOK
    <3>2. new.op = job[w].op /\ new.leave = job[w].leave
      BY DEF TypeOK, Job
    <3>3. /\ job[w].leave \in Leaves /\ Exists(job[w].leave)
          /\ HasFlow(log[job[w].leave])
      BY <2>9 DEF ReadApprovalLog, ActionValidator, TypeOK, Routed, HasFlow
    <3> HIDE DEF new
    <3> QED
      BY <2>9, <3>1, <3>2, <3>3, RoutedQuiet
         DEF ReadApprovalLog, leaveVars, Exists
  <2>10. CASE ApproveStage(w)
    <3>1. job[w].op \in Actions /\ job[w].step = "checked"
      BY <2>10 DEF ApproveStage, Serving, Actions
    <3>2. \A l \in Leaves : HasFlow(log'[l]) <=> HasFlow(log[l])
      BY <2>10, <3>1, ServedAction, UpdateKeepsFlow DEF ApproveStage
    <3> QED
      BY <2>10, <3>2, <2>idle, RoutedQuiet DEF ApproveStage, Finish, Exists
  <2>11. CASE ApproveFinal(w)
    <3>1. job[w].op \in Actions /\ job[w].step = "checked"
      BY <2>11 DEF ApproveFinal, Serving, Actions
    <3> QED
      BY <2>11, <3>1, ServedAction, WriteBackRouted DEF ApproveFinal, Statuses
  <2>12. CASE RejectStage(w)
    <3>1. job[w].op \in Actions /\ job[w].step = "checked"
      BY <2>12 DEF RejectStage, Serving, Actions
    <3> QED
      BY <2>12, <3>1, ServedAction, WriteBackRouted DEF RejectStage, Statuses
  <2>13. CASE WithdrawStage(w)
    <3>1. job[w].op \in Actions /\ job[w].step = "checked"
      BY <2>13 DEF WithdrawStage, Serving, Actions
    <3> QED
      BY <2>13, <3>1, ServedAction, WriteBackRouted DEF WithdrawStage, Statuses
  <2>14. CASE WithdrawFinal(w)
    <3>1. job[w].op \in Actions /\ job[w].step = "checked"
      BY <2>14 DEF WithdrawFinal, Serving, Actions
    <3> QED
      BY <2>14, <3>1, ServedAction, WriteBackRouted DEF WithdrawFinal, Statuses
  <2>15. CASE Abort(w)
    BY <2>15, <2>idle, RoutedQuiet DEF Abort, Finish, leaveVars, Exists
  <2> QED
    BY <1>2, <2>1, <2>2, <2>3, <2>4, <2>5, <2>6, <2>7, <2>8, <2>9, <2>10,
       <2>11, <2>12, <2>13, <2>14, <2>15
<1> QED
  BY <1>1, <1>2 DEF Next

(***************************************************************************)
(* However many requests interleave: a leave without a stage in its log is *)
(* never approved, rejected or withdrawn - it can only stay Pending or be  *)
(* cancelled.                                                              *)
(***************************************************************************)
THEOREM UnroutedStaysPending == Spec => []UnroutedIsNeverDecided
<1>1. Routed => UnroutedIsNeverDecided
  BY DEF Routed
<1> QED
  BY <1>1, TypeCorrectness, RoutedInit, RoutedNext, PTL DEF Spec

-----------------------------------------------------------------------------
(***************************************************************************)
(* When requests are served one at a time, what a request has read is      *)
(* still true when it writes, so days are charged exactly while a leave is *)
(* granted, and LeaveFlow implements LeaveLedger.                          *)
(*                                                                         *)
(* OneAtATime is a hypothesis and not a fact about the server: it is what  *)
(* a lock on the leave, taken before the first read, would ensure.         *)
(***************************************************************************)
OneAtATime == \A v, w \in Workers : v = w

\* What a request has read is still what the database holds.
Fresh ==
  \A w \in Workers :
    /\ job[w].op \in Actions =>
         /\ job[w].status = status[job[w].leave]
         /\ job[w].days = days[job[w].leave]
         /\ job[w].kind = kind[job[w].leave]
    /\ job[w].step = "checked" =>
         /\ job[w].op = "APPROVE" => job[w].status = "Pending"
         /\ job[w].op = "WITHDRAW" =>
              job[w].status \in {"APPROVED", "WITHDRAWAL_PENDING"}
    /\ job[w].op = "CANCEL" =>
         status[job[w].leave] \notin {"APPROVED", "REJECTED", "CANCELLED"}

\* A leave takes days somebody may ask for.
Asked ==
  /\ \A l \in Leaves : Exists(l) => days[l] \in Days \cup EditDays
  /\ \A w \in Workers :
       job[w].op \in {"CREATE", "EDIT"} => job[w].days \in Days \cup EditDays

SerialInv ==
  TypeOK /\ Routed /\ Fresh /\ Asked /\ ChargedWhileGranted

LEMMA SerialInit == Init => SerialInv
<1> SUFFICES ASSUME Init PROVE SerialInv
  OBVIOUS
<1>1. Fresh
  BY DEF Init, Fresh, Idle, Actions
<1>2. Asked
  BY DEF Init, Asked, Exists, Idle
<1>3. ChargedWhileGranted
  BY DEF Init, ChargedWhileGranted
<1> QED
  BY <1>1, <1>2, <1>3, InitType, RoutedInit DEF SerialInv

-----------------------------------------------------------------------------
(* One lemma per kind of step.                                             *)

\* The only request is over: nothing it has read is left.
LEMMA FreshWhenFinished ==
  ASSUME OneAtATime, TypeOK, NEW w \in Workers, Finish(w)
  PROVE  /\ Fresh'
         /\ \A v \in Workers : job'[v].op \notin {"CREATE", "EDIT"}
<1>1. job'[w] = Idle
  BY DEF Finish, TypeOK
<1> QED
  BY <1>1 DEF OneAtATime, Fresh, Idle, Actions

LEMMA StartBookingSerial ==
  ASSUME OneAtATime, SerialInv, NEW w \in Workers, NEW op \in {"CREATE", "EDIT"},
         NEW l, NEW role, NEW d \in Days \cup EditDays, NEW k, NEW s,
         StartBooking(w, op, l, role, d, k, s)
  PROVE  Fresh' /\ Asked' /\ ChargedWhileGranted'
<1> DEFINE seen == IF k = "EARLY" THEN 0 ELSE closing[k]
           new == [Idle EXCEPT !.op = op, !.step = "read", !.leave = l,
                     !.role = role, !.days = d, !.kind = k, !.slot = s,
                     !.closing = seen]
<1>1. job'[w] = new
  BY DEF StartBooking, SerialInv, TypeOK
<1>2. new.op = op /\ new.step = "read" /\ new.days = d
  <2> HIDE DEF seen
  <2> QED BY DEF Idle
<1> HIDE DEF new
<1>3. UNCHANGED <<leaveVars, ledgerVars>>
  BY DEF StartBooking
<1>4. Fresh'
  BY <1>1, <1>2 DEF OneAtATime, Fresh, Actions
<1>5. Asked'
  BY <1>1, <1>2, <1>3 DEF OneAtATime, Asked, SerialInv, leaveVars, Exists
<1> QED
  BY <1>3, <1>4, <1>5
     DEF SerialInv, ChargedWhileGranted, leaveVars, ledgerVars

\* A request that acts on a leave, when it is about to write.
LEMMA ServedFresh ==
  ASSUME SerialInv, NEW w \in Workers, job[w].step = "checked",
         job[w].op \in Actions
  PROVE  LET j == job[w] IN
         /\ j.leave \in Leaves /\ Exists(j.leave)
         /\ j.days = days[j.leave] /\ j.kind = kind[j.leave]
         /\ j.days \in Days \cup EditDays
         /\ j.op = "APPROVE" =>
              status[j.leave] = "Pending" /\ charged[j.leave] = 0
         /\ j.op = "WITHDRAW" =>
              /\ status[j.leave] \in {"APPROVED", "WITHDRAWAL_PENDING"}
              /\ charged[j.leave] = Cost(j.kind, j.days)
<1>1. job[w].leave \in Leaves /\ Exists(job[w].leave)
  BY DEF SerialInv, TypeOK, Routed
<1> QED
  BY <1>1 DEF SerialInv, Fresh, Asked, ChargedWhileGranted

\* A step that ends the only request: what is left of the invariant.
LEMMA FinishSerial ==
  ASSUME OneAtATime, SerialInv, NEW w \in Workers, Finish(w),
         \A l \in Leaves :
           status'[l] # "ABSENT" =>
             days'[l] \in Days \cup EditDays,
         ChargedWhileGranted'
  PROVE  Fresh' /\ Asked' /\ ChargedWhileGranted'
<1>1. TypeOK
  BY DEF SerialInv
<1> QED
  BY <1>1, FreshWhenFinished DEF Asked, Exists

\* What a charge leaves the leave charged with.
LEMMA ChargedTo ==
  ASSUME TypeOK, NEW l \in Leaves, NEW k, NEW d \in Int, NEW c \in Int,
         Charge(l, k, d), charged[l] + Cost(k, d) = c
  PROVE  charged' = [charged EXCEPT ![l] = c]
BY DEF Charge

LEMMA SerialStep ==
  ASSUME OneAtATime, SerialInv, NEW w \in Workers,
         \/ StartCreate(w) \/ StartEdit(w) \/ CheckBooking(w)
         \/ CommitCreate(w) \/ CommitEdit(w)
         \/ StartCancel(w) \/ CommitCancel(w)
         \/ StartAction(w) \/ ReadApprovalLog(w)
         \/ ApproveStage(w) \/ ApproveFinal(w) \/ RejectStage(w)
         \/ WithdrawStage(w) \/ WithdrawFinal(w)
         \/ Abort(w)
  PROVE  Fresh' /\ Asked' /\ ChargedWhileGranted'
<1>t. TypeOK /\ Routed
  BY DEF SerialInv
<1>q. ASSUME UNCHANGED <<leaveVars, ledgerVars>> PROVE ChargedWhileGranted'
  BY <1>q DEF SerialInv, ChargedWhileGranted, leaveVars, ledgerVars
<1>1. CASE StartCreate(w)
  BY <1>1, StartBookingSerial DEF StartCreate
<1>2. CASE StartEdit(w)
  BY <1>2, StartBookingSerial DEF StartEdit
<1>3. CASE CheckBooking(w)
  <2>1. /\ job[w].op \in {"CREATE", "EDIT"}
        /\ job'[w] = [job[w] EXCEPT !.step = "checked"]
    BY <1>3, <1>t DEF CheckBooking, Serving, TypeOK
  <2>2. job'[w].op = job[w].op /\ job'[w].days = job[w].days
    BY <2>1, <1>t DEF TypeOK, Job
  <2>3. Fresh'
    BY <2>1, <2>2 DEF OneAtATime, Fresh, Actions
  <2>4. Asked'
    BY <1>3, <2>1, <2>2
       DEF OneAtATime, CheckBooking, SerialInv, Asked, leaveVars, Exists
  <2> QED
    BY <1>3, <1>q, <2>3, <2>4 DEF CheckBooking
<1>4. CASE CommitCreate(w)
  <2>1. job[w].days \in Days \cup EditDays
    BY <1>4 DEF CommitCreate, Serving, SerialInv, Asked
  <2>2. PICK l \in Leaves :
          /\ ~Exists(l)
          /\ status' = [status EXCEPT ![l] = "Pending"]
          /\ days' = [days EXCEPT ![l] = job[w].days]
          /\ kind' = [kind EXCEPT ![l] = job[w].kind]
    BY <1>4 DEF CommitCreate
  <2>3. ChargedWhileGranted'
    BY <1>4, <1>t, <2>2
       DEF CommitCreate, TypeOK, SerialInv, ChargedWhileGranted, Exists,
           ledgerVars
  <2>4. \A m \in Leaves : status'[m] # "ABSENT" => days'[m] \in Days \cup EditDays
    BY <1>t, <2>1, <2>2 DEF TypeOK, SerialInv, Asked, Exists
  <2> QED
    BY <1>4, <2>3, <2>4, FinishSerial DEF CommitCreate
<1>5. CASE CommitEdit(w)
  <2>1. /\ job[w].days \in Days \cup EditDays
        /\ job[w].leave \in Leaves
    BY <1>5, <1>t DEF CommitEdit, Serving, SerialInv, Asked, TypeOK
  <2>2. ChargedWhileGranted'
    BY <1>5, <1>t, <2>1
       DEF CommitEdit, TypeOK, SerialInv, ChargedWhileGranted, ledgerVars
  <2>3. \A m \in Leaves : status'[m] # "ABSENT" => days'[m] \in Days \cup EditDays
    BY <1>5, <1>t, <2>1 DEF CommitEdit, TypeOK, SerialInv, Asked, Exists
  <2> QED
    BY <1>5, <2>2, <2>3, FinishSerial DEF CommitEdit
<1>6. CASE StartCancel(w)
  <2>1. PICK l \in Leaves :
          /\ status[l] \notin {"APPROVED", "REJECTED", "CANCELLED"}
          /\ job' = [job EXCEPT ![w] =
               [Idle EXCEPT !.op = "CANCEL", !.step = "checked", !.leave = l]]
    BY <1>6 DEF StartCancel
  <2>2. job'[w].op = "CANCEL" /\ job'[w].leave = l
    BY <2>1, <1>t DEF TypeOK, Idle
  <2>3. Fresh'
    BY <1>6, <2>1, <2>2 DEF OneAtATime, Fresh, Actions, StartCancel, leaveVars
  <2>4. Asked'
    BY <1>6, <2>2 DEF OneAtATime, StartCancel, SerialInv, Asked, leaveVars, Exists
  <2> QED
    BY <1>6, <1>q, <2>3, <2>4 DEF StartCancel
<1>7. CASE CommitCancel(w)
  <2>1. ChargedWhileGranted'
    BY <1>7, <1>t
       DEF CommitCancel, TypeOK, SerialInv, ChargedWhileGranted, ledgerVars
  <2>2. \A m \in Leaves : status'[m] # "ABSENT" => days'[m] \in Days \cup EditDays
    BY <1>7, <1>t
       DEF CommitCancel, Serving, TypeOK, Routed, SerialInv, Asked, Exists
  <2> QED
    BY <1>7, <2>1, <2>2, FinishSerial DEF CommitCancel
<1>8. CASE StartAction(w)
  <2>1. PICK a \in Actions, r \in Approvers, l \in Leaves :
          job' = [job EXCEPT ![w] =
            [Idle EXCEPT !.op = a, !.step = "read", !.leave = l, !.role = r,
                   !.days = days[l], !.kind = kind[l], !.status = status[l]]]
    BY <1>8 DEF StartAction
  <2>2. /\ job'[w].op = a /\ job'[w].step = "read" /\ job'[w].leave = l
        /\ job'[w].days = days[l] /\ job'[w].kind = kind[l]
        /\ job'[w].status = status[l]
    BY <2>1, <1>t DEF TypeOK, Idle
  <2>3. Fresh'
    BY <1>8, <2>2 DEF OneAtATime, Fresh, Actions, StartAction, leaveVars
  <2>4. Asked'
    BY <1>8, <2>2
       DEF OneAtATime, StartAction, SerialInv, Asked, Actions, leaveVars, Exists
  <2> QED
    BY <1>8, <1>q, <2>3, <2>4 DEF StartAction
<1>9. CASE ReadApprovalLog(w)
  <2> DEFINE j == job[w]
             new == [job[w] EXCEPT !.step = "checked",
                                   !.log = log[job[w].leave]]
  <2>1. job'[w] = new
    BY <1>9, <1>t DEF ReadApprovalLog, TypeOK
  <2>2. /\ new.op = j.op /\ new.leave = j.leave /\ new.days = j.days
        /\ new.kind = j.kind /\ new.status = j.status
    BY <1>t DEF TypeOK, Job
  <2>3. /\ j.op \in Actions
        /\ j.op = "APPROVE" => j.status = "Pending"
        /\ j.op = "WITHDRAW" => j.status \in {"APPROVED", "WITHDRAWAL_PENDING"}
    BY <1>9 DEF ReadApprovalLog, ActionValidator
  <2>f. /\ j.status = status[j.leave] /\ j.days = days[j.leave]
        /\ j.kind = kind[j.leave]
    BY <2>3 DEF SerialInv, Fresh
  <2> HIDE DEF new
  <2>4. Fresh'
    <3>1. UNCHANGED <<status, days, kind>>
      BY <1>9 DEF ReadApprovalLog, leaveVars
    <3>2. job'[w].op # "CANCEL"
      BY <2>1, <2>2, <2>3 DEF Actions
    <3> HIDE DEF j
    <3> QED
      BY <2>1, <2>2, <2>3, <2>f, <3>1, <3>2 DEF OneAtATime, Fresh
  <2>5. Asked'
    BY <1>9, <2>1, <2>2, <2>3
       DEF OneAtATime, ReadApprovalLog, SerialInv, Asked, Actions, leaveVars,
           Exists
  <2> QED
    BY <1>9, <1>q, <2>4, <2>5 DEF ReadApprovalLog
<1>d. ASSUME UNCHANGED days, job[w].op \in Actions,
             \A l \in Leaves : status'[l] = status[l] \/ l = job[w].leave
      PROVE  \A m \in Leaves :
               status'[m] # "ABSENT" => days'[m] \in Days \cup EditDays
  BY <1>d DEF SerialInv, Asked, Routed, Exists
<1>10. CASE ApproveStage(w)
  <2>1. ChargedWhileGranted'
    BY <1>10 DEF ApproveStage, SerialInv, ChargedWhileGranted, ledgerVars
  <2> QED
    BY <1>10, <1>d, <2>1, FinishSerial DEF ApproveStage, Serving, Actions
<1>11. CASE ApproveFinal(w)
  <2>1. /\ job[w].leave \in Leaves /\ charged[job[w].leave] = 0
        /\ job[w].kind = kind[job[w].leave] /\ job[w].days = days[job[w].leave]
        /\ job[w].days \in Nat
    BY <1>11, <1>t, ServedFresh DEF ApproveFinal, Serving, Actions, TypeOK, Job
  <2>2. ChargedWhileGranted'
    BY <1>11, <1>t, <2>1, ChargedTo
       DEF ApproveFinal, WriteBack, TypeOK, SerialInv, ChargedWhileGranted, Cost
  <2>3. \A l \in Leaves : status'[l] = status[l] \/ l = job[w].leave
    BY <1>11, <1>t DEF ApproveFinal, WriteBack, TypeOK
  <2> QED
    BY <1>11, <1>d, <2>2, <2>3, FinishSerial
       DEF ApproveFinal, WriteBack, Serving, Actions
<1>12. CASE RejectStage(w)
  <2>1. ChargedWhileGranted'
    BY <1>12, <1>t
       DEF RejectStage, WriteBack, TypeOK, SerialInv, ChargedWhileGranted,
           ledgerVars
  <2>2. \A l \in Leaves : status'[l] = status[l] \/ l = job[w].leave
    BY <1>12, <1>t DEF RejectStage, WriteBack, TypeOK
  <2> QED
    BY <1>12, <1>d, <2>1, <2>2, FinishSerial
       DEF RejectStage, WriteBack, Serving, Actions
<1>13. CASE WithdrawStage(w)
  <2>1. /\ job[w].leave \in Leaves
        /\ status[job[w].leave] \in {"APPROVED", "WITHDRAWAL_PENDING"}
    BY <1>13, ServedFresh DEF WithdrawStage, Serving, Actions
  <2>2. ChargedWhileGranted'
    BY <1>13, <1>t, <2>1
       DEF WithdrawStage, WriteBack, TypeOK, SerialInv, ChargedWhileGranted,
           ledgerVars
  <2>3. \A l \in Leaves : status'[l] = status[l] \/ l = job[w].leave
    BY <1>13, <1>t DEF WithdrawStage, WriteBack, TypeOK
  <2> QED
    BY <1>13, <1>d, <2>2, <2>3, FinishSerial
       DEF WithdrawStage, WriteBack, Serving, Actions
<1>14. CASE WithdrawFinal(w)
  <2>1. /\ job[w].leave \in Leaves
        /\ charged[job[w].leave] = Cost(job[w].kind, job[w].days)
        /\ job[w].days \in Nat
    BY <1>14, <1>t, ServedFresh DEF WithdrawFinal, Serving, Actions, TypeOK, Job
  <2>2. charged' = [charged EXCEPT ![job[w].leave] = 0]
    BY <1>14, <1>t, <2>1, ChargedTo DEF WithdrawFinal, Cost
  <2>3. ChargedWhileGranted'
    BY <1>14, <1>t, <2>1, <2>2
       DEF WithdrawFinal, WriteBack, TypeOK, SerialInv, ChargedWhileGranted
  <2>4. \A l \in Leaves : status'[l] = status[l] \/ l = job[w].leave
    BY <1>14, <1>t DEF WithdrawFinal, WriteBack, TypeOK
  <2> QED
    BY <1>14, <1>d, <2>3, <2>4, FinishSerial
       DEF WithdrawFinal, WriteBack, Serving, Actions
<1>15. CASE Abort(w)
  BY <1>15, <1>q, FinishSerial DEF Abort, SerialInv, Asked, leaveVars, Exists
<1> QED
  BY <1>1, <1>2, <1>3, <1>4, <1>5, <1>6, <1>7, <1>8, <1>9, <1>10, <1>11,
     <1>12, <1>13, <1>14, <1>15

LEMMA SerialNext == OneAtATime /\ SerialInv /\ [Next]_vars => SerialInv'
<1> SUFFICES ASSUME OneAtATime, SerialInv, [Next]_vars PROVE SerialInv'
  OBVIOUS
<1>1. TypeOK' /\ Routed'
  BY NextType, RoutedNext DEF SerialInv
<1>2. CASE UNCHANGED vars
  BY <1>1, <1>2
     DEF SerialInv, Fresh, Asked, ChargedWhileGranted, Exists,
         vars, leaveVars, ledgerVars
<1>3. CASE Next
  BY <1>1, <1>3, SerialStep DEF SerialInv, Next
<1> QED
  BY <1>2, <1>3

(***************************************************************************)
(* When requests are served one at a time, the days of a leave are off the *)
(* balance exactly from its final approval to its final withdrawal, for    *)
(* any number of leaves, any days and any validated flow - whatever the    *)
(* order of edits, cancellations, approvals, rejections and withdrawals.   *)
(***************************************************************************)
THEOREM SerialCharges ==
  ASSUME OneAtATime
  PROVE  Spec => []ChargedWhileGranted
<1>1. SerialInv /\ [Next]_vars => SerialInv'
  BY SerialNext
<1>2. SerialInv => ChargedWhileGranted
  BY DEF SerialInv
<1> QED
  BY <1>1, <1>2, SerialInit, PTL DEF Spec

-----------------------------------------------------------------------------
(* LeaveFlow implements LeaveLedger.                                       *)

Phase == [l \in Leaves |-> LedgerPhase(l)]

Taken == [l \in Leaves |-> TakenFrom(l)]

LEMMA LedgerInit == Init => Ledger!Init
BY DEF Init, Ledger!Init, LedgerPhase, TakenFrom

\* What a leave has taken changes with its charge, and with its kind only
\* while it is charged.
LEMMA TakenStays ==
  ASSUME UNCHANGED charged,
         \A l \in Leaves : kind'[l] = kind[l] \/ charged[l] = 0
  PROVE  Taken' = Taken
BY DEF Taken, TakenFrom

\* A step that moves one leave, charging it nothing, is a step of the ledger
\* or a stutter, according to the phases it moves between.
LEMMA LedgerMove ==
  ASSUME TypeOK, NEW l \in Leaves, UNCHANGED <<closing, charged>>,
         \A m \in Leaves : kind'[m] = kind[m] \/ charged[m] = 0,
         \A m \in Leaves \ {l} : status'[m] = status[m],
         \/ LedgerPhase(l)' = LedgerPhase(l)
         \/ LedgerPhase(l) = "none" /\ LedgerPhase(l)' = "booked"
         \/ LedgerPhase(l) = "booked" /\ LedgerPhase(l)' = "released"
         \/ LedgerPhase(l) = "granted" /\ LedgerPhase(l)' = "forfeited"
         \/ /\ LedgerPhase(l) = "granted" /\ LedgerPhase(l)' = "released"
            /\ charged[l] = 0
  PROVE  [Ledger!Next]_(Ledger!vars)
<1>1. \A m \in Leaves \ {l} : LedgerPhase(m)' = LedgerPhase(m)
  BY DEF LedgerPhase
<1>2. Phase' = [Phase EXCEPT ![l] = LedgerPhase(l)']
  BY <1>1 DEF Phase
<1>3. Phase[l] = LedgerPhase(l)
  BY DEF Phase
<1>4. Taken' = Taken
  BY TakenStays
<1>5. CASE LedgerPhase(l)' = LedgerPhase(l)
  BY <1>2, <1>3, <1>4, <1>5 DEF Ledger!vars, Phase, Taken
<1>6. CASE LedgerPhase(l) = "none" /\ LedgerPhase(l)' = "booked"
  BY <1>2, <1>3, <1>4, <1>6
     DEF Ledger!Next, Ledger!Book, Ledger!Move, Phase, Taken
<1>7. CASE LedgerPhase(l) = "booked" /\ LedgerPhase(l)' = "released"
  BY <1>2, <1>3, <1>4, <1>7
     DEF Ledger!Next, Ledger!Drop, Ledger!Move, Phase, Taken
<1>8. CASE LedgerPhase(l) = "granted" /\ LedgerPhase(l)' = "forfeited"
  BY <1>2, <1>3, <1>4, <1>8
     DEF Ledger!Next, Ledger!Forfeit, Ledger!Move, Phase, Taken
<1>9. CASE /\ LedgerPhase(l) = "granted" /\ LedgerPhase(l)' = "released"
           /\ charged[l] = 0
  <2>1. Taken[l] = [b \in Buckets |-> 0]
    BY <1>9 DEF Taken, TakenFrom
  <2>2. Taken' = [Taken EXCEPT ![l] = [b \in Buckets |-> 0]]
    BY <1>4, <2>1 DEF Taken
  <2>3. closing' = [b \in Buckets |-> closing[b] + Taken[l][b]]
    BY <2>1 DEF TypeOK
  <2> QED
    BY <1>2, <1>3, <1>9, <2>2, <2>3
       DEF Ledger!Next, Ledger!GiveBack, Ledger!Move, Phase, Taken
<1> QED
  BY <1>5, <1>6, <1>7, <1>8, <1>9

\* Which steps leave every leave where it stands.
LEMMA LedgerStutter ==
  ASSUME UNCHANGED <<status, closing, charged>>,
         \A m \in Leaves : kind'[m] = kind[m] \/ charged[m] = 0
  PROVE  UNCHANGED Ledger!vars
BY TakenStays DEF Ledger!vars, LedgerPhase, Taken

\* The days a leave is charged, as taken from its balance.
LEMMA TakenWhenCharged ==
  ASSUME TypeOK, NEW l \in Leaves, NEW c \in Int, UNCHANGED kind,
         charged' = [charged EXCEPT ![l] = c]
  PROVE  Taken' = [Taken EXCEPT ![l] =
                     [b \in Buckets |-> IF b = kind[l] THEN c ELSE 0]]
BY DEF TypeOK, Taken, TakenFrom

LEMMA LedgerStep ==
  ASSUME OneAtATime, SerialInv, NEW w \in Workers,
         \/ StartCreate(w) \/ StartEdit(w) \/ CheckBooking(w)
         \/ CommitCreate(w) \/ CommitEdit(w)
         \/ StartCancel(w) \/ CommitCancel(w)
         \/ StartAction(w) \/ ReadApprovalLog(w)
         \/ ApproveStage(w) \/ ApproveFinal(w) \/ RejectStage(w)
         \/ WithdrawStage(w) \/ WithdrawFinal(w)
         \/ Abort(w)
  PROVE  [Ledger!Next]_(Ledger!vars)
<1>t. TypeOK /\ ChargedWhileGranted
  BY DEF SerialInv
<1>1. CASE CommitCreate(w)
  <2>1. PICK l \in Leaves : /\ ~Exists(l)
                            /\ status' = [status EXCEPT ![l] = "Pending"]
                            /\ kind' = [kind EXCEPT ![l] = job[w].kind]
    BY <1>1 DEF CommitCreate
  <2>3. \A m \in Leaves : kind'[m] = kind[m] \/ charged[m] = 0
    BY <1>t, <2>1 DEF ChargedWhileGranted, Exists, TypeOK
  <2>2. LedgerPhase(l) = "none" /\ LedgerPhase(l)' = "booked"
    BY <2>1, <1>t DEF LedgerPhase, Exists, TypeOK
  <2> QED
    BY <1>1, <1>t, <2>1, <2>2, <2>3, LedgerMove
       DEF CommitCreate, ledgerVars, TypeOK
<1>2. CASE CommitCancel(w)
  <2>1. PICK l \in Leaves :
        /\ l = job[w].leave
        /\ status' = [status EXCEPT ![l] = "CANCELLED"]
        /\ UNCHANGED <<closing, charged, kind>>
    BY <1>2, <1>t DEF CommitCancel, Serving, TypeOK, ledgerVars
  <2>2. status[l] \in {"Pending", "WITHDRAWAL_PENDING", "WITHDRAWN"}
    BY <1>2, <1>t, <2>1
       DEF CommitCancel, Serving, SerialInv, Fresh, Routed, Exists, TypeOK,
           Statuses
  <2>3. LedgerPhase(l)' = IF charged[l] = 0 THEN "released" ELSE "forfeited"
    BY <2>1, <1>t DEF LedgerPhase, TypeOK
  <2>4. status[l] \in {"Pending", "WITHDRAWN"} => charged[l] = 0
    BY <2>1, <1>t DEF ChargedWhileGranted
  <2>5. LedgerPhase(l) = CASE status[l] = "Pending" -> "booked"
                           [] status[l] = "WITHDRAWAL_PENDING" -> "granted"
                           [] status[l] = "WITHDRAWN" -> "released"
    BY <2>2, <2>4 DEF LedgerPhase
  <2>6. \A m \in Leaves \ {l} : status'[m] = status[m]
    BY <2>1, <1>t DEF TypeOK
  <2> QED
    BY <1>t, <2>1, <2>2, <2>3, <2>4, <2>5, <2>6, LedgerMove
<1>3. CASE RejectStage(w)
  <2>1. PICK l \in Leaves :
        /\ l = job[w].leave
        /\ status' = [status EXCEPT ![l] = "REJECTED"]
        /\ UNCHANGED <<closing, charged, kind>>
        /\ status[l] # "ABSENT"
    BY <1>3, <1>t, ServedFresh
       DEF RejectStage, WriteBack, Serving, ledgerVars, Actions, Exists
  <2>3. LedgerPhase(l)' = IF charged[l] = 0 THEN "released" ELSE "forfeited"
    BY <2>1, <1>t DEF LedgerPhase, TypeOK
  <2>4. status[l] \in {"Pending", "WITHDRAWN"} => charged[l] = 0
    BY <2>1, <1>t DEF ChargedWhileGranted
  <2>5. LedgerPhase(l) =
          CASE status[l] = "Pending" -> "booked"
            [] status[l] \in {"APPROVED", "WITHDRAWAL_PENDING"} -> "granted"
            [] status[l] = "WITHDRAWN" -> "released"
            [] OTHER -> IF charged[l] = 0 THEN "released" ELSE "forfeited"
    BY <2>1 DEF LedgerPhase
  <2>6. \A m \in Leaves \ {l} : status'[m] = status[m]
    BY <2>1, <1>t DEF TypeOK
  <2> QED
    BY <1>t, <2>1, <2>3, <2>4, <2>5, <2>6, LedgerMove
<1>4. CASE WithdrawStage(w)
  <2>1. PICK l \in Leaves :
        /\ l = job[w].leave
        /\ status' = [status EXCEPT ![l] = "WITHDRAWAL_PENDING"]
        /\ UNCHANGED <<closing, charged, kind>>
        /\ status[l] \in {"APPROVED", "WITHDRAWAL_PENDING"}
    BY <1>4, ServedFresh
       DEF WithdrawStage, WriteBack, Serving, ledgerVars, Actions
  <2>2. LedgerPhase(l)' = LedgerPhase(l)
    BY <2>1, <1>t DEF LedgerPhase, TypeOK
  <2>3. \A m \in Leaves \ {l} : status'[m] = status[m]
    BY <2>1, <1>t DEF TypeOK
  <2> QED
    BY <1>t, <2>1, <2>2, <2>3, LedgerMove
<1>5. CASE ApproveFinal(w)
  <2>1. PICK l \in Leaves, d \in Nat :
        /\ l = job[w].leave /\ d = job[w].days /\ kind[l] = job[w].kind
        /\ status[l] = "Pending" /\ charged[l] = 0
        /\ d \in Days \cup EditDays
    BY <1>5, <1>t, ServedFresh DEF ApproveFinal, Serving, Actions, TypeOK, Job
  <2> DEFINE c == Cost(kind[l], d)
  <2>2. /\ status' = [status EXCEPT ![l] = "APPROVED"]
        /\ Charge(l, kind[l], d)
        /\ UNCHANGED kind
    BY <1>5, <2>1 DEF ApproveFinal, WriteBack
  <2>3. c \in Days \cup EditDays \cup {0} /\ c \in Int
    BY <2>1 DEF Cost
  <2>4. charged' = [charged EXCEPT ![l] = c]
    BY <1>t, <2>1, <2>2, <2>3, ChargedTo
  <2>5. Taken' = [Taken EXCEPT ![l] =
                    [b \in Buckets |-> IF b = kind[l] THEN c ELSE 0]]
    BY <1>t, <2>2, <2>3, <2>4, TakenWhenCharged
  <2>6. Phase' = [Phase EXCEPT ![l] = "granted"] /\ Phase[l] = "booked"
    <3>1. \A m \in Leaves \ {l} : LedgerPhase(m)' = LedgerPhase(m)
      BY <2>1, <2>2, <2>4, <1>t DEF LedgerPhase, TypeOK
    <3>2. LedgerPhase(l)' = "granted" /\ LedgerPhase(l) = "booked"
      BY <2>1, <2>2, <1>t DEF LedgerPhase, TypeOK
    <3> QED
      BY <2>1, <3>1, <3>2 DEF Phase
  <2>7. Taken[l] = [b \in Buckets |-> 0]
    BY <2>1 DEF Taken, TakenFrom
  <2>8. PICK b \in Buckets :
          /\ Taken' = [Taken EXCEPT ![l][b] = c]
          /\ closing' = [closing EXCEPT ![b] = @ - c]
    <3>1. CASE kind[l] \in Buckets
      <4>1. c = d
        BY <3>1 DEF Cost, Buckets
      <4>2. Taken' = [Taken EXCEPT ![l][kind[l]] = c]
        BY <2>5, <2>7, <3>1 DEF Taken
      <4>3. closing' = [closing EXCEPT ![kind[l]] = @ - c]
        BY <2>2, <4>1, <3>1, <1>t DEF Charge, TypeOK
      <4> QED
        BY <3>1, <4>2, <4>3
    <3>2. CASE kind[l] \notin Buckets
      <4>1. c = 0
        BY <3>2, <2>1, <1>t DEF Cost, TypeOK, LeaveTypes
      <4>2. Taken' = Taken
        <5>1. [b \in Buckets |-> IF b = kind[l] THEN c ELSE 0] = Taken[l]
          BY <2>7, <3>2
        <5> QED
          BY <2>5, <5>1 DEF Taken
      <4>3. Taken' = [Taken EXCEPT ![l]["REGULAR"] = 0]
        BY <4>2, <2>7 DEF Taken, Buckets
      <4>4. closing' = [b \in Buckets |-> closing[b]]
        BY <2>2, <3>2 DEF Charge
      <4>5. closing' = [closing EXCEPT !["REGULAR"] = @ - 0]
        <5>1. closing' = closing
          BY <4>4, <1>t DEF TypeOK
        <5>2. "REGULAR" \in Buckets /\ closing["REGULAR"] \in Int
          BY <1>t DEF TypeOK, Buckets
        <5>3. closing["REGULAR"] - 0 = closing["REGULAR"]
          BY <5>2
        <5>4. [closing EXCEPT !["REGULAR"] = closing["REGULAR"]] = closing
          BY <1>t DEF TypeOK
        <5> QED
          BY <5>1, <5>3, <5>4
      <4> QED
        BY <4>1, <4>3, <4>5 DEF Buckets
    <3> QED
      BY <3>1, <3>2
  <2> HIDE DEF c
  <2> QED
    BY <2>3, <2>6, <2>8 DEF Ledger!Next, Ledger!Grant, Ledger!Move, Phase, Taken
<1>6. CASE WithdrawFinal(w)
  <2>1. PICK l \in Leaves, d \in Nat :
        /\ l = job[w].leave /\ d = job[w].days /\ kind[l] = job[w].kind
        /\ status[l] \in {"APPROVED", "WITHDRAWAL_PENDING"}
        /\ charged[l] = Cost(kind[l], d)
    BY <1>6, <1>t, ServedFresh DEF WithdrawFinal, Serving, Actions, TypeOK, Job
  <2>2. /\ status' = [status EXCEPT ![l] = "WITHDRAWN"]
        /\ Charge(l, kind[l], -d)
        /\ UNCHANGED kind
    BY <1>6, <2>1 DEF WithdrawFinal, WriteBack
  <2>3. charged[l] + Cost(kind[l], -d) = 0
    BY <2>1 DEF Cost
  <2>4. charged' = [charged EXCEPT ![l] = 0]
    BY <1>t, <2>2, <2>3, ChargedTo
  <2>5. Taken' = [Taken EXCEPT ![l] = [b \in Buckets |-> 0]]
    <3>1. \A m \in Leaves \ {l} : charged'[m] = charged[m]
      BY <1>t, <2>4 DEF TypeOK
    <3>2. charged'[l] = 0
      BY <1>t, <2>4 DEF TypeOK
    <3> QED
      BY <2>2, <3>1, <3>2 DEF Taken, TakenFrom
  <2>6. Phase' = [Phase EXCEPT ![l] = "released"] /\ Phase[l] = "granted"
    <3>1. \A m \in Leaves \ {l} : LedgerPhase(m)' = LedgerPhase(m)
      BY <2>1, <2>2, <2>4, <1>t DEF LedgerPhase, TypeOK
    <3>2. LedgerPhase(l)' = "released" /\ LedgerPhase(l) = "granted"
      BY <2>1, <2>2, <2>4, <1>t DEF LedgerPhase, TypeOK
    <3> QED
      BY <2>1, <3>1, <3>2 DEF Phase
  <2>7. closing' = [b \in Buckets |-> closing[b] + Taken[l][b]]
    <3>1. ASSUME NEW b \in Buckets
          PROVE  (IF b = kind[l] THEN closing[b] - (-d) ELSE closing[b])
                   = closing[b] + Taken[l][b]
      <4>1. closing[b] \in Int
        BY <1>t DEF TypeOK
      <4>2. Taken[l][b] = IF b = kind[l] THEN charged[l] ELSE 0
        BY DEF Taken, TakenFrom
      <4>3. b = kind[l] => charged[l] = d
        BY <2>1 DEF Cost, Buckets
      <4> QED
        BY <4>1, <4>2, <4>3
    <3> QED
      BY <2>2, <3>1 DEF Charge
  <2> QED
    BY <2>5, <2>6, <2>7 DEF Ledger!Next, Ledger!GiveBack, Ledger!Move, Phase, Taken
<1>7. CASE \/ StartCreate(w) \/ StartEdit(w) \/ CheckBooking(w)
           \/ StartCancel(w) \/ StartAction(w)
           \/ ReadApprovalLog(w) \/ ApproveStage(w) \/ Abort(w)
  <2>1. UNCHANGED <<status, kind, closing, charged>>
    BY <1>7 DEF StartCreate, StartEdit, StartBooking, CheckBooking,
                StartCancel, StartAction, ReadApprovalLog, ApproveStage, Abort,
                leaveVars, ledgerVars
  <2> QED
    BY <2>1, LedgerStutter
<1>8. CASE CommitEdit(w)
  <2>1. UNCHANGED <<status, closing, charged>>
    BY <1>8 DEF CommitEdit, ledgerVars
  <2>2. charged[job[w].leave] = 0 /\ job[w].leave \in Leaves
    BY <1>8, <1>t DEF CommitEdit, Serving, ChargedWhileGranted, TypeOK
  <2>3. \A m \in Leaves : kind'[m] = kind[m] \/ charged[m] = 0
    BY <1>8, <1>t, <2>2 DEF CommitEdit, TypeOK
  <2> QED
    BY <2>1, <2>3, LedgerStutter
<1> QED
  BY <1>1, <1>2, <1>3, <1>4, <1>5, <1>6, <1>7, <1>8

(***************************************************************************)
(* When requests are served one at a time, the leave system is a ledger:   *)
(* a leave takes days off the balance once, when it is granted, and what   *)
(* is given back is what was taken.                                        *)
(***************************************************************************)
THEOREM SerialRefinement ==
  ASSUME OneAtATime
  PROVE  Spec => ImplementsLedger
<1>1. SerialInv /\ [Next]_vars => SerialInv'
  BY SerialNext
<1>2. SerialInv /\ [Next]_vars => [Ledger!Next]_(Ledger!vars)
  <2>1. UNCHANGED vars => UNCHANGED Ledger!vars
    BY LedgerStutter DEF vars, leaveVars, ledgerVars
  <2> QED
    BY <2>1, LedgerStep DEF Next
<1> QED
  BY <1>1, <1>2, SerialInit, LedgerInit, PTL
     DEF Spec, ImplementsLedger, Ledger!Spec

-----------------------------------------------------------------------------
(* What the log says: how the functions of ApprovalLog keep it true.       *)

Says(lg, state) == \E r \in Approvers : lg[r] = state

Tells(st, lg) ==
  /\ st = "Pending" /\ HasFlow(lg) => Says(lg, "WAITING")
  /\ st = "Pending" => ~Says(lg, "REJECTED") /\ ~Says(lg, "WITHDRAWN")
  /\ st = "APPROVED" => AllStagesSettled(lg) /\ Says(lg, "APPROVED")
  /\ st = "REJECTED" <=> Says(lg, "REJECTED")
  /\ st = "WITHDRAWAL_PENDING" => Says(lg, "WITHDRAWN") /\ Says(lg, "WAITING")
  /\ st = "WITHDRAWN" => AllStagesSettledForWithdraw(lg) /\ Says(lg, "WITHDRAWN")

\* Who still waits is above those who approved, and above one who withdrew.
Ordered(lg) ==
  \A q \in Approvers : lg[q] = "WAITING" =>
    /\ \A r \in Approvers : lg[r] = "APPROVED" => Stage[r] < Stage[q]
    /\ Says(lg, "WITHDRAWN") =>
         \E r \in Approvers : lg[r] = "WITHDRAWN" /\ Stage[r] < Stage[q]

Story(st, lg) == Tells(st, lg) /\ Ordered(lg)

LEMMA StagesAreNumbers == \A r \in Approvers : Stage[r] \in Int
BY StageAssumption DEF WellFormed, Approvers

LEMMA GeneratedTells ==
  ASSUME NEW a \in Roles
  PROVE  Story("Pending", GenerateApprovalLog(a))
BY DEF Story, Tells, Ordered, Says, GenerateApprovalLog, HasFlow, HasStage

\* What ApproveProcessor writes: r's approval, r's siblings and lower stages skipped.
LEMMA ApprovedIs ==
  ASSUME NEW lg \in Logs, NEW r \in Approvers
  PROVE  /\ ApprovedLog(lg, r)[r] = "APPROVED"
         /\ \A q \in Approvers \ {r} :
              ApprovedLog(lg, r)[q] =
                IF lg[q] = "WAITING" /\ Stage[q] <= Stage[r] THEN "SKIPPED" ELSE lg[q]
<1>1. \A q \in Approvers \ {r} :
        (Stage[q] < Stage[r] \/ (Stage[q] = Stage[r] /\ q # r)) <=> Stage[q] <= Stage[r]
  BY StagesAreNumbers
<1> QED BY <1>1 DEF ApprovedLog, SkipStages, StampStage, Logs

LEMMA ApprovedTells ==
  ASSUME NEW lg \in Logs, NEW r \in Approvers, Story("Pending", lg), lg[r] = "WAITING"
  PROVE  LET new == ApprovedLog(lg, r) IN
         Story(IF AllStagesSettled(new) THEN "APPROVED" ELSE "Pending", new)
<1> DEFINE new == ApprovedLog(lg, r)
<1>1. new[r] = "APPROVED"
  BY ApprovedIs
<1>2. \A q \in Approvers \ {r} :
        new[q] = IF lg[q] = "WAITING" /\ Stage[q] <= Stage[r] THEN "SKIPPED" ELSE lg[q]
  BY ApprovedIs
<1> HIDE DEF new
<1>3. ~Says(new, "REJECTED") /\ ~Says(new, "WITHDRAWN") /\ Says(new, "APPROVED")
  BY <1>1, <1>2 DEF Story, Tells, Says
<1>4. ~AllStagesSettled(new) => Says(new, "WAITING")
  <2>1. \A q \in Approvers : lg[q] \in StageStates \cup {"NONE"}
    BY DEF Logs
  <2> QED BY <1>1, <1>2, <1>3, <2>1 DEF AllStagesSettled, HasStage, Says, StageStates
<1>5. Ordered(new)
  <2>1. ASSUME NEW q \in Approvers, new[q] = "WAITING", NEW p \in Approvers, new[p] = "APPROVED"
        PROVE  Stage[p] < Stage[q]
    <3>1. q # r /\ lg[q] = "WAITING" /\ Stage[r] < Stage[q]
      BY <1>1, <1>2, <2>1, StagesAreNumbers
    <3>2. p = r \/ lg[p] = "APPROVED"
      BY <1>2, <2>1
    <3> QED BY <3>1, <3>2 DEF Story, Ordered
  <2> QED BY <1>3, <2>1 DEF Ordered
<1> QED BY <1>3, <1>4, <1>5 DEF Story, Tells, new

LEMMA RejectedTells ==
  ASSUME NEW lg \in Logs, NEW r \in Approvers
  PROVE  Story("REJECTED", RejectedLog(lg, r))
<1> DEFINE new == RejectedLog(lg, r)
<1>1. new[r] = "REJECTED" /\ \A q \in Approvers : new[q] # "WAITING"
  BY DEF RejectedLog, SkipAllWaitingStages, StampStage, Logs
<1> HIDE DEF new
<1> QED BY <1>1 DEF Story, Tells, Ordered, Says, new

LEMMA WithdrawnTells ==
  ASSUME NEW lg \in Logs, NEW r \in Approvers, ~Says(lg, "REJECTED")
  PROVE  LET new == WithdrawnLog(lg, r) IN
         Story(IF AllStagesSettledForWithdraw(new) THEN "WITHDRAWN"
               ELSE "WITHDRAWAL_PENDING", new)
<1> DEFINE new == WithdrawnLog(lg, r)
<1>1. /\ new[r] = "WITHDRAWN"
      /\ \A q \in Approvers \ {r} :
           new[q] = IF lg[q] \in {"NONE", "WITHDRAWN"} THEN lg[q]
                    ELSE IF Stage[q] <= Stage[r] THEN "SKIPPED" ELSE "WAITING"
  BY DEF WithdrawnLog, ResetLogForWithdraw, StampStage, Logs
<1> HIDE DEF new
<1>2. /\ Says(new, "WITHDRAWN") /\ ~Says(new, "REJECTED") /\ ~Says(new, "APPROVED")
      /\ ~AllStagesSettledForWithdraw(new) => Says(new, "WAITING")
  BY <1>1 DEF Says, AllStagesSettledForWithdraw, HasStage
<1>3. \A q \in Approvers : new[q] = "WAITING" => Stage[r] < Stage[q]
  BY <1>1, StagesAreNumbers
<1>4. Ordered(new)
  BY <1>1, <1>2, <1>3 DEF Ordered, Says
<1> QED BY <1>2, <1>4 DEF Story, Tells, new

-----------------------------------------------------------------------------
(* The logs of all leaves.                                                 *)

\* A request about to write has validated the log that the database still holds.
LogsFresh ==
  \A w \in Workers :
    job[w].op \in Actions /\ job[w].step = "checked" =>
      /\ job[w].log = log[job[w].leave]
      /\ ActionValidator(job[w].op, job[w].status, job[w].log, job[w].role)

Stories == \A l \in Leaves : Story(status[l], log[l])

StoryInv == SerialInv /\ LogsFresh /\ Stories

LEMMA StoriesAreTheProperties ==
  Stories => LogAgreesWithStatus /\ OnlyHigherStagesWait
BY DEF Stories, Story, Tells, Ordered, Says, LogAgreesWithStatus, OnlyHigherStagesWait, InLog

LEMMA StoryInit == Init => StoryInv
<1> SUFFICES ASSUME Init PROVE StoryInv
  OBVIOUS
<1>1. LogsFresh
  BY DEF Init, LogsFresh, Idle, Actions
<1>2. Stories
  BY DEF Init, Stories, Story, Tells, Ordered, Says, NoFlow, HasFlow, HasStage
<1> QED BY <1>1, <1>2, SerialInit DEF StoryInv

LEMMA OnlyRequestIsOver ==
  ASSUME OneAtATime, TypeOK, NEW w \in Workers, Finish(w)
  PROVE  LogsFresh'
<1>1. job'[w] = Idle
  BY DEF Finish, TypeOK
<1> QED BY <1>1 DEF OneAtATime, LogsFresh, Idle, Actions

\* What a request that acts on a leave has before it when it writes.
LEMMA ActsOnStory ==
  ASSUME StoryInv, NEW w \in Workers, job[w].op \in Actions, job[w].step = "checked"
  PROVE  LET j == job[w] IN
         /\ j.leave \in Leaves /\ j.role \in Approvers
         /\ j.log = log[j.leave] /\ j.log \in Logs /\ j.status = status[j.leave]
         /\ Story(j.status, j.log) /\ HasFlow(log[j.leave])
         /\ ActionValidator(j.op, j.status, j.log, j.role)
<1>1. job[w].leave \in Leaves /\ job[w].role \in Approvers
  BY DEF StoryInv, SerialInv, TypeOK
<1>2. job[w].log = log[job[w].leave] /\ job[w].status = status[job[w].leave]
  BY DEF StoryInv, SerialInv, Fresh, LogsFresh
<1>3. ActionValidator(job[w].op, job[w].status, job[w].log, job[w].role)
  BY DEF StoryInv, LogsFresh
<1> QED BY <1>1, <1>2, <1>3
        DEF StoryInv, SerialInv, TypeOK, Stories, ActionValidator, HasFlow

\* The leave gets a new status and a new log, and they fit.
LEMMA StoryRewritten ==
  ASSUME StoryInv, NEW l \in Leaves, HasFlow(log[l]), NEW st, NEW lg, Story(st, lg),
         status' = [status EXCEPT ![l] = st], UpdateApprovalLog(l, lg)
  PROVE  Stories'
BY DEF StoryInv, SerialInv, TypeOK, Stories, UpdateApprovalLog

LEMMA StoryStep ==
  ASSUME OneAtATime, StoryInv, NEW w \in Workers,
         \/ StartCreate(w) \/ StartEdit(w) \/ CheckBooking(w)
         \/ CommitCreate(w) \/ CommitEdit(w)
         \/ StartCancel(w) \/ CommitCancel(w)
         \/ StartAction(w) \/ ReadApprovalLog(w)
         \/ ApproveStage(w) \/ ApproveFinal(w) \/ RejectStage(w)
         \/ WithdrawStage(w) \/ WithdrawFinal(w)
         \/ Abort(w)
  PROVE  LogsFresh' /\ Stories'
<1> DEFINE j == job[w]
<1>t. TypeOK
  BY DEF StoryInv, SerialInv
<1>q. ASSUME UNCHANGED <<status, log>> PROVE Stories'
  BY <1>q DEF StoryInv, Stories
<1>f. ASSUME Finish(w) PROVE LogsFresh'
  BY <1>f, <1>t, OnlyRequestIsOver
<1>1. CASE StartCreate(w) \/ StartEdit(w)
  <2>1. \E b : job' = [job EXCEPT ![w] = b] /\ b.op \in {"CREATE", "EDIT"}
    BY <1>1, StartBookingJob DEF StartCreate, StartEdit
  <2>2. job'[w].op \notin Actions
    BY <2>1, <1>t DEF TypeOK, Actions
  <2>3. UNCHANGED <<status, log>>
    BY <1>1 DEF StartCreate, StartEdit, StartBooking, leaveVars
  <2> QED BY <1>q, <2>2, <2>3 DEF OneAtATime, LogsFresh
<1>2. CASE CheckBooking(w)
  <2>1. job'[w] = [j EXCEPT !.step = "checked"] /\ j.op \in {"CREATE", "EDIT"}
    BY <1>2, <1>t DEF CheckBooking, Serving, TypeOK
  <2>2. job'[w].op = j.op
    BY <2>1, <1>t DEF TypeOK, Job
  <2>3. LogsFresh'
    BY <2>1, <2>2 DEF OneAtATime, LogsFresh, Actions
  <2> QED BY <1>2, <1>q, <2>3 DEF CheckBooking, leaveVars
<1>3. CASE CommitCreate(w)
  <2>1. PICK l \in Leaves :
          /\ status' = [status EXCEPT ![l] = "Pending"]
          /\ log' = [log EXCEPT ![l] = GenerateApprovalLog(j.role)]
    BY <1>3 DEF CommitCreate
  <2>2. Story("Pending", GenerateApprovalLog(j.role))
    BY <1>t, GeneratedTells DEF TypeOK, Job
  <2>3. Stories'
    BY <1>t, <2>1, <2>2 DEF StoryInv, Stories, TypeOK
  <2> QED BY <1>3, <1>f, <2>3 DEF CommitCreate
<1>4. CASE CommitEdit(w)
  <2>1. /\ j.leave \in Leaves /\ status[j.leave] = "Pending" /\ UNCHANGED status
        /\ RegenerateApprovalLog(j.leave) /\ Finish(w)
    BY <1>4, <1>t DEF CommitEdit, Serving, TypeOK
  <2>2. Story("Pending", GenerateApprovalLog("EMPLOYEE"))
    BY GeneratedTells DEF Roles
  <2>3. \A l \in Leaves :
          log'[l] = log[l] \/ (l = j.leave /\ log'[l] = GenerateApprovalLog("EMPLOYEE"))
    BY <2>1, <1>t DEF RegenerateApprovalLog, UpdateApprovalLog, TypeOK
  <2>4. Stories'
    BY <2>1, <2>2, <2>3 DEF StoryInv, Stories
  <2> QED BY <2>1, <1>f, <2>4
<1>5. CASE StartCancel(w)
  <2>1. PICK l \in Leaves :
          job' = [job EXCEPT ![w] =
            [Idle EXCEPT !.op = "CANCEL", !.step = "checked", !.leave = l]]
    BY <1>5 DEF StartCancel
  <2>2. job'[w].op = "CANCEL"
    BY <2>1, <1>t DEF TypeOK, Idle
  <2>3. UNCHANGED <<status, log>>
    BY <1>5 DEF StartCancel, leaveVars
  <2> QED BY <1>q, <2>2, <2>3 DEF OneAtATime, LogsFresh, Actions
<1>6. CASE CommitCancel(w)
  <2>1. /\ j.leave \in Leaves /\ status[j.leave] # "REJECTED"
        /\ status' = [status EXCEPT ![j.leave] = "CANCELLED"] /\ UNCHANGED log /\ Finish(w)
    BY <1>6, <1>t DEF CommitCancel, Serving, TypeOK, StoryInv, SerialInv, Fresh
  <2>2. Story("CANCELLED", log[j.leave])
    BY <2>1 DEF StoryInv, Stories, Story, Tells
  <2>3. Stories'
    BY <2>1, <2>2, <1>t DEF StoryInv, Stories, TypeOK
  <2> QED BY <2>1, <2>3, <1>f
<1>7. CASE StartAction(w)
  <2>1. PICK a \in Actions, r \in Approvers, l \in Leaves :
          job' = [job EXCEPT ![w] =
            [Idle EXCEPT !.op = a, !.step = "read", !.leave = l, !.role = r,
                   !.days = days[l], !.kind = kind[l], !.status = status[l]]]
    BY <1>7 DEF StartAction
  <2>2. job'[w].step = "read"
    BY <2>1, <1>t DEF TypeOK, Idle
  <2>3. UNCHANGED <<status, log>>
    BY <1>7 DEF StartAction, leaveVars
  <2> QED BY <1>q, <2>2, <2>3 DEF OneAtATime, LogsFresh
<1>8. CASE ReadApprovalLog(w)
  <2>1. /\ job'[w] = [j EXCEPT !.step = "checked", !.log = log[j.leave]]
        /\ ActionValidator(j.op, j.status, log[j.leave], j.role)
        /\ UNCHANGED <<status, log>>
    BY <1>8, <1>t DEF ReadApprovalLog, TypeOK, leaveVars
  <2>2. /\ job'[w].op = j.op /\ job'[w].leave = j.leave /\ job'[w].status = j.status
        /\ job'[w].role = j.role /\ job'[w].log = log[j.leave]
    BY <2>1, <1>t DEF TypeOK, Job
  <2>3. LogsFresh'
    BY <2>1, <2>2 DEF OneAtATime, LogsFresh
  <2> QED BY <1>q, <2>1, <2>3
<1>9. CASE ApproveStage(w) \/ ApproveFinal(w)
  <2> DEFINE new == ApprovedLog(j.log, j.role)
             st == IF AllStagesSettled(new) THEN "APPROVED" ELSE "Pending"
  <2>1. j.op = "APPROVE" /\ j.step = "checked" /\ Finish(w)
    BY <1>9 DEF ApproveStage, ApproveFinal, Serving
  <2>2. /\ j.leave \in Leaves /\ j.role \in Approvers /\ j.log \in Logs
        /\ status[j.leave] = "Pending" /\ Story("Pending", j.log)
        /\ j.log[j.role] = "WAITING" /\ HasFlow(log[j.leave])
    BY <2>1, ActsOnStory DEF Actions, ActionValidator
  <2>3. Story(st, new)
    BY <2>2, ApprovedTells
  <2>4. UpdateApprovalLog(j.leave, new)
    BY <1>9 DEF ApproveStage, ApproveFinal, WriteBack
  <2>5. status' = [status EXCEPT ![j.leave] = st]
    BY <1>9, <1>t, <2>2 DEF ApproveStage, ApproveFinal, WriteBack, TypeOK
  <2> HIDE DEF j, new, st
  <2>6. Stories'
    BY <2>2, <2>3, <2>4, <2>5, StoryRewritten
  <2> QED BY <2>1, <2>6, <1>f
<1>10. CASE RejectStage(w)
  <2>1. /\ j.op \in Actions /\ j.step = "checked" /\ Finish(w)
        /\ status' = [status EXCEPT ![j.leave] = "REJECTED"]
        /\ UpdateApprovalLog(j.leave, RejectedLog(j.log, j.role))
    BY <1>10 DEF RejectStage, Serving, WriteBack, Actions
  <2>2. /\ j.leave \in Leaves /\ j.role \in Approvers /\ j.log \in Logs
        /\ HasFlow(log[j.leave])
    BY <2>1, ActsOnStory
  <2>3. Stories'
    BY <2>1, <2>2, RejectedTells, StoryRewritten
  <2> QED BY <2>1, <2>3, <1>f
<1>11. CASE WithdrawStage(w) \/ WithdrawFinal(w)
  <2> DEFINE new == WithdrawnLog(j.log, j.role)
             st == IF AllStagesSettledForWithdraw(new) THEN "WITHDRAWN"
                   ELSE "WITHDRAWAL_PENDING"
  <2>1. j.op = "WITHDRAW" /\ j.step = "checked" /\ Finish(w)
    BY <1>11 DEF WithdrawStage, WithdrawFinal, Serving
  <2>2. /\ j.leave \in Leaves /\ j.role \in Approvers /\ j.log \in Logs
        /\ ~Says(j.log, "REJECTED") /\ HasFlow(log[j.leave])
    BY <2>1, ActsOnStory DEF Actions, ActionValidator, Story, Tells
  <2>3. Story(st, new)
    BY <2>2, WithdrawnTells
  <2>4. UpdateApprovalLog(j.leave, new)
    BY <1>11 DEF WithdrawStage, WithdrawFinal, WriteBack
  <2>5. status' = [status EXCEPT ![j.leave] = st]
    BY <1>11 DEF WithdrawStage, WithdrawFinal, WriteBack
  <2> HIDE DEF j, new, st
  <2>6. Stories'
    BY <2>2, <2>3, <2>4, <2>5, StoryRewritten
  <2> QED BY <2>1, <2>6, <1>f
<1>12. CASE Abort(w)
  BY <1>12, <1>q, <1>f DEF Abort, leaveVars
<1> QED BY <1>1, <1>2, <1>3, <1>4, <1>5, <1>6, <1>7, <1>8, <1>9, <1>10, <1>11, <1>12

LEMMA StoryNext == OneAtATime /\ StoryInv /\ [Next]_vars => StoryInv'
<1> SUFFICES ASSUME OneAtATime, StoryInv, [Next]_vars PROVE StoryInv'
  OBVIOUS
<1>1. SerialInv'
  BY SerialNext DEF StoryInv
<1>2. CASE UNCHANGED vars
  BY <1>1, <1>2 DEF StoryInv, LogsFresh, Stories, vars, leaveVars
<1>3. CASE Next
  BY <1>1, <1>3, StoryStep DEF StoryInv, Next
<1> QED BY <1>2, <1>3

(***************************************************************************)
(* When requests are served one at a time, the status column and the       *)
(* approval log tell the same story, for every validated flow and whatever *)
(* the approvers decide in whatever order.                                 *)
(***************************************************************************)
THEOREM LogAndStatusAgree ==
  ASSUME OneAtATime
  PROVE  Spec => []LogAgreesWithStatus
<1>1. StoryInv /\ [Next]_vars => StoryInv'
  BY StoryNext
<1>2. StoryInv => LogAgreesWithStatus
  BY StoriesAreTheProperties DEF StoryInv
<1> QED BY <1>1, <1>2, StoryInit, PTL DEF Spec

(***************************************************************************)
(* When requests are served one at a time, nobody is asked at or below the *)
(* stage that approved, and a withdrawal waits only for stages above one   *)
(* that withdrew: SkipStages and ResetLogForWithdraw, for every flow.      *)
(***************************************************************************)
THEOREM NobodyBelowIsAsked ==
  ASSUME OneAtATime
  PROVE  Spec => []OnlyHigherStagesWait
<1>1. StoryInv /\ [Next]_vars => StoryInv'
  BY StoryNext
<1>2. StoryInv => OnlyHigherStagesWait
  BY StoriesAreTheProperties DEF StoryInv
<1> QED BY <1>1, <1>2, StoryInit, PTL DEF Spec

-----------------------------------------------------------------------------
(* Dates, and rejections.                                                  *)

\* The dates a checked request is about to take are still free.
DatesFresh ==
  \A w \in Workers :
    /\ job[w].op = "CREATE" => job[w].leave = NoLeave
    /\ job[w].op \in {"CREATE", "EDIT"} /\ job[w].step = "checked" =>
         \A l \in Leaves \ {job[w].leave} : Active(l) => slot[l] # job[w].slot

DatesInv == SerialInv /\ DatesFresh /\ NoOverlap

LEMMA DatesInit == Init => DatesInv
<1> SUFFICES ASSUME Init PROVE DatesInv
  OBVIOUS
<1>1. DatesFresh
  BY DEF Init, DatesFresh, Idle
<1>2. NoOverlap
  BY DEF Init, NoOverlap, Active
<1> QED BY <1>1, <1>2, SerialInit DEF DatesInv

LEMMA NoDatesAreAwaited ==
  ASSUME OneAtATime, NEW w \in Workers, job'[w].op \notin {"CREATE", "EDIT"}
  PROVE  DatesFresh'
BY DEF OneAtATime, DatesFresh

\* Whoever is active was: no dates are taken.
LEMMA NobodyBecomesActive ==
  ASSUME NoOverlap, UNCHANGED slot, \A l \in Leaves : Active(l)' => Active(l)
  PROVE  NoOverlap'
BY DEF NoOverlap, Active

LEMMA StartBookingReads ==
  ASSUME TypeOK, NEW w \in Workers, NEW op, NEW l, NEW role, NEW d, NEW k, NEW s,
         StartBooking(w, op, l, role, d, k, s)
  PROVE  job'[w].op = op /\ job'[w].step = "read" /\ job'[w].leave = l
<1> DEFINE seen == IF k = "EARLY" THEN 0 ELSE closing[k]
           new == [Idle EXCEPT !.op = op, !.step = "read", !.leave = l,
                     !.role = role, !.days = d, !.kind = k, !.slot = s,
                     !.closing = seen]
<1>1. job'[w] = new
  BY DEF StartBooking, TypeOK
<1>2. new.op = op /\ new.step = "read" /\ new.leave = l
  <2> HIDE DEF seen
  <2> QED BY DEF Idle
<1> HIDE DEF new
<1> QED BY <1>1, <1>2

LEMMA DatesStep ==
  ASSUME OneAtATime, DatesInv, NEW w \in Workers,
         \/ StartCreate(w) \/ StartEdit(w) \/ CheckBooking(w)
         \/ CommitCreate(w) \/ CommitEdit(w)
         \/ StartCancel(w) \/ CommitCancel(w)
         \/ StartAction(w) \/ ReadApprovalLog(w)
         \/ ApproveStage(w) \/ ApproveFinal(w) \/ RejectStage(w)
         \/ WithdrawStage(w) \/ WithdrawFinal(w)
         \/ Abort(w)
  PROVE  DatesFresh' /\ NoOverlap'
<1> DEFINE j == job[w]
<1>t. TypeOK /\ SerialInv
  BY DEF DatesInv, SerialInv
<1>q. ASSUME UNCHANGED <<status, slot>> PROVE NoOverlap'
  BY <1>q DEF DatesInv, NoOverlap, Active
<1>f. ASSUME Finish(w) PROVE DatesFresh'
  <2>1. job'[w] = Idle
    BY <1>f, <1>t DEF Finish, TypeOK
  <2>2. job'[w].op \notin {"CREATE", "EDIT"}
    BY <2>1 DEF Idle
  <2> QED BY <2>2, NoDatesAreAwaited
<1>1. CASE StartCreate(w)
  <2>1. job'[w].step = "read" /\ job'[w].op = "CREATE" /\ job'[w].leave = NoLeave
    BY <1>1, <1>t, StartBookingReads DEF StartCreate
  <2>2. DatesFresh'
    BY <2>1 DEF OneAtATime, DatesFresh
  <2>3. UNCHANGED <<status, slot>>
    BY <1>1 DEF StartCreate, StartBooking, leaveVars
  <2> QED BY <1>q, <2>2, <2>3
<1>2. CASE StartEdit(w)
  <2>1. job'[w].step = "read" /\ job'[w].op = "EDIT"
    BY <1>2, <1>t, StartBookingReads DEF StartEdit
  <2>2. DatesFresh'
    BY <2>1 DEF OneAtATime, DatesFresh
  <2>3. UNCHANGED <<status, slot>>
    BY <1>2 DEF StartEdit, StartBooking, leaveVars
  <2> QED BY <1>q, <2>2, <2>3
<1>3. CASE CheckBooking(w)
  <2>1. /\ job'[w] = [j EXCEPT !.step = "checked"] /\ j.op \in {"CREATE", "EDIT"}
        /\ \A l \in Leaves \ {j.leave} : Active(l) => slot[l] # j.slot
        /\ UNCHANGED <<status, slot>>
    BY <1>3, <1>t DEF CheckBooking, Serving, BookingAllowed, TypeOK, leaveVars
  <2>2. job'[w].op = j.op /\ job'[w].leave = j.leave /\ job'[w].slot = j.slot
    BY <2>1, <1>t DEF TypeOK, Job
  <2>3. DatesFresh'
    <3>1. j.op = "CREATE" => j.leave = NoLeave
      BY DEF DatesInv, DatesFresh
    <3>2. \A l \in Leaves \ {job'[w].leave} : Active(l)' => slot'[l] # job'[w].slot
      BY <2>1, <2>2 DEF Active
    <3> HIDE DEF j
    <3> QED BY <2>2, <3>1, <3>2 DEF OneAtATime, DatesFresh
  <2> QED BY <1>q, <2>1, <2>3
<1>4. CASE CommitCreate(w)
  <2>1. PICK l \in Leaves :
          /\ ~Exists(l)
          /\ status' = [status EXCEPT ![l] = "Pending"]
          /\ slot' = [slot EXCEPT ![l] = j.slot]
    BY <1>4 DEF CommitCreate
  <2>2. \A m \in Leaves : Active(m) => slot[m] # j.slot
    BY <1>4, LeaveFlowAssumption DEF CommitCreate, Serving, DatesInv, DatesFresh
  <2>3. /\ slot'[l] = j.slot
        /\ \A m \in Leaves \ {l} : slot'[m] = slot[m] /\ (Active(m)' <=> Active(m))
    BY <1>t, <2>1 DEF TypeOK, Active
  <2>4. NoOverlap'
    BY <2>2, <2>3 DEF DatesInv, NoOverlap
  <2> QED BY <1>4, <1>f, <2>4 DEF CommitCreate
<1>5. CASE CommitEdit(w)
  <2>1. /\ j.leave \in Leaves /\ j.op = "EDIT" /\ j.step = "checked"
        /\ slot' = [slot EXCEPT ![j.leave] = j.slot] /\ UNCHANGED status
    BY <1>5, <1>t DEF CommitEdit, Serving, TypeOK
  <2>2. \A m \in Leaves \ {j.leave} : Active(m) => slot[m] # j.slot
    BY <2>1 DEF DatesInv, DatesFresh
  <2>3. /\ slot'[j.leave] = j.slot
        /\ \A m \in Leaves \ {j.leave} : slot'[m] = slot[m]
        /\ \A m \in Leaves : Active(m)' <=> Active(m)
    BY <1>t, <2>1 DEF TypeOK, Active
  <2>4. NoOverlap'
    BY <2>1, <2>2, <2>3 DEF DatesInv, NoOverlap
  <2> QED BY <1>5, <1>f, <2>4 DEF CommitEdit
<1>6. CASE StartCancel(w)
  <2>1. PICK l \in Leaves :
          job' = [job EXCEPT ![w] =
            [Idle EXCEPT !.op = "CANCEL", !.step = "checked", !.leave = l]]
    BY <1>6 DEF StartCancel
  <2>2. job'[w].op = "CANCEL"
    BY <2>1, <1>t DEF TypeOK, Idle
  <2> QED BY <1>6, <1>q, <2>2, NoDatesAreAwaited DEF StartCancel, leaveVars
<1>7. CASE StartAction(w)
  <2>1. PICK a \in Actions, r \in Approvers, l \in Leaves :
          job' = [job EXCEPT ![w] =
            [Idle EXCEPT !.op = a, !.step = "read", !.leave = l, !.role = r,
                   !.days = days[l], !.kind = kind[l], !.status = status[l]]]
    BY <1>7 DEF StartAction
  <2>2. job'[w].op \in Actions
    BY <2>1, <1>t DEF TypeOK, Idle
  <2> QED BY <1>7, <1>q, <2>2, NoDatesAreAwaited DEF StartAction, leaveVars, Actions
<1>8. CASE ReadApprovalLog(w)
  <2>1. job'[w] = [j EXCEPT !.step = "checked", !.log = log[j.leave]] /\ j.op \in Actions
    BY <1>8, <1>t DEF ReadApprovalLog, TypeOK
  <2>2. job'[w].op = j.op
    BY <2>1, <1>t DEF TypeOK, Job
  <2> QED BY <1>8, <1>q, <2>1, <2>2, NoDatesAreAwaited
          DEF ReadApprovalLog, leaveVars, Actions
<1>9. CASE ApproveStage(w) \/ Abort(w)
  BY <1>9, <1>f, <1>q DEF ApproveStage, Abort, leaveVars
<1>10. CASE ApproveFinal(w)
  <2>1. job[w].leave \in Leaves /\ status[job[w].leave] = "Pending"
    BY <1>10, <1>t, ServedFresh DEF ApproveFinal, Serving, Actions
  <2>2. \A l \in Leaves : Active(l)' => Active(l)
    BY <1>10, <1>t, <2>1 DEF ApproveFinal, WriteBack, Active, TypeOK
  <2> QED BY <1>10, <1>f, <2>2, NobodyBecomesActive DEF ApproveFinal, WriteBack, DatesInv
<1>11. CASE RejectStage(w) \/ WithdrawStage(w) \/ WithdrawFinal(w) \/ CommitCancel(w)
  <2>1. /\ UNCHANGED slot /\ Finish(w)
        /\ \E st \in {"REJECTED", "WITHDRAWAL_PENDING", "WITHDRAWN", "CANCELLED"} :
             status' = [status EXCEPT ![j.leave] = st]
    BY <1>11 DEF RejectStage, WithdrawStage, WithdrawFinal, CommitCancel, WriteBack
  <2>2. \A l \in Leaves : Active(l)' => Active(l)
    BY <1>t, <2>1 DEF Active, TypeOK
  <2> QED BY <1>f, <2>1, <2>2, NobodyBecomesActive DEF DatesInv
<1> QED BY <1>1, <1>2, <1>3, <1>4, <1>5, <1>6, <1>7, <1>8, <1>9, <1>10, <1>11

LEMMA DatesNext == OneAtATime /\ DatesInv /\ [Next]_vars => DatesInv'
<1> SUFFICES ASSUME OneAtATime, DatesInv, [Next]_vars PROVE DatesInv'
  OBVIOUS
<1>1. SerialInv'
  BY SerialNext DEF DatesInv
<1>2. CASE UNCHANGED vars
  BY <1>1, <1>2 DEF DatesInv, DatesFresh, NoOverlap, Active, vars, leaveVars
<1>3. CASE Next
  BY <1>1, <1>3, DatesStep DEF DatesInv, Next
<1> QED BY <1>2, <1>3

(***************************************************************************)
(* When requests are served one at a time, no two active leaves share      *)
(* dates, for any number of leaves and dates: ValidateOverlappingLeaves in *)
(* Create and in UpdateLeave is enough, as nothing else takes dates.       *)
(***************************************************************************)
THEOREM DatesAreTakenOnce ==
  ASSUME OneAtATime
  PROVE  Spec => []NoOverlap
<1>1. DatesInv /\ [Next]_vars => DatesInv'
  BY DatesNext
<1>2. DatesInv => NoOverlap
  BY DEF DatesInv
<1> QED BY <1>1, <1>2, DatesInit, PTL DEF Spec

LEMMA RejectedStays ==
  ASSUME OneAtATime, SerialInv, [Next]_vars, NEW l \in Leaves, status[l] = "REJECTED"
  PROVE  status'[l] = "REJECTED"
<1>t. TypeOK
  BY DEF SerialInv
<1>1. CASE UNCHANGED status
  BY <1>1
<1>2. ASSUME NEW w \in Workers, CommitCreate(w) PROVE status'[l] = "REJECTED"
  BY <1>2, <1>t DEF CommitCreate, Exists, TypeOK
<1>3. ASSUME NEW w \in Workers, CommitCancel(w) PROVE status'[l] = "REJECTED"
  BY <1>3, <1>t DEF CommitCancel, Serving, SerialInv, Fresh, TypeOK
<1>4. ASSUME NEW w \in Workers, ApproveFinal(w) PROVE status'[l] = "REJECTED"
  <2>1. job[w].leave \in Leaves /\ status[job[w].leave] = "Pending"
    BY <1>4, ServedFresh DEF ApproveFinal, Serving, Actions
  <2> QED BY <1>4, <1>t, <2>1 DEF ApproveFinal, WriteBack, TypeOK
<1>5. ASSUME NEW w \in Workers, RejectStage(w) PROVE status'[l] = "REJECTED"
  BY <1>5, <1>t DEF RejectStage, WriteBack, TypeOK
<1>6. ASSUME NEW w \in Workers, WithdrawStage(w) \/ WithdrawFinal(w)
      PROVE  status'[l] = "REJECTED"
  <2>1. /\ job[w].leave \in Leaves
        /\ status[job[w].leave] \in {"APPROVED", "WITHDRAWAL_PENDING"}
    BY <1>6, ServedFresh DEF WithdrawStage, WithdrawFinal, Serving, Actions
  <2> QED BY <1>6, <1>t, <2>1 DEF WithdrawStage, WithdrawFinal, WriteBack, TypeOK
<1>7. ASSUME NEW w \in Workers,
             \/ StartCreate(w) \/ StartEdit(w) \/ CheckBooking(w) \/ CommitEdit(w)
             \/ StartCancel(w) \/ StartAction(w) \/ ReadApprovalLog(w)
             \/ ApproveStage(w) \/ Abort(w)
      PROVE  UNCHANGED status
  BY <1>7 DEF StartCreate, StartEdit, StartBooking, CheckBooking, CommitEdit, StartCancel,
              StartAction, ReadApprovalLog, ApproveStage, Abort, leaveVars
<1> QED BY <1>1, <1>2, <1>3, <1>4, <1>5, <1>6, <1>7 DEF Next, vars, leaveVars

(***************************************************************************)
(* When requests are served one at a time, a rejection is final: every     *)
(* other write of a status asks for another one before.                    *)
(***************************************************************************)
THEOREM RejectedForGood ==
  ASSUME OneAtATime
  PROVE  Spec => RejectionIsFinal
<1>1. SerialInv /\ [Next]_vars => SerialInv'
  BY SerialNext
<1>2. SerialInv /\ [Next]_vars =>
        [\A l \in Leaves : status[l] = "REJECTED" => status'[l] = "REJECTED"]_vars
  BY RejectedStays
<1> QED BY <1>1, <1>2, SerialInit, PTL DEF Spec, RejectionIsFinal

-----------------------------------------------------------------------------
(* Pending leaves and the balance they will be taken from.                 *)

PendingOf(b) == {l \in Leaves : status[l] = "Pending" /\ kind[l] = b}

LEMMA PendingDaysAre ==
  ASSUME TypeOK, NEW b
  PROVE  /\ PendingDays(b, NoLeave) = SumFunctionOnSet(days, PendingOf(b))
         /\ PendingDays(b, NoLeave) \in Nat
         /\ IsFiniteSet(PendingOf(b))
         /\ \A l \in PendingOf(b) : days[l] \in Nat
<1>1. {l \in Leaves \ {NoLeave} : status[l] = "Pending" /\ kind[l] = b} = PendingOf(b)
  BY LeaveFlowAssumption DEF PendingOf
<1>2. IsFiniteSet(PendingOf(b))
  BY LeaveFlowAssumption, FS_Subset DEF PendingOf
<1>3. \A l \in PendingOf(b) : days[l] \in Nat
  BY DEF PendingOf, TypeOK
<1>4. SumFunctionOnSet(days, PendingOf(b)) \in Nat
  BY <1>2, <1>3, SumIsNat
<1> QED BY <1>1, <1>2, <1>3, <1>4 DEF PendingDays

LEMMA PendingDaysNext ==
  ASSUME NEW b
  PROVE  PendingDays(b, NoLeave)' = SumFunctionOnSet(days', PendingOf(b)')
<1>1. {l \in Leaves \ {NoLeave} : status'[l] = "Pending" /\ kind'[l] = b} = PendingOf(b)'
  BY LeaveFlowAssumption DEF PendingOf
<1> QED BY <1>1 DEF PendingDays

\* A leave that is decided or cancelled takes its days with it.
LEMMA NoLongerPending ==
  ASSUME TypeOK, NEW l \in Leaves, NEW st, st # "Pending", UNCHANGED <<days, kind>>,
         status' = [status EXCEPT ![l] = st], NEW b
  PROVE  /\ PendingDays(b, NoLeave)' \in Nat
         /\ PendingDays(b, NoLeave)' <= PendingDays(b, NoLeave)
         /\ status[l] = "Pending" /\ kind[l] = b =>
              PendingDays(b, NoLeave)' = PendingDays(b, NoLeave) - days[l]
<1>1. PendingOf(b)' = PendingOf(b) \ {l}
  BY DEF PendingOf, TypeOK
<1>2. PendingDays(b, NoLeave)' = SumFunctionOnSet(days, PendingOf(b) \ {l})
  BY <1>1, PendingDaysNext
<1>3. CASE l \in PendingOf(b)
  <2>1. PendingDays(b, NoLeave) = days[l] + SumFunctionOnSet(days, PendingOf(b) \ {l})
    <3>1. \A m \in PendingOf(b) : days[m] \in Int
      BY PendingDaysAre
    <3>2. SumFunctionOnSet(days, PendingOf(b)) =
            days[l] + SumFunctionOnSet(days, PendingOf(b) \ {l})
      BY <1>3, <3>1, PendingDaysAre, SumWithout
    <3> QED BY <3>2, PendingDaysAre
  <2>2. SumFunctionOnSet(days, PendingOf(b) \ {l}) \in Nat
    <3>1. IsFiniteSet(PendingOf(b) \ {l})
      BY PendingDaysAre, FS_RemoveElement
    <3>2. \A m \in PendingOf(b) \ {l} : days[m] \in Nat
      BY PendingDaysAre
    <3> QED BY <3>1, <3>2, SumIsNat
  <2>3. days[l] \in Nat
    BY DEF TypeOK
  <2> QED BY <1>2, <2>1, <2>2, <2>3
<1>4. CASE l \notin PendingOf(b)
  <2>1. PendingOf(b) \ {l} = PendingOf(b)
    BY <1>4
  <2>2. PendingDays(b, NoLeave)' = PendingDays(b, NoLeave)
    BY <1>2, <2>1, PendingDaysAre
  <2>3. ~ (status[l] = "Pending" /\ kind[l] = b)
    BY <1>4 DEF PendingOf
  <2> QED BY <2>2, <2>3, PendingDaysAre
<1> QED BY <1>3, <1>4

\* The pending leaves of a kind stay as they are, or are one more.
LEMMA SamePending ==
  ASSUME TypeOK, NEW b, \A m \in PendingOf(b) : days'[m] = days[m]
  PROVE  SumFunctionOnSet(days', PendingOf(b)) = PendingDays(b, NoLeave)
<1>1. IsFiniteSet(PendingOf(b))
  BY PendingDaysAre
<1>2. SumFunctionOnSet(days', PendingOf(b)) = SumFunctionOnSet(days, PendingOf(b))
  BY <1>1, SumOfEqual
<1> QED BY <1>2, PendingDaysAre

LEMMA OneMorePending ==
  ASSUME TypeOK, NEW b, \A m \in PendingOf(b) : days'[m] = days[m],
         NEW l, l \notin PendingOf(b), days'[l] \in Nat,
         PendingOf(b)' = PendingOf(b) \cup {l}
  PROVE  PendingDays(b, NoLeave)' = PendingDays(b, NoLeave) + days'[l]
<1>1. IsFiniteSet(PendingOf(b)) /\ \A m \in PendingOf(b) : days'[m] \in Int
  BY PendingDaysAre
<1>2. SumFunctionOnSet(days', PendingOf(b) \cup {l}) =
        SumFunctionOnSet(days', PendingOf(b)) + days'[l]
  BY <1>1, SumWith
<1> QED BY <1>2, PendingDaysNext, SamePending

\* A new leave adds its days to those of its kind.
LEMMA NewlyPending ==
  ASSUME TypeOK, NEW l \in Leaves, ~Exists(l), NEW d \in Nat, NEW k \in LeaveTypes,
         status' = [status EXCEPT ![l] = "Pending"],
         days' = [days EXCEPT ![l] = d], kind' = [kind EXCEPT ![l] = k], NEW b
  PROVE  PendingDays(b, NoLeave)' = PendingDays(b, NoLeave) + IF b = k THEN d ELSE 0
<1>1. l \notin PendingOf(b)
  BY DEF PendingOf, Exists
<1>2. PendingOf(b)' = IF b = k THEN PendingOf(b) \cup {l} ELSE PendingOf(b)
  BY DEF PendingOf, TypeOK, Exists
<1>3. days'[l] = d /\ \A m \in PendingOf(b) : days'[m] = days[m]
  BY <1>1 DEF TypeOK, PendingOf
<1>4. CASE b = k
  BY <1>1, <1>2, <1>3, <1>4, OneMorePending
<1>5. CASE b # k
  <2>1. PendingDays(b, NoLeave)' = PendingDays(b, NoLeave)
    BY <1>2, <1>3, <1>5, PendingDaysNext, SamePending
  <2> QED BY <1>5, <2>1, PendingDaysAre
<1> QED BY <1>4, <1>5

\* The balance an application has read is the balance, and once it is checked
\* its days are covered besides those of the pending leaves.
BookingsFresh ==
  \A w \in Workers : LET j == job[w] IN
    j.op = "CREATE" =>
      /\ j.leave = NoLeave
      /\ j.kind \in Buckets =>
           /\ j.closing = closing[j.kind]
           /\ j.step = "checked" =>
                PendingDays(j.kind, NoLeave) + j.days <= closing[j.kind]

BookingsInv == SerialInv /\ BookingsFresh

LEMMA BookingsInit == Init => BookingsInv
BY SerialInit DEF Init, BookingsInv, BookingsFresh, Idle

LEMMA NothingIsBooked ==
  ASSUME OneAtATime, NEW w \in Workers, job'[w].op # "CREATE"
  PROVE  BookingsFresh'
BY DEF OneAtATime, BookingsFresh

LEMMA StartCreateReads ==
  ASSUME TypeOK, NEW w \in Workers, StartCreate(w)
  PROVE  /\ job'[w].step = "read" /\ job'[w].leave = NoLeave
         /\ job'[w].kind \in Buckets => job'[w].closing = closing[job'[w].kind]
<1>1. PICK role \in ApplicantRoles, d \in Days, k \in Kinds, s \in Slots :
        StartBooking(w, "CREATE", NoLeave, role, d, k, s)
  BY DEF StartCreate
<1> DEFINE seen == IF k = "EARLY" THEN 0 ELSE closing[k]
           new == [Idle EXCEPT !.op = "CREATE", !.step = "read", !.leave = NoLeave,
                     !.role = role, !.days = d, !.kind = k, !.slot = s,
                     !.closing = seen]
<1>2. job'[w] = new
  BY <1>1 DEF StartBooking, TypeOK
<1>3. new.step = "read" /\ new.leave = NoLeave /\ new.kind = k /\ new.closing = seen
  <2> HIDE DEF seen
  <2> QED BY DEF Idle
<1>4. k \in Buckets => seen = closing[k]
  BY DEF Buckets
<1> HIDE DEF new, seen
<1> QED BY <1>2, <1>3, <1>4

LEMMA BookingsStep ==
  ASSUME OneAtATime, BookingsInv, NEW w \in Workers,
         \/ StartCreate(w) \/ StartEdit(w) \/ CheckBooking(w)
         \/ CommitCreate(w) \/ CommitEdit(w)
         \/ StartCancel(w) \/ CommitCancel(w)
         \/ StartAction(w) \/ ReadApprovalLog(w)
         \/ ApproveStage(w) \/ ApproveFinal(w) \/ RejectStage(w)
         \/ WithdrawStage(w) \/ WithdrawFinal(w)
         \/ Abort(w)
  PROVE  BookingsFresh'
<1> DEFINE j == job[w]
<1>t. TypeOK
  BY DEF BookingsInv, SerialInv
<1>1. CASE StartCreate(w)
  <2>1. UNCHANGED closing
    BY <1>1 DEF StartCreate, StartBooking, ledgerVars
  <2>2. /\ job'[w].step = "read" /\ job'[w].leave = NoLeave
        /\ job'[w].kind \in Buckets => job'[w].closing = closing[job'[w].kind]
    BY <1>1, <1>t, StartCreateReads
  <2> QED BY <2>1, <2>2 DEF OneAtATime, BookingsFresh
<1>2. CASE StartEdit(w)
  <2>1. job'[w].op = "EDIT"
    BY <1>2, <1>t, StartBookingReads DEF StartEdit
  <2> QED BY <2>1, NothingIsBooked
<1>3. CASE CheckBooking(w)
  <2>1. /\ job'[w] = [j EXCEPT !.step = "checked"]
        /\ UNCHANGED <<status, days, kind, closing>>
        /\ BookingAllowed(j)
    BY <1>3, <1>t DEF CheckBooking, TypeOK, leaveVars, ledgerVars
  <2>2. /\ job'[w].op = j.op /\ job'[w].leave = j.leave /\ job'[w].kind = j.kind
        /\ job'[w].days = j.days /\ job'[w].closing = j.closing
    BY <2>1, <1>t DEF TypeOK, Job
  <2>3. /\ UNCHANGED PendingDays(j.kind, NoLeave)
        /\ PendingDays(j.kind, NoLeave) \in Nat
    <3>1. UNCHANGED PendingDays(j.kind, NoLeave)
      <4>1. job'[w].kind = j.kind
        BY <2>2
      <4> QED BY <2>1, <4>1 DEF PendingDays
    <3>2. PendingDays(j.kind, NoLeave) \in Nat
      BY <1>t, PendingDaysAre
    <3> QED BY <3>1, <3>2
  <2>4. CASE j.op = "CREATE" /\ j.kind \in Buckets
    <3>1. j.leave = NoLeave /\ j.closing = closing[j.kind]
      BY <2>4 DEF BookingsInv, BookingsFresh
    <3>2. j.closing - PendingDays(j.kind, NoLeave) + 0 >= j.days
      BY <2>1, <2>4, <3>1 DEF BookingAllowed, OriginalDays
    <3>3. j.closing \in Int /\ j.days \in Int
      BY <1>t DEF TypeOK, Job
    <3>4. PendingDays(j.kind, NoLeave) + j.days <= closing[j.kind]
      BY <2>3, <3>1, <3>2, <3>3
    <3>5. (PendingDays(job[w].kind, NoLeave) + job[w].days <= closing[job[w].kind])'
      BY <2>1, <2>2, <3>4 DEF PendingDays
    <3> HIDE DEF j
    <3> QED BY <2>1, <2>2, <3>1, <3>5 DEF OneAtATime, BookingsFresh
  <2>5. CASE j.op = "CREATE" /\ j.kind \notin Buckets
    <3>1. j.leave = NoLeave
      BY <2>5 DEF BookingsInv, BookingsFresh
    <3> QED BY <2>2, <2>5, <3>1 DEF OneAtATime, BookingsFresh
  <2>6. CASE j.op # "CREATE"
    BY <2>2, <2>6, NothingIsBooked
  <2> QED BY <2>4, <2>5, <2>6
<1>4. CASE StartCancel(w)
  <2>1. PICK l \in Leaves :
          job' = [job EXCEPT ![w] =
            [Idle EXCEPT !.op = "CANCEL", !.step = "checked", !.leave = l]]
    BY <1>4 DEF StartCancel
  <2>2. job'[w].op = "CANCEL"
    BY <2>1, <1>t DEF TypeOK, Idle
  <2> QED BY <2>2, NothingIsBooked
<1>5. CASE StartAction(w)
  <2>1. PICK a \in Actions, r \in Approvers, l \in Leaves :
          job' = [job EXCEPT ![w] =
            [Idle EXCEPT !.op = a, !.step = "read", !.leave = l, !.role = r,
                   !.days = days[l], !.kind = kind[l], !.status = status[l]]]
    BY <1>5 DEF StartAction
  <2>2. job'[w].op \in Actions
    BY <2>1, <1>t DEF TypeOK, Idle
  <2> QED BY <2>2, NothingIsBooked DEF Actions
<1>6. CASE ReadApprovalLog(w)
  <2>1. job'[w] = [j EXCEPT !.step = "checked", !.log = log[j.leave]] /\ j.op \in Actions
    BY <1>6, <1>t DEF ReadApprovalLog, TypeOK
  <2>2. job'[w].op = j.op
    BY <2>1, <1>t DEF TypeOK, Job
  <2> QED BY <2>1, <2>2, NothingIsBooked DEF Actions
<1>7. ASSUME Finish(w) PROVE BookingsFresh'
  <2>1. job'[w] = Idle
    BY <1>7, <1>t DEF Finish, TypeOK
  <2>2. job'[w].op # "CREATE"
    BY <2>1 DEF Idle
  <2> QED BY <2>2, NothingIsBooked
<1>8. CASE \/ CommitCreate(w) \/ CommitEdit(w) \/ CommitCancel(w)
           \/ ApproveStage(w) \/ ApproveFinal(w) \/ RejectStage(w)
           \/ WithdrawStage(w) \/ WithdrawFinal(w) \/ Abort(w)
  BY <1>7, <1>8
     DEF CommitCreate, CommitEdit, CommitCancel, ApproveStage, ApproveFinal, RejectStage,
         WithdrawStage, WithdrawFinal, Abort
<1> QED BY <1>1, <1>2, <1>3, <1>4, <1>5, <1>6, <1>8

LEMMA BookingsNext == OneAtATime /\ BookingsInv /\ [Next]_vars => BookingsInv'
<1> SUFFICES ASSUME OneAtATime, BookingsInv, [Next]_vars PROVE BookingsInv'
  OBVIOUS
<1>1. SerialInv'
  BY SerialNext DEF BookingsInv
<1>2. CASE UNCHANGED vars
  BY <1>1, <1>2
     DEF BookingsInv, BookingsFresh, PendingDays, vars, leaveVars, ledgerVars
<1>3. CASE Next
  BY <1>1, <1>3, BookingsStep DEF BookingsInv, Next
<1> QED BY <1>2, <1>3

\* What a step may do to the pending leaves while they are covered.
SomeLeaveIsEdited ==
  \E l \in Leaves : Exists(l) /\ (days'[l] # days[l] \/ kind'[l] # kind[l])

LEMMA CoveredUnlessEdited ==
  ASSUME BookingsInv, [Next]_vars, PendingIsCovered, ~SomeLeaveIsEdited
  PROVE  PendingIsCovered'
<1>t. TypeOK /\ SerialInv
  BY DEF BookingsInv, SerialInv
<1>c. \A b \in Buckets : closing[b] \in Int
  BY <1>t DEF TypeOK
<1>q. ASSUME UNCHANGED <<status, days, kind, closing>> PROVE PendingIsCovered'
  BY <1>q DEF PendingIsCovered, PendingDays
<1>1. ASSUME NEW w \in Workers, CommitCreate(w) PROVE PendingIsCovered'
  <2> DEFINE j == job[w]
  <2>1. PICK l \in Leaves :
          /\ ~Exists(l)
          /\ status' = [status EXCEPT ![l] = "Pending"]
          /\ days' = [days EXCEPT ![l] = j.days]
          /\ kind' = [kind EXCEPT ![l] = j.kind]
    BY <1>1 DEF CommitCreate
  <2>2. j.days \in Nat /\ j.kind \in LeaveTypes /\ j.op = "CREATE" /\ j.step = "checked"
    BY <1>1, <1>t DEF CommitCreate, Serving, TypeOK, Job
  <2>3. UNCHANGED closing
    BY <1>1 DEF CommitCreate, ledgerVars
  <2>4. j.kind \in Buckets => PendingDays(j.kind, NoLeave) + j.days <= closing[j.kind]
    BY <2>2 DEF BookingsInv, BookingsFresh
  <2> HIDE DEF j
  <2>5. ASSUME NEW b \in Buckets PROVE PendingDays(b, NoLeave)' <= closing'[b]
    <3>1. PendingDays(b, NoLeave)' = PendingDays(b, NoLeave) + IF b = j.kind THEN j.days ELSE 0
      BY <1>t, <2>1, <2>2, NewlyPending
    <3>2. PendingDays(b, NoLeave) \in Nat /\ PendingDays(b, NoLeave) <= closing[b]
      BY <1>t, PendingDaysAre DEF PendingIsCovered
    <3> QED BY <2>2, <2>3, <2>4, <3>1, <3>2
  <2> QED BY <2>5 DEF PendingIsCovered
<1>2. ASSUME NEW w \in Workers, CommitEdit(w) PROVE PendingIsCovered'
  <2>1. /\ job[w].leave \in Leaves /\ Exists(job[w].leave)
        /\ UNCHANGED <<status, closing>>
        /\ days' = [days EXCEPT ![job[w].leave] = job[w].days]
        /\ kind' = [kind EXCEPT ![job[w].leave] = job[w].kind]
    BY <1>2, <1>t DEF CommitEdit, Serving, TypeOK, Exists, ledgerVars
  <2>2. days'[job[w].leave] = days[job[w].leave] /\ kind'[job[w].leave] = kind[job[w].leave]
    BY <2>1 DEF SomeLeaveIsEdited
  <2>3. UNCHANGED <<days, kind>>
    BY <1>t, <2>1, <2>2 DEF TypeOK
  <2> QED BY <1>q, <2>1, <2>3
<1>3. ASSUME NEW w \in Workers, ApproveFinal(w) PROVE PendingIsCovered'
  <2> DEFINE j == job[w]
  <2>1. /\ j.leave \in Leaves /\ status[j.leave] = "Pending"
        /\ j.days = days[j.leave] /\ j.kind = kind[j.leave] /\ j.days \in Nat
    BY <1>3, <1>t, ServedFresh DEF ApproveFinal, Serving, Actions, TypeOK
  <2>2. /\ status' = [status EXCEPT ![j.leave] = "APPROVED"] /\ UNCHANGED <<days, kind>>
        /\ closing' = [b \in Buckets |->
                         IF b = j.kind THEN closing[b] - j.days ELSE closing[b]]
    BY <1>3 DEF ApproveFinal, WriteBack, Charge
  <2> HIDE DEF j
  <2>3. ASSUME NEW b \in Buckets PROVE PendingDays(b, NoLeave)' <= closing'[b]
    <3>1. /\ PendingDays(b, NoLeave)' \in Nat
          /\ PendingDays(b, NoLeave)' <= PendingDays(b, NoLeave)
          /\ kind[j.leave] = b =>
               PendingDays(b, NoLeave)' = PendingDays(b, NoLeave) - days[j.leave]
      BY <1>t, <2>1, <2>2, NoLongerPending
    <3>2. PendingDays(b, NoLeave) \in Nat /\ PendingDays(b, NoLeave) <= closing[b]
      BY <1>t, PendingDaysAre DEF PendingIsCovered
    <3> QED BY <1>c, <2>1, <2>2, <3>1, <3>2
  <2> QED BY <2>3 DEF PendingIsCovered
<1>4. ASSUME NEW w \in Workers,
             \/ RejectStage(w) \/ WithdrawStage(w) \/ WithdrawFinal(w) \/ CommitCancel(w)
      PROVE  PendingIsCovered'
  <2> DEFINE j == job[w]
  <2>1. j.leave \in Leaves /\ j.days \in Nat
    BY <1>4, <1>t
       DEF RejectStage, WithdrawStage, WithdrawFinal, CommitCancel, Serving, Actions,
           TypeOK, Job
  <2>2. PICK st \in {"REJECTED", "WITHDRAWAL_PENDING", "WITHDRAWN", "CANCELLED"} :
          status' = [status EXCEPT ![j.leave] = st]
    BY <1>4 DEF RejectStage, WithdrawStage, WithdrawFinal, CommitCancel, WriteBack
  <2>3. UNCHANGED <<days, kind>>
    BY <1>4 DEF RejectStage, WithdrawStage, WithdrawFinal, CommitCancel, WriteBack
  <2>4. \A b \in Buckets : closing'[b] \in Int /\ closing'[b] >= closing[b]
    BY <1>4, <1>c, <2>1
       DEF RejectStage, WithdrawStage, WithdrawFinal, CommitCancel, Charge, ledgerVars
  <2> HIDE DEF j
  <2>5. ASSUME NEW b \in Buckets PROVE PendingDays(b, NoLeave)' <= closing'[b]
    <3>1. /\ PendingDays(b, NoLeave)' \in Nat
          /\ PendingDays(b, NoLeave)' <= PendingDays(b, NoLeave)
      BY <1>t, <2>1, <2>2, <2>3, NoLongerPending
    <3>2. PendingDays(b, NoLeave) \in Nat /\ PendingDays(b, NoLeave) <= closing[b]
      BY <1>t, PendingDaysAre DEF PendingIsCovered
    <3> QED BY <1>c, <2>4, <3>1, <3>2
  <2> QED BY <2>5 DEF PendingIsCovered
<1>5. ASSUME NEW w \in Workers,
             \/ StartCreate(w) \/ StartEdit(w) \/ CheckBooking(w)
             \/ StartCancel(w) \/ StartAction(w) \/ ReadApprovalLog(w)
             \/ ApproveStage(w) \/ Abort(w)
      PROVE  PendingIsCovered'
  BY <1>5, <1>q
     DEF StartCreate, StartEdit, StartBooking, CheckBooking, StartCancel, StartAction,
         ReadApprovalLog, ApproveStage, Abort, leaveVars, ledgerVars
<1>6. CASE UNCHANGED vars
  BY <1>6, <1>q DEF vars, leaveVars, ledgerVars
<1> QED BY <1>1, <1>2, <1>3, <1>4, <1>5, <1>6 DEF Next

(***************************************************************************)
(* When requests are served one at a time: as long as all pending leaves   *)
(* of the employee are covered by the balances they will be taken from,    *)
(* only an edit can change that - no application, decision, cancellation   *)
(* or withdrawal does, for any number of leaves and days.                  *)
(***************************************************************************)
THEOREM BookingsStayCovered ==
  ASSUME OneAtATime
  PROVE  Spec => OnlyEditsOverbook
<1>1. BookingsInv /\ [Next]_vars => BookingsInv'
  BY BookingsNext
<1>2. BookingsInv /\ [Next]_vars =>
        [PendingIsCovered =>
           \/ PendingIsCovered'
           \/ \E l \in Leaves :
                Exists(l) /\ (days'[l] # days[l] \/ kind'[l] # kind[l])]_vars
  BY CoveredUnlessEdited DEF SomeLeaveIsEdited
<1> QED BY <1>1, <1>2, BookingsInit, PTL DEF Spec, OnlyEditsOverbook

\* Without edits: nobody is editing, and the pending leaves are covered.
NobodyEdits == \A w \in Workers : job[w].op # "EDIT"

CoveredInv == BookingsInv /\ NobodyEdits /\ PendingIsCovered

LEMMA NobodyStartsToEdit ==
  ASSUME EditDays = {}, TypeOK, NobodyEdits, NEW w \in Workers,
         \/ StartCreate(w) \/ StartEdit(w) \/ CheckBooking(w)
         \/ CommitCreate(w) \/ CommitEdit(w)
         \/ StartCancel(w) \/ CommitCancel(w)
         \/ StartAction(w) \/ ReadApprovalLog(w)
         \/ ApproveStage(w) \/ ApproveFinal(w) \/ RejectStage(w)
         \/ WithdrawStage(w) \/ WithdrawFinal(w)
         \/ Abort(w)
  PROVE  NobodyEdits'
<1>1. ASSUME NEW j, job' = [job EXCEPT ![w] = j], job'[w].op # "EDIT" PROVE NobodyEdits'
  BY <1>1 DEF NobodyEdits, TypeOK
<1>2. CASE StartCreate(w)
  <2>1. PICK new : job' = [job EXCEPT ![w] = new]
    BY <1>2 DEF StartCreate, StartBooking
  <2>2. job'[w].op = "CREATE"
    BY <1>2, StartBookingReads DEF StartCreate
  <2> QED BY <1>1, <2>1, <2>2
<1>3. CASE StartEdit(w)
  BY <1>3 DEF StartEdit
<1>4. CASE CheckBooking(w)
  BY <1>4 DEF CheckBooking, NobodyEdits, TypeOK, Job
<1>5. CASE StartCancel(w)
  <2>1. PICK l \in Leaves :
          job' = [job EXCEPT ![w] =
            [Idle EXCEPT !.op = "CANCEL", !.step = "checked", !.leave = l]]
    BY <1>5 DEF StartCancel
  <2>2. job'[w].op = "CANCEL"
    BY <2>1 DEF Idle, TypeOK
  <2> QED BY <1>1, <2>1, <2>2
<1>6. CASE StartAction(w)
  <2>1. PICK a \in Actions, r \in Approvers, l \in Leaves :
          job' = [job EXCEPT ![w] =
            [Idle EXCEPT !.op = a, !.step = "read", !.leave = l, !.role = r,
                   !.days = days[l], !.kind = kind[l], !.status = status[l]]]
    BY <1>6 DEF StartAction
  <2>2. job'[w].op \in Actions
    BY <2>1 DEF Idle, TypeOK
  <2> QED BY <1>1, <2>1, <2>2 DEF Actions
<1>7. CASE ReadApprovalLog(w)
  BY <1>7 DEF ReadApprovalLog, NobodyEdits, TypeOK, Job
<1>8. ASSUME Finish(w) PROVE NobodyEdits'
  <2>1. job'[w].op = "IDLE"
    BY <1>8 DEF Finish, Idle, TypeOK
  <2> QED BY <1>1, <1>8, <2>1 DEF Finish
<1>9. CASE \/ CommitCreate(w) \/ CommitEdit(w) \/ CommitCancel(w)
           \/ ApproveStage(w) \/ ApproveFinal(w) \/ RejectStage(w)
           \/ WithdrawStage(w) \/ WithdrawFinal(w) \/ Abort(w)
  BY <1>8, <1>9
     DEF CommitCreate, CommitEdit, CommitCancel, ApproveStage, ApproveFinal, RejectStage,
         WithdrawStage, WithdrawFinal, Abort
<1> QED BY <1>2, <1>3, <1>4, <1>5, <1>6, <1>7, <1>9

\* Only the commit of an edit changes the days or the kind of a leave.
LEMMA OnlyEditorsEdit ==
  ASSUME TypeOK, NobodyEdits, [Next]_vars
  PROVE  ~SomeLeaveIsEdited
<1>1. ASSUME NEW w \in Workers, CommitCreate(w) PROVE ~SomeLeaveIsEdited
  BY <1>1 DEF CommitCreate, SomeLeaveIsEdited, Exists, TypeOK
<1>2. ASSUME NEW w \in Workers PROVE ~CommitEdit(w)
  BY DEF CommitEdit, Serving, NobodyEdits
<1>3. ASSUME NEW w \in Workers,
             \/ StartCreate(w) \/ StartEdit(w) \/ CheckBooking(w)
             \/ StartCancel(w) \/ CommitCancel(w)
             \/ StartAction(w) \/ ReadApprovalLog(w)
             \/ ApproveStage(w) \/ ApproveFinal(w) \/ RejectStage(w)
             \/ WithdrawStage(w) \/ WithdrawFinal(w) \/ Abort(w)
      PROVE  UNCHANGED <<days, kind>>
  BY <1>3
     DEF StartCreate, StartEdit, StartBooking, CheckBooking, StartCancel, CommitCancel,
         StartAction, ReadApprovalLog, ApproveStage, ApproveFinal, RejectStage,
         WithdrawStage, WithdrawFinal, WriteBack, Abort, leaveVars
<1>4. CASE UNCHANGED vars
  BY <1>4 DEF vars, leaveVars, SomeLeaveIsEdited
<1> QED BY <1>1, <1>2, <1>3, <1>4 DEF Next, SomeLeaveIsEdited

LEMMA CoveredInit == Init => CoveredInv
<1> SUFFICES ASSUME Init PROVE CoveredInv
  OBVIOUS
<1>1. NobodyEdits
  BY DEF Init, NobodyEdits, Idle
<1>2. ASSUME NEW b \in Buckets PROVE PendingDays(b, NoLeave) <= closing[b]
  <2>1. TypeOK
    BY InitType
  <2>2. PendingOf(b) = {}
    BY DEF Init, PendingOf
  <2>3. PendingDays(b, NoLeave) = 0
    BY <2>1, <2>2, PendingDaysAre, SumOfNothing
  <2> QED BY <2>3, LeaveFlowAssumption DEF Init
<1> QED BY <1>1, <1>2, BookingsInit DEF CoveredInv, PendingIsCovered

LEMMA CoveredNext ==
  ASSUME OneAtATime, EditDays = {}
  PROVE  CoveredInv /\ [Next]_vars => CoveredInv'
<1> SUFFICES ASSUME CoveredInv, [Next]_vars PROVE CoveredInv'
  OBVIOUS
<1>t. TypeOK
  BY DEF CoveredInv, BookingsInv, SerialInv
<1>1. BookingsInv'
  BY BookingsNext DEF CoveredInv
<1>2. NobodyEdits'
  <2>1. CASE UNCHANGED vars
    BY <2>1 DEF vars, CoveredInv, NobodyEdits
  <2>2. CASE Next
    BY <2>2, <1>t, NobodyStartsToEdit DEF Next, CoveredInv
  <2> QED BY <2>1, <2>2
<1>3. PendingIsCovered'
  BY <1>t, OnlyEditorsEdit, CoveredUnlessEdited DEF CoveredInv
<1> QED BY <1>1, <1>2, <1>3 DEF CoveredInv

(***************************************************************************)
(* When requests are served one at a time and nobody edits a leave, the    *)
(* balance never goes below zero, for any number of leaves, any days and   *)
(* any opening balances: what LeaveOverdraw.cfg shows to go wrong goes     *)
(* wrong in UpdateLeave alone.                                             *)
(***************************************************************************)
THEOREM WithoutEditsNoOverdraft ==
  ASSUME OneAtATime, EditDays = {}
  PROVE  Spec => []NeverOverdrawn
<1>1. CoveredInv /\ [Next]_vars => CoveredInv'
  BY CoveredNext
<1>2. CoveredInv => NeverOverdrawn
  <2> SUFFICES ASSUME CoveredInv, NEW b \in Buckets PROVE closing[b] >= 0
    BY DEF NeverOverdrawn
  <2>1. TypeOK
    BY DEF CoveredInv, BookingsInv, SerialInv
  <2>2. PendingDays(b, NoLeave) \in Nat /\ closing[b] \in Int
    BY <2>1, PendingDaysAre DEF TypeOK
  <2> QED BY <2>2 DEF CoveredInv, PendingIsCovered
<1> QED BY <1>1, <1>2, CoveredInit, PTL DEF Spec

-----------------------------------------------------------------------------
(* The announcements: a request that announces its work is still a request of
   LeaveFlow; and every approver a leave waits for has been addressed, whatever
   requests interleave, for any number of workers, leaves and stages. *)

LEMMA NoticesStep == [NoticesNext]_allVars => [Next]_vars
<1> SUFFICES ASSUME [NoticesNext]_allVars PROVE [Next]_vars
  OBVIOUS
<1>1. CASE UNCHANGED allVars
  BY <1>1 DEF allVars
<1>2. ASSUME NEW w \in Workers, Serve(w) PROVE Next
  BY <1>2 DEF Serve, Next
<1>3. ASSUME NEW w \in Workers, Commit(w) \/ FailToCommit(w) PROVE Next
  BY <1>3 DEF Commit, Writes, FailToCommit, Next
<1>4. ASSUME NEW w \in Workers,
             ChooseEvent(w) \/ GetRecipientsWaiting(w) \/ Publish(w) \/ LoseNotice(w)
      PROVE  UNCHANGED vars
  BY <1>4 DEF ChooseEvent, GetRecipientsWaiting, Publish, LoseNotice
<1> QED BY <1>1, <1>2, <1>3, <1>4 DEF NoticesNext

(***************************************************************************)
(* LeaveNotices is LeaveFlow with announcements: whatever holds of every   *)
(* behaviour of LeaveFlow, as TypeCorrectness, WithdrawnWasApproved and    *)
(* UnroutedStaysPending, holds with them.                                  *)
(***************************************************************************)
THEOREM NoticesAreLeaveFlow == NoticesSpec => Spec
<1>1. NoticesInit => Init
  BY DEF NoticesInit
<1> QED BY <1>1, NoticesStep, PTL DEF NoticesSpec, Spec

-----------------------------------------------------------------------------
(* Types.                                                                  *)

LEMMA SilentIsNotice == Silent \in Notice /\ Silent.leave = NoLeave
BY DEF Silent, Notice, EventTypes

LEMMA NoticesInitType == NoticesInit => NoticesTypeOK
BY InitType, SilentIsNotice DEF NoticesInit, NoticesTypeOK

LEMMA AnnouncementType ==
  ASSUME NEW l \in Leaves, NEW op
  PROVE  /\ Announcement(op, l) \in Notice
         /\ Announcement(op, l).leave = l
         /\ Announcement(op, l).type = EventOf(op)
         /\ Announcement(op, l).step \in {"choose", "address"}
<1>1. EventOf(op) \in EventTypes
  BY DEF EventOf, EventTypes
<1> QED BY <1>1 DEF Announcement, Notice

LEMMA NoticesNextType ==
  NoticesTypeOK /\ [NoticesNext]_allVars => NoticesTypeOK'
<1> SUFFICES ASSUME NoticesTypeOK, [NoticesNext]_allVars PROVE NoticesTypeOK'
  OBVIOUS
<1>t. TypeOK'
  BY NextType, NoticesStep DEF NoticesTypeOK
<1>1. CASE UNCHANGED noticeVars
  BY <1>t, <1>1 DEF NoticesTypeOK, noticeVars
<1>2. ASSUME NEW w \in Workers, Commit(w) PROVE NoticesTypeOK'
  <2>1. PICK l \in Leaves :
          /\ notice' = [notice EXCEPT ![w] = Announcement(job[w].op, l)]
          /\ told' = [told EXCEPT ![l] = StillTold(l)]
          /\ lost' = IF job[w].op = "CANCEL" THEN lost ELSE lost \ {l}
    BY <1>2 DEF Commit
  <2>2. StillTold(l) \in SUBSET Approvers
    BY DEF StillTold, Waiting
  <2>3. Announcement(job[w].op, l) \in Notice
    BY AnnouncementType
  <2>4. /\ notice' \in [Workers -> Notice]
        /\ \A v \in Workers : notice'[v] # Silent => notice'[v].leave \in Leaves
    BY <2>1, <2>3, AnnouncementType DEF NoticesTypeOK
  <2> QED BY <1>t, <2>1, <2>2, <2>4 DEF NoticesTypeOK
<1>8. ASSUME NEW w \in Workers, FailToCommit(w) PROVE NoticesTypeOK'
  <2>1. /\ notice' = [notice EXCEPT ![w] = Announcement(job[w].op, job[w].leave)]
        /\ UNCHANGED <<told, lost>>
    BY <1>8 DEF FailToCommit
  <2>2. job[w].leave \in Leaves
    BY <1>8 DEF FailToCommit, NoticesTypeOK, TypeOK
  <2>3. /\ notice' \in [Workers -> Notice]
        /\ \A v \in Workers : notice'[v] # Silent => notice'[v].leave \in Leaves
    BY <2>1, <2>2, AnnouncementType DEF NoticesTypeOK
  <2> QED BY <1>t, <2>1, <2>3 DEF NoticesTypeOK
<1>3. ASSUME NEW w \in Workers, ChooseEvent(w) PROVE NoticesTypeOK'
  <2>1. PICK type \in EventTypes :
          notice' = [notice EXCEPT ![w].step = "address", ![w].type = type]
    BY <1>3 DEF ChooseEvent, EventTypes
  <2>2. notice[w] # Silent /\ UNCHANGED <<told, lost>>
    BY <1>3 DEF ChooseEvent, Silent
  <2> QED BY <1>t, <2>1, <2>2 DEF NoticesTypeOK, Notice
<1>4. ASSUME NEW w \in Workers, GetRecipientsWaiting(w) PROVE NoticesTypeOK'
  <2> DEFINE to == {r \in Approvers :
                      log[notice[w].leave][r] \in {"WAITING", "SKIPPED"}}
  <2>1. to \in SUBSET Approvers
    OBVIOUS
  <2>2. /\ notice' = [notice EXCEPT ![w].step = "publish", ![w].roles = to]
        /\ notice[w] # Silent /\ UNCHANGED <<told, lost>>
    BY <1>4 DEF GetRecipientsWaiting, Silent
  <2> HIDE DEF to
  <2> QED BY <1>t, <2>1, <2>2 DEF NoticesTypeOK, Notice
<1>5. ASSUME NEW w \in Workers, Publish(w) PROVE NoticesTypeOK'
  BY <1>t, <1>5, SilentIsNotice DEF Publish, NoticesTypeOK, Notice, Waiting
<1>6. ASSUME NEW w \in Workers, LoseNotice(w) PROVE NoticesTypeOK'
  BY <1>t, <1>6, SilentIsNotice DEF LoseNotice, NoticesTypeOK
<1>7. ASSUME NEW w \in Workers, Serve(w) PROVE NoticesTypeOK'
  BY <1>1, <1>7 DEF Serve
<1> QED
  BY <1>1, <1>2, <1>3, <1>4, <1>5, <1>6, <1>7, <1>8 DEF NoticesNext, allVars

(***************************************************************************)
(* Every variable keeps its type, those of LeaveFlow included, and every   *)
(* announcement under way is about a leave.                                *)
(***************************************************************************)
THEOREM NoticesTypeCorrectness == NoticesSpec => []NoticesTypeOK
BY NoticesInitType, NoticesNextType, PTL DEF NoticesSpec

-----------------------------------------------------------------------------
(* Who has been told.                                                      *)

\* A commit writes the log of the leave it is about, and of no other; a
\* cancellation writes none.
LEMMA WritesOneLog ==
  ASSUME TypeOK, NEW w \in Workers, Writes(w), NEW l \in Leaves, Concerns(w, l)
  PROVE  /\ \A m \in Leaves \ {l} : log'[m] = log[m]
         /\ job[w].op = "CANCEL" => log' = log
<1>1. CASE CommitCreate(w)
  <2>1. PICK k \in Leaves :
          /\ status' = [status EXCEPT ![k] = "Pending"]
          /\ log' = [log EXCEPT ![k] = GenerateApprovalLog(job[w].role)]
    BY <1>1 DEF CommitCreate
  <2>2. job[w].op = "CREATE" /\ status[l] # status'[l]
    BY <1>1 DEF CommitCreate, Serving, Concerns
  <2>3. k = l
    BY <2>1, <2>2 DEF TypeOK
  <2> QED BY <2>1, <2>2, <2>3 DEF TypeOK
<1>2. CASE CommitCancel(w)
  BY <1>2 DEF CommitCancel
<1>3. ASSUME NEW lg, UpdateApprovalLog(job[w].leave, lg), job[w].op \notin {"CREATE", "CANCEL"}
      PROVE  /\ \A m \in Leaves \ {l} : log'[m] = log[m]
             /\ job[w].op = "CANCEL" => log' = log
  BY <1>3 DEF UpdateApprovalLog, Concerns, TypeOK
<1>4. CASE CommitEdit(w)
  BY <1>3, <1>4 DEF CommitEdit, Serving, RegenerateApprovalLog
<1>5. CASE ApproveStage(w)
  BY <1>3, <1>5 DEF ApproveStage, Serving
<1>6. CASE \/ ApproveFinal(w) \/ RejectStage(w)
           \/ WithdrawStage(w) \/ WithdrawFinal(w)
  <2>1. /\ job[w].op \notin {"CREATE", "CANCEL"}
        /\ \E s, lg : WriteBack(job[w].leave, s, lg)
    BY <1>6 DEF ApproveFinal, RejectStage, WithdrawStage, WithdrawFinal, Serving
  <2> QED BY <1>3, <2>1 DEF WriteBack
<1> QED BY <1>1, <1>2, <1>4, <1>5, <1>6 DEF Writes

(***************************************************************************)
(* Worker w owes an announcement of leave l that will reach everybody it   *)
(* waits for: the log is still to be read, or what was read is enough.     *)
(***************************************************************************)
Owes(w, l) ==
  /\ notice[w].leave = l
  /\ MailsRecipients(notice[w].type)
  /\ \/ notice[w].step \in {"choose", "address"}
     \/ notice[w].step = "publish" /\ Waiting(l) \subseteq notice[w].roles \cup told[l]

ToldInv ==
  /\ NoticesTypeOK
  /\ \A l \in Leaves :
       l \in lost \/ (\E w \in Workers : Owes(w, l)) \/ Waiting(l) \subseteq told[l]

LEMMA ToldInit == NoticesInit => ToldInv
<1> SUFFICES ASSUME NoticesInit PROVE ToldInv
  OBVIOUS
<1>1. \A l \in Leaves : Waiting(l) = {}
  BY DEF NoticesInit, Init, NoFlow, Waiting
<1> QED BY <1>1, NoticesInitType DEF ToldInv

\* A leave that nothing happens to keeps its place in the invariant.
LEMMA StillOwed ==
  ASSUME NoticesTypeOK, NEW l \in Leaves, NEW w \in Workers,
         notice[w].leave # l,
         \A v \in Workers \ {w} : notice'[v] = notice[v],
         Waiting(l)' = Waiting(l), told[l] \subseteq told'[l],
         l \in lost \/ (\E v \in Workers : Owes(v, l)) \/ Waiting(l) \subseteq told[l],
         l \in lost => l \in lost'
  PROVE  l \in lost' \/ (\E v \in Workers : Owes(v, l)') \/ Waiting(l)' \subseteq told'[l]
<1>1. ASSUME NEW v \in Workers, Owes(v, l) PROVE Owes(v, l)'
  <2>1. notice'[v] = notice[v]
    BY <1>1 DEF Owes
  <2> QED BY <1>1, <2>1 DEF Owes
<1> QED BY <1>1

LEMMA CommitKeepsTold ==
  ASSUME ToldInv, NoticesTypeOK', NEW w \in Workers, Commit(w)
  PROVE  ToldInv'
<1>t. NoticesTypeOK /\ TypeOK
  BY DEF ToldInv, NoticesTypeOK
<1>1. PICK l \in Leaves :
        /\ Concerns(w, l)
        /\ notice' = [notice EXCEPT ![w] = Announcement(job[w].op, l)]
        /\ told' = [told EXCEPT ![l] = StillTold(l)]
        /\ lost' = IF job[w].op = "CANCEL" THEN lost ELSE lost \ {l}
  BY DEF Commit
<1>2. /\ \A m \in Leaves \ {l} : log'[m] = log[m]
      /\ job[w].op = "CANCEL" => log' = log
  BY <1>t, <1>1, WritesOneLog DEF Commit
<1>3. notice[w].leave \notin Leaves
  BY SilentIsNotice, LeaveFlowAssumption DEF Commit
<1>4. /\ notice'[w] = Announcement(job[w].op, l)
      /\ \A v \in Workers \ {w} : notice'[v] = notice[v]
  BY <1>1, <1>t DEF NoticesTypeOK
<1>5. ASSUME NEW m \in Leaves
      PROVE  m \in lost' \/ (\E v \in Workers : Owes(v, m)') \/ Waiting(m)' \subseteq told'[m]
  <2>i. m \in lost \/ (\E v \in Workers : Owes(v, m)) \/ Waiting(m) \subseteq told[m]
    BY DEF ToldInv
  <2>1. CASE m # l
    <3>1. Waiting(m)' = Waiting(m) /\ told'[m] = told[m]
      BY <1>1, <1>2, <1>t, <2>1 DEF Waiting, NoticesTypeOK
    <3>2. m \in lost => m \in lost'
      BY <1>1, <2>1
    <3> QED BY <1>t, <1>3, <1>4, <2>i, <3>1, <3>2, StillOwed
  <2>2. CASE m = l /\ job[w].op # "CANCEL"
    <3>1. MailsRecipients(EventOf(job[w].op))
      BY <2>2 DEF EventOf, MailsRecipients
    <3> QED BY <1>4, <2>2, <3>1, AnnouncementType DEF Owes
  <2>3. CASE m = l /\ job[w].op = "CANCEL"
    <3>1. Waiting(m)' = Waiting(m) /\ lost' = lost
      BY <1>1, <1>2, <2>3 DEF Waiting
    <3>2. told'[m] = told[m] \cap Waiting(m)
      BY <1>1, <1>t, <2>3, <3>1 DEF StillTold, NoticesTypeOK
    <3>3. ASSUME NEW v \in Workers, Owes(v, m) PROVE Owes(v, m)'
      <4>1. notice'[v] = notice[v]
        BY <1>3, <1>4, <3>3 DEF Owes
      <4> QED BY <3>1, <3>2, <3>3, <4>1 DEF Owes
    <3> QED BY <2>i, <3>1, <3>2, <3>3
  <2> QED BY <2>1, <2>2, <2>3
<1> QED BY <1>5 DEF ToldInv

LEMMA PublishKeepsTold ==
  ASSUME ToldInv, NoticesTypeOK', NEW w \in Workers, Publish(w)
  PROVE  ToldInv'
<1> DEFINE n == notice[w]
<1>t. NoticesTypeOK
  BY DEF ToldInv
<1>1. /\ n.step = "publish" /\ lost' = lost /\ log' = log
      /\ \A v \in Workers \ {w} : notice'[v] = notice[v]
      /\ n.leave \in Leaves
  BY <1>t DEF Publish, NoticesTypeOK, Silent, vars, leaveVars
<1>2. \A m \in Leaves :
        /\ Waiting(m)' = Waiting(m)
        /\ told'[m] = IF MailsRecipients(n.type) /\ m = n.leave
                      THEN told[m] \cup (n.roles \cap Waiting(m)) ELSE told[m]
  <2>1. \A m \in Leaves : Waiting(m)' = Waiting(m)
    BY <1>1 DEF Waiting
  <2>2. told' = IF MailsRecipients(n.type)
                THEN [told EXCEPT ![n.leave] = @ \cup (n.roles \cap Waiting(n.leave))]
                ELSE told
    BY DEF Publish
  <2>3. told \in [Leaves -> SUBSET Approvers]
    BY <1>t DEF NoticesTypeOK
  <2> HIDE DEF n
  <2> QED BY <1>1, <2>1, <2>2, <2>3
<1>3. ASSUME NEW m \in Leaves
      PROVE  m \in lost' \/ (\E v \in Workers : Owes(v, m)') \/ Waiting(m)' \subseteq told'[m]
  <2>i. m \in lost \/ (\E v \in Workers : Owes(v, m)) \/ Waiting(m) \subseteq told[m]
    BY DEF ToldInv
  <2>1. told[m] \subseteq told'[m]
    BY <1>2
  <2>2. ASSUME NEW v \in Workers \ {w}, Owes(v, m) PROVE Owes(v, m)'
    <3>1. notice'[v] = notice[v]
      BY <1>1
    <3> QED BY <1>2, <2>1, <2>2, <3>1 DEF Owes
  <2>3. ASSUME Owes(w, m) PROVE Waiting(m)' \subseteq told'[m]
    <3>1. /\ n.leave = m /\ MailsRecipients(n.type)
          /\ Waiting(m) \subseteq n.roles \cup told[m]
      BY <1>1, <2>3 DEF Owes
    <3>2. told'[m] = told[m] \cup (n.roles \cap Waiting(m)) /\ Waiting(m)' = Waiting(m)
      BY <1>2, <3>1
    <3> QED BY <3>1, <3>2
  <2>4. \A v \in Workers : v = w \/ v \in Workers \ {w}
    OBVIOUS
  <2> QED BY <1>1, <1>2, <2>i, <2>1, <2>2, <2>3, <2>4
<1> QED BY <1>3 DEF ToldInv

LEMMA ToldNext == ToldInv /\ [NoticesNext]_allVars => ToldInv'
<1> SUFFICES ASSUME ToldInv, [NoticesNext]_allVars PROVE ToldInv'
  OBVIOUS
<1>t. NoticesTypeOK /\ NoticesTypeOK'
  BY NoticesNextType DEF ToldInv
<1>1. CASE UNCHANGED <<log, noticeVars>>
  BY <1>t, <1>1 DEF ToldInv, Owes, Waiting, noticeVars
<1>2. ASSUME NEW w \in Workers, Serve(w) PROVE ToldInv'
  <2>1. UNCHANGED log
    BY <1>2 DEF Serve, StartCreate, StartEdit, StartBooking, CheckBooking,
                StartCancel, StartAction, ReadApprovalLog, Abort, leaveVars
  <2> QED BY <1>1, <1>2, <2>1 DEF Serve
<1>3. ASSUME NEW w \in Workers, Commit(w) PROVE ToldInv'
  BY <1>t, <1>3, CommitKeepsTold
<1>4. ASSUME NEW w \in Workers, Publish(w) PROVE ToldInv'
  BY <1>t, <1>4, PublishKeepsTold
<1>f. ASSUME NEW w \in Workers, FailToCommit(w) PROVE ToldInv'
  <2>1. /\ UNCHANGED <<log, told, lost>>
        /\ \A v \in Workers \ {w} : notice'[v] = notice[v]
    BY <1>t, <1>f DEF FailToCommit, Abort, leaveVars, NoticesTypeOK
  <2>2. notice[w].leave \notin Leaves
    BY <1>f, SilentIsNotice, LeaveFlowAssumption DEF FailToCommit
  <2>3. \A m \in Leaves : Waiting(m)' = Waiting(m)
    BY <2>1 DEF Waiting
  <2>4. ASSUME NEW m \in Leaves
        PROVE  m \in lost' \/ (\E v \in Workers : Owes(v, m)') \/ Waiting(m)' \subseteq told'[m]
    <3>1. m \in lost \/ (\E v \in Workers : Owes(v, m)) \/ Waiting(m) \subseteq told[m]
      BY DEF ToldInv
    <3> QED BY <1>t, <2>1, <2>2, <2>3, <3>1, StillOwed
  <2> QED BY <1>t, <2>4 DEF ToldInv
\* Choosing the event and reading the recipients leave the announcement owed.
<1>5. ASSUME NEW w \in Workers, UNCHANGED <<log, told, lost>>,
             \A v \in Workers \ {w} : notice'[v] = notice[v],
             \A m \in Leaves : Owes(w, m) => Owes(w, m)' \/ m \in lost'
      PROVE  ToldInv'
  <2>1. \A m \in Leaves : Waiting(m)' = Waiting(m)
    BY <1>5 DEF Waiting
  <2>2. \A m \in Leaves : \A v \in Workers : Owes(v, m) => Owes(v, m)' \/ m \in lost'
    BY <1>5, <2>1 DEF Owes
  <2> QED BY <1>t, <1>5, <2>1, <2>2 DEF ToldInv
<1>6. ASSUME NEW w \in Workers, ChooseEvent(w) PROVE ToldInv'
  <2>1. PICK type \in {"LEAVE_WITHDRAWN", "LEAVE_WITHDRAWAL_PENDING"} :
          notice' = [notice EXCEPT ![w].step = "address", ![w].type = type]
    BY <1>6 DEF ChooseEvent
  <2>2. /\ notice'[w].step = "address" /\ notice'[w].type = type
        /\ notice'[w].leave = notice[w].leave
        /\ \A v \in Workers \ {w} : notice'[v] = notice[v]
    BY <1>t, <2>1 DEF NoticesTypeOK, Notice
  <2>3. \A m \in Leaves : Owes(w, m) => Owes(w, m)'
    BY <2>2 DEF Owes, MailsRecipients
  <2>4. UNCHANGED <<log, told, lost>>
    BY <1>6 DEF ChooseEvent, vars, leaveVars
  <2> QED BY <1>5, <2>2, <2>3, <2>4
<1>7. ASSUME NEW w \in Workers, GetRecipientsWaiting(w) PROVE ToldInv'
  <2> DEFINE to == {r \in Approvers :
                      log[notice[w].leave][r] \in {"WAITING", "SKIPPED"}}
  <2>1. notice' = [notice EXCEPT ![w].step = "publish", ![w].roles = to]
    BY <1>7 DEF GetRecipientsWaiting
  <2>2. Waiting(notice[w].leave) \subseteq to
    BY DEF Waiting
  <2>3. UNCHANGED <<log, told, lost>>
    BY <1>7 DEF GetRecipientsWaiting, vars, leaveVars
  <2> HIDE DEF to
  <2>4. /\ notice'[w].step = "publish" /\ notice'[w].roles = to
        /\ notice'[w].type = notice[w].type /\ notice'[w].leave = notice[w].leave
        /\ \A v \in Workers \ {w} : notice'[v] = notice[v]
    BY <1>t, <2>1 DEF NoticesTypeOK, Notice
  <2>5. ASSUME NEW m \in Leaves, Owes(w, m) PROVE Owes(w, m)'
    <3>1. notice[w].leave = m /\ Waiting(m)' = Waiting(m)
      BY <2>3, <2>5 DEF Owes, Waiting
    <3> QED BY <2>2, <2>4, <2>5, <3>1 DEF Owes
  <2> QED BY <1>5, <2>3, <2>4, <2>5
<1>8. ASSUME NEW w \in Workers, LoseNotice(w) PROVE ToldInv'
  <2>1. /\ lost' = lost \cup {notice[w].leave} /\ UNCHANGED <<log, told>>
        /\ \A v \in Workers \ {w} : notice'[v] = notice[v]
    BY <1>t, <1>8 DEF LoseNotice, NoticesTypeOK, vars, leaveVars
  <2>2. \A m \in Leaves : Waiting(m)' = Waiting(m)
    BY <2>1 DEF Waiting
  <2>3. ASSUME NEW m \in Leaves, NEW v \in Workers, Owes(v, m)
        PROVE  Owes(v, m)' \/ m \in lost'
    <3>1. CASE v = w
      BY <2>1, <2>3, <3>1 DEF Owes
    <3>2. CASE v # w
      <4>1. notice'[v] = notice[v]
        BY <2>1, <3>2
      <4> QED BY <2>1, <2>2, <2>3, <4>1 DEF Owes
    <3> QED BY <3>1, <3>2
  <2> QED BY <1>t, <2>1, <2>2, <2>3 DEF ToldInv
<1>9. UNCHANGED allVars => UNCHANGED <<log, noticeVars>>
  BY DEF allVars, vars, leaveVars
<1> QED
  BY <1>1, <1>2, <1>3, <1>4, <1>f, <1>6, <1>7, <1>8, <1>9 DEF NoticesNext

(***************************************************************************)
(* However many requests interleave, and whatever log they overwrite: once *)
(* the announcements of a leave are out and none was lost, every approver  *)
(* it waits for has been addressed since his stage began to wait.          *)
(***************************************************************************)
THEOREM ApproversAreTold == NoticesSpec => []WaitingApproversAreTold
<1>1. ToldInv => WaitingApproversAreTold
  BY DEF ToldInv, WaitingApproversAreTold, Owes
<1> QED BY <1>1, ToldInit, ToldNext, PTL DEF NoticesSpec
=============================================================================
