----------------------------- MODULE ApprovalLog -----------------------------
(***************************************************************************)
(* The approval log of a leave: the JSON array of stages kept in           *)
(* Tbl_Leave_Flow.approval_log, and the pure functions that build, mutate  *)
(* and judge it.                                                           *)
(*                                                                         *)
(* An approval flow names a role at most once, so a log is a               *)
(* function from the roles of the flow to the state of their stage.  The   *)
(* state "NONE" marks a role whose stage was left out when the log was     *)
(* generated; a leave without any stage has no row in Tbl_Leave_Flow.      *)
(***************************************************************************)
EXTENDS ApprovalFlow

CONSTANT
  Stage     \* the approval flow of the leave type: role |-> stage number

Approvers == DOMAIN Stage

\* The empty flow stands for a leave type whose flow was deleted.
ASSUME StageAssumption == WellFormed(Stage)

StageStates == {"WAITING", "APPROVED", "REJECTED", "WITHDRAWN", "SKIPPED"}

Logs == [Approvers -> StageStates \cup {"NONE"}]

NoFlow == [r \in Approvers |-> "NONE"]

HasStage(log, r) == log[r] # "NONE"

HasFlow(log) == \E r \in Approvers : HasStage(log, r)

-----------------------------------------------------------------------------
\* Slips of the kind this code invites stand before the definition they
\* would replace; they are used to see that the properties can fail.
GenerateLogOfLeaveStatus(applicant) ==
  [r \in Approvers |->
     IF RoleAbove(r, applicant) THEN "Pending" ELSE "NONE"]

(***************************************************************************)
(* The roles above the applicant get a WAITING stage, the others none.     *)
(***************************************************************************)
GenerateApprovalLog(applicant) ==
  [r \in Approvers |->
     IF RoleAbove(r, applicant) THEN "WAITING" ELSE "NONE"]

StampStage(log, r, state) == [log EXCEPT ![r] = state]

SkipLowerStagesOnly(log, r) ==
  [q \in Approvers |->
     IF log[q] = "WAITING" /\ Stage[q] < Stage[r] THEN "SKIPPED" ELSE log[q]]

(***************************************************************************)
(* After role r approved: WAITING stages below r's, and r's WAITING        *)
(* siblings, are no longer needed.                                         *)
(***************************************************************************)
SkipStages(log, r) ==
  [q \in Approvers |->
     IF /\ log[q] = "WAITING"
        /\ Stage[q] < Stage[r] \/ (Stage[q] = Stage[r] /\ q # r)
     THEN "SKIPPED" ELSE log[q]]

SkipAllWaitingStages(log) ==
  [q \in Approvers |-> IF log[q] = "WAITING" THEN "SKIPPED" ELSE log[q]]

ResetKeepingHigherStages(log, r) ==
  [q \in Approvers |->
     IF q = r \/ log[q] \in {"NONE", "WITHDRAWN"} THEN log[q]
     ELSE IF Stage[q] <= Stage[r] THEN "SKIPPED" ELSE log[q]]

(***************************************************************************)
(* When role r withdraws: stages up to r's are no longer part of the       *)
(* chain, higher stages have to confirm; WITHDRAWN stages stay.            *)
(***************************************************************************)
ResetLogForWithdraw(log, r) ==
  [q \in Approvers |->
     IF q = r \/ log[q] \in {"NONE", "WITHDRAWN"} THEN log[q]
     ELSE IF Stage[q] <= Stage[r] THEN "SKIPPED" ELSE "WAITING"]

AllStagesSettled(log) ==
  \A r \in Approvers : HasStage(log, r) => log[r] \in {"APPROVED", "SKIPPED"}

AllStagesSettledForWithdraw(log) ==
  \A r \in Approvers : HasStage(log, r) => log[r] \in {"WITHDRAWN", "SKIPPED"}

-----------------------------------------------------------------------------
\* The log each processor writes back for the acting role r.
ApprovedLog(log, r)  == SkipStages(StampStage(log, r, "APPROVED"), r)

RejectedLog(log, r)  == SkipAllWaitingStages(StampStage(log, r, "REJECTED"))

WithdrawnLog(log, r) == StampStage(ResetLogForWithdraw(log, r), r, "WITHDRAWN")
=============================================================================
