---------------------------- MODULE LeaveNotices ----------------------------
(***************************************************************************)
(* LeaveFlow with what every request does after its commit: it announces   *)
(* what happened to the approvers the leave now waits for.                 *)
(*                                                                         *)
(* The announcement is not part of the transaction.  Its statements go     *)
(* through the connection pool, one after the other: a withdrawal reads    *)
(* the status again to choose the event, then the approval log is read for *)
(* the roles to address, then the event is published.  Other requests      *)
(* commit in between, and each of these steps may fail, in which case the  *)
(* leave is changed and nobody is told.                                    *)
(***************************************************************************)
EXTENDS LeaveFlow

VARIABLES
  notice,   \* what each worker still has to announce
  told,     \* history: roles addressed since their stage began to wait
  lost      \* history: leaves of which an announcement was lost since the log
            \* was last written

noticeVars == <<notice, told, lost>>
allVars == <<vars, noticeVars>>

\* The events as the service names them; "WITHDRAW": not yet chosen.
EventTypes == {"LEAVE_APPLIED", "LEAVE_APPROVED", "LEAVE_REJECTED", "WITHDRAW",
               "LEAVE_WITHDRAWN", "LEAVE_WITHDRAWAL_PENDING", "LEAVE_CANCELLED"}

Notice ==
  [step : {"none", "choose", "address", "publish"},
   type : EventTypes,
   leave : Leaves \cup {NoLeave},
   roles : SUBSET Approvers]

Silent == [step |-> "none", type |-> "LEAVE_APPLIED", leave |-> NoLeave, roles |-> {}]

EventOf(op) ==
  CASE op \in {"CREATE", "EDIT"} -> "LEAVE_APPLIED"
    [] op = "APPROVE" -> "LEAVE_APPROVED"   \* also of one stage of several
    [] op = "REJECT" -> "LEAVE_REJECTED"
    [] op = "CANCEL" -> "LEAVE_CANCELLED"
    [] OTHER -> "WITHDRAW"

\* A cancellation is mailed to the employee alone.
MailsRecipients(type) == type # "LEAVE_CANCELLED"

Waiting(l) == {r \in Approvers : log[l][r] = "WAITING"}

NoticesInit ==
  /\ Init
  /\ notice = [w \in Workers |-> Silent]
  /\ told = [l \in Leaves |-> {}]
  /\ lost = {}

-----------------------------------------------------------------------------
\* The steps of a request before its commit, and those that end it without one.
Serve(w) ==
  /\ notice[w] = Silent
  /\ \/ StartCreate(w) \/ StartEdit(w) \/ CheckBooking(w) \/ StartCancel(w)
     \/ StartAction(w) \/ ReadApprovalLog(w) \/ Abort(w)
  /\ UNCHANGED noticeVars

Writes(w) ==
  \/ CommitCreate(w) \/ CommitEdit(w) \/ CommitCancel(w)
  \/ ApproveStage(w) \/ ApproveFinal(w) \/ RejectStage(w)
  \/ WithdrawStage(w) \/ WithdrawFinal(w)

\* The leave a commit is about: the new one, or the one of the request.
Concerns(w, l) ==
  IF job[w].op = "CREATE" THEN status[l] # status'[l] ELSE l = job[w].leave

Announcement(op, l) ==
  [step |-> IF op = "WITHDRAW" THEN "choose" ELSE "address",
   type |-> EventOf(op), leave |-> l, roles |-> {}]

\* A role whose stage begins to wait, or to wait again, has not been told.
StillTold(l) == told[l] \cap Waiting(l) \cap Waiting(l)'

CommitWithoutAnnouncingEdits(w) ==
  /\ notice[w] = Silent
  /\ Writes(w)
  /\ \E l \in Leaves :
       /\ Concerns(w, l)
       /\ notice' = IF job[w].op = "EDIT" THEN notice ELSE
            [notice EXCEPT ![w] = Announcement(job[w].op, l)]
       /\ told' = [told EXCEPT ![l] = StillTold(l)]
       /\ lost' = IF job[w].op = "CANCEL" THEN lost ELSE lost \ {l}

(***************************************************************************)
(* The transaction commits; the request goes on to its announcement.       *)
(***************************************************************************)
Commit(w) ==
  /\ notice[w] = Silent
  /\ Writes(w)
  /\ \E l \in Leaves :
       /\ Concerns(w, l)
       /\ notice' = [notice EXCEPT ![w] = Announcement(job[w].op, l)]
       /\ told' = [told EXCEPT ![l] = StillTold(l)]
       /\ lost' = IF job[w].op = "CANCEL" THEN lost ELSE lost \ {l}

(***************************************************************************)
(* COMMIT itself fails, of which ExecuteTransaction does not tell: nothing *)
(* is written, and the request announces its work all the same.  (A leave  *)
(* that was not inserted has no log, and nobody is addressed: Abort.)      *)
(***************************************************************************)
FailToCommit(w) ==
  /\ notice[w] = Silent
  /\ job[w].op \in Actions \cup {"EDIT"} /\ job[w].step = "checked"
  /\ Abort(w)
  /\ notice' = [notice EXCEPT ![w] = Announcement(job[w].op, job[w].leave)]
  /\ UNCHANGED <<told, lost>>

(***************************************************************************)
(* The status after a withdrawal, which may by now be another request's.   *)
(* Its error is ignored: a withdrawal that cannot be read is pending.      *)
(***************************************************************************)
ChooseEvent(w) ==
  /\ notice[w].step = "choose"
  /\ \E type \in {"LEAVE_WITHDRAWN", "LEAVE_WITHDRAWAL_PENDING"} :
       /\ type = "LEAVE_WITHDRAWN" => status[notice[w].leave] = "WITHDRAWN"
       /\ notice' = [notice EXCEPT ![w].step = "address", ![w].type = type]
  /\ UNCHANGED <<vars, told, lost>>

\* The roles that have to decide, and those no longer needed, as they are now.
GetRecipientsWaiting(w) ==
  /\ notice[w].step = "address"
  /\ notice' = [notice EXCEPT
       ![w].step = "publish",
       ![w].roles = {r \in Approvers :
                       log[notice[w].leave][r] \in {"WAITING", "SKIPPED"}}]
  /\ UNCHANGED <<vars, told, lost>>

Publish(w) ==
  LET n == notice[w] IN
  /\ n.step = "publish"
  /\ told' = IF MailsRecipients(n.type)
             THEN [told EXCEPT ![n.leave] = @ \cup (n.roles \cap Waiting(n.leave))]
             ELSE told
  /\ notice' = [notice EXCEPT ![w] = Silent]
  /\ UNCHANGED <<vars, lost>>

(***************************************************************************)
(* The employee, the log or the recipients cannot be read, the channel is  *)
(* full, or the process dies: the error is logged at best.                 *)
(***************************************************************************)
LoseNotice(w) ==
  /\ notice[w] # Silent
  /\ lost' = lost \cup {notice[w].leave}
  /\ notice' = [notice EXCEPT ![w] = Silent]
  /\ UNCHANGED <<vars, told>>

NoticesNext ==
  \E w \in Workers :
    \/ Serve(w) \/ Commit(w) \/ FailToCommit(w)
    \/ ChooseEvent(w) \/ GetRecipientsWaiting(w) \/ Publish(w) \/ LoseNotice(w)

NoticesSpec == NoticesInit /\ [][NoticesNext]_allVars
-----------------------------------------------------------------------------
NoticesTypeOK ==
  /\ TypeOK
  /\ notice \in [Workers -> Notice]
  /\ \A w \in Workers : notice[w] # Silent => notice[w].leave \in Leaves
  /\ told \in [Leaves -> SUBSET Approvers]
  /\ lost \subseteq Leaves

(***************************************************************************)
(* However requests interleave: once all announcements of a leave are out, *)
(* and none was lost since its log was last written, every approver it     *)
(* waits for has been addressed since his stage began to wait - the first  *)
(* time, again after an edit, or to confirm a withdrawal.  Nobody is asked *)
(* without knowing it, although the log is read after the commit and may   *)
(* be overwritten at any time, also by a request that judged an older one. *)
(***************************************************************************)
WaitingApproversAreTold ==
  \A l \in Leaves :
    l \in lost \/ (\E w \in Workers : notice[w].leave = l)
      \/ Waiting(l) \subseteq told[l]
=============================================================================
