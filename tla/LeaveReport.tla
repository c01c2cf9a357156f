----------------------------- MODULE LeaveReport -----------------------------
(***************************************************************************)
(* The leave report of a window of months: what GetLeaveReportByRange      *)
(* shows of the leaves and the accruals, beside what the payroll counts of *)
(* the same leaves.                                                        *)
(*                                                                         *)
(* Payroll walks through the days of a month; the report shares out the    *)
(* days a leave was charged, in proportion to the working days that fall   *)
(* into the window.  Both read the holidays of today.                      *)
(***************************************************************************)
EXTENDS Payroll, Integers

CONSTANT SuperAdmins  \* employees in the role SUPERADMIN

ASSUME LeaveReportAssumption == SuperAdmins \subseteq Employees

(***************************************************************************)
(* GetLeaveReport: the window of a request; a range in the wrong order is  *)
(* refused.                                                                *)
(***************************************************************************)
Moments == [year : Nat, month : 1 .. 12]

Monthly(y, m) == [from |-> [year |-> y, month |-> m], to |-> [year |-> y, month |-> m]]

Yearly(y) == [from |-> [year |-> y, month |-> 1], to |-> [year |-> y, month |-> 12]]

IsRange(win) ==
  win.from.year * 12 + win.from.month <= win.to.year * 12 + win.to.month

\* The condition of accrual_summary on a row of the accrual log.
AccrualInWindow(a, win) ==
  \/ a.year > win.from.year /\ a.year < win.to.year
  \/ /\ a.year = win.from.year /\ a.month >= win.from.month
     /\ a.year < win.to.year \/ a.month <= win.to.month
  \/ /\ a.year = win.to.year /\ a.month <= win.to.month
     /\ a.year > win.from.year \/ a.month >= win.from.month

-----------------------------------------------------------------------------
(* The leaves of a report from one month to another. *)

OverlapFromTheFirstDay(q, from, to) ==
  Cardinality({d \in WorkingDays(q) : MonthOf[d] <= to})

\* leave_working_days: total_wd, and overlap_wd.
TotalDays(q) == Cardinality(WorkingDays(q))

OverlapDays(q, from, to) ==
  Cardinality({d \in WorkingDays(q) : from <= MonthOf[d] /\ MonthOf[d] <= to})

\* Whom the report lists.  (A search, or a role asked for, lists fewer.)
Listed(e) == e \in active \ SuperAdmins

\* Of approved leaves of those listed, the ones that touch the window and have a
\* working day in it.
Reported(q, from, to) ==
  /\ Listed(q.owner)
  /\ leave[q] # NoLeave /\ leave[q].status = "APPROVED"
  /\ MonthOf[q.first] <= to /\ MonthOf[q.last] >= from
  /\ OverlapDays(q, from, to) > 0

\* prorated_days, times total_wd: a fraction of the days charged.
ProratedDays(q, from, to) ==
  IF ~Reported(q, from, to) THEN 0
  ELSE IF TotalDays(q) = OverlapDays(q, from, to) THEN leave[q].days * TotalDays(q)
  ELSE OverlapDays(q, from, to) * leave[q].days

-----------------------------------------------------------------------------
LastMonth == MonthOf[Cardinality(Days)]

\* However the calendar is cut into two windows, and whatever holidays were
\* added or deleted since, the reports of both show of the leave of a listed
\* employee what the report of the whole shows: the days it was charged - or
\* nothing, if no working day is left of it.
ReportsShareOutTheCharge ==
  \A q \in Requests :
    Listed(q.owner) /\ leave[q] # NoLeave /\ leave[q].status = "APPROVED" =>
      /\ ProratedDays(q, 1, LastMonth) = leave[q].days * TotalDays(q)
      /\ \A m \in Months :
           ProratedDays(q, 1, m) + ProratedDays(q, m + 1, LastMonth)
             = ProratedDays(q, 1, LastMonth)

\* While the holidays are those the leave was applied for with, the report of
\* a month shows of it what the payslip of that month counts, if it lists the
\* employee, who may have been deactivated since.  Not so for a leave of several
\* half days.
ReportsAgreeWithPayroll ==
  \A q \in Requests :
    /\ Listed(q.owner) /\ leave[q] # NoLeave /\ leave[q].status = "APPROVED"
    /\ leave[q].seen = holidays /\ q.kind # "EARLY" /\ (q.half => q.first = q.last)
    => \A m \in Months :
         ProratedDays(q, m, m) = AbsentDays(q, m) * TotalDays(q)

(***************************************************************************)
(* The three places that count the days of a leave agree: the charge to    *)
(* the balance (CalculateWorkingDaysWithTiming), the payslips              *)
(* (CalculateAbsentDaysForMonth) and the leave report (BuildFullQuery),    *)
(* each as far as said above, and the report for those it lists.           *)
(***************************************************************************)
CountsAgree ==
  SplitMatchesCharge /\ ReportsShareOutTheCharge /\ ReportsAgreeWithPayroll
=============================================================================
