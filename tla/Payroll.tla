------------------------------- MODULE Payroll -------------------------------
(***************************************************************************)
(* The monthly payroll: preview runs, and their finalization into          *)
(* payslips.                                                               *)
(*                                                                         *)
(* RunPayroll inserts a run in status PREVIEW.  FinalizePayroll reads the  *)
(* status of the run, then opens a transaction, lists the employees, and   *)
(* inserts one payslip after the other; what each was absent is read       *)
(* outside the transaction.  Meanwhile leaves are approved and withdrawn,  *)
(* holidays come and go, and people are deactivated and activated.         *)
(*                                                                         *)
(* Days are counted in halves.  Salaries and amounts are left out: a       *)
(* deduction is proportional to the unpaid days of the payslip.            *)
(***************************************************************************)
EXTENDS Naturals, Sequences, FiniteSets, FiniteSetsExt, TLC

CONSTANTS
  Employees,
  Steady,        \* employees who are never deactivated
  Joined,        \* month of joining of each employee
  MonthOf,       \* the calendar: month of each day, a sequence
  Weekend,       \* Saturdays and Sundays
  HolidayDates,  \* days that may be made a holiday
  Requests,      \* leaves that may be applied for: [owner, first, last, half, kind]
  NoLeave,
  Runs,          \* identifiers of payroll runs: bounds their number
  NoRun,
  Workers,       \* requests to the payroll served at the same time
  MaxMonth,      \* the current month stops here
  ReadsFail      \* may the reads fail whose errors the code ignores?

Days == DOMAIN MonthOf
Months == {MonthOf[d] : d \in Days}
Kinds == {"PAID", "UNPAID", "EARLY"}

Run == [month : Months, status : {"PREVIEW", "FINALIZED"}]
Leave == [status : {"PENDING", "APPROVED"}, days : Nat \ {0}, seen : SUBSET HolidayDates]

ASSUME PayrollAssumption ==
  /\ Steady \subseteq Employees
  /\ Joined \in [Employees -> Nat]
  /\ MonthOf \in Seq(Nat \ {0})
  /\ \A d \in Days, c \in Days : c <= d => MonthOf[c] <= MonthOf[d]
  /\ Weekend \subseteq Days /\ HolidayDates \subseteq Days
  /\ Requests \subseteq [owner : Employees, first : Days, last : Days, half : BOOLEAN, kind : Kinds]
  /\ IsFiniteSet(Requests) /\ \A q \in Requests : q.first <= q.last
  /\ NoRun \notin Run /\ NoLeave \notin Leave
  /\ MaxMonth \in Nat \ {0}
  /\ ReadsFail \in BOOLEAN

VARIABLES
  month,     \* the current month
  active,    \* employees in status active
  holidays,  \* Tbl_Holiday
  leave,     \* Tbl_Leave: status, days, and the holidays they were computed with
  runs,      \* Tbl_Payroll_run
  slips,     \* Tbl_Payslip, committed: of each run, by employee
  worker     \* what each request is doing

vars == <<month, active, holidays, leave, runs, slips, worker>>

Summary == [paid : Nat, unpaid : Nat, early : Nat]
NoSlip == <<>>
NoSlips == [e \in Employees |-> NoSlip]
Slips == [Employees -> Summary \cup {NoSlip}]

Idle == [op |-> "IDLE"]

Init ==
  /\ month = 1
  /\ active = Employees
  /\ holidays = {}
  /\ leave = [q \in Requests |-> NoLeave]
  /\ runs = [r \in Runs |-> NoRun]
  /\ slips = [r \in Runs |-> NoSlips]
  /\ worker = [w \in Workers |-> Idle]

-----------------------------------------------------------------------------
(* The leaves of an employee. *)

HolidaysBetween(first, last) == holidays \cap (first .. last)

WorkdaysWithout(q, off) == (q.first .. q.last) \ (Weekend \cup off)

WorkingDays(q) == WorkdaysWithout(q, HolidaysBetween(q.first, q.last))

\* An early leave has a time of its own, which overrides the half day.
LeaveDays(q) ==
  Cardinality(WorkingDays(q)) * (IF q.half /\ q.kind # "EARLY" THEN 1 ELSE 2)

Overlap(p, q) == p.owner = q.owner /\ p.first <= q.last /\ q.first <= p.last

\* CalculateAbsentDaysForMonth: what a leave contributes to a month, whose
\* holidays were found to be off.
AbsentDaysPastTheMonth(q, m, off) ==
  LET worked == {d \in WorkdaysWithout(q, off) : MonthOf[d] >= m}
      each   == IF q.first = q.last /\ leave[q].days < 2 THEN leave[q].days ELSE 2
  IN Cardinality(worked) * each

AbsentDaysWith(q, m, off) ==
  LET worked == {d \in WorkdaysWithout(q, off) : MonthOf[d] = m}
      each   == IF q.first = q.last /\ leave[q].days < 2 THEN leave[q].days ELSE 2
  IN Cardinality(worked) * each

AbsentDays(q, m) == AbsentDaysWith(q, m, holidays)

Approved(e, m, kind) ==
  {q \in Requests : /\ q.owner = e /\ q.kind = kind
                    /\ leave[q] # NoLeave /\ leave[q].status = "APPROVED"
                    /\ MonthOf[q.first] <= m /\ m <= MonthOf[q.last]}

AbsentIn(e, m, kind, off) ==
  LET leaves == Approved(e, m, kind)
  IN  SumFunctionOnSet([q \in leaves |-> AbsentDaysWith(q, m, off)], leaves)

EarlyLeaveIn(e, m) ==
  LET leaves == Approved(e, m, "EARLY")
  IN  SumFunctionOnSet([q \in leaves |-> leave[q].days], leaves)

LeaveSummary(e, m, off, early) ==
  [paid   |-> AbsentIn(e, m, "PAID", off),
   unpaid |-> AbsentIn(e, m, "UNPAID", off),
   early  |-> early]

NoAbsence == [paid |-> 0, unpaid |-> 0, early |-> 0]

\* Each of three queries may fail, and the payslip is written all the same: no
\* leaves, no holidays, no early leaves.
Summaries(e, m) ==
  IF ReadsFail
  THEN {NoAbsence} \cup {LeaveSummary(e, m, off, early) :
                           off \in {holidays, {}}, early \in {EarlyLeaveIn(e, m), 0}}
  ELSE {LeaveSummary(e, m, holidays, EarlyLeaveIn(e, m))}

\* Written by the leave flow, abridged: a leave withdrawn may be applied for
\* again, as a new row.
Apply(q) ==
  /\ leave[q] = NoLeave /\ LeaveDays(q) > 0
  /\ \A p \in Requests : Overlap(p, q) => leave[p] = NoLeave
  /\ leave' = [leave EXCEPT ![q] = [status |-> "PENDING", days |-> LeaveDays(q), seen |-> holidays]]
  /\ UNCHANGED <<month, active, holidays, runs, slips, worker>>

Approve(q) ==
  /\ leave[q] # NoLeave /\ leave[q].status = "PENDING"
  /\ leave' = [leave EXCEPT ![q].status = "APPROVED"]
  /\ UNCHANGED <<month, active, holidays, runs, slips, worker>>

Withdraw(q) ==
  /\ leave[q] # NoLeave /\ leave[q].status = "APPROVED"
  /\ leave' = [leave EXCEPT ![q] = NoLeave]
  /\ UNCHANGED <<month, active, holidays, runs, slips, worker>>

AddHoliday(d) ==
  /\ d \notin holidays
  /\ holidays' = holidays \cup {d}
  /\ UNCHANGED <<month, active, leave, runs, slips, worker>>

DeleteHoliday(d) ==
  /\ d \in holidays
  /\ holidays' = holidays \ {d}
  /\ UNCHANGED <<month, active, leave, runs, slips, worker>>

DeleteEmployeeStatus(e) ==
  /\ active' = IF e \in active THEN active \ {e} ELSE active \cup {e}
  /\ UNCHANGED <<month, holidays, leave, runs, slips, worker>>

NextMonth ==
  /\ month < MaxMonth
  /\ month' = month + 1
  /\ UNCHANGED <<active, holidays, leave, runs, slips, worker>>

-----------------------------------------------------------------------------
(* The payroll. *)

Finalized(r) == runs[r] # NoRun /\ runs[r].status = "FINALIZED"
RunsOf(m) == {r \in Runs : runs[r] # NoRun /\ runs[r].month = m}

\* GetExitstingpayload returns any one of the runs of the month, and only that
\* one has to be unfinalized; an error, whatever it is, counts as no run.
StartRun(w, m) ==
  /\ worker[w] = Idle /\ m < month
  /\ ReadsFail \/ RunsOf(m) = {} \/ \E r \in RunsOf(m) : ~Finalized(r)
  /\ worker' = [worker EXCEPT ![w] = [op |-> "RUN", month |-> m]]
  /\ UNCHANGED <<month, active, holidays, leave, runs, slips>>

InsertRun(w) ==
  /\ worker[w].op = "RUN"
  /\ \E r \in Runs :
       /\ runs[r] = NoRun
       /\ runs' = [runs EXCEPT ![r] = [month |-> worker[w].month, status |-> "PREVIEW"]]
  /\ worker' = [worker EXCEPT ![w] = Idle]
  /\ UNCHANGED <<month, active, holidays, leave, slips>>

StartFinalize(w, r) ==
  /\ worker[w] = Idle
  /\ runs[r] # NoRun /\ runs[r].status = "PREVIEW"
  /\ worker' = [worker EXCEPT ![w] = [op |-> "FINALIZE", run |-> r]]
  /\ UNCHANGED <<month, active, holidays, leave, runs, slips>>

OnPayroll(m) == {e \in active : Joined[e] <= m}

ListOnlyEarlierJoiners(w) ==
  /\ worker[w].op = "FINALIZE"
  /\ worker' = [worker EXCEPT ![w] =
       [op |-> "PAY", run |-> worker[w].run, paid |-> NoSlips,
        todo |-> {e \in active : Joined[e] < runs[worker[w].run].month}]]
  /\ UNCHANGED <<month, active, holidays, leave, runs, slips>>

ListEmployees(w) ==
  /\ worker[w].op = "FINALIZE"
  /\ worker' = [worker EXCEPT ![w] =
       [op |-> "PAY", run |-> worker[w].run, paid |-> NoSlips,
        todo |-> OnPayroll(runs[worker[w].run].month)]]
  /\ UNCHANGED <<month, active, holidays, leave, runs, slips>>

\* paid_leaves is an INT column: a payslip with half a day of paid leave is
\* refused, and Abort is all that is left.
Insertable(summary) == summary.paid % 2 = 0

\* UNIQUE (payroll_run_id, employee_id): an insert of the same payslip waits for
\* a transaction that has inserted it and not committed, and fails if that one
\* has committed.
Unique(w, e) ==
  /\ slips[worker[w].run][e] = NoSlip
  /\ \A v \in Workers \ {w} :
       worker[v].op = "PAY" /\ worker[v].run = worker[w].run => worker[v].paid[e] = NoSlip

InsertDuplicateSlip(w, e) ==
  /\ worker[w].op = "PAY" /\ e \in worker[w].todo
  /\ \E summary \in Summaries(e, runs[worker[w].run].month) :
       /\ Insertable(summary)
       /\ worker' = [worker EXCEPT ![w].todo = @ \ {e}, ![w].paid[e] = summary]
  /\ UNCHANGED <<month, active, holidays, leave, runs, slips>>

InsertSlipOutsideTheTransaction(w, e) ==
  /\ worker[w].op = "PAY" /\ e \in worker[w].todo
  /\ Unique(w, e)
  /\ \E summary \in Summaries(e, runs[worker[w].run].month) :
       /\ Insertable(summary)
       /\ slips' = [slips EXCEPT ![worker[w].run][e] = summary]
       /\ worker' = [worker EXCEPT ![w].todo = @ \ {e}]
  /\ UNCHANGED <<month, active, holidays, leave, runs>>

InsertSlip(w, e) ==
  /\ worker[w].op = "PAY" /\ e \in worker[w].todo
  /\ Unique(w, e)
  /\ \E summary \in Summaries(e, runs[worker[w].run].month) :
       /\ Insertable(summary)
       /\ worker' = [worker EXCEPT ![w].todo = @ \ {e}, ![w].paid[e] = summary]
  /\ UNCHANGED <<month, active, holidays, leave, runs, slips>>

Merge(issued, paid) == [e \in Employees |-> IF paid[e] # NoSlip THEN paid[e] ELSE issued[e]]

\* The update does not look at the status again.
CommitFinalize(w) ==
  /\ worker[w].op = "PAY" /\ worker[w].todo = {}
  /\ LET r == worker[w].run
     IN  /\ slips' = [slips EXCEPT ![r] = Merge(@, worker[w].paid)]
         /\ runs' = [runs EXCEPT ![r].status = "FINALIZED"]
  /\ worker' = [worker EXCEPT ![w] = Idle]
  /\ UNCHANGED <<month, active, holidays, leave>>

\* Any statement may fail, and the process may stop: nothing is written.
Abort(w) ==
  /\ worker[w] # Idle
  /\ worker' = [worker EXCEPT ![w] = Idle]
  /\ UNCHANGED <<month, active, holidays, leave, runs, slips>>

Next ==
  \/ \E q \in Requests : Apply(q) \/ Approve(q) \/ Withdraw(q)
  \/ \E d \in HolidayDates : AddHoliday(d) \/ DeleteHoliday(d)
  \/ \E e \in Employees \ Steady : DeleteEmployeeStatus(e)
  \/ NextMonth
  \/ \E w \in Workers :
       \/ \E m \in Months : StartRun(w, m)
       \/ \E r \in Runs : StartFinalize(w, r)
       \/ \E e \in Employees : InsertSlip(w, e)
       \/ InsertRun(w) \/ ListEmployees(w) \/ CommitFinalize(w) \/ Abort(w)

Spec == Init /\ [][Next]_vars

-----------------------------------------------------------------------------
(***************************************************************************)
(* Types, of a request and of the tables.                                  *)
(***************************************************************************)
TypeOK ==
  /\ month \in 1 .. MaxMonth
  /\ Steady \subseteq active /\ active \subseteq Employees
  /\ holidays \subseteq HolidayDates
  /\ leave \in [Requests -> Leave \cup {NoLeave}]
  /\ runs \in [Runs -> Run \cup {NoRun}]
  /\ slips \in [Runs -> Slips]
  /\ \A r \in Runs : slips[r] # NoSlips => Finalized(r)
  /\ DOMAIN worker = Workers
  /\ \A w \in Workers :
       \/ worker[w] \in {Idle} \cup [op : {"RUN"}, month : Months] \cup [op : {"FINALIZE"}, run : Runs]
       \/ /\ DOMAIN worker[w] = {"op", "run", "paid", "todo"} /\ worker[w].op = "PAY"
          /\ worker[w].run \in Runs /\ runs[worker[w].run] # NoRun
          /\ worker[w].paid \in Slips /\ worker[w].todo \subseteq Employees

(***************************************************************************)
(* A payslip once issued stays as it is, whatever becomes of the leaves it *)
(* was computed from, and whoever finalizes the run at the same time       *)
(* (FinalizePayroll, the constraint uq_payroll_employee).                  *)
(***************************************************************************)
IssuedSlipIsFinal ==
  [][\A r \in Runs, e \in Employees :
       slips[r][e] # NoSlip => slips'[r][e] = slips[r][e]]_vars

(***************************************************************************)
(* A finalized run has a payslip of everybody who had joined by its month  *)
(* and was active all along: a finalization that fails half way leaves     *)
(* nothing (FinalizePayroll).  Who had joined is what the column said when *)
(* the run was finalized: UpdateEmployeeInfo may move the date afterwards, *)
(* and here it does not move.                                              *)
(***************************************************************************)
EveryoneIsPaid ==
  \A r \in Runs : Finalized(r) =>
    \A e \in Steady : Joined[e] <= runs[r].month => slips[r][e] # NoSlip

(***************************************************************************)
(* The payroll of all months together counts of a leave the days it was    *)
(* charged (CalculateAbsentDaysForMonth against                            *)
(* CalculateWorkingDaysWithTiming), and fewer when holidays were added     *)
(* since.  Not so for a leave of several half days, nor once a holiday was *)
(* deleted.                                                                *)
(***************************************************************************)
SplitMatchesCharge ==
  \A q \in Requests :
    /\ leave[q] # NoLeave /\ q.kind # "EARLY"
    /\ q.half => q.first = q.last
    => LET counted == SumFunctionOnSet([m \in Months |-> AbsentDays(q, m)], Months)
       IN  /\ leave[q].seen \subseteq holidays => counted <= leave[q].days
           /\ leave[q].seen = holidays => counted = leave[q].days

(***************************************************************************)
(* payroll.go: "Payroll for this month and year is already finalized.      *)
(* Cannot run payroll again."  A month is finalized once.                  *)
(***************************************************************************)
OneFinalizedRun ==
  \A r, s \in Runs :
    Finalized(r) /\ Finalized(s) /\ runs[r].month = runs[s].month => r = s
=============================================================================
