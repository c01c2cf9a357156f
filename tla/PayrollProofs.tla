---------------------------- MODULE PayrollProofs ----------------------------
(***************************************************************************)
(* Proofs about Payroll and LeaveReport: for any staff, calendar and       *)
(* number of requests a finalized run pays everybody it has to, and an     *)
(* issued payslip stays; and, for all years, which accruals are in the     *)
(* window of a leave report.                                               *)
(***************************************************************************)
EXTENDS LeaveReport, SumTheorems

-----------------------------------------------------------------------------
(* Payslips.                                                               *)

Pays(w) == worker[w].op = "PAY"

\* What a request to the payroll remembers is about a run that exists.
Remembers(w) ==
  /\ worker[w].op \in {"FINALIZE", "PAY"} =>
       worker[w].run \in Runs /\ runs[worker[w].run] \in Run
  /\ worker[w].op = "RUN" => worker[w].month \in Months
  /\ Pays(w) => /\ DOMAIN worker[w] = {"op", "run", "paid", "todo"}
                /\ DOMAIN worker[w].paid = Employees

\* Whom a finalization has to pay it has paid, or is yet to pay.
NobodyForgotten(w) ==
  Pays(w) => \A e \in Steady :
    Joined[e] <= runs[worker[w].run].month
      => e \in worker[w].todo \/ worker[w].paid[e] # NoSlip

\* UNIQUE: what it has inserted nobody has committed ...
NotIssued(w) ==
  Pays(w) => \A e \in Employees :
    worker[w].paid[e] # NoSlip => slips[worker[w].run][e] = NoSlip

\* ... nor inserted, for the same run.
Apart(v, w) ==
  Pays(v) /\ Pays(w) /\ worker[v].run = worker[w].run
    => \A e \in Employees : worker[v].paid[e] = NoSlip \/ worker[w].paid[e] = NoSlip

Tables ==
  /\ Steady \subseteq active
  /\ runs \in [Runs -> Run \cup {NoRun}]
  /\ DOMAIN slips = Runs
  /\ \A r \in Runs : DOMAIN slips[r] = Employees
  /\ DOMAIN worker = Workers

PayInv ==
  /\ Tables
  /\ \A w \in Workers : Remembers(w) /\ NobodyForgotten(w) /\ NotIssued(w)
  /\ \A v \in Workers, w \in Workers : v # w => Apart(v, w)
  /\ EveryoneIsPaid

LEMMA RunIsNotNoRun == \A x \in Run : x # NoRun
BY PayrollAssumption

LEMMA SummaryIsASlip ==
  ASSUME NEW e, NEW m, NEW summary \in Summaries(e, m)
  PROVE  summary # NoSlip
<1>1. /\ \A off, early : "paid" \in DOMAIN LeaveSummary(e, m, off, early)
      /\ "paid" \in DOMAIN NoAbsence
  BY DEF LeaveSummary, NoAbsence
<1>2. DOMAIN NoSlip = {}
  BY DEF NoSlip
<1> QED BY <1>1, <1>2 DEF Summaries

LEMMA InitPay == Init => PayInv
<1> SUFFICES ASSUME Init PROVE PayInv
  OBVIOUS
<1>1. Tables
  BY PayrollAssumption DEF Init, Tables, NoSlips
<1>2. \A w \in Workers : worker[w].op = "IDLE"
  BY DEF Init, Idle
<1>3. \A r \in Runs : ~Finalized(r)
  BY DEF Init, Finalized
<1> QED
  BY <1>1, <1>2, <1>3
  DEF PayInv, Remembers, NobodyForgotten, NotIssued, Apart, Pays, EveryoneIsPaid

\* A request goes on to something else; the tables are as they were.
LEMMA OneRequestMoves ==
  ASSUME PayInv, NEW w \in Workers, NEW b, worker' = [worker EXCEPT ![w] = b],
         UNCHANGED <<active, runs, slips>>,
         Remembers(w)', NobodyForgotten(w)', NotIssued(w)',
         \A v \in Workers : v # w => Apart(v, w)' /\ Apart(w, v)'
  PROVE  PayInv'
<1>1. DOMAIN worker' = Workers /\ \A v \in Workers : v # w => worker'[v] = worker[v]
  BY DEF PayInv, Tables
<1>2. Tables'
  BY <1>1 DEF PayInv, Tables
<1>3. ASSUME NEW v \in Workers
      PROVE  Remembers(v)' /\ NobodyForgotten(v)' /\ NotIssued(v)'
  <2>1. CASE v = w
    BY <2>1
  <2>2. CASE v # w
    BY <1>1, <2>2 DEF PayInv, Remembers, NobodyForgotten, NotIssued, Pays
  <2> QED BY <2>1, <2>2
<1>4. ASSUME NEW u \in Workers, NEW v \in Workers, u # v PROVE Apart(u, v)'
  <2>1. CASE u = w \/ v = w
    BY <1>4, <2>1
  <2>2. CASE u # w /\ v # w
    BY <1>1, <1>4, <2>2 DEF PayInv, Apart, Pays
  <2> QED BY <2>1, <2>2
<1>5. EveryoneIsPaid'
  BY DEF PayInv, EveryoneIsPaid, Finalized
<1> QED BY <1>2, <1>3, <1>4, <1>5 DEF PayInv

LEMMA NextPay == PayInv /\ [Next]_vars => PayInv'
<1> SUFFICES ASSUME PayInv, [Next]_vars PROVE PayInv'
  OBVIOUS
<1>t. Tables /\ \A w \in Workers : Remembers(w)
  BY DEF PayInv
<1>1. ASSUME UNCHANGED <<runs, slips, worker>>, Steady \subseteq active' PROVE PayInv'
  BY <1>1 DEF PayInv, Tables, Remembers, NobodyForgotten, NotIssued, Apart, Pays,
              EveryoneIsPaid, Finalized
<1>2. ASSUME NEW q \in Requests, Apply(q) \/ Approve(q) \/ Withdraw(q) PROVE PayInv'
  BY <1>1, <1>2, <1>t DEF Apply, Approve, Withdraw, Tables
<1>3. ASSUME NEW d \in HolidayDates, AddHoliday(d) \/ DeleteHoliday(d) PROVE PayInv'
  BY <1>1, <1>3, <1>t DEF AddHoliday, DeleteHoliday, Tables
<1>4. ASSUME NEW e \in Employees \ Steady, DeleteEmployeeStatus(e) PROVE PayInv'
  BY <1>1, <1>4, <1>t DEF DeleteEmployeeStatus, Tables
<1>5. CASE NextMonth
  BY <1>1, <1>5, <1>t DEF NextMonth, Tables
\* A request that does not pay afterwards.
<1>6. ASSUME NEW w \in Workers, NEW b, worker' = [worker EXCEPT ![w] = b],
             b.op # "PAY", UNCHANGED <<active, runs, slips>>,
             b.op = "FINALIZE" => b.run \in Runs /\ runs[b.run] \in Run,
             b.op = "RUN" => b.month \in Months
      PROVE  PayInv'
  <2>1. worker'[w] = b
    BY <1>6, <1>t DEF Tables
  <2>2. Remembers(w)' /\ NobodyForgotten(w)' /\ NotIssued(w)'
    BY <1>6, <2>1 DEF Remembers, NobodyForgotten, NotIssued, Pays
  <2>3. \A v \in Workers : Apart(v, w)' /\ Apart(w, v)'
    BY <1>6, <2>1 DEF Apart, Pays
  <2> QED BY <1>6, <2>2, <2>3, OneRequestMoves
<1>7. ASSUME NEW w \in Workers, NEW m \in Months, StartRun(w, m) PROVE PayInv'
  <2>1. PICK b : /\ b = [op |-> "RUN", month |-> m]
                 /\ worker' = [worker EXCEPT ![w] = b]
    BY <1>7 DEF StartRun
  <2>2. b.op = "RUN" /\ b.month \in Months
    BY <2>1
  <2>3. UNCHANGED <<active, runs, slips>>
    BY <1>7 DEF StartRun
  <2> QED BY <1>6, <2>1, <2>2, <2>3
<1>8. ASSUME NEW w \in Workers, NEW r \in Runs, StartFinalize(w, r) PROVE PayInv'
  <2>1. runs[r] \in Run
    BY <1>8, <1>t DEF StartFinalize, Tables
  <2>2. PICK b : /\ b = [op |-> "FINALIZE", run |-> r]
                 /\ worker' = [worker EXCEPT ![w] = b]
    BY <1>8 DEF StartFinalize
  <2>3. b.op = "FINALIZE" /\ b.run \in Runs /\ runs[b.run] \in Run
    BY <2>1, <2>2
  <2>4. UNCHANGED <<active, runs, slips>>
    BY <1>8 DEF StartFinalize
  <2> QED BY <1>6, <2>2, <2>3, <2>4
<1>9. ASSUME NEW w \in Workers, Abort(w) PROVE PayInv'
  <2>1. Idle.op = "IDLE"
    BY DEF Idle
  <2>2. worker' = [worker EXCEPT ![w] = Idle] /\ UNCHANGED <<active, runs, slips>>
    BY <1>9 DEF Abort
  <2> QED BY <1>6, <2>1, <2>2
<1>10. ASSUME NEW w \in Workers, ListEmployees(w) PROVE PayInv'
  <2>1. PICK r \in Runs : r = worker[w].run /\ runs[r] \in Run
    BY <1>10, <1>t DEF ListEmployees, Remembers
  <2>2. PICK b : /\ b = [op |-> "PAY", run |-> r, paid |-> NoSlips,
                          todo |-> OnPayroll(runs[r].month)]
                 /\ worker' = [worker EXCEPT ![w] = b]
    BY <1>10, <2>1 DEF ListEmployees
  <2>3. UNCHANGED <<active, runs, slips>>
    BY <1>10 DEF ListEmployees
  <2>4. worker'[w] = b
    BY <2>2, <1>t DEF Tables
  <2>5. \A e \in Employees : b.paid[e] = NoSlip
    BY <2>2 DEF NoSlips
  <2>6. DOMAIN b = {"op", "run", "paid", "todo"} /\ DOMAIN b.paid = Employees
    BY <2>2 DEF NoSlips
  <2>7. Remembers(w)' /\ NotIssued(w)'
    BY <2>1, <2>2, <2>3, <2>4, <2>5, <2>6 DEF Remembers, NotIssued, Pays
  <2>8. NobodyForgotten(w)'
    BY <2>2, <2>3, <2>4, <1>t, PayrollAssumption DEF NobodyForgotten, Pays, OnPayroll, Tables
  <2>9. \A v \in Workers : Apart(v, w)' /\ Apart(w, v)'
    BY <2>4, <2>5 DEF Apart
  <2> QED BY <2>2, <2>3, <2>7, <2>8, <2>9, OneRequestMoves
<1>11. ASSUME NEW w \in Workers, NEW e \in Employees, InsertSlip(w, e) PROVE PayInv'
  <2>1. PICK s : /\ s # NoSlip
                 /\ worker' = [worker EXCEPT ![w].todo = @ \ {e}, ![w].paid[e] = s]
    BY <1>11, SummaryIsASlip DEF InsertSlip
  <2>2. /\ UNCHANGED <<active, runs, slips>> /\ Pays(w) /\ Unique(w, e)
        /\ DOMAIN worker[w] = {"op", "run", "paid", "todo"}
        /\ DOMAIN worker[w].paid = Employees
    BY <1>11, <1>t DEF InsertSlip, Remembers, Pays
  <2>3. PICK b : /\ b = [worker[w] EXCEPT !.todo = @ \ {e}, !.paid[e] = s]
                 /\ worker' = [worker EXCEPT ![w] = b]
    BY <2>1
  <2>4. /\ b.op = "PAY" /\ b.run = worker[w].run /\ b.todo = worker[w].todo \ {e}
        /\ DOMAIN b = {"op", "run", "paid", "todo"} /\ DOMAIN b.paid = Employees
        /\ b.paid[e] = s
        /\ \A d \in Employees : d # e => b.paid[d] = worker[w].paid[d]
    BY <2>2, <2>3 DEF Pays
  <2>5. worker'[w] = b /\ \A v \in Workers : v # w => worker'[v] = worker[v]
    BY <2>3, <1>t DEF Tables
  <2>6. Remembers(w)'
    BY <2>2, <2>4, <2>5, <1>t DEF Remembers, Pays
  <2>7. NobodyForgotten(w)'
    BY <2>1, <2>2, <2>4, <2>5, PayrollAssumption DEF PayInv, NobodyForgotten, Pays
  <2>8. NotIssued(w)'
    BY <2>2, <2>4, <2>5 DEF PayInv, NotIssued, Pays, Unique
  <2>9. ASSUME NEW v \in Workers, v # w PROVE Apart(v, w)' /\ Apart(w, v)'
    BY <2>2, <2>4, <2>5, <2>9 DEF PayInv, Apart, Pays, Unique
  <2> QED BY <2>2, <2>3, <2>6, <2>7, <2>8, <2>9, OneRequestMoves
<1>12. ASSUME NEW w \in Workers, InsertRun(w) PROVE PayInv'
  <2>1. PICK r \in Runs :
          /\ runs[r] = NoRun
          /\ runs' = [runs EXCEPT ![r] = [month |-> worker[w].month, status |-> "PREVIEW"]]
    BY <1>12 DEF InsertRun
  <2>2. /\ worker' = [worker EXCEPT ![w] = Idle]
        /\ UNCHANGED <<active, slips>> /\ worker[w].op = "RUN"
    BY <1>12 DEF InsertRun
  <2>3. /\ worker'[w].op = "IDLE" /\ DOMAIN worker' = Workers
        /\ \A v \in Workers : v # w => worker'[v] = worker[v]
    BY <2>2, <1>t DEF Tables, Idle
  <2>4. worker[w].month \in Months
    BY <2>2, <1>t DEF Remembers
  <2>5. /\ runs' \in [Runs -> Run \cup {NoRun}]
        /\ \A s \in Runs : s # r => runs'[s] = runs[s]
        /\ runs'[r].status = "PREVIEW"
    BY <2>1, <2>4, <1>t DEF Tables, Run
  <2>6. \A s \in Runs : runs[s] \in Run => runs'[s] = runs[s]
    BY <2>1, <2>5, RunIsNotNoRun
  <2>7. Tables'
    BY <2>2, <2>3, <2>5, <1>t DEF Tables
  <2>8. ASSUME NEW v \in Workers
        PROVE  Remembers(v)' /\ NobodyForgotten(v)' /\ NotIssued(v)'
    BY <2>2, <2>3, <2>6 DEF PayInv, Remembers, NobodyForgotten, NotIssued, Pays
  <2>9. ASSUME NEW u \in Workers, NEW v \in Workers, u # v PROVE Apart(u, v)'
    BY <2>3, <2>9 DEF PayInv, Apart, Pays
  <2>10. EveryoneIsPaid'
    BY <2>2, <2>5 DEF PayInv, EveryoneIsPaid, Finalized
  <2> QED BY <2>7, <2>8, <2>9, <2>10 DEF PayInv
<1>13. ASSUME NEW w \in Workers, CommitFinalize(w) PROVE PayInv'
  <2>1. PICK r \in Runs : r = worker[w].run /\ runs[r] \in Run
    BY <1>13, <1>t DEF CommitFinalize, Remembers
  <2>2. /\ slips' = [slips EXCEPT ![r] = Merge(@, worker[w].paid)]
        /\ runs' = [runs EXCEPT ![r].status = "FINALIZED"]
        /\ worker' = [worker EXCEPT ![w] = Idle]
        /\ UNCHANGED active /\ Pays(w) /\ worker[w].todo = {}
    BY <1>13, <2>1 DEF CommitFinalize, Pays
  <2>3. /\ worker'[w].op = "IDLE" /\ DOMAIN worker' = Workers
        /\ \A v \in Workers : v # w => worker'[v] = worker[v]
    BY <2>2, <1>t DEF Tables, Idle
  <2>4. /\ runs'[r] \in Run /\ runs'[r].month = runs[r].month
        /\ \A s \in Runs : s # r => runs'[s] = runs[s]
        /\ runs' \in [Runs -> Run \cup {NoRun}]
    BY <2>1, <2>2, <1>t DEF Tables, Run
  <2>5. /\ \A s \in Runs : s # r => slips'[s] = slips[s]
        /\ slips'[r] = Merge(slips[r], worker[w].paid)
        /\ DOMAIN slips' = Runs
    BY <2>2, <1>t DEF Tables
  <2>6. /\ DOMAIN slips'[r] = Employees
        /\ \A e \in Employees :
             slips'[r][e] = IF worker[w].paid[e] # NoSlip THEN worker[w].paid[e]
                            ELSE slips[r][e]
    BY <2>5 DEF Merge
  <2>7. Tables'
    BY <2>2, <2>3, <2>4, <2>5, <2>6, <1>t DEF Tables
  <2>8. ASSUME NEW v \in Workers
        PROVE  Remembers(v)' /\ NobodyForgotten(v)' /\ NotIssued(v)'
    <3>1. CASE v = w
      BY <2>3, <3>1 DEF Remembers, NobodyForgotten, NotIssued, Pays
    <3>2. CASE v # w
      <4>1. /\ Remembers(v) /\ NobodyForgotten(v) /\ NotIssued(v) /\ Apart(v, w)
            /\ worker'[v] = worker[v]
        BY <2>3, <3>2 DEF PayInv
      <4>2. Remembers(v)'
        BY <2>4, <4>1 DEF Remembers, Pays
      <4>3. NobodyForgotten(v)'
        BY <2>4, <4>1 DEF NobodyForgotten, Remembers, Pays
      <4>4. NotIssued(v)'
        BY <2>1, <2>2, <2>5, <2>6, <4>1 DEF NotIssued, Apart, Remembers, Pays
      <4> QED BY <4>2, <4>3, <4>4
    <3> QED BY <3>1, <3>2
  <2>9. ASSUME NEW u \in Workers, NEW v \in Workers, u # v PROVE Apart(u, v)'
    BY <2>3, <2>9 DEF PayInv, Apart, Pays
  <2>10. ASSUME NEW s \in Runs, Finalized(s)', NEW e \in Steady,
                Joined[e] <= runs'[s].month
         PROVE  slips'[s][e] # NoSlip
    <3>1. CASE s = r
      <4>1. worker[w].paid[e] # NoSlip
        BY <2>1, <2>2, <2>4, <2>10, <3>1 DEF PayInv, NobodyForgotten
      <4> QED BY <2>6, <3>1, <4>1, PayrollAssumption
    <3>2. CASE s # r
      BY <2>4, <2>5, <2>10, <3>2 DEF PayInv, EveryoneIsPaid, Finalized
    <3> QED BY <3>1, <3>2
  <2>11. EveryoneIsPaid'
    BY <2>10 DEF EveryoneIsPaid
  <2> QED BY <2>7, <2>8, <2>9, <2>11 DEF PayInv
<1>14. CASE UNCHANGED vars
  BY <1>1, <1>14, <1>t DEF vars, Tables
<1> QED
  BY <1>2, <1>3, <1>4, <1>5, <1>7, <1>8, <1>9, <1>10, <1>11, <1>12, <1>13, <1>14 DEF Next

(***************************************************************************)
(* Whoever finalizes which run at the same time, and whatever fails: a     *)
(* finalized run has a payslip of everybody who was active all along.      *)
(***************************************************************************)
THEOREM FinalizedRunsPayEveryone == Spec => []EveryoneIsPaid
<1>1. PayInv => EveryoneIsPaid
  BY DEF PayInv
<1> QED BY <1>1, InitPay, NextPay, PTL DEF Spec

\* Only a commit issues payslips, and none that was issued before.
LEMMA SlipsStay ==
  ASSUME PayInv, [Next]_vars, NEW r \in Runs, NEW e \in Employees, slips[r][e] # NoSlip
  PROVE  slips'[r][e] = slips[r][e]
<1>1. ASSUME NEW w \in Workers, CommitFinalize(w) PROVE slips'[r][e] = slips[r][e]
  <2>1. /\ worker[w].run \in Runs /\ Pays(w) /\ NotIssued(w) /\ DOMAIN slips = Runs
        /\ slips' = [slips EXCEPT ![worker[w].run] = Merge(@, worker[w].paid)]
    BY <1>1 DEF CommitFinalize, PayInv, Remembers, Pays, Tables
  <2>2. CASE r # worker[w].run
    BY <2>1, <2>2
  <2>3. CASE r = worker[w].run
    <3>1. worker[w].paid[e] = NoSlip
      BY <2>1, <2>3 DEF NotIssued
    <3> QED BY <2>1, <2>3, <3>1 DEF Merge
  <2> QED BY <2>2, <2>3
<1>2. ASSUME UNCHANGED slips PROVE slips'[r][e] = slips[r][e]
  BY <1>2
<1> QED
  BY <1>1, <1>2
  DEF Next, Apply, Approve, Withdraw, AddHoliday, DeleteHoliday, DeleteEmployeeStatus,
      NextMonth, StartRun, InsertRun, StartFinalize, ListEmployees, InsertSlip, Abort, vars

(***************************************************************************)
(* A payslip once issued is never changed, nor taken back.                 *)
(***************************************************************************)
THEOREM IssuedSlipsStay == Spec => IssuedSlipIsFinal
<1>1. PayInv /\ [Next]_vars =>
        [\A r \in Runs, e \in Employees :
           slips[r][e] # NoSlip => slips'[r][e] = slips[r][e]]_vars
  BY SlipsStay
<1> QED BY <1>1, InitPay, NextPay, PTL DEF Spec, IssuedSlipIsFinal

-----------------------------------------------------------------------------
(* The calendar, and leaves.                                               *)

LEMMA Calendar ==
  /\ Len(MonthOf) \in Nat /\ Days = 1 .. Len(MonthOf)
  /\ IsFiniteSet(Days) /\ Cardinality(Days) = Len(MonthOf)
  /\ \A d \in Days : d \in Nat /\ MonthOf[d] \in Nat \ {0}
<1>1. Len(MonthOf) \in Nat /\ Days = 1 .. Len(MonthOf)
  BY PayrollAssumption DEF Days
<1>2. \A d \in Days : d \in Nat /\ MonthOf[d] \in Nat \ {0}
  BY <1>1, PayrollAssumption
<1>3. PICK i \in Int, n \in Int : i = 1 /\ n = Len(MonthOf)
  BY <1>1
<1>4. IsFiniteSet(i .. n) /\ Cardinality(i .. n) = IF i > n THEN 0 ELSE n - i + 1
  BY FS_Interval, Zenon
<1>5. Days = i .. n /\ (IF i > n THEN 0 ELSE n - i + 1) = n
  BY <1>1, <1>3
<1> QED BY <1>1, <1>2, <1>3, <1>4, <1>5

LEMMA MonthsAreFinite == IsFiniteSet(Months)
<1>1. MonthOf \in Surjection(Days, Months)
  <2>1. MonthOf \in [Days -> Months] /\ \A m \in Months : \E d \in Days : MonthOf[d] = m
    BY PayrollAssumption DEF Days, Months
  <2> QED BY <2>1 DEF Surjection
<1> QED BY <1>1, Calendar, FS_Surjection

\* The days of a leave that are worked if h are the holidays, and their charge.
WorkedWith(q, h) == (q.first .. q.last) \ (Weekend \cup (h \cap (q.first .. q.last)))

Halves(q) == IF q.half /\ q.kind # "EARLY" THEN 1 ELSE 2

LEMMA WorkedDays ==
  ASSUME NEW q \in Requests, NEW h
  PROVE  /\ WorkedWith(q, h) \subseteq Days
         /\ IsFiniteSet(WorkedWith(q, h)) /\ Cardinality(WorkedWith(q, h)) \in Nat
         /\ \A d \in WorkedWith(q, h) : q.first <= d /\ d <= q.last
<1>1. q.first \in Days /\ q.last \in Days
  BY PayrollAssumption
<1>2. WorkedWith(q, h) \subseteq Days
  BY <1>1, Calendar DEF WorkedWith
<1>3. IsFiniteSet(WorkedWith(q, h))
  BY <1>2, Calendar, FS_Subset
<1>4. Cardinality(WorkedWith(q, h)) \in Nat
  BY <1>3, FS_CardinalityType
<1> QED BY <1>1, <1>2, <1>3, <1>4, Calendar DEF WorkedWith

LEMMA WorkingDaysNow ==
  ASSUME NEW q \in Requests
  PROVE  /\ WorkingDays(q) = WorkedWith(q, holidays)
         /\ LeaveDays(q) = Cardinality(WorkedWith(q, holidays)) * Halves(q)
         /\ \A h : WorkdaysWithout(q, h) = WorkedWith(q, h)
<1>1. \A h : WorkdaysWithout(q, h) = WorkedWith(q, h)
  BY DEF WorkdaysWithout, WorkedWith
<1>2. WorkingDays(q) = WorkedWith(q, holidays)
  BY DEF WorkingDays, HolidaysBetween, WorkdaysWithout, WorkedWith
<1> QED BY <1>1, <1>2 DEF LeaveDays, Halves

\* Every leave was charged for the days that were worked when it was applied for.
Charged(q) ==
  leave[q] # NoLeave =>
    leave[q].days = Cardinality(WorkedWith(q, leave[q].seen)) * Halves(q)

LeavesInv ==
  /\ holidays \subseteq HolidayDates
  /\ leave \in [Requests -> Leave \cup {NoLeave}]
  /\ \A q \in Requests : Charged(q)

LEMMA LeaveIsNotNoLeave == \A x \in Leave : x # NoLeave
BY PayrollAssumption

LEMMA InitLeaves == Init => LeavesInv
BY DEF Init, LeavesInv, Charged

LEMMA NextLeaves == LeavesInv /\ [Next]_vars => LeavesInv'
<1> SUFFICES ASSUME LeavesInv, [Next]_vars PROVE LeavesInv'
  OBVIOUS
<1>1. ASSUME UNCHANGED leave, holidays' \subseteq HolidayDates PROVE LeavesInv'
  BY <1>1 DEF LeavesInv, Charged
<1>2. ASSUME NEW q \in Requests, NEW new \in Leave \cup {NoLeave},
             leave' = [leave EXCEPT ![q] = new], UNCHANGED holidays,
             new # NoLeave => new.days = Cardinality(WorkedWith(q, new.seen)) * Halves(q)
      PROVE  LeavesInv'
  BY <1>2 DEF LeavesInv, Charged
<1>3. ASSUME NEW q \in Requests, Apply(q) PROVE LeavesInv'
  <2>1. PICK days : days = LeaveDays(q)
    OBVIOUS
  <2>2. days \in Nat \ {0} /\ days = Cardinality(WorkedWith(q, holidays)) * Halves(q)
    BY <1>3, <2>1, WorkingDaysNow, WorkedDays DEF Apply, Halves
  <2>3. PICK new : new = [status |-> "PENDING", days |-> days, seen |-> holidays]
    OBVIOUS
  <2>4. new \in Leave /\ new.days = days /\ new.seen = holidays
    BY <2>2, <2>3 DEF Leave, LeavesInv
  <2> QED BY <1>2, <1>3, <2>1, <2>2, <2>3, <2>4 DEF Apply
<1>4. ASSUME NEW q \in Requests, Approve(q) PROVE LeavesInv'
  <2>1. PICK old \in Leave : old = leave[q]
    BY <1>4 DEF Approve, LeavesInv
  <2>2. PICK new : new = [old EXCEPT !.status = "APPROVED"]
    OBVIOUS
  <2>3. new \in Leave /\ new.days = old.days /\ new.seen = old.seen
    BY <2>2 DEF Leave
  <2>4. old # NoLeave /\ leave' = [leave EXCEPT ![q] = new] /\ UNCHANGED holidays
    BY <1>4, <2>1, <2>2 DEF Approve
  <2> QED BY <1>2, <2>1, <2>3, <2>4 DEF LeavesInv, Charged
<1>5. ASSUME NEW q \in Requests, Withdraw(q) PROVE LeavesInv'
  BY <1>2, <1>5 DEF Withdraw
<1>6. ASSUME NEW d \in HolidayDates, AddHoliday(d) \/ DeleteHoliday(d) PROVE LeavesInv'
  BY <1>1, <1>6 DEF AddHoliday, DeleteHoliday, LeavesInv
<1>7. ASSUME UNCHANGED <<leave, holidays>> PROVE LeavesInv'
  BY <1>1, <1>7 DEF LeavesInv
<1> QED
  BY <1>3, <1>4, <1>5, <1>6, <1>7
  DEF Next, DeleteEmployeeStatus, NextMonth, StartRun, StartFinalize, InsertSlip, InsertRun,
      ListEmployees, CommitFinalize, Abort, vars

-----------------------------------------------------------------------------
(* Types.                                                                  *)

LEMMA AbsentDaysIsANumber ==
  ASSUME LeavesInv, NEW q \in Requests, leave[q] # NoLeave, NEW m, NEW off
  PROVE  AbsentDaysWith(q, m, off) \in Nat /\ leave[q].days \in Nat
<1> DEFINE worked == {d \in WorkdaysWithout(q, off) : MonthOf[d] = m}
           each == IF q.first = q.last /\ leave[q].days < 2 THEN leave[q].days ELSE 2
<1>1. leave[q].days \in Nat
  BY DEF LeavesInv, Leave
<1>2. Cardinality(worked) \in Nat
  <2>1. IsFiniteSet(WorkdaysWithout(q, off)) /\ worked \subseteq WorkdaysWithout(q, off)
    BY WorkingDaysNow, WorkedDays
  <2> HIDE DEF worked
  <2>2. IsFiniteSet(worked)
    BY <2>1, FS_Subset
  <2> QED BY <2>2, FS_CardinalityType
<1>3. each \in Nat
  BY <1>1
<1>4. AbsentDaysWith(q, m, off) = Cardinality(worked) * each
  BY DEF AbsentDaysWith
<1> HIDE DEF worked, each
<1> QED BY <1>1, <1>2, <1>3, <1>4

LEMMA SummaryIsTyped ==
  ASSUME LeavesInv, NEW e, NEW m, NEW summary \in Summaries(e, m)
  PROVE  summary \in Summary
<1>1. ASSUME NEW kind, NEW off PROVE AbsentIn(e, m, kind, off) \in Nat
  <2> DEFINE leaves == Approved(e, m, kind)
             f == [q \in leaves |-> AbsentDaysWith(q, m, off)]
  <2>1. leaves \subseteq Requests /\ \A q \in leaves : leave[q] # NoLeave
    BY DEF Approved
  <2>2. IsFiniteSet(leaves)
    BY <2>1, PayrollAssumption, FS_Subset
  <2>3. \A q \in leaves : f[q] \in Nat
    BY <2>1, AbsentDaysIsANumber
  <2>4. AbsentIn(e, m, kind, off) = SumFunctionOnSet(f, leaves)
    BY DEF AbsentIn
  <2> HIDE DEF leaves, f
  <2> QED BY <2>2, <2>3, <2>4, SumIsNat
<1>2. EarlyLeaveIn(e, m) \in Nat
  <2> DEFINE leaves == Approved(e, m, "EARLY")
             f == [q \in leaves |-> leave[q].days]
  <2>1. leaves \subseteq Requests /\ \A q \in leaves : leave[q] # NoLeave
    BY DEF Approved
  <2>2. IsFiniteSet(leaves)
    BY <2>1, PayrollAssumption, FS_Subset
  <2>3. \A q \in leaves : f[q] \in Nat
    BY <2>1, AbsentDaysIsANumber
  <2>4. EarlyLeaveIn(e, m) = SumFunctionOnSet(f, leaves)
    BY DEF EarlyLeaveIn
  <2> HIDE DEF leaves, f
  <2> QED BY <2>2, <2>3, <2>4, SumIsNat
<1>3. ASSUME NEW off, NEW early \in Nat PROVE LeaveSummary(e, m, off, early) \in Summary
  BY <1>1 DEF LeaveSummary, Summary
<1>4. NoAbsence \in Summary
  BY DEF NoAbsence, Summary
<1>5. EarlyLeaveIn(e, m) \in Nat /\ 0 \in Nat
  BY <1>2
<1>6. CASE summary = NoAbsence
  BY <1>4, <1>6
<1>7. ASSUME NEW off, NEW early \in {EarlyLeaveIn(e, m), 0},
             summary = LeaveSummary(e, m, off, early)
      PROVE  summary \in Summary
  BY <1>3, <1>5, <1>7
<1> QED BY <1>6, <1>7 DEF Summaries

TypedWorker(x) ==
  \/ x \in {Idle} \cup [op : {"RUN"}, month : Months] \cup [op : {"FINALIZE"}, run : Runs]
  \/ /\ DOMAIN x = {"op", "run", "paid", "todo"} /\ x.op = "PAY"
     /\ x.run \in Runs /\ x.paid \in Slips /\ x.todo \subseteq Employees

Typed ==
  /\ month \in 1 .. MaxMonth
  /\ active \subseteq Employees
  /\ slips \in [Runs -> Slips]
  /\ \A r \in Runs : slips[r] # NoSlips => Finalized(r)
  /\ \A w \in Workers : TypedWorker(worker[w])

LEMMA TypesOfTheInvariant == PayInv /\ LeavesInv /\ Typed => TypeOK
<1> SUFFICES ASSUME PayInv, LeavesInv, Typed PROVE TypeOK
  OBVIOUS
<1>1. ASSUME NEW w \in Workers, worker[w].op = "PAY" PROVE runs[worker[w].run] # NoRun
  BY <1>1, RunIsNotNoRun DEF PayInv, Remembers
<1> QED BY <1>1 DEF PayInv, Tables, LeavesInv, Typed, TypedWorker, TypeOK

LEMMA InitTyped == Init => Typed
<1> SUFFICES ASSUME Init PROVE Typed
  OBVIOUS
<1>1. NoSlips \in Slips
  BY DEF NoSlips, Slips
<1> QED BY <1>1, PayrollAssumption DEF Init, Typed, TypedWorker

LEMMA NextTyped == PayInv /\ LeavesInv /\ Typed /\ [Next]_vars => Typed'
<1> SUFFICES ASSUME PayInv, LeavesInv, Typed, [Next]_vars PROVE Typed'
  OBVIOUS
<1>0. DOMAIN worker = Workers /\ runs \in [Runs -> Run \cup {NoRun}]
  BY DEF PayInv, Tables
<1>1. ASSUME month' \in 1 .. MaxMonth, active' \subseteq Employees, UNCHANGED <<runs, slips, worker>>
      PROVE  Typed'
  BY <1>1 DEF Typed, TypedWorker, Finalized
<1>2. ASSUME NEW w \in Workers, NEW b, TypedWorker(b), worker' = [worker EXCEPT ![w] = b],
             UNCHANGED <<month, active, runs, slips>>
      PROVE  Typed'
  BY <1>0, <1>2 DEF Typed, TypedWorker, Finalized
<1>3. ASSUME NEW q \in Requests, Apply(q) \/ Approve(q) \/ Withdraw(q) PROVE Typed'
  BY <1>1, <1>3 DEF Apply, Approve, Withdraw, Typed
<1>4. ASSUME NEW d \in HolidayDates, AddHoliday(d) \/ DeleteHoliday(d) PROVE Typed'
  BY <1>1, <1>4 DEF AddHoliday, DeleteHoliday, Typed
<1>5. ASSUME NEW e \in Employees \ Steady, DeleteEmployeeStatus(e) PROVE Typed'
  BY <1>1, <1>5 DEF DeleteEmployeeStatus, Typed
<1>6. CASE NextMonth
  BY <1>1, <1>6, PayrollAssumption DEF NextMonth, Typed
<1>7. ASSUME NEW w \in Workers, NEW m \in Months, StartRun(w, m) PROVE Typed'
  <2>1. PICK b : b = [op |-> "RUN", month |-> m]
    OBVIOUS
  <2>2. TypedWorker(b)
    BY <2>1 DEF TypedWorker
  <2> QED BY <1>2, <1>7, <2>1, <2>2 DEF StartRun
<1>8. ASSUME NEW w \in Workers, NEW r \in Runs, StartFinalize(w, r) PROVE Typed'
  <2>1. PICK b : b = [op |-> "FINALIZE", run |-> r]
    OBVIOUS
  <2>2. TypedWorker(b)
    BY <2>1 DEF TypedWorker
  <2> QED BY <1>2, <1>8, <2>1, <2>2 DEF StartFinalize
<1>9. ASSUME NEW w \in Workers, Abort(w) PROVE Typed'
  <2>1. TypedWorker(Idle)
    BY DEF TypedWorker
  <2> QED BY <1>2, <1>9, <2>1 DEF Abort
<1>10. ASSUME NEW w \in Workers, ListEmployees(w) PROVE Typed'
  <2>1. PICK r \in Runs : r = worker[w].run
    BY <1>10 DEF ListEmployees, PayInv, Remembers
  <2>2. PICK todo : todo = OnPayroll(runs[r].month)
    OBVIOUS
  <2>3. todo \subseteq Employees
    BY <2>2 DEF OnPayroll, Typed
  <2>4. PICK b : b = [op |-> "PAY", run |-> r, paid |-> NoSlips, todo |-> todo]
    OBVIOUS
  <2>5. NoSlips \in Slips
    BY DEF NoSlips, Slips
  <2>6. TypedWorker(b)
    BY <2>3, <2>4, <2>5 DEF TypedWorker
  <2> QED BY <1>2, <1>10, <2>1, <2>2, <2>4, <2>6 DEF ListEmployees
<1>11. ASSUME NEW w \in Workers, NEW e \in Employees, InsertSlip(w, e) PROVE Typed'
  <2>1. PICK s : /\ s \in Summary
                 /\ worker' = [worker EXCEPT ![w].todo = @ \ {e}, ![w].paid[e] = s]
    BY <1>11, SummaryIsTyped DEF InsertSlip
  <2>2. PICK b : b = [worker[w] EXCEPT !.todo = @ \ {e}, !.paid[e] = s]
    OBVIOUS
  <2>3. worker' = [worker EXCEPT ![w] = b]
    BY <2>1, <2>2
  <2>4. /\ DOMAIN worker[w] = {"op", "run", "paid", "todo"} /\ worker[w].op = "PAY"
        /\ worker[w].run \in Runs /\ worker[w].paid \in Slips /\ worker[w].todo \subseteq Employees
    BY <1>11 DEF InsertSlip, PayInv, Remembers, Pays, Typed, TypedWorker, Idle
  <2>5. [worker[w].paid EXCEPT ![e] = s] \in Slips
    BY <2>1, <2>4 DEF Slips
  <2>6. TypedWorker(b)
    BY <2>2, <2>4, <2>5 DEF TypedWorker
  <2> QED BY <1>2, <1>11, <2>3, <2>6 DEF InsertSlip
<1>12. ASSUME NEW w \in Workers, InsertRun(w) PROVE Typed'
  <2>1. PICK r \in Runs :
          /\ runs[r] = NoRun
          /\ runs' = [runs EXCEPT ![r] = [month |-> worker[w].month, status |-> "PREVIEW"]]
    BY <1>12 DEF InsertRun
  <2>2. worker' = [worker EXCEPT ![w] = Idle] /\ UNCHANGED <<month, active, slips>>
    BY <1>12 DEF InsertRun
  <2>3. \A v \in Workers : TypedWorker(worker'[v])
    BY <1>0, <2>2 DEF Typed, TypedWorker
  <2>4. \A s \in Runs : slips[s] # NoSlips => s # r /\ runs'[s] = runs[s]
    BY <1>0, <2>1 DEF Typed, Finalized
  <2> QED BY <2>2, <2>3, <2>4 DEF Typed, TypedWorker, Finalized
<1>13. ASSUME NEW w \in Workers, CommitFinalize(w) PROVE Typed'
  <2>1. PICK r \in Runs : r = worker[w].run /\ runs[r] \in Run
    BY <1>13 DEF CommitFinalize, PayInv, Remembers
  <2>2. PICK paid \in Slips : paid = worker[w].paid
    BY <1>13 DEF CommitFinalize, Typed, TypedWorker, Idle
  <2>3. /\ slips' = [slips EXCEPT ![r] = Merge(slips[r], paid)]
        /\ runs' = [runs EXCEPT ![r].status = "FINALIZED"]
        /\ worker' = [worker EXCEPT ![w] = Idle] /\ UNCHANGED <<month, active>>
    BY <1>13, <2>1, <2>2 DEF CommitFinalize
  <2>4. \A v \in Workers : TypedWorker(worker'[v])
    BY <1>0, <2>3 DEF Typed, TypedWorker
  <2>5. Merge(slips[r], paid) \in Slips
    BY DEF Merge, Slips, Typed
  <2>6. slips' \in [Runs -> Slips] /\ \A s \in Runs : s # r => slips'[s] = slips[s]
    BY <2>3, <2>5 DEF Typed
  <2>7. runs'[r] \in Run /\ runs'[r].status = "FINALIZED" /\ \A s \in Runs : s # r => runs'[s] = runs[s]
    BY <1>0, <2>1, <2>3 DEF Run
  <2>8. \A s \in Runs : slips'[s] # NoSlips => Finalized(s)'
    BY <2>6, <2>7, RunIsNotNoRun DEF Typed, Finalized
  <2> QED BY <2>3, <2>4, <2>6, <2>8 DEF Typed, TypedWorker
<1>14. CASE UNCHANGED vars
  BY <1>1, <1>14 DEF vars, Typed
<1> QED
  BY <1>3, <1>4, <1>5, <1>6, <1>7, <1>8, <1>9, <1>10, <1>11, <1>12, <1>13, <1>14 DEF Next

(***************************************************************************)
(* The tables and the requests to the payroll are of the expected kinds:   *)
(* every payslip counts natural numbers of half days, and only a finalized *)
(* run has any.                                                            *)
(***************************************************************************)
THEOREM PayrollTyped == Spec => []TypeOK
<1>1. Init => PayInv /\ LeavesInv /\ Typed
  BY InitPay, InitLeaves, InitTyped
<1>2. PayInv /\ LeavesInv /\ Typed /\ [Next]_vars => (PayInv /\ LeavesInv /\ Typed)'
  BY NextPay, NextLeaves, NextTyped
<1>3. PayInv /\ LeavesInv /\ Typed => TypeOK
  BY TypesOfTheInvariant
<1> QED BY <1>1, <1>2, <1>3, PTL DEF Spec

-----------------------------------------------------------------------------
(* Leave reports.                                                          *)

Since(x) == x.year * 12 + x.month

\* The years and months of a row and of a window, as integers.
LEMMA SinceOrder ==
  ASSUME NEW x \in Moments, NEW y \in Moments
  PROVE  Since(x) <= Since(y) <=>
           x.year < y.year \/ (x.year = y.year /\ x.month <= y.month)
<1>1. /\ x.year \in Nat /\ y.year \in Nat
      /\ x.month \in 1 .. 12 /\ y.month \in 1 .. 12
  BY DEF Moments
<1> QED
  BY <1>1 DEF Since

(***************************************************************************)
(* The three alternatives of accrual_summary single out the accruals from  *)
(* the first to the last month of the window, in any years.                *)
(***************************************************************************)
THEOREM AccrualsOfTheWindow ==
  ASSUME NEW a \in Moments, NEW win \in [from : Moments, to : Moments], IsRange(win)
  PROVE  AccrualInWindow(a, win)
           <=> Since(win.from) <= Since(a) /\ Since(a) <= Since(win.to)
<1>1. win.from \in Moments /\ win.to \in Moments
  OBVIOUS
<1>2. /\ a.year \in Nat /\ win.from.year \in Nat /\ win.to.year \in Nat
      /\ a.month \in 1 .. 12 /\ win.from.month \in 1 .. 12 /\ win.to.month \in 1 .. 12
  BY <1>1 DEF Moments
<1>3. Since(win.from) <= Since(win.to)
  BY DEF IsRange, Since
<1>4. win.from.year < win.to.year
        \/ (win.from.year = win.to.year /\ win.from.month <= win.to.month)
  BY <1>1, <1>3, SinceOrder
<1>5. Since(win.from) <= Since(a) <=>
        \/ win.from.year < a.year
        \/ win.from.year = a.year /\ win.from.month <= a.month
  BY <1>1, SinceOrder
<1>6. Since(a) <= Since(win.to) <=>
        \/ a.year < win.to.year
        \/ a.year = win.to.year /\ a.month <= win.to.month
  BY <1>1, SinceOrder
<1> QED
  BY <1>2, <1>4, <1>5, <1>6 DEF AccrualInWindow

(***************************************************************************)
(* An accrual is in the report of a year if and only if it is in the       *)
(* report of one of its months, and it is in the report of no other month. *)
(***************************************************************************)
THEOREM YearIsItsMonths ==
  ASSUME NEW a \in Moments, NEW y \in Nat
  PROVE  /\ AccrualInWindow(a, Yearly(y))
              <=> \E m \in 1 .. 12 : AccrualInWindow(a, Monthly(y, m))
         /\ \A m, n \in 1 .. 12 :
              AccrualInWindow(a, Monthly(y, m)) /\ AccrualInWindow(a, Monthly(y, n))
                => m = n
<1>1. a.year \in Nat /\ a.month \in 1 .. 12
  BY DEF Moments
<1>2. \A m \in 1 .. 12 :
        AccrualInWindow(a, Monthly(y, m)) <=> a.year = y /\ a.month = m
  BY <1>1 DEF AccrualInWindow, Monthly
<1>3. AccrualInWindow(a, Yearly(y)) <=> a.year = y
  BY <1>1 DEF AccrualInWindow, Yearly
<1> QED
  BY <1>1, <1>2, <1>3

-----------------------------------------------------------------------------
(* Three counts of the days of a leave.                                    *)

\* The days of W in month m.
InMonth(W, m) == {d \in W : MonthOf[d] = m}

\* Distributivity, for products the provers would otherwise have to guess at.
LEMMA Products ==
  /\ \A a, b, c \in Int : a * (b + c) = a * b + a * c
  /\ \A a, b, c \in Int : (a + b) * c = a * c + b * c
  /\ \A a, b \in Int : a * b = b * a /\ a * b \in Int
  /\ \A a, b, c \in Int : (a * b) * c = a * (b * c)
  /\ \A a \in Int : a * 0 = 0 /\ 0 * a = 0 /\ a * 1 = a /\ 1 * a = a
OBVIOUS

LEMMA InMonthIsFinite ==
  ASSUME NEW W, W \subseteq Days, NEW m
  PROVE  IsFiniteSet(InMonth(W, m)) /\ Cardinality(InMonth(W, m)) \in Nat
<1>1. InMonth(W, m) \in SUBSET Days
  BY DEF InMonth
<1>2. IsFiniteSet(InMonth(W, m))
  BY <1>1, Calendar, FS_Subset
<1> QED BY <1>2, FS_CardinalityType

\* Days at k half days each, counted month by month, are counted once.
LEMMA MonthsSplitTheDays ==
  ASSUME NEW W, W \subseteq Days, NEW k \in Nat
  PROVE  SumFunctionOnSet([m \in Months |-> Cardinality(InMonth(W, m)) * k], Months)
           = Cardinality(W) * k
<1> DEFINE f(s) == [m \in Months |-> Cardinality(InMonth(s, m)) * k]
           F == {s \in SUBSET Days : SumFunctionOnSet(f(s), Months) # Cardinality(s) * k}
<1> SUFFICES ASSUME F # {} PROVE FALSE
  OBVIOUS
<1>1. PICK s \in F : \A t \in F : t \subseteq s => t = s
  <2>1. F \subseteq SUBSET Days
    OBVIOUS
  <2>2. IsFiniteSet(Days)
    BY Calendar
  <2> HIDE DEF F
  <2> QED BY <2>1, <2>2, MinimalSubset
<1>2. s \in SUBSET Days /\ SumFunctionOnSet(f(s), Months) # Cardinality(s) * k
  OBVIOUS
<1>3. ASSUME NEW t \in SUBSET s, t # s
      PROVE  SumFunctionOnSet(f(t), Months) = Cardinality(t) * k
  <2>1. t \notin F /\ t \in SUBSET Days
    BY <1>1, <1>2, <1>3
  <2> QED BY <2>1
<1> HIDE DEF F
<1>4. CASE s = {}
  <2>1. Cardinality(s) * k = 0
    BY <1>4, FS_EmptySet
  <2>2. ASSUME NEW m \in Months PROVE f(s)[m] = 0
    <3>1. InMonth(s, m) = {}
      BY <1>4 DEF InMonth
    <3>2. Cardinality(InMonth(s, m)) = 0
      BY <3>1, FS_EmptySet
    <3> QED BY <3>2
  <2> HIDE DEF f
  <2> QED BY <1>2, <2>1, <2>2, MonthsAreFinite, SumOfZeros
<1>5. CASE s # {}
  <2>1. PICK d \in s : TRUE
    BY <1>5
  <2>t. PICK t : t = s \ {d}
    OBVIOUS
  <2>2. /\ t \in SUBSET s /\ t # s /\ t \in SUBSET Days /\ d \in Days
        /\ IsFiniteSet(s) /\ IsFiniteSet(t)
    BY <1>2, <2>1, <2>t, Calendar, FS_Subset
  <2>3. Cardinality(t) = Cardinality(s) - 1 /\ Cardinality(t) \in Nat /\ Cardinality(s) \in Nat
    BY <2>1, <2>t, <2>2, FS_RemoveElement, FS_CardinalityType
  <2>m. PICK m \in Months : m = MonthOf[d]
    BY <2>2 DEF Months
  <2>4. InMonth(s, m) = InMonth(t, m) \cup {d} /\ d \notin InMonth(t, m)
    BY <2>1, <2>t, <2>m DEF InMonth
  <2>5. \A n \in Months \ {m} : InMonth(s, n) = InMonth(t, n)
    BY <2>t, <2>m DEF InMonth
  <2>6. /\ \A n \in Months : Cardinality(InMonth(s, n)) \in Nat /\ Cardinality(InMonth(t, n)) \in Nat
        /\ Cardinality(InMonth(s, m)) = Cardinality(InMonth(t, m)) + 1
    BY <1>2, <2>2, <2>4, InMonthIsFinite, FS_AddElement
  <2>7. /\ \A n \in Months : f(s)[n] \in Int /\ f(t)[n] \in Int
        /\ \A n \in Months \ {m} : f(t)[n] = f(s)[n]
    BY <2>5, <2>6
  <2>8. f(s)[m] = f(t)[m] + k
    <3>1. PICK c \in Nat : c = Cardinality(InMonth(t, m))
      BY <2>6
    <3>2. (c + 1) * k = c * k + k
      OBVIOUS
    <3> QED BY <2>6, <3>1, <3>2
  <2>9. SumFunctionOnSet(f(t), Months) = Cardinality(t) * k
    BY <1>3, <2>2
  <2> HIDE DEF f
  <2>10. SumFunctionOnSet(f(s), Months) = SumFunctionOnSet(f(t), Months) - f(t)[m] + f(s)[m]
    BY <2>7, MonthsAreFinite, SumOfChanged
  <2>11. PICK c \in Nat : c = Cardinality(t)
    BY <2>3
  <2>12. (c + 1) * k = c * k + k /\ c * k \in Int
    OBVIOUS
  <2>13. SumFunctionOnSet(f(s), Months) = c * k + k
    BY <2>7, <2>8, <2>9, <2>10, <2>11, <2>12
  <2>14. Cardinality(s) = c + 1
    BY <2>3, <2>11
  <2> QED BY <1>2, <2>12, <2>13, <2>14
<1> QED BY <1>4, <1>5

\* What a payslip counts a day of the leave q, and what q was charged for it.
Each(q) == IF q.first = q.last /\ leave[q].days < 2 THEN leave[q].days ELSE 2

LEMMA AbsentDaysAre ==
  ASSUME NEW q \in Requests, NEW m
  PROVE  AbsentDays(q, m) = Cardinality(InMonth(WorkingDays(q), m)) * Each(q)
<1>1. WorkdaysWithout(q, holidays) = WorkingDays(q)
  BY WorkingDaysNow
<1> QED BY <1>1 DEF AbsentDays, AbsentDaysWith, InMonth, Each

LEMMA EachIsHalves ==
  ASSUME LeavesInv, NEW q \in Requests, leave[q] # NoLeave, q.kind # "EARLY",
         q.half => q.first = q.last
  PROVE  /\ Each(q) = Halves(q) /\ Halves(q) \in {1, 2}
         /\ leave[q].days = Cardinality(WorkedWith(q, leave[q].seen)) * Each(q)
<1> DEFINE W == WorkedWith(q, leave[q].seen)
<1>1. /\ leave[q].days \in Nat \ {0} /\ Cardinality(W) \in Nat
      /\ leave[q].days = Cardinality(W) * Halves(q) /\ Halves(q) \in {1, 2}
  BY WorkedDays DEF LeavesInv, Charged, Leave, Halves
<1>2. CASE ~q.half
  BY <1>1, <1>2 DEF Each, Halves
<1>3. CASE q.half
  <2>1. W \subseteq {q.first} /\ q.first \in Days
    BY <1>3, Calendar, PayrollAssumption DEF WorkedWith
  <2>2. IsFiniteSet({q.first}) /\ Cardinality({q.first}) = 1
    BY FS_Singleton
  <2>3. Cardinality(W) <= 1
    BY <2>1, <2>2, FS_Subset
  <2>4. Halves(q) = 1 /\ q.first = q.last
    BY <1>3 DEF Halves
  <2>5. leave[q].days = 1
    <3> HIDE DEF W
    <3> QED BY <1>1, <2>3, <2>4
  <2> QED BY <1>1, <2>4, <2>5 DEF Each
<1> QED BY <1>1, <1>2, <1>3

LEMMA PayrollMatchesTheCharge == LeavesInv => SplitMatchesCharge
<1> SUFFICES ASSUME LeavesInv, NEW q \in Requests, leave[q] # NoLeave, q.kind # "EARLY",
                    q.half => q.first = q.last
             PROVE  LET counted == SumFunctionOnSet([m \in Months |-> AbsentDays(q, m)], Months)
                    IN  /\ leave[q].seen \subseteq holidays => counted <= leave[q].days
                        /\ leave[q].seen = holidays => counted = leave[q].days
  BY DEF SplitMatchesCharge
<1> DEFINE W == WorkedWith(q, holidays)
           C == WorkedWith(q, leave[q].seen)
<1>1. PICK k \in {1, 2} : k = Each(q)
  BY EachIsHalves
<1>2. leave[q].days = Cardinality(C) * k
  BY <1>1, EachIsHalves
<1>3. ASSUME NEW m \in Months PROVE AbsentDays(q, m) = Cardinality(InMonth(W, m)) * k
  BY <1>1, WorkingDaysNow, AbsentDaysAre
<1>4. [m \in Months |-> AbsentDays(q, m)] = [m \in Months |-> Cardinality(InMonth(W, m)) * k]
  BY <1>3
<1>5. SumFunctionOnSet([m \in Months |-> AbsentDays(q, m)], Months) = Cardinality(W) * k
  <2>1. W \subseteq Days /\ k \in Nat
    BY WorkedDays
  <2> HIDE DEF W
  <2> QED BY <1>4, <2>1, MonthsSplitTheDays
<1>6. Cardinality(W) \in Nat /\ Cardinality(C) \in Nat /\ IsFiniteSet(C)
  BY WorkedDays
<1>7. leave[q].seen \subseteq holidays => Cardinality(W) <= Cardinality(C)
  <2>1. leave[q].seen \subseteq holidays => W \in SUBSET C
    BY DEF WorkedWith
  <2> HIDE DEF W, C
  <2> QED BY <1>6, <2>1, FS_Subset
<1>8. leave[q].seen = holidays => W = C
  OBVIOUS
<1> HIDE DEF W, C
<1>9. leave[q].seen \subseteq holidays => Cardinality(W) * k <= leave[q].days
  BY <1>2, <1>6, <1>7
<1> QED BY <1>2, <1>5, <1>8, <1>9

Between(W, from, to) == {d \in W : from <= MonthOf[d] /\ MonthOf[d] <= to}

LEMMA BetweenIsFinite ==
  ASSUME NEW W, W \subseteq Days, NEW from, NEW to
  PROVE  IsFiniteSet(Between(W, from, to)) /\ Cardinality(Between(W, from, to)) \in Nat
<1>1. Between(W, from, to) \in SUBSET Days
  BY DEF Between
<1>2. IsFiniteSet(Between(W, from, to))
  BY <1>1, Calendar, FS_Subset
<1> QED BY <1>2, FS_CardinalityType

LEMMA OverlapIs ==
  ASSUME NEW q \in Requests, NEW from, NEW to
  PROVE  /\ OverlapDays(q, from, to) = Cardinality(Between(WorkingDays(q), from, to))
         /\ OverlapDays(q, from, to) \in Nat
         /\ TotalDays(q) = Cardinality(WorkingDays(q)) /\ TotalDays(q) \in Nat
<1>1. WorkingDays(q) \subseteq Days /\ Cardinality(WorkingDays(q)) \in Nat
  BY WorkingDaysNow, WorkedDays
<1>2. OverlapDays(q, from, to) = Cardinality(Between(WorkingDays(q), from, to))
  BY DEF OverlapDays, Between
<1> QED BY <1>1, <1>2, BetweenIsFinite DEF TotalDays

\* The report of any window shows of a leave of a listed employee a share of its
\* charge: as much as of its working days.
LEMMA ReportIsAShare ==
  ASSUME LeavesInv, NEW q \in Requests, Listed(q.owner),
         leave[q] # NoLeave, leave[q].status = "APPROVED",
         NEW from \in Nat, NEW to \in Nat
  PROVE  ProratedDays(q, from, to) = leave[q].days * OverlapDays(q, from, to)
<1>1. leave[q].days \in Nat
  BY DEF LeavesInv, Leave
<1>2. OverlapDays(q, from, to) \in Nat /\ TotalDays(q) \in Nat
  BY OverlapIs
<1>3. CASE Reported(q, from, to)
  <2>1. OverlapDays(q, from, to) * leave[q].days = leave[q].days * OverlapDays(q, from, to)
    BY <1>1, <1>2, Products
  <2> QED BY <1>3, <2>1 DEF ProratedDays
<1>4. CASE ~Reported(q, from, to)
  <2>1. OverlapDays(q, from, to) = 0
    <3>1. CASE ~(MonthOf[q.first] <= to /\ MonthOf[q.last] >= from)
      <4>1. q.first \in Days /\ q.last \in Days
        BY PayrollAssumption
      <4>2. ASSUME NEW d \in WorkingDays(q)
            PROVE  ~(from <= MonthOf[d] /\ MonthOf[d] <= to)
        <5>1. d \in Days /\ q.first <= d /\ d <= q.last
          BY WorkingDaysNow, WorkedDays
        <5>2. MonthOf[q.first] <= MonthOf[d] /\ MonthOf[d] <= MonthOf[q.last]
          BY <4>1, <5>1, PayrollAssumption
        <5>3. MonthOf[d] \in Nat /\ MonthOf[q.first] \in Nat /\ MonthOf[q.last] \in Nat
          BY <4>1, <5>1, Calendar
        <5> QED BY <3>1, <5>2, <5>3
      <4>3. Between(WorkingDays(q), from, to) = {}
        BY <4>2 DEF Between
      <4> QED BY <4>3, OverlapIs, FS_EmptySet
    <3>2. CASE ~(OverlapDays(q, from, to) > 0)
      BY <1>2, <3>2
    <3> QED BY <1>4, <3>1, <3>2 DEF Reported
  <2>2. ProratedDays(q, from, to) = 0
    BY <1>4 DEF ProratedDays
  <2> QED BY <1>1, <2>1, <2>2, Products
<1> QED BY <1>3, <1>4

LEMMA LastMonthIsLast ==
  ASSUME NEW d \in Days
  PROVE  LastMonth \in Nat \ {0} /\ 1 <= MonthOf[d] /\ MonthOf[d] <= LastMonth
<1>1. Len(MonthOf) \in Days /\ d <= Len(MonthOf) /\ LastMonth = MonthOf[Len(MonthOf)]
  BY Calendar DEF LastMonth
<1>2. MonthOf[d] \in Nat \ {0} /\ LastMonth \in Nat \ {0}
  BY <1>1, Calendar
<1>3. MonthOf[d] <= LastMonth
  BY <1>1, PayrollAssumption
<1> QED BY <1>2, <1>3

LEMMA ReportsMatchTheCharge == LeavesInv => ReportsShareOutTheCharge
<1> SUFFICES ASSUME LeavesInv, NEW q \in Requests, Listed(q.owner), leave[q] # NoLeave,
                    leave[q].status = "APPROVED"
             PROVE  /\ ProratedDays(q, 1, LastMonth) = leave[q].days * TotalDays(q)
                    /\ \A m \in Months :
                         ProratedDays(q, 1, m) + ProratedDays(q, m + 1, LastMonth)
                           = ProratedDays(q, 1, LastMonth)
  BY DEF ReportsShareOutTheCharge
<1>1. PICK W : W = WorkingDays(q)
  OBVIOUS
<1>2. /\ W \subseteq Days /\ IsFiniteSet(W)
      /\ leave[q].days \in Nat /\ LastMonth \in Nat /\ LastMonth + 1 \in Nat
  <2>1. q.first \in Days
    BY PayrollAssumption
  <2> QED BY <1>1, <2>1, WorkingDaysNow, WorkedDays, LastMonthIsLast DEF LeavesInv, Leave
<1>3. Between(W, 1, LastMonth) = W
  BY <1>2, LastMonthIsLast DEF Between
<1>4. ProratedDays(q, 1, LastMonth) = leave[q].days * TotalDays(q)
  BY <1>1, <1>2, <1>3, OverlapIs, ReportIsAShare
<1>5. ASSUME NEW m \in Months
      PROVE  ProratedDays(q, 1, m) + ProratedDays(q, m + 1, LastMonth)
               = leave[q].days * TotalDays(q)
  <2>1. m \in Nat /\ m + 1 \in Nat
    BY Calendar DEF Months
  <2> DEFINE A == Between(W, 1, m)
             B == Between(W, m + 1, LastMonth)
  <2>2. A \cup B = W /\ A \cap B = {}
    <3>1. \A d \in W : 1 <= MonthOf[d] /\ MonthOf[d] <= LastMonth /\ MonthOf[d] \in Nat
      BY <1>2, LastMonthIsLast, Calendar
    <3> QED BY <2>1, <3>1 DEF Between
  <2>3. /\ IsFiniteSet(A) /\ IsFiniteSet(B)
        /\ Cardinality(A) \in Nat /\ Cardinality(B) \in Nat
    BY <1>2, BetweenIsFinite
  <2>4. /\ OverlapDays(q, 1, m) = Cardinality(A)
        /\ OverlapDays(q, m + 1, LastMonth) = Cardinality(B)
        /\ TotalDays(q) = Cardinality(W)
    BY <1>1, OverlapIs
  <2>5. /\ ProratedDays(q, 1, m) = leave[q].days * OverlapDays(q, 1, m)
        /\ ProratedDays(q, m + 1, LastMonth) = leave[q].days * OverlapDays(q, m + 1, LastMonth)
    BY <1>2, <2>1, ReportIsAShare
  <2> HIDE DEF A, B
  <2>6. Cardinality(W) = Cardinality(A) + Cardinality(B)
    <3>1. Cardinality(A \cap B) = 0
      BY <2>2, FS_EmptySet
    <3>2. Cardinality(A \cup B) = Cardinality(A) + Cardinality(B) - Cardinality(A \cap B)
      BY <2>3, FS_Union
    <3>3. Cardinality(W) = Cardinality(A) + Cardinality(B) - 0
      BY <2>2, <3>1, <3>2, Zenon
    <3> QED BY <2>3, <3>3
  <2> QED BY <1>2, <2>3, <2>4, <2>5, <2>6, Products
<1> QED BY <1>4, <1>5

LEMMA ReportsMatchThePayroll == LeavesInv => ReportsAgreeWithPayroll
<1> SUFFICES ASSUME LeavesInv, NEW q \in Requests, Listed(q.owner),
                    leave[q] # NoLeave, leave[q].status = "APPROVED",
                    leave[q].seen = holidays, q.kind # "EARLY", q.half => q.first = q.last,
                    NEW m \in Months
             PROVE  ProratedDays(q, m, m) = AbsentDays(q, m) * TotalDays(q)
  BY DEF ReportsAgreeWithPayroll
<1>1. PICK W : W = WorkingDays(q)
  OBVIOUS
<1>2. W \subseteq Days /\ W = WorkedWith(q, holidays) /\ m \in Nat
  BY <1>1, WorkingDaysNow, WorkedDays, Calendar DEF Months
<1>3. PICK k \in {1, 2} : k = Each(q)
  BY EachIsHalves
<1>4. leave[q].days = Cardinality(W) * k
  BY <1>2, <1>3, EachIsHalves
<1>5. Between(W, m, m) = InMonth(W, m)
  <2>1. \A d \in W : MonthOf[d] \in Nat
    BY <1>2, Calendar
  <2> QED BY <1>2, <2>1 DEF Between, InMonth
<1>6. PICK n \in Nat : n = Cardinality(InMonth(W, m))
  BY <1>2, InMonthIsFinite
<1>7. PICK t \in Nat : t = Cardinality(W)
  BY <1>1, OverlapIs
<1>8. AbsentDays(q, m) = n * k
  BY <1>1, <1>3, <1>6, AbsentDaysAre
<1>9. ProratedDays(q, m, m) = (t * k) * n
  <2>1. ProratedDays(q, m, m) = leave[q].days * OverlapDays(q, m, m)
    BY <1>2, ReportIsAShare
  <2>2. OverlapDays(q, m, m) = n
    BY <1>1, <1>5, <1>6, OverlapIs
  <2> QED BY <1>4, <1>7, <2>1, <2>2
<1>10. TotalDays(q) = t
  BY <1>1, <1>7, OverlapIs
<1>11. (t * k) * n = (n * k) * t
  BY Products
<1> QED BY <1>8, <1>9, <1>10, <1>11

(***************************************************************************)
(* However leaves are applied for, approved and withdrawn and holidays come*)
(* and go: the payslips of all months count of a leave what it was charged,*)
(* the report of a window shows the same share of the charge as of the     *)
(* working days, so that two windows share out the charge between them, and*)
(* the report of a month shows what the payslip of the month counts, of    *)
(* every employee it lists - for any calendar, any staff and any leaves.   *)
(***************************************************************************)
THEOREM AllCountsAgree == Spec => []CountsAgree
<1>1. LeavesInv => CountsAgree
  BY PayrollMatchesTheCharge, ReportsMatchTheCharge, ReportsMatchThePayroll DEF CountsAgree
<1> QED BY <1>1, InitLeaves, NextLeaves, PTL DEF Spec

=============================================================================
