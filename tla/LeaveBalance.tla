---------------------------- MODULE LeaveBalance ----------------------------
(***************************************************************************)
(* Tbl_Leave_balance: one row per employee, leave type and year, and all   *)
(* who write it: the creation of employees and leave types, changes of     *)
(* entitlement, role and joining date, manual adjustments, approvals and   *)
(* withdrawals of leaves (LeaveFlow), and the monthly accrual.             *)
(*                                                                         *)
(* Only the rows of the current year are kept: NewYear forgets them, and   *)
(* no row of the new year exists until somebody inserts one.  Accruals are *)
(* counted in half days, the rest in days.                                 *)
(*                                                                         *)
(* A request reads in one step what it goes on to use, and writes and      *)
(* commits in another.  An administrative change plans the openings of the *)
(* rows it is about to insert or reopen from the employees and leave types *)
(* that are committed when it reads them; the row of the employee or type  *)
(* it changes stays locked until it commits, all others may move.  An      *)
(* adjustment locks the balance row it reads, an accrual none.             *)
(*                                                                         *)
(* The history variable astray names the balances whose opening nobody     *)
(* vouches for: never inserted, inserted late by an adjustment or an       *)
(* accrual, left out when a leave type ceased to be early, or planned from *)
(* reads that were outdated at the commit.                                 *)
(***************************************************************************)
EXTENDS Integers, FiniteSetsExt

CONSTANTS
  Employees,
  Types,         \* leave types
  NoRow,         \* no balance row
  Unset,         \* intern_entitlement is NULL
  Policies,      \* entitlements, is_early and is_paid that a leave type may be given
  JoinMonths,    \* months of this year an employee may join in
  Months,        \* months an accrual may be run for
  Workers,       \* adjustments and administrative changes under way at the same time
  NoWorker,
  Accruals,      \* accruals under way at the same time: the cron job, the manual trigger
  Quantities,    \* adjustments
  Days,          \* days of a leave
  MaxAdjusted,   \* bound: |adjusted|
  MaxUsed,       \* bound: |used|
  MaxYear        \* bound: years

Row == [opening : Int, accrued : Nat, used : Int, adjusted : Int, closing : Int]

ASSUME BalanceAssumption ==
  /\ Unset \notin Nat \cup Policies /\ NoRow \notin Int \cup Row
  /\ Policies \subseteq [def : Nat, intern : Nat \cup {Unset}, early : BOOLEAN, paid : BOOLEAN]
  /\ JoinMonths \subseteq 1 .. 12 /\ Months \subseteq 1 .. 12
  /\ Quantities \subseteq Int
  /\ Days \subseteq Nat
  /\ NoWorker \notin Workers
  /\ MaxAdjusted \in Nat /\ MaxUsed \in Nat /\ MaxYear \in Nat \ {0}

VARIABLES
  year,
  status,        \* of each employee: "absent", "active" or "deactive"
  role,          \* "INTERN" or "EMPLOYEE", which stands for every other role
  joined,        \* month of joining if that is in this year, else 0
  policy,        \* of each leave type, Unset before it is created
  balance,       \* the balance rows of this year
  adjustments,   \* Tbl_Leave_adjustment of this year, summed up
  accrualLog,    \* Tbl_Leave_accrual_log of this year: half days credited, 0 without an entry
  granted,       \* days of approved leaves that were not withdrawn
  lock,          \* the adjustment that locked the row
  job,           \* what each worker is doing
  accrual,       \* what each accrual is doing
  astray         \* history: balances whose opening nobody vouches for

people == <<status, role, joined>>
books == <<balance, adjustments, accrualLog, granted>>
working == <<lock, job, accrual>>
vars == <<year, people, policy, books, working, astray>>

Roles == {"INTERN", "EMPLOYEE"}
Statuses == {"absent", "active", "deactive"}

\* INSERT INTO Tbl_Leave_balance ... VALUES (opening, 0, 0, 0, opening).
NewRow(opening) ==
  [opening |-> opening, accrued |-> 0, used |-> 0, adjusted |-> 0, closing |-> opening]

Pairs == Employees \X Types
HasRow(p) == balance[p] # NoRow
Created(t) == policy[t] # Unset

\* An early-leave type has no balance: employees get no row of it.
Allotted(t) == Created(t) /\ ~policy[t].early

NoPlan == [p \in Pairs |-> NoRow]

Idle ==
  [op |-> "IDLE", emp |-> <<>>, role |-> "EMPLOYEE", was |-> "EMPLOYEE", joined |-> 0,
   type |-> <<>>, policy |-> Unset, early |-> FALSE, plan |-> NoPlan, \* administrative changes
   pair |-> <<>>, qty |-> 0, row |-> NoRow]              \* adjustments

IdleAccrual == [month |-> 0, todo |-> {}, now |-> <<>>, rate |-> 0]

\* floor(yearly * remaining months / 12), the joining month included.
ProratedLeave(yearly, month) == (yearly * (13 - month)) \div 12

FullEntitlement(r, p) == IF r = "INTERN" /\ p.intern # Unset THEN p.intern ELSE p.def

\* The opening of an employee of role r who joined in month m (0: not this year).
Opening(r, m, p) ==
  IF m = 0 THEN FullEntitlement(r, p) ELSE ProratedLeave(FullEntitlement(r, p), m)

ReopenedWithoutAdjustments(row, opening) ==
  IF row = NoRow THEN NoRow
  ELSE [row EXCEPT !.opening = opening, !.closing = opening - row.used]

\* UPDATE ... SET opening = $1, closing = $1 - used + adjusted: nothing without a row.
Reopened(row, opening) ==
  IF row = NoRow THEN NoRow
  ELSE [row EXCEPT !.opening = opening, !.closing = opening - row.used + row.adjusted]

Init ==
  /\ year = 1
  /\ status = [e \in Employees |-> "absent"]
  /\ role = [e \in Employees |-> "EMPLOYEE"]
  /\ joined = [e \in Employees |-> 0]
  /\ policy = [t \in Types |-> Unset]
  /\ balance = [p \in Pairs |-> NoRow]
  /\ adjustments = [p \in Pairs |-> 0]
  /\ accrualLog = [p \in Pairs |-> [m \in Months |-> 0]]
  /\ granted = [p \in Pairs |-> 0]
  /\ lock = [p \in Pairs |-> NoWorker]
  /\ job = [w \in Workers |-> Idle]
  /\ accrual = [a \in Accruals |-> IdleAccrual]
  /\ astray = {}

-----------------------------------------------------------------------------
(***************************************************************************)
(* The openings a change gives, as the employees and leave types stand.    *)
(***************************************************************************)
PlanIf(touched(_), opening(_)) ==
  [p \in Pairs |-> IF touched(p) THEN opening(p) ELSE NoRow]

\* A new employee: a row for every leave type that is not early.
PlanForEmployee(j) ==
  PlanIf(LAMBDA p : p[1] = j.emp /\ Allotted(p[2]),
         LAMBDA p : Opening(j.role, j.joined, policy[p[2]]))

\* A new leave type: a row for every active employee, unless the type is early.
PlanForType(j) ==
  PlanIf(LAMBDA p : p[2] = j.type /\ ~j.policy.early /\ status[p[1]] = "active",
         LAMBDA p : Opening(role[p[1]], joined[p[1]], j.policy))

PlanForTheWrongLoop(j, wasEarly) ==
  PlanIf(LAMBDA p : /\ p[2] = j.type /\ status[p[1]] # "absent"
                    /\ role[p[1]] = "INTERN" \/ wasEarly,
         LAMBDA p : Opening(role[p[1]], joined[p[1]], j.policy))

(***************************************************************************)
(* New entitlements: two loops, over the interns and, unless the type was  *)
(* early before the change, over the others, active or not.  The row of an *)
(* employee who has none is not inserted: GetLeaveBalance turns            *)
(* sql.ErrNoRows into a balance of 0, and the UPDATE finds nothing.        *)
(***************************************************************************)
PlanForEntitlement(j, wasEarly) ==
  PlanIf(LAMBDA p : /\ p[2] = j.type /\ status[p[1]] # "absent"
                    /\ role[p[1]] = "INTERN" \/ ~wasEarly,
         LAMBDA p : Opening(role[p[1]], joined[p[1]], j.policy))

PlanForNewInternsOnly(j, was) ==
  PlanIf(LAMBDA p : p[1] = j.emp /\ Allotted(p[2]) /\ j.role = "INTERN",
         LAMBDA p : Opening(j.role, joined[j.emp], policy[p[2]]))

\* A new role: nothing unless the employee becomes an intern or was one.
PlanForRole(j, was) ==
  PlanIf(LAMBDA p : p[1] = j.emp /\ Allotted(p[2]) /\ "INTERN" \in {was, j.role},
         LAMBDA p : Opening(j.role, joined[j.emp], policy[p[2]]))

PlanForJoiningDate(j) ==
  PlanIf(LAMBDA p : p[1] = j.emp /\ Allotted(p[2]),
         LAMBDA p : Opening(role[j.emp], j.joined, policy[p[2]]))

Plan(j) ==
  CASE j.op = "NEW EMPLOYEE" -> PlanForEmployee(j)
    [] j.op = "NEW TYPE"     -> PlanForType(j)
    [] j.op = "ENTITLEMENT"  -> PlanForEntitlement(j, policy[j.type].early)
    [] j.op = "ROLE"         -> PlanForRole(j, role[j.emp])
    [] j.op = "JOINING DATE" -> PlanForJoiningDate(j)

-----------------------------------------------------------------------------
Start(w, j) == job[w] = Idle /\ job' = [job EXCEPT ![w] = j]

\* The change w has locked the row of the employee or of the leave type.
Locks(w, e, t) ==
  \A v \in Workers \ {w} :
    /\ job[v].op \in {"NEW EMPLOYEE", "ROLE", "JOINING DATE"} => job[v].emp # e
    /\ job[v].op \in {"NEW TYPE", "ENTITLEMENT"} => job[v].type # t

StartPlanned(w, j) ==
  /\ Locks(w, j.emp, j.type)
  /\ Start(w, [j EXCEPT !.plan = Plan(j)])
  /\ UNCHANGED <<year, people, policy, books, lock, accrual, astray>>

StartCreateEmployee(w) ==
  \E e \in Employees, r \in Roles, m \in JoinMonths \cup {0} :
    /\ status[e] = "absent"
    /\ StartPlanned(w, [Idle EXCEPT !.op = "NEW EMPLOYEE", !.emp = e, !.role = r, !.joined = m])

StartCreateLeaveType(w) ==
  \E t \in Types, pol \in Policies :
    /\ ~Created(t)
    /\ StartPlanned(w, [Idle EXCEPT !.op = "NEW TYPE", !.type = t, !.policy = pol])

\* LeavePolicy.Update reads the old leave type before its transaction locks it.
ReadLeaveType(w) ==
  \E t \in Types, pol \in Policies :
    /\ Created(t)
    /\ Start(w, [Idle EXCEPT !.op = "ENTITLEMENT?", !.type = t, !.policy = pol,
                             !.early = policy[t].early])
    /\ UNCHANGED <<year, people, policy, books, lock, accrual, astray>>

StartUpdateLeaveType(w) ==
  LET j == job[w] IN
  /\ j.op = "ENTITLEMENT?" /\ Locks(w, j.emp, j.type)
  /\ job' = [job EXCEPT ![w] =
               [j EXCEPT !.op = "ENTITLEMENT", !.plan = PlanForEntitlement(j, j.early)]]
  /\ UNCHANGED <<year, people, policy, books, lock, accrual, astray>>

StartUpdateJoiningDate(w) ==
  \E e \in Employees, m \in JoinMonths \cup {0} :
    /\ status[e] # "absent"
    /\ StartPlanned(w, [Idle EXCEPT !.op = "JOINING DATE", !.emp = e, !.joined = m])

\* UpdateEmployeeRole reads the old role before it locks the employee ...
ReadRole(w) ==
  \E e \in Employees, r \in Roles :
    /\ status[e] # "absent"
    /\ Start(w, [Idle EXCEPT !.op = "ROLE?", !.emp = e, !.role = r, !.was = role[e]])
    /\ UNCHANGED <<year, people, policy, books, lock, accrual, astray>>

\* ... and the joining date and the leave types after it.
StartUpdateRole(w) ==
  LET j == job[w] IN
  /\ j.op = "ROLE?" /\ Locks(w, j.emp, j.type)
  /\ job' = [job EXCEPT ![w] = [j EXCEPT !.op = "ROLE", !.plan = PlanForRole(j, j.was)]]
  /\ UNCHANGED <<year, people, policy, books, lock, accrual, astray>>

\* UpdateEmployeeInfo without a joining date reads the one there is ...
StartUpdateInfo(w) ==
  \E e \in Employees :
    /\ status[e] # "absent"
    /\ Start(w, [Idle EXCEPT !.op = "INFO", !.emp = e, !.joined = joined[e]])
    /\ UNCHANGED <<year, people, policy, books, lock, accrual, astray>>

-----------------------------------------------------------------------------
Finish(w) ==
  /\ job' = [job EXCEPT ![w] = Idle]
  /\ lock' = [p \in Pairs |-> IF lock[p] = w THEN NoWorker ELSE lock[p]]

Planned(j) == {p \in Pairs : j.plan[p] # NoRow}

\* What the change would plan now is not what it planned.
Outdated(j) == {p \in Pairs : j.plan[p] # Plan(j)[p]}

InsertRows(j) ==
  balance' = [p \in Pairs |-> IF p \in Planned(j) THEN NewRow(j.plan[p]) ELSE balance[p]]

ReopenRows(j) ==
  /\ \A p \in Planned(j) : HasRow(p) => lock[p] = NoWorker
  /\ balance' = [p \in Pairs |->
       IF p \in Planned(j) THEN Reopened(balance[p], j.plan[p]) ELSE balance[p]]

Vouch(j, never) ==
  astray' = (astray \ {p \in Planned(j) : balance'[p] # NoRow}) \cup Outdated(j) \cup never

CommitCreateEmployee(w) ==
  LET j == job[w] IN
  /\ j.op = "NEW EMPLOYEE"
  /\ status' = [status EXCEPT ![j.emp] = "active"]
  /\ role' = [role EXCEPT ![j.emp] = j.role]
  /\ joined' = [joined EXCEPT ![j.emp] = j.joined]
  /\ InsertRows(j) /\ Vouch(j, {})
  /\ Finish(w)
  /\ UNCHANGED <<year, policy, adjustments, accrualLog, granted, accrual>>

\* Who is not active gets no row, now or later.
CommitCreateLeaveType(w) ==
  LET j == job[w] IN
  /\ j.op = "NEW TYPE"
  /\ policy' = [policy EXCEPT ![j.type] = j.policy]
  /\ InsertRows(j) /\ Vouch(j, {p \in Pairs : p[2] = j.type /\ status[p[1]] = "deactive"})
  /\ Finish(w)
  /\ UNCHANGED <<year, people, adjustments, accrualLog, granted, accrual>>

\* A type that was early: its rows are neither inserted nor, but for those of
\* the interns, reopened.
LeftOut(j) ==
  {p \in Pairs : /\ p[2] = j.type /\ policy[j.type].early
                 /\ status[p[1]] # "absent"
                 /\ ~(p \in Planned(j) /\ HasRow(p))}

CommitUpdateLeaveType(w) ==
  LET j == job[w] IN
  /\ j.op = "ENTITLEMENT"
  /\ policy' = [policy EXCEPT ![j.type] = j.policy]
  /\ ReopenRows(j) /\ Vouch(j, LeftOut(j))
  /\ Finish(w)
  /\ UNCHANGED <<year, people, adjustments, accrualLog, granted, accrual>>

CommitUpdateRole(w) ==
  LET j == job[w] IN
  /\ j.op = "ROLE"
  /\ role' = [role EXCEPT ![j.emp] = j.role]
  /\ ReopenRows(j) /\ Vouch(j, {})
  /\ Finish(w)
  /\ UNCHANGED <<year, status, joined, policy, adjustments, accrualLog, granted, accrual>>

CommitUpdateJoiningDate(w) ==
  LET j == job[w] IN
  /\ j.op = "JOINING DATE"
  /\ joined' = [joined EXCEPT ![j.emp] = j.joined]
  /\ ReopenRows(j) /\ Vouch(j, {})
  /\ Finish(w)
  /\ UNCHANGED <<year, status, role, policy, adjustments, accrualLog, granted, accrual>>

\* ... and writes it back with the name or address, without reopening a row.
CommitUpdateInfo(w) ==
  LET j == job[w] IN
  /\ j.op = "INFO" /\ Locks(w, j.emp, j.type)
  /\ joined' = [joined EXCEPT ![j.emp] = j.joined]
  /\ astray' = astray \cup {p \in Pairs : p[1] = j.emp /\ joined[j.emp] # j.joined}
  /\ Finish(w)
  /\ UNCHANGED <<year, status, role, policy, books, accrual>>

ToggleStatus(e) ==
  /\ status[e] # "absent"
  /\ status' = [status EXCEPT ![e] = IF @ = "active" THEN "deactive" ELSE "active"]
  /\ UNCHANGED <<year, role, joined, policy, books, working, astray>>

-----------------------------------------------------------------------------
(***************************************************************************)
(* The approval and the withdrawal of a leave, see LeaveFlow: relative     *)
(* updates of the row of this year, whatever the year the leave was        *)
(* charged in.  A leave of an early-leave type touches no row.  Whether    *)
(* the type is early was read some time before and may have changed since: *)
(* where a type may be early, either outcome is possible.                  *)
(***************************************************************************)
MayBeEarly == \E pol \in Policies : pol.early

Charge(p, d) ==
  IF HasRow(p)
  THEN /\ lock[p] = NoWorker
       /\ balance[p].used + d \in -MaxUsed .. MaxUsed
       /\ balance' = [balance EXCEPT ![p].used = @ + d, ![p].closing = @ - d]
  ELSE UNCHANGED balance

Spend(p, d) ==
  /\ granted' = [granted EXCEPT ![p] = @ + d]
  /\ Charge(p, d) \/ (MayBeEarly /\ UNCHANGED balance)
  /\ UNCHANGED <<year, people, policy, adjustments, accrualLog, working, astray>>

Approve(p, d) ==
  /\ status[p[1]] # "absent" /\ Created(p[2]) /\ granted[p] + d <= MaxUsed
  /\ Spend(p, d)

Withdraw(p, d) == granted[p] >= d /\ Spend(p, -d)

-----------------------------------------------------------------------------
WithoutLock(p, w) == lock[p] = NoWorker /\ UNCHANGED lock

\* SELECT ... FOR UPDATE; if there is no row, its insertion locks it: the unique
\* constraint makes other insertions wait for it.
Lock(p, w) == lock[p] = NoWorker /\ lock' = [lock EXCEPT ![p] = w]

\* The missing row has the entitlement of the role, which is not prorated.
RowToAdjust(p) ==
  IF HasRow(p) THEN balance[p] ELSE NewRow(FullEntitlement(role[p[1]], policy[p[2]]))

StartAdjust(w) ==
  \E p \in Pairs, q \in Quantities :
    /\ status[p[1]] # "absent" /\ Created(p[2])
    /\ Lock(p, w)
    /\ Start(w, [Idle EXCEPT !.op = "ADJUST", !.pair = p, !.qty = q, !.row = RowToAdjust(p)])
    /\ UNCHANGED <<year, people, policy, books, accrual, astray>>

\* Absolute values computed from the row as read.
Adjusted(row, read, adjusted) ==
  [row EXCEPT !.adjusted = adjusted, !.closing = read.opening - read.used + adjusted]

CommitAdjust(w) ==
  LET j == job[w]
      adjusted == j.row.adjusted + j.qty
      written == IF HasRow(j.pair) THEN balance[j.pair] ELSE j.row
  IN
  /\ j.op = "ADJUST"
  /\ adjusted \in -MaxAdjusted .. MaxAdjusted
  /\ balance' = [balance EXCEPT ![j.pair] = Adjusted(written, j.row, adjusted)]
  /\ adjustments' = [adjustments EXCEPT ![j.pair] = @ + j.qty]
  /\ Finish(w)
  /\ UNCHANGED <<year, people, policy, accrualLog, granted, accrual, astray>>

\* Refused or failed, and rolled back.
Abort(w) ==
  /\ job[w] # Idle
  /\ Finish(w)
  /\ UNCHANGED <<year, people, policy, books, accrual, astray>>

-----------------------------------------------------------------------------
AccrualRate(r) == IF r = "INTERN" THEN 2 ELSE 3

AccruablePairs ==
  {p \in Pairs : status[p[1]] = "active" /\ Allotted(p[2]) /\ policy[p[2]].paid}

\* RunAccrual lists the employees, with their role, and the leave types.
RunAccrual(a, m) ==
  /\ accrual[a] = IdleAccrual
  /\ AccruablePairs # {}
  /\ accrual' = [accrual EXCEPT ![a] =
       [IdleAccrual EXCEPT
          !.month = m,
          !.todo = {[pair |-> p, rate |-> AccrualRate(role[p[1]])] : p \in AccruablePairs}]]
  /\ UNCHANGED <<year, people, policy, books, lock, job, astray>>

\* The cron job runs it for the current month, the manual trigger for any month.
StartAccrual(a) == \E m \in Months : RunAccrual(a, m)

\* What is left to do without the pair x; an accrual that has done all ends.
Without(run, x) ==
  IF run.todo = {x} THEN IdleAccrual
  ELSE [run EXCEPT !.todo = @ \ {x}, !.now = <<>>, !.rate = 0]

CheckIgnoringLog(a) ==
  \E x \in accrual[a].todo :
    /\ accrual[a].now = <<>>
    /\ accrual' = [accrual EXCEPT ![a].now = x.pair, ![a].rate = x.rate]
    /\ UNCHANGED <<year, people, policy, books, lock, job, astray>>

IsAccrualAlreadyRun(p, m) == accrualLog[p][m] > 0

\* A pair with an entry in the log is skipped; another will be credited.
CheckAccrual(a) ==
  \E x \in accrual[a].todo :
    /\ accrual[a].now = <<>>
    /\ accrual' = [accrual EXCEPT ![a] =
         IF IsAccrualAlreadyRun(x.pair, accrual[a].month) THEN Without(accrual[a], x)
         ELSE [accrual[a] EXCEPT !.now = x.pair, !.rate = x.rate]]
    /\ UNCHANGED <<year, people, policy, books, lock, job, astray>>

Current(a) == [pair |-> accrual[a].now, rate |-> accrual[a].rate]

\* Inserts a missing row, adds to accrued, and logs it unless it is logged.
CreditAccrual(a) ==
  LET p == accrual[a].now
      row == IF HasRow(p) THEN balance[p] ELSE NewRow(0)
  IN
  /\ p # <<>> /\ lock[p] = NoWorker
  /\ balance' = [balance EXCEPT ![p] = [row EXCEPT !.accrued = @ + accrual[a].rate]]
  /\ accrualLog' = [accrualLog EXCEPT ![p][accrual[a].month] =
                      IF @ = 0 THEN accrual[a].rate ELSE @]
  /\ accrual' = [accrual EXCEPT ![a] = Without(@, Current(a))]
  /\ UNCHANGED <<year, people, policy, adjustments, granted, lock, job, astray>>

\* One pair fails and the others go on.
FailAccrual(a) ==
  /\ accrual[a].now # <<>>
  /\ accrual' = [accrual EXCEPT ![a] = Without(@, Current(a))]
  /\ UNCHANGED <<year, people, policy, books, lock, job, astray>>

-----------------------------------------------------------------------------
\* A crash: transactions are rolled back, and what the accrual had left is forgotten.
Restart ==
  /\ \E a \in Accruals : accrual[a] # IdleAccrual
  /\ lock' = [p \in Pairs |-> NoWorker]
  /\ job' = [w \in Workers |-> Idle]
  /\ accrual' = [a \in Accruals |-> IdleAccrual]
  /\ UNCHANGED <<year, people, policy, books, astray>>

\* Queries ask for the rows of the current year: there are none yet.  (The model
\* lets nothing be under way at midnight.)
NewYear ==
  /\ year < MaxYear
  /\ \A w \in Workers : job[w] = Idle
  /\ \A a \in Accruals : accrual[a] = IdleAccrual
  /\ year' = year + 1
  /\ joined' = [e \in Employees |-> 0]
  /\ balance' = [p \in Pairs |-> NoRow]
  /\ adjustments' = [p \in Pairs |-> 0]
  /\ accrualLog' = [p \in Pairs |-> [m \in Months |-> 0]]
  /\ astray' = {p \in Pairs : status[p[1]] # "absent" /\ Created(p[2])}
  /\ UNCHANGED <<status, role, policy, granted, working>>

\* A request begins to change employees or leave types ...
StartChange(w) ==
  \/ StartCreateEmployee(w) \/ StartCreateLeaveType(w)
  \/ ReadLeaveType(w) \/ StartUpdateLeaveType(w)
  \/ StartUpdateJoiningDate(w) \/ ReadRole(w) \/ StartUpdateRole(w) \/ StartUpdateInfo(w)

\* ... and commits.
CommitChange(w) ==
  \/ CommitCreateEmployee(w) \/ CommitCreateLeaveType(w) \/ CommitUpdateLeaveType(w)
  \/ CommitUpdateJoiningDate(w) \/ CommitUpdateRole(w) \/ CommitUpdateInfo(w)

Next ==
  \/ \E w \in Workers : StartChange(w) \/ CommitChange(w)
  \/ \E e \in Employees : ToggleStatus(e)
  \/ \E p \in Pairs, d \in Days : Approve(p, d) \/ Withdraw(p, d)
  \/ \E w \in Workers : StartAdjust(w) \/ CommitAdjust(w) \/ Abort(w)
  \/ \E a \in Accruals :
       StartAccrual(a) \/ CheckAccrual(a) \/ CreditAccrual(a) \/ FailAccrual(a)
  \/ Restart
  \/ NewYear

Spec == Init /\ [][Next]_vars

-----------------------------------------------------------------------------
TypeOK ==
  /\ year \in 1 .. MaxYear
  /\ status \in [Employees -> Statuses]
  /\ role \in [Employees -> Roles]
  /\ joined \in [Employees -> JoinMonths \cup {0}]
  /\ policy \in [Types -> Policies \cup {Unset}]
  /\ balance \in [Pairs -> Row \cup {NoRow}]
  /\ adjustments \in [Pairs -> -MaxAdjusted .. MaxAdjusted]
  /\ accrualLog \in [Pairs -> [Months -> {0, 2, 3}]]
  /\ granted \in [Pairs -> 0 .. MaxUsed]
  /\ lock \in [Pairs -> Workers \cup {NoWorker}]
  /\ \A w \in Workers : job[w].op = "ADJUST" => job[w].pair \in Pairs /\ job[w].row \in Row
  /\ \A w \in Workers : job[w].plan \in [Pairs -> Int \cup {NoRow}]
  /\ astray \subseteq Pairs
  /\ \A a \in Accruals : accrual[a].month \in Months \cup {0}

(***************************************************************************)
(* "The closing balance is NOT affected by accruals - it remains based on  *)
(* opening - used + adjusted": the equation that CreditMonthlyAccrual      *)
(* states and all writers of closing keep, although some set closing from  *)
(* values they read and others move it.  It is not what the schema says    *)
(* ("Closing balance = opening + accrued - used + adjusted") nor the       *)
(* accrual service, which adds the credit "on top of" the closing balance: *)
(* accrued days are in no closing balance.                                 *)
(***************************************************************************)
BooksBalance ==
  \A p \in Pairs : HasRow(p) =>
    balance[p].closing = balance[p].opening - balance[p].used + balance[p].adjusted

\* No adjustment that was recorded in Tbl_Leave_adjustment is lost.
NoAdjustmentIsLost ==
  \A p \in Pairs : adjustments[p] = IF HasRow(p) THEN balance[p].adjusted ELSE 0

(***************************************************************************)
(* "Idempotent: the accrual log table records every (employee, leave_type, *)
(* month, year) that has been credited.  If the job runs more than once in *)
(* the same month, the second run is a no-op."  What was credited is what  *)
(* the log says was credited.                                              *)
(***************************************************************************)
CreditedOnce ==
  \A p \in Pairs : HasRow(p) =>
    balance[p].accrued = SumFunctionOnSet(accrualLog[p], Months)

(***************************************************************************)
(* However role, joining date, entitlements, the kinds of leave types and  *)
(* the lists of employees and leave types change, and whatever changes at  *)
(* the same time: an employee has a row of every leave type that is not    *)
(* early, and its opening is the entitlement, prorated in the year of      *)
(* joining.  Only what went astray is excepted.                            *)
(***************************************************************************)
OpeningIsEntitlement ==
  \A p \in Pairs \ astray :
    status[p[1]] # "absent" /\ Allotted(p[2]) =>
      /\ HasRow(p)
      /\ balance[p].opening = Opening(role[p[1]], joined[p[1]], policy[p[2]])
=============================================================================
