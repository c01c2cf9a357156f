# A formal model of the Leave Management System backend

This directory models the backend in `src/` in TLA+: leave requests and their
approval and the announcements that follow, the leave balances, the configuration of
leave types and approval flows, payroll and leave reports, equipment, employee
administration, the notification service and the requests that share the server. TLC
checks small instances; TLAPS proves selected properties for every value of the
constants. All definitions are translated from the Go code and the SQL schema;
`PROJECT.json` names the lines each one stands for.

Contents: [the system](#1-the-system), [modules](#2-modules-and-code),
[runs](#3-what-is-checked), [findings](#4-findings), [proofs](#5-what-is-proved),
[limits](#6-what-is-not-covered), [plan](#7-plan), [how to run](#8-running-it).

## 1. The system

A Gin server answers REST requests; each request runs in its own goroutine. A
handler calls a service, which calls a repository, which talks to PostgreSQL
through one connection pool. There is one server process; two cron schedulers and
the notification workers run inside it. All lasting state is in PostgreSQL, at the
default isolation level READ COMMITTED; the only lasting effects elsewhere are
emails and Slack messages.

The pattern that makes the program hard to test is everywhere the same: *read,
decide, write*, where the read is a statement of its own (often through the pool,
before the transaction opens), no row is locked, and the write sets what was
computed from the read. What then holds is what single SQL statements, constraints
and the few `FOR UPDATE` clauses guarantee.

### Components

| Component | State | Operations that change it | Interacts with | Hard part | What makes it correct |
|---|---|---|---|---|---|
| Leave requests and approval (`service/leave`, `leaveLogFlow`) | `Tbl_Leave`, `Tbl_Leave_Flow.approval_log` | apply, edit, cancel, approve, reject, withdraw | charges a balance; copies the stages of a flow; publishes events | leave and log are read before the transaction that writes both; three tables must agree | days are off the balance exactly while a leave is granted; status and log agree; rejection is final; no two leaves overlap |
| Leave balance and adjustment (`repositories/leaveBalance.go`) | `Tbl_Leave_balance`, `Tbl_Leave_adjustment` | adjustment; recomputation when an entitlement, role or joining date changes; charge and refund | written by leaves, policies, employees, accrual | some writers set absolute values, others move them | `closing = opening - used + adjusted`, as the code has it (see section 4); no adjustment is lost; the opening is the entitlement |
| Accrual (`service/leaveAccrual.go`) | `accrued`, `Tbl_Leave_accrual_log` | monthly job, manual trigger | balance rows | a transaction per pair; crash and repeat; two runs at once | a month is credited once |
| Leave types (`service/leavePolicy.go`) | `Tbl_Leave_Type` | create, update, delete | allocates balances; refers to a flow | deleted or changed while leaves are applied for | references resolve |
| Approval flows (`service/leaveApprovalFlow.go`) | `leave_approval_flow` | create, update, delete | copied into each leave's log | as above; validator and built-in flow disagree | an applicant has somebody who can decide; stages follow the hierarchy |
| Equipment (`repositories/equipment.go`) | items with `remaining_quantity`, categories, assignments | assign, return, move, change quantity, update, delete; deactivation of an employee | employees | a counter kept beside the rows it counts | no unit is lost; `remaining` never leaves `0..total` |
| Announcements (`service/leave/leaveflow`) | an approval log, read again after the commit | choose the event, address, publish | leave requests; notification | the log may change between commit and announcement | whoever is asked is told |
| Notification (`pkg/notification`) | a channel, worker goroutines | publish, take, send, retry, stop; death of the process | called after the commit of a request | panics, back-off, full channel, shutdown, crash | every accepted event is settled; nothing duplicated or stuck |
| Requests and connections (`config/database`, `routes`, `cmd/server`) | the connection pool, open transactions | arrive, begin, read through the pool, commit, answer | everything | transactions that wait for a second connection; a COMMIT that fails unnoticed | every request is answered; no mail announces what was rolled back |
| Payroll (`handler/payroll.go`, `service/common.go`) | `Tbl_Payroll_run`, `Tbl_Payslip` | run, finalize | reads leaves, holidays, employees | previews of one month side by side; a payslip that cannot be inserted | everyone is paid; an issued payslip is final; months share a leave's days out |
| Employees and designations (`handler/employee.go`) | `Tbl_Employee`, `Tbl_Designation` | create, name and address, role, manager, status, designation | balances, equipment, leaves | checks in statements before the write | reporting lines lead to managers; addresses are unique |
| Holidays | `Tbl_Holiday` | add, delete | leave days, payroll | days are counted at different times | see payroll |
| Authentication | tokens, no server state | login, logout | role of each request | the token's role may be old | left to `Staff`, which lets any role act |
| Leave reports (`*/leaveReport.go`) | none | — | reads leaves, holidays, accruals | a third way to count the days of a leave | charge, payslips and reports agree on whom the report lists |
| Slack summary, birthdays, leave timing, settings, audit log, templates, seed | read-only, append-only or fixed rows | — | — | — | not modelled, see section 6 |

The hazards found while reading the code are in `PROJECT.json`, each at its line
with the properties that cover it and, where they cover only a part, what is left.

## 2. Modules and code

| Module | Models | Notes |
|---|---|---|
| `ApprovalFlow` | roles, their levels, the validator of flows | pure |
| `ApprovalLog` | the approval log as a function role → stage state; the functions that build, change and judge it | a flow names a role at most once (checked by the validator), so the JSON array is a function |
| `LeaveFlow` | the leaves of one employee: early, paid and unpaid types, a balance for the paid and one for the unpaid ones | uses `ApprovalLog` |
| `LeaveLedger` | what a leave may do to each balance, without logs or requests | abstract specification, implemented by `LeaveFlow` |
| `LeaveNotices` | `LeaveFlow` and, after each commit, its announcement | extends `LeaveFlow`: each of its steps is one of `LeaveFlow` or leaves it alone |
| `ApprovalPolicy` | flows, leave types, and the stages each leave gets | `LeaveFlow` starts where this one ends: its `Stage` is the flow copied |
| `LeaveBalance` | the balance rows and all their writers, each split into what it reads and what it commits | takes approvals and withdrawals from `LeaveFlow` as relative updates |
| `Equipment` | items, categories, assignments, deactivations | every request interleaves with every other |
| `Inventory` | units of an item in the pool and in somebody's hands, without rows, locks or requests | abstract specification, implemented by `Equipment` |
| `Notification` | channel, workers, the mails of each type of event, shutdown, death of the process | |
| `Delivery` | an event is refused, or accepted and then closed | abstract specification, implemented by `Notification` |
| `Server` | requests, the connection pool, commit and answer, joined to `Notification` | extends `Notification`; its events are the requests |
| `Payroll` | leave days, payroll runs, payslips | leaves abridged to apply, approve, withdraw |
| `LeaveReport` | windows and proration of the leave report | extends `Payroll`, whose leaves it reads |
| `Staff` | the employee table | balances and equipment of an employee are in their modules |
| `SumTheorems` | nothing: what sums over finite sets are, for the proofs | section 5 |
| `ApprovalPolicyProofs`, `EquipmentProofs`, `LeaveBalanceProofs`, `LeaveFlowProofs`, `NotificationProofs`, `PayrollProofs`, `StaffProofs` | proofs, those of `LeaveNotices`, `Server` and `LeaveReport` with the module they extend | section 5 |
| `MC*` | constants for TLC | |

**Steps.** An action is what the database can tell apart. A statement through the
pool is a step, because another request may come before the next one; the writes of
one transaction are a step, because the rows it updates stay locked until it commits
and nobody sees it half done. So `ActionLeave` is `StartAction` (read the leave),
`ReadApprovalLog` (read the log, validate with the *status read before*) and
`ApproveStage`, `ApproveFinal`, `RejectStage`, `WithdrawStage` or `WithdrawFinal`
(write status, log and balance from the copies in `job`). Where the code locks
(`SELECT ... FOR UPDATE` in adjustments and assignments) the lock is a variable held
from the read to the commit; `GetLeaveById` in `leave.go` also says `FOR UPDATE`, but
runs outside a transaction, so that the lock is gone when it returns. `Abort`, `Quit`
and `Fail` stand for every early return and rollback: a request may give up between
any two of its steps, and nothing was written. A crash of the server is therefore
covered wherever all state is in the database; `LeaveBalance` has `Restart` because an
accrual has progress to lose, `Notification` has `Die` because the channel has.

**Composition.** `LeaveNotices` and `Server` extend a component: their steps conjoin a
step of it (or leave it alone) with steps on their own variables. `Server` takes a
request as what all handlers have in common: a transaction on one connection, for some
a read through the pool in the middle of it, and an event after it. What a
transaction reads and writes is in the other modules.

**Constraints.** `UNIQUE`, `REFERENCES` (with its `ON DELETE`), `NOT NULL` and `CHECK`
are guards of the writing step: a refused statement is a rollback. Of two versions
of the schema, `schema_folder/schema.sql` and the goose migrations, the constraints
used here are the same. The built-in flow is not: `schema.sql:366` asks MANAGER,
ADMIN, HR, SUPERADMIN in that order (which the program's own validator would
refuse), a later migration asks MANAGER, ADMIN and HR at stage 1 and SUPERADMIN at
stage 2. `ApprovalPolicy` takes the built-in flow as a constant that need not pass
the validator; `LeaveFlow` is run on part of either one.

**Data.** Dates are slots (`LeaveFlow`: the same dates or not) or numbers of days with
a month (`Payroll`); leave days count in half days in `Payroll`, accruals in half days
in `LeaveBalance`, otherwise in days; the report's fractions are multiplied out
(`ProratedDays` is the code's quotient times `TotalDays`). A leave type is what the code
distinguishes: early (no balance bucket), paid or unpaid. Of a mail only its event and
its addressee count, the employee or one of the recipients.

**History variables** record what properties speak of, and no guard of the code reads
them: `charged`, `everApproved`, `applicant`, `orphaned`, `granted`, `told`, `lost`. Three
more mark where the code makes no promise, so that the rest can be claimed of every
interleaving. `astray` (`LeaveBalance`) names the balances whose opening was planned
from reads outdated at the commit, or that never got a row; `stale` (`Equipment`) names
the items a request wrote from rows that had changed since it read them. Both are set
exactly at the write in question, by comparing what was planned with what would be
planned now. `raced` (`Staff`) names who is demoted by one request while another, which
has already read the role MANAGER, makes somebody report to them.

**Reads and writes of one request.** Where a repository function reads without a lock
and writes later, the read is a step: a removal of equipment reads the assignment
(`StartRemove`), then deletes it by id and returns the quantity it had read
(`CommitRemove`). A deactivation is the same for each item the employee has
(`StartDeactivate` lists them, `ReadHeld` reads one assignment, `CommitDeactivate` writes
all); deletes and pool updates of the items are one step, since the rows are locked from
the first of them to the commit. A change of an assignment's quantity that commits
between read and write makes the item `stale`.

**Kinds of leave types.** In `LeaveBalance` an update may change everything a type has,
entitlements, `is_early` and `is_paid`: whether it was early is what `LeavePolicy.Update`
read before its transaction. `LeaveFlow` and `Payroll` keep the kind of a type as it is,
where it decides which balance an approval charges and what a payslip counts: a type
that changes its kind between application, approval and payroll is in neither.

## 3. What is checked

`pass` runs find no error; a `violation` run checks one statement made by the code's
own comments or messages and shows how the code breaks it (section 4).

| Run | Instance | Shows |
|---|---|---|
| `leave_serial` | one request at a time, two leaves of a MANAGER, two dates, an early, a paid and an unpaid type, opening balances 2 | `ChargedWhileGranted`, `LogAgreesWithStatus`, `OnlyHigherStagesWait`, `NoOverlap`, `RejectionIsFinal`, `OnlyEditsOverbook`, and `ImplementsLedger` |
| `leave_concurrent` | two requests at a time on one leave of an EMPLOYEE or SUPERADMIN, and their announcements | `NoticesTypeOK`, `OnlyApprovedIsWithdrawn`, `UnroutedIsNeverDecided`, `WaitingApproversAreTold` |
| `leave_overdraw` (violation) | one request at a time, one leave | `NeverOverdrawn` fails |
| `policy` | built-in and one other flow, two types, one leave, two requests | `EmployeesAreRouted`, `RoutesFollowHierarchy`, `ReferencesResolve` |
| `balance` | one employee, one type, which may become an early-leave type; two adjustments or administrative changes at a time, or one and an accrual, and approvals, over two years | `TypeOK`, `BooksBalance`, `NoAdjustmentIsLost`, `CreditedOnce` (one accrual), `OpeningIsEntitlement` |
| `balance_accrual` (violation) | two accruals at a time | `CreditedOnce` fails |
| `equipment` | one item, one category, two employees, two requests at a time | `TypeOK` (with the CHECK constraints), `NoUnitIsLost`, `OnlyUpdatesUnbalance`, `ImplementsInventory` |
| `notification` | a withdrawal and the creation of an employee on two connections, a channel of one place, two workers, two attempts, panics, shutdown and death | `ServerTypeOK`, `BoundedCopies`, `StopDrains`, `MailsAnnounceCommits`, `ImplementsDelivery` (with its liveness), `RequestsAreServed` |
| `notification_retry` (violation) | one event | `FailuresAreRetried` fails |
| `payroll` | two runs, two employees, two finalizations at a time, three months, reads that may fail unnoticed | `TypeOK`, `EveryoneIsPaid`, `CountsAgree`, `IssuedSlipIsFinal` |
| `payroll_twice` (violation) | one request at a time | `OneFinalizedRun` fails |
| `staff` | two requests interleaving at every statement, two addresses, a designation, the roles SUPERADMIN and MANAGER | `TypeOK`, `ManagersAreManagers`, `LookupsAreBackedByKeys` |

`leave_concurrent`, `equipment`, `balance` and `staff` are the large ones, with up to three
million states. `CountsAgree` is three statements in one: what the payslips of all
months count of a leave is what it was charged, what the reports of two adjoining
windows show is what the report of both shows, and a month's report shows what its
payslip counts. The last two speak of whom the report lists: active employees who are not
super administrators. `SuperAdmins` is empty in the runs and any set of employees in the
theorem; deactivations are in both.

Every property of a passing run is also checked against a plausible slip in the code
(a dropped guard, a missing lock, a forgotten refund, an unconditional write), listed
under `mutants`: each one is caught. These definitions stand just before the one they
replace and are used for nothing else.

**Why two leave runs.** One request at a time is not what the server guarantees; it is
what a reader of the code assumes. `leave_serial` shows that the sequence of legal
calls alone keeps the books, and `leave_concurrent` shows what is left when requests
interleave. What is *not* left: two approvers who act at once on one leave both pass
validation; both may run the final approval and deduct the days twice, a rejection
may be overwritten by an approval, a cancellation by an edit's approval. These are
hazards at their lines, and the reason why `ChargedWhileGranted` and `RejectionIsFinal`
are claimed for serial requests only. A lock on the leave taken before the first read
would make the serial results hold for the server.

In `Equipment`, `LeaveBalance` and `Staff` nothing is kept apart; there `stale`, `astray`
and `raced` say of which rows nothing is claimed any more. (In `Staff` a role change and
a manager assignment check, each in a statement of its own, what the other one writes.)

`EveryoneIsPaid` takes the joining date of an employee as a constant, though
`UpdateEmployeeInfo` can move it: it speaks of those who had joined by what the column
said when the run was finalized.

`WaitingApproversAreTold` and `MailsAnnounceCommits` are about the seam between a
transaction and what follows it. Both except what the code gives up openly: an
announcement that could not be read or did not fit the channel is lost, and a COMMIT
that fails goes unnoticed. The first is not obvious even so, because the log is read
*after* the commit and another request may have rewritten it; it holds because whoever
rewrites it announces in turn.

**Bounds.** `MaxCharge`, `MaxAdjusted`, `MaxUsed`, `MaxRows`, `MaxQuantity`, `MaxYear`
and `MaxMonth` stop counters that the code lets grow; each is large enough for the
event to happen twice or to be undone (charge and refund, two rows of one employee
merged, a year that ends, a leave over the end of a month). Only `MaxAdjusted` is tighter:
one adjustment of a row commits in a year, and a second is served up to its commit; a
larger bound makes the run too long, and the theorems about `LeaveBalance` hold for any. Two workers show every race between
two requests; three would only repeat them, since each race in the code is between one
reader and one writer. `TwoAtATime`, a constraint of the run `balance`, says the same of
requests and accruals together, and lets one at a time go on once days were accrued, of
which no other writer takes notice, or in the second year, where only the rows are new;
the theorems have no such bound. In `staff` the roles are
SUPERADMIN and MANAGER, since ADMIN and HR may do no more than a SUPERADMIN and are no
more a MANAGER. Two leaves
are enough for overlap and pending days, one stage with a sibling and one above it
for every rule about stages. Symmetry is used for ids that the specification never
compares except for equality, and not in the run with liveness properties. `Nested` has
one request in `notification`, and there are two connections: one that takes a second
connection and one that does not show each other waiting. That fewer requests take a
second connection than there are connections is a choice of this instance, on which
`RequestsAreServed` depends, and not of the module: with `MaxOpen = 1` TLC refutes it, the
one request waiting for ever for the connection it holds. Nothing in the code prevents
this, so that no property claims it (section 4).

**Deadlock** is checked except in the leave and notification runs: every leave id may
be used up and decided, and a server whose requests are all answered does nothing more.
(That no request is stuck there is `RequestsAreServed`.)

**Fairness** is assumed in `Notification` and `Server` only, and no more than the Go
runtime gives: it does not let *all* workers rest while one can go on (`WF(Work)`), nor
all requests (`WF(\E r : Serve(r))`); one of the two ends of `Stop` comes about, since its
30-second timer fires. Mails and statements return - the email client has a timeout of 15
seconds - but may fail each time. Arrivals, panics, `Stop`, `Cancel` and `Die` are not
fair. These suffice because each event and each request has a bounded number of steps;
fairness of each worker, which nothing in a channel receive promises, is not needed.
Elsewhere nothing is assumed: a request may fail, and no approver has to act, so the
code promises no progress there.

## 4. Findings

Each is a passing sentence of the code contradicted by a run.

1. **An edit may overdraw the balance** (`leave_overdraw`). `ValidateLeaveBalance` adds
   the days of the edited leave to a balance from which they were never taken
   (`leaveValidation.go:189`): with 1 day left, apply for 1, edit to 2, approve: -1.
2. **An accrual is not idempotent** (`balance_accrual`). Two runs of one month that both
   look at the log before either commits both add the days; the second log entry is
   dropped by `ON CONFLICT DO NOTHING` (`leaveAccrual.go:127`).
3. **Failed emails are not retried** (`notification_retry`). The handlers log a failed
   `Send` and return nothing; only a panic counts as a failed attempt
   (`service.go:228`), contrary to the comment on `worker`.
4. **A month can be finalized twice** (`payroll_twice`). `RunPayroll` asks one of possibly
   several runs of the month, `FinalizePayroll` only its own.

**Which equation `closing` obeys is disputed in the repository itself.** `schema.sql:165`
has `closing = opening + accrued - used + adjusted`, and the comment of the accrual
service (`service/leaveAccrual.go:11-13`) adds the monthly credit on top of the closing
balance. `CreditMonthlyAccrual` says that the closing balance "is NOT affected by
accruals - it remains based on opening - used + adjusted"
(`repositories/leaveAccrual.go:67`), adds to `accrued` alone (line 93), and every other
statement that writes `closing` leaves `accrued` out. `BooksBalance` is this second
equation, the one the code keeps, also on rows that have accrued days: no employee can
take them. The first equation fails with the first credit, as one step shows, so that no
run is spent on it.

Smaller observations that no run is needed for:

- The pool has 25 connections (`config/database/database.go:41`) and no statement waits
  with a deadline. `CreateEmployee`, `UpdateEmployeeRole`, `UpdateEmployeeInfo`,
  `AdjustLeaveBalance` and `FinalizePayroll` read through the pool inside their
  transaction; 25 of them at that point wait for each other for ever, in `Server` as in
  the code (see the bounds in section 3).
- `ExecuteTransaction` returns no error when the commit fails (`transaction.go:30`): the
  request is answered with success and its event published, though nothing was written
  (`FailToCommit` in `Server` and `LeaveNotices`).
- `main` ends by `log.Fatalf` or by a signal, and neither runs deferred calls: `Stop`,
  modelled as written, is not reached in production (`cmd/server/main.go:106`). `Die` is
  how the program ends.
- The handler of a cancellation ignores the service's error and replies that the leave
  was cancelled (`handler/leaveFlow.go:112`).
- `ActionLeave` publishes `LeaveApproved` for every approval, also when the leave stays
  Pending (`leaveFlow.go:180`); the comment beside it speaks of re-fetching the status,
  which only withdrawals do. When that re-read fails, the error is dropped and a final
  withdrawal is announced as pending.
- Both mails of a withdrawn leave, the employee's text included, go to the recipients;
  the employee gets none (`OnLeaveWithdrawn`).
- An update of equipment that overlaps another request does lose units: it writes the
  quantities it computed from the rows of before. So does a return or a deactivation
  (`RemoveEquipment`, `equipment.go:453-478`) when the quantity of the assignment changes
  between its SELECT and its DELETE. `stale` marks these writes.
- A manager assignment and a demotion of that manager that overlap both pass their checks
  (`employee.go:283` and `:426`), and an employee reports to somebody who is no MANAGER.
  `raced` marks who that may be.
- `LeavePolicy.Update` looks at what the type was (`leavePolicy.go:188`): of an early-leave
  type that becomes an ordinary one only the rows that interns have are recomputed, rows
  of others keep their opening, and nobody gets a new one. `astray` has these pairs.
- The report shares out what a leave was charged, the payroll counts its days: for a
  leave of several half days the payslips show twice what the report shows. An early leave
  over the end of a month is counted in full in both months. A leave whose withdrawal is
  pending is in neither.
- A query of the leaves that fails while payslips are computed is logged and counts as no
  leaves (`service/common.go:187`); one of the holidays (`:158`) or the early leaves
  (`:195`) is not even logged: the payslip is issued all the same. `Summaries` has all
  outcomes; `IssuedSlipIsFinal` says that it stays so. In the same way `RunPayroll` takes
  any error of `GetExitstingpayload` for "no run yet" (`payroll.go:61`).
- The pause between two mails is per handler, while all workers share the limit of the
  email API.
- `GetLeaveBalance` returns 0 without an error when there is no row, so the branches
  of `leaveBalance.go` that would insert the missing row are never taken.
- Managers may report to each other in a circle; nothing walks the line further than
  one step, so no harm follows.

## 5. What is proved

The proofs hold for any sets of ids, any number of workers, requests and connections,
any flow, calendar and opening balance, from the named assumptions on the constants
alone (`StageAssumption`, `LeaveFlowAssumption`, `PolicyAssumption`, `StaffAssumption`,
`BalanceAssumption`, `EquipmentAssumption`, `PayrollAssumption`,
`NotificationAssumption`, `ServerAssumption`;
TLC evaluates them in the runs). They say little: that "no leave" is not a leave, that the pool has a connection, that
quantities are positive, that months are months of a year, that the ids of a table are
finitely many where a sum runs over them.

Every safety property of the passing runs, invariant or action property, is stated by a
theorem below. What several of them rest on is one library of facts, `SumTheorems`: the
sum of a function over a finite set (`SumFunctionOnSet`) does not depend on the order in
which the recursion takes the elements out (`SumWithout`), so it grows by what is added
and is unchanged by what is not in it. The library's induction theorems cannot be used
here; these are proved by a minimal counterexample instead: a family of subsets of a
finite set that has a member has one without a smaller one (`MinimalSubset`, from the
well-foundedness of the strict subset order).

| Theorem | States | Argument |
|---|---|---|
| `TypeCorrectness` | `Spec => []TypeOK` (`LeaveFlow`) | inductive as it stands, one case per action; lemmas say that each log function yields a log |
| `WithdrawnWasApproved` | `Spec => []OnlyApprovedIsWithdrawn` | not inductive: a worker about to write a withdrawal must have *read* an approved status. `ApprovedBefore` adds that to every `job` |
| `UnroutedStaysPending` | `Spec => []UnroutedIsNeverDecided` | `Routed` adds that a checked action holds a log with a stage, that leaves without a stage never gain one, and that `job` names existing leaves |
| `SerialCharges` | `OneAtATime /\ Spec => []ChargedWhileGranted` | `SerialInv`: with one request, what was read is still true (`Fresh`), and days are among those somebody may ask for (`Asked`) |
| `SerialRefinement` | `OneAtATime /\ Spec => ImplementsLedger` | each step is a step of the ledger, on the balance of the leave's type, or a stutter, under `SerialInv` |
| `LogAndStatusAgree`, `NobodyBelowIsAsked` | `OneAtATime /\ Spec` gives `LogAgreesWithStatus` and `OnlyHigherStagesWait` | `Story` says of one status and one log what the two properties say of all; lemmas show that the log each processor writes fits the status it writes, for any flow (`ApprovedTells`, `RejectedTells`, `WithdrawnTells`). `LogsFresh` adds that the log validated is the log held |
| `DatesAreTakenOnce` | `OneAtATime /\ Spec => []NoOverlap` | `DatesFresh`: the dates a checked request is about to take are still free |
| `RejectedForGood` | `OneAtATime /\ Spec => RejectionIsFinal` | from `SerialInv`: every other write of a status has read another one than `REJECTED` |
| `BookingsStayCovered` | `OneAtATime /\ Spec => OnlyEditsOverbook` | `BookingsFresh`: the balance an application has read is the balance, and once it is checked its days fit besides those pending. A new leave adds its days to a sum (`NewlyPending`), a decided one takes them with it (`NoLongerPending`), off the balance if it was approved |
| `WithoutEditsNoOverdraft` | `OneAtATime /\ Spec => []NeverOverdrawn` if `EditDays = {}` | without edits `PendingIsCovered` is itself an invariant, and pending days are not negative. This is the converse of finding 1: what goes wrong in `leave_overdraw` goes wrong in edits alone |
| `NoticesTypeCorrectness`, `NoticesAreLeaveFlow` | `NoticesSpec` keeps types and implies `LeaveFlow!Spec` | each step is a step of `LeaveFlow` or leaves its variables alone; so the first three theorems hold with announcements |
| `ApproversAreTold` | `NoticesSpec => []WaitingApproversAreTold` | the invariant adds what is between: a request about to publish has addressed the waiting roles of the log it read, or the log was rewritten since by a request that still has to announce |
| `NothingDangles`, `EmployeesHaveApprovers`, `RoutesStayOrdered` | the three invariants of `ApprovalPolicy` | `PolicyInv` adds that the stages of every flow, and those a request has read, are validated or built in (`Usable`), and that a type or a request without a flow means one was deleted under a type (`Reads`). Leaving roles out keeps the order (`RoutedStaysValid`), and leaves an employee's log not empty |
| `StaffTypeCorrectness` | `Spec => []TypeOK` (`Staff`) | `Typed` adds per-operation facts about `job` |
| `LookupsStayTrue` | `Spec => []LookupsAreBackedByKeys` | what a request has looked up is backed at the write by UNIQUE and REFERENCES, and by SET NULL at the deletion of a designation |
| `ManagersKeepTheirRole` | `Spec => []ManagersAreManagers` | `JobSafe`: for anybody who is not `raced`, what a demotion (no subordinates) or an assignment (the role) has read still holds, since a request of the other kind past its check would have put them into `raced` (`OverlapsAreRaced`); `raced` only grows (`RacedGrows`) |
| `NotificationTypeCorrectness` | `Spec => []TypeOK` (`Notification`) | inductive: a worker's position never passes the end of its mails, a waiting one has an attempt left |
| `CopiesAreBounded` | `Spec => []BoundedCopies` | `Placed`: no two places of the channel and no two workers have the same event. `Copied`: of an event under way each mail before the present one was sent at most once per attempt begun, each later one at most once per attempt before |
| `StopDrainsTheService` | `Spec => []StopDrains` | `Draining`: a worker that has left under an open context left an empty channel, and nobody fills it any more |
| `StepsAreDelivery` | `Spec => Promise!Init /\ [][Promise!Next]_vars` | the safety part of the refinement of `Delivery`, one case per action |
| `ServerIsNotification` | `ServerSpec => Notification!Spec` | as for `LeaveNotices`; so the four theorems above hold while requests are served |
| `ServerTypeCorrectness` | `ServerSpec => []ServerTypeOK` | `InUse` counts the holders of a connection, which each step changes by at most one: never more than the pool may open, however many requests want a second one |
| `MailsFollowCommits` | `ServerSpec => []MailsAnnounceCommits` | an event that was published belongs to a request that came to its COMMIT (`PublishedAreRecorded`), and of an event that was not nothing is sent (`Copied`); the workers touch no such event |
| `FinalizedRunsPayEveryone`, `IssuedSlipsStay` | `EveryoneIsPaid` and `IssuedSlipIsFinal` of `Payroll` | `PayInv`: whom a finalization has to pay it has paid or has yet to (`NobodyForgotten`); what it has inserted is not issued (`NotIssued`) and not inserted by another for the same run (`Apart`), which is what the UNIQUE constraint gives |
| `PayrollTyped` | `Spec => []TypeOK` (`Payroll`), whichever reads fail | a payslip is a sum of half days over all leaves of a month, each a natural number for any calendar |
| `AllCountsAgree` | `Spec => []CountsAgree`, for any `SuperAdmins` | the days of a leave, counted month by month, sum up to those of the whole leave; the report's proration is linear in the days of its window; `LeavesInv` says that a leave is charged by the days it had when applied for, with those holidays |
| `BooksAlwaysBalance`, `AdjustmentsStay` | `BooksBalance` and `NoAdjustmentIsLost` of `LeaveBalance` | `BalanceInv`: an adjustment has locked the row it read, which is therefore as it was read (`Adjusting`); whoever inserts rows inserts them for an employee or a type nobody else inserts (`Planning`, `Apart`), so that no row is overwritten |
| `OpeningsAreEntitlements` | `OpeningIsEntitlement` of `LeaveBalance` | with `BalanceInv`: what is vouched for at a commit was planned as it would be planned now (`Vouched`), and every other step leaves openings alone (`OpeningsStay`) |
| `BalanceTyped` | `Spec => []TypeOK` (`LeaveBalance`) | with `BalanceInv`: what a request has planned for a row is a row, and the log of accruals holds the two monthly rates only |
| `LoggedIsCredited` | `Spec => []Covered`: what the log says was accrued was credited, for any number of accruals | a credit adds to the row at least what the same transaction adds to the log (`Credit`); no other writer touches `accrued` (`NewYear` starts both anew) |
| `CreditedOnceByOneAccrual` | `Spec => []CreditedOnce` if no two accruals run at once | `StillMissing`: the month found missing in the log is missing at the commit |
| `EquipmentTyped` | `Spec => []TypeOK` (`Equipment`), which has the CHECK constraints | `FormInv`: ids of assignments are serial, and a row that was read is, if it is still there, of the item it was read for |
| `UnitsAreNotLost`, `BalancedStaysBalanced` | `NoUnitIsLost` and `OnlyUpdatesUnbalance` | one lemma per action says what it does to the sum of an item's rows; each moves units between pool and rows, sets the total anew, or makes the item `stale`; a removal and a deactivation share one (`ReturnHeldKeeps`), about the rows they had read, of which there is at most one of each item. `PoolInv` adds what returning a shared item needs: its pool is full |
| `EquipmentIsAnInventory` | `Spec => ImplementsInventory` | the same lemmas, item by item: what is `Carried` is lent, returned or passed on (`CarriedIsAStep`), what is `Reset` is revised. It says of an item with more units out than its total what the two before leave open: a return that is not refused still gives back one for one |
| `AccrualsOfTheWindow`, `YearIsItsMonths` | the query of accruals picks the rows from the first to the last month of a window; a year is its twelve months | arithmetic, for all years |

Three hypotheses are not facts about the server: `OneAtATime`, `EditDays = {}` in `WithoutEditsNoOverdraft`, and the single
accrual in `CreditedOnceByOneAccrual`. They are stated in the theorems because without
them the statements are false, as the hazards and the findings say. No other theorem has
such a hypothesis.

Model-checked only: liveness. `RequestsAreServed`, and that `Delivery` closes what it
accepts, are out of the prover's reach, as is `ENABLED`, on which fairness rests; of
`ImplementsDelivery` the initial states and the steps are proved (`StepsAreDelivery`),
its fairness is not.

## 6. What is not covered

- Leaves outside the current year: balances of another year are never read, which
  `LeaveBalance` has (`NewYear`) and `LeaveFlow` has not.
- Which persons have the roles a notification addresses, and the text of emails:
  `LeaveNotices` has the roles, `Notification` the number of mails.
- Amounts on payslips, PDF files, paging, the audit log: computed from what is modelled
  or never read again. Of the leave report, the sum of the balances, the search and the
  sorting: one SELECT each, without a state to relate to.
- Slack and birthday messages: stateless.
- Login, password hashing, token signing: library calls; what follows from a token, that
  its role may be old, is in `Staff`.
- `UpdateCategory`, `UpdateDesignation`, `UpdateEmployeePassword`, the leave timings and
  the company settings: each writes a name, a description or a value that no decision
  modelled here reads. (The mail after a change of password is in `Notification`.)

## 7. Plan

Built, in this order: `ApprovalLog` and `LeaveFlow` with `LeaveLedger` and their proofs;
`LeaveBalance`; `Equipment`; `Notification`; `Payroll`; `ApprovalPolicy`; `Staff` with
its proofs; then `Delivery` and `Server` with proofs, `LeaveNotices` with proofs, the
interleaved requests of `Equipment` and `LeaveBalance`, unpaid types in `LeaveFlow`,
`LeaveReport`, and the proofs of `Payroll`,
`ApprovalPolicy` and `LeaveBalance`; then `SumTheorems`, and with it the proofs of
`Equipment`, of the types and accruals of `LeaveBalance`, of `CountsAgree` and of
`OnlyEditsOverbook`, and `Inventory`.

Next, model:

1. `LeaveFlow` with the balance of another year: a leave applied for in December and
   approved in January.
2. Pure functions: paging, the next birthday, the date a leave's days fall on.

Next, prove:

1. `OneFinalizedRun` of `Payroll` under the hypothesis that a month has one run, as
   `WithoutEditsNoOverdraft` does for finding 1.
2. What interleaved requests leave of `LeaveLedger`: which of its steps a leave can take
   twice, and that no other is lost.

## 8. Running it

In this directory, with TLC and the community modules on the path:

    tlc -workers 2 -config LeaveSerial.cfg MCLeaveFlow.tla
    tlapm LeaveFlowProofs.tla

`PROJECT.json` lists the module and configuration of every run. A run takes at most
three minutes on two cores (`balance` is the longest), and so do the proofs of a module.
