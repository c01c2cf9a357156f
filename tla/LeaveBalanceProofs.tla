------------------------- MODULE LeaveBalanceProofs -------------------------
(***************************************************************************)
(* Proofs about LeaveBalance: for any employees, leave types, requests and *)
(* quantities, every balance row adds up, no adjustment is lost, what no   *)
(* race or late insertion led astray opens with the entitlement, what was  *)
(* logged as accrued was credited, and once if no two accruals overlap.    *)
(*                                                                         *)
(* The bounds MaxAdjusted, MaxUsed and MaxYear may be any numbers here.    *)
(***************************************************************************)
EXTENDS LeaveBalance, SumTheorems

-----------------------------------------------------------------------------
(* Rows.                                                                   *)

AddsUp(row) == row.closing = row.opening - row.used + row.adjusted

GoodRow(row) == row \in Row /\ AddsUp(row)

LEMMA RowIsNotNoRow == \A row \in Row : row # NoRow
BY BalanceAssumption

LEMMA NewRowIsGood ==
  ASSUME NEW x \in Int
  PROVE  GoodRow(NewRow(x)) /\ NewRow(x).adjusted = 0
BY DEF GoodRow, Row, AddsUp, NewRow

LEMMA ReopenedIsGood ==
  ASSUME NEW row, GoodRow(row), NEW x \in Int
  PROVE  /\ GoodRow(Reopened(row, x))
         /\ Reopened(row, x).adjusted = row.adjusted /\ Reopened(row, x).opening = x
<1> DEFINE closing == x - row.used + row.adjusted
           b == [opening |-> x, accrued |-> row.accrued, used |-> row.used,
                 adjusted |-> row.adjusted, closing |-> closing]
<1>1. row # NoRow /\ row \in Row
  BY RowIsNotNoRow DEF GoodRow
<1>2. Reopened(row, x) = [row EXCEPT !.opening = x, !.closing = closing]
  BY <1>1 DEF Reopened
<1>3. /\ row = [opening |-> row.opening, accrued |-> row.accrued, used |-> row.used,
                adjusted |-> row.adjusted, closing |-> row.closing]
      /\ row.used \in Int /\ row.adjusted \in Int /\ row.accrued \in Nat
  BY <1>1 DEF Row
<1>4. Reopened(row, x) = b
  <2> HIDE DEF closing
  <2> QED BY <1>2, <1>3
<1>5. b \in Row /\ AddsUp(b) /\ b.adjusted = row.adjusted /\ b.opening = x
  BY <1>3 DEF Row, AddsUp
<1> HIDE DEF b
<1> QED BY <1>4, <1>5 DEF GoodRow

LEMMA OpeningIsANumber ==
  ASSUME NEW r, NEW m \in Int, NEW pol \in Policies
  PROVE  Opening(r, m, pol) \in Int
<1>1. FullEntitlement(r, pol) \in Int
  BY BalanceAssumption DEF FullEntitlement
<1>2. \A k \in Int : ProratedLeave(k, m) \in Int
  BY DEF ProratedLeave
<1> QED BY <1>1, <1>2 DEF Opening

LEMMA MonthsAreNumbers == \A m \in JoinMonths \cup {0} : m \in Int
BY BalanceAssumption

LEMMA PairsAreOf == \A p \in Pairs : p[1] \in Employees /\ p[2] \in Types
BY DEF Pairs

-----------------------------------------------------------------------------
(* The invariant.                                                          *)

\* Both sides of a balance are there; neither is ever removed.
Present(p) == status[p[1]] # "absent" /\ Created(p[2])

Tables ==
  /\ status \in [Employees -> Statuses]
  /\ DOMAIN role = Employees /\ joined \in [Employees -> Int]
  /\ policy \in [Types -> Policies \cup {Unset}]
  /\ balance = [p \in Pairs |-> balance[p]]
  /\ \A p \in Pairs : HasRow(p) => GoodRow(balance[p]) /\ Present(p)
  /\ adjustments \in [Pairs -> Int]
  /\ NoAdjustmentIsLost

Fields ==
  {"op", "emp", "role", "was", "joined", "type", "policy", "early", "plan", "pair", "qty", "row"}

Changes == {"NEW EMPLOYEE", "NEW TYPE", "ENTITLEMENT", "ROLE", "JOINING DATE"}

\* The inputs of a change, and what it plans to insert: no balance that can be there.
Planning(j) ==
  /\ DOMAIN j = Fields
  /\ j.op \in {"NEW EMPLOYEE", "ROLE", "ROLE?", "JOINING DATE", "INFO"} => j.emp \in Employees
  /\ j.op \in {"NEW TYPE", "ENTITLEMENT", "ENTITLEMENT?"} =>
       j.type \in Types /\ j.policy \in Policies
  /\ j.op \in {"ENTITLEMENT", "ENTITLEMENT?"} => Created(j.type)
  /\ j.joined \in Int
  /\ j.op \in Changes => j.plan \in [Pairs -> Int \cup {NoRow}]
  /\ j.op = "NEW EMPLOYEE" =>
       /\ status[j.emp] = "absent"
       /\ \A p \in Pairs : j.plan[p] # NoRow => p[1] = j.emp /\ Created(p[2])
  /\ j.op = "NEW TYPE" =>
       /\ ~Created(j.type)
       /\ \A p \in Pairs : j.plan[p] # NoRow => p[2] = j.type /\ status[p[1]] # "absent"

\* Nobody inserts the same employee or the same leave type.
Apart(i, j) ==
  /\ i.op = "NEW EMPLOYEE" /\ j.op = "NEW EMPLOYEE" => i.emp # j.emp
  /\ i.op = "NEW TYPE" /\ j.op = "NEW TYPE" => i.type # j.type

\* An adjustment has locked the row it read, so that the row is as it was read.
Adjusting(w, j) ==
  j.op = "ADJUST" =>
    /\ j.pair \in Pairs /\ Present(j.pair) /\ lock[j.pair] = w
    /\ j.qty \in Int /\ GoodRow(j.row)
    /\ IF HasRow(j.pair) THEN balance[j.pair] = j.row ELSE j.row.adjusted = 0

Accruing(run) ==
  /\ DOMAIN run = {"month", "todo", "now", "rate"}
  /\ run.rate \in Nat
  /\ run.now # <<>> => run.now \in Pairs /\ Present(run.now)
  /\ \A x \in run.todo : x.pair \in Pairs /\ Present(x.pair) /\ x.rate \in Nat

Requests ==
  /\ DOMAIN job = Workers /\ DOMAIN lock = Pairs
  /\ \A w \in Workers : Planning(job[w]) /\ Adjusting(w, job[w])
  /\ \A v \in Workers, w \in Workers : v # w => Apart(job[v], job[w])

AccrualRuns == DOMAIN accrual = Accruals /\ \A a \in Accruals : Accruing(accrual[a])

BalanceInv == Tables /\ Requests /\ AccrualRuns

LEMMA BooksOfTheInvariant == BalanceInv => BooksBalance /\ NoAdjustmentIsLost
BY DEF BalanceInv, Tables, BooksBalance, GoodRow, AddsUp

LEMMA IdleIsFine ==
  /\ Planning(Idle) /\ Idle.op = "IDLE"
  /\ \A w : Adjusting(w, Idle)
  /\ \A j : Apart(Idle, j) /\ Apart(j, Idle)
BY DEF Idle, Planning, Fields, Changes, Adjusting, Apart

LEMMA IdleAccrualIsFine == Accruing(IdleAccrual)
BY DEF IdleAccrual, Accruing

LEMMA InitBalance == Init => BalanceInv
<1> SUFFICES ASSUME Init PROVE BalanceInv
  OBVIOUS
<1>1. Tables
  BY DEF Init, Tables, NoAdjustmentIsLost, HasRow, Statuses
<1>2. Requests
  BY IdleIsFine DEF Init, Requests
<1>3. AccrualRuns
  BY IdleAccrualIsFine DEF Init, AccrualRuns
<1> QED BY <1>1, <1>2, <1>3 DEF BalanceInv

-----------------------------------------------------------------------------
(* Steps.                                                                  *)

\* Employees and leave types may be added, not removed.
Grows ==
  /\ \A e \in Employees : status[e] # "absent" => status'[e] # "absent"
  /\ \A t \in Types : Created(t) => Created(t)'

\* What request v goes on with is not touched.
Undisturbed(v) ==
  /\ job[v].op = "ADJUST" =>
       lock'[job[v].pair] = v /\ balance'[job[v].pair] = balance[job[v].pair]
  /\ job[v].op = "NEW EMPLOYEE" => status'[job[v].emp] = status[job[v].emp]
  /\ job[v].op = "NEW TYPE" => policy'[job[v].type] = policy[job[v].type]

LEMMA PresentStays ==
  ASSUME Grows, NEW p \in Pairs, Present(p)
  PROVE  Present(p)'
BY PairsAreOf DEF Grows, Present

LEMMA AccrualsGoOn ==
  ASSUME AccrualRuns, Grows, UNCHANGED accrual
  PROVE  AccrualRuns'
BY PresentStays DEF AccrualRuns, Accruing

LEMMA PlanningGoesOn ==
  ASSUME NEW j, Planning(j), Grows,
         j.op = "NEW EMPLOYEE" => status'[j.emp] = status[j.emp],
         j.op = "NEW TYPE" => policy'[j.type] = policy[j.type]
  PROVE  Planning(j)'
<1>1. CASE j.op = "NEW EMPLOYEE"
  BY <1>1, PairsAreOf DEF Planning, Grows
<1>2. CASE j.op = "NEW TYPE"
  BY <1>2, PairsAreOf DEF Planning, Grows, Created
<1>3. CASE j.op \notin {"NEW EMPLOYEE", "NEW TYPE"}
  BY <1>3 DEF Planning, Grows
<1> QED BY <1>1, <1>2, <1>3

\* The tables are written while requests go on undisturbed, or end.
LEMMA RequestsGoOn ==
  ASSUME Requests, Grows, DOMAIN job' = Workers, DOMAIN lock' = Pairs,
         \A v \in Workers : job'[v] = Idle \/ (job'[v] = job[v] /\ Undisturbed(v))
  PROVE  Requests'
<1>1. ASSUME NEW v \in Workers PROVE Planning(job[v])' /\ Adjusting(v, job[v])'
  <2>1. CASE job'[v] = Idle
    BY <2>1, IdleIsFine DEF Planning, Adjusting, Idle, Fields, Changes
  <2>2. CASE job'[v] = job[v] /\ Undisturbed(v)
    <3>1. Planning(job[v]) /\ Adjusting(v, job[v])
      BY DEF Requests
    <3>2. Adjusting(v, job[v])'
      BY <2>2, <3>1, PresentStays DEF Adjusting, Undisturbed, HasRow
    <3>3. Planning(job[v])'
      <4>1. PICK j : j = job[v]
        OBVIOUS
      <4>2. Planning(j)'
        BY <2>2, <3>1, <4>1, PlanningGoesOn DEF Undisturbed
      <4> QED BY <2>2, <4>1, <4>2 DEF Planning, Created
    <3> QED BY <3>2, <3>3
  <2> QED BY <2>1, <2>2
<1>2. ASSUME NEW v \in Workers, NEW w \in Workers, v # w PROVE Apart(job[v], job[w])'
  BY <1>2, IdleIsFine DEF Requests, Apart
<1> QED BY <1>1, <1>2 DEF Requests

\* A request ends and gives up its locks; the others keep theirs.
LEMMA OthersKeepLocks ==
  ASSUME Requests, NEW w \in Workers, Finish(w)
  PROVE  /\ DOMAIN job' = Workers /\ DOMAIN lock' = Pairs /\ job'[w] = Idle
         /\ \A v \in Workers \ {w} :
              /\ job'[v] = job[v]
              /\ job[v].op = "ADJUST" => lock'[job[v].pair] = v
BY DEF Requests, Adjusting, Finish

\* A request begins, or goes on, without a lock of its own.
LEMMA RequestMoves ==
  ASSUME BalanceInv, NEW w \in Workers, NEW b, job' = [job EXCEPT ![w] = b],
         Planning(b), b.op # "ADJUST",
         \A v \in Workers : v # w => Apart(job[v], b) /\ Apart(b, job[v]),
         UNCHANGED <<people, policy, books, lock, accrual>>
  PROVE  BalanceInv'
<1>1. Tables'
  BY DEF BalanceInv, Tables, people, books, NoAdjustmentIsLost, HasRow, Present, Created
<1>2. ASSUME NEW v \in Workers PROVE Planning(job[v])' /\ Adjusting(v, job[v])'
  <2>1. CASE v = w
    <3>1. job'[v] = b
      BY <2>1 DEF BalanceInv, Requests
    <3> QED BY <3>1 DEF people, Planning, Adjusting, Changes, Created
  <2>2. CASE v # w
    <3>1. job'[v] = job[v]
      BY <2>2 DEF BalanceInv, Requests
    <3>2. Planning(job[v]) /\ Adjusting(v, job[v])
      BY DEF BalanceInv, Requests
    <3>3. Planning(job[v])'
      BY <3>1, <3>2 DEF people, Planning, Created
    <3>4. Adjusting(v, job[v])'
      BY <3>1, <3>2 DEF people, books, Adjusting, HasRow, Present, Created
    <3> QED BY <3>3, <3>4
  <2> QED BY <2>1, <2>2
<1>3. Requests'
  BY <1>2 DEF BalanceInv, Requests
<1>4. AccrualRuns'
  BY DEF BalanceInv, AccrualRuns, Accruing, people, Present, Created
<1> QED BY <1>1, <1>3, <1>4 DEF BalanceInv

-----------------------------------------------------------------------------
(* The beginning of requests.                                              *)

\* The inputs of a change, before it has planned.
Input(j) ==
  /\ DOMAIN j = Fields
  /\ j.op \in {"NEW EMPLOYEE", "ROLE", "JOINING DATE"} => j.emp \in Employees
  /\ j.op \in {"NEW TYPE", "ENTITLEMENT"} => j.type \in Types /\ j.policy \in Policies
  /\ j.joined \in Int
  /\ j.op = "NEW EMPLOYEE" => status[j.emp] = "absent"
  /\ j.op = "NEW TYPE" => ~Created(j.type)
  /\ j.op = "ENTITLEMENT" => Created(j.type)

LEMMA EntitlementsOfTypes ==
  ASSUME Tables, NEW t \in Types, Created(t)
  PROVE  policy[t] \in Policies
BY DEF Tables, Created

LEMMA PlanForRoleIsGood ==
  ASSUME Tables, NEW j, j.emp \in Employees, NEW was
  PROVE  PlanForRole(j, was) \in [Pairs -> Int \cup {NoRow}]
<1>1. ASSUME NEW p \in Pairs, p[1] = j.emp, Created(p[2])
      PROVE  Opening(j.role, joined[j.emp], policy[p[2]]) \in Int
  <2>1. policy[p[2]] \in Policies /\ joined[j.emp] \in Int
    BY <1>1, PairsAreOf, EntitlementsOfTypes DEF Tables
  <2> QED BY <2>1, OpeningIsANumber
<1> QED BY <1>1 DEF PlanForRole, PlanIf, Allotted

LEMMA PlanForEntitlementIsGood ==
  ASSUME Tables, NEW j, j.policy \in Policies, NEW was
  PROVE  PlanForEntitlement(j, was) \in [Pairs -> Int \cup {NoRow}]
<1>1. ASSUME NEW p \in Pairs
      PROVE  Opening(role[p[1]], joined[p[1]], j.policy) \in Int
  <2>1. joined[p[1]] \in Int
    BY PairsAreOf DEF Tables
  <2> QED BY <2>1, OpeningIsANumber
<1> QED BY <1>1 DEF PlanForEntitlement, PlanIf

LEMMA PlanIsGood ==
  ASSUME Tables, NEW j, Input(j), j.op \in Changes
  PROVE  /\ Plan(j) \in [Pairs -> Int \cup {NoRow}]
         /\ j.op = "NEW EMPLOYEE" =>
              \A p \in Pairs : Plan(j)[p] # NoRow => p[1] = j.emp /\ Created(p[2])
         /\ j.op = "NEW TYPE" =>
              \A p \in Pairs : Plan(j)[p] # NoRow => p[2] = j.type /\ status[p[1]] # "absent"
<1> USE DEF Input
<1>1. CASE j.op = "NEW EMPLOYEE"
  <2>1. Plan(j) = PlanForEmployee(j)
    BY <1>1 DEF Plan
  <2>2. ASSUME NEW p \in Pairs, Created(p[2])
        PROVE  Opening(j.role, j.joined, policy[p[2]]) \in Int
    BY <2>2, PairsAreOf, EntitlementsOfTypes, OpeningIsANumber
  <2> QED BY <1>1, <2>1, <2>2 DEF PlanForEmployee, PlanIf, Allotted
<1>2. CASE j.op = "NEW TYPE"
  <2>1. Plan(j) = PlanForType(j)
    BY <1>2 DEF Plan
  <2>2. ASSUME NEW p \in Pairs
        PROVE  Opening(role[p[1]], joined[p[1]], j.policy) \in Int
    <3>1. joined[p[1]] \in Int
      BY PairsAreOf DEF Tables
    <3> QED BY <1>2, <3>1, OpeningIsANumber
  <2> QED BY <1>2, <2>1, <2>2 DEF PlanForType, PlanIf
<1>3. CASE j.op = "ENTITLEMENT"
  BY <1>3, PlanForEntitlementIsGood DEF Plan
<1>4. CASE j.op = "ROLE"
  BY <1>4, PlanForRoleIsGood DEF Plan
<1>5. CASE j.op = "JOINING DATE"
  <2>1. Plan(j) = PlanForJoiningDate(j)
    BY <1>5 DEF Plan
  <2>2. ASSUME NEW p \in Pairs, Created(p[2])
        PROVE  Opening(role[j.emp], j.joined, policy[p[2]]) \in Int
    BY <2>2, PairsAreOf, EntitlementsOfTypes, OpeningIsANumber
  <2> QED BY <1>5, <2>1, <2>2 DEF PlanForJoiningDate, PlanIf, Allotted
<1> QED BY <1>1, <1>2, <1>3, <1>4, <1>5 DEF Changes

LEMMA StartPlannedKeeps ==
  ASSUME BalanceInv, NEW w \in Workers, NEW j, Input(j), j.op \in Changes, StartPlanned(w, j)
  PROVE  BalanceInv'
<1> DEFINE b == [j EXCEPT !.plan = Plan(j)]
<1>1. /\ b.plan = Plan(j) /\ b.op = j.op /\ b.emp = j.emp /\ b.type = j.type
      /\ b.joined = j.joined /\ b.policy = j.policy /\ DOMAIN b = Fields
  BY DEF Input, Fields
<1>2. job' = [job EXCEPT ![w] = b]
  BY DEF StartPlanned, Start
<1>3. \A v \in Workers : v # w => Apart(job[v], b) /\ Apart(b, job[v])
  <2> HIDE DEF b
  <2> QED BY <1>1 DEF StartPlanned, Locks, Apart
<1> HIDE DEF b
<1>4. Planning(b)
  BY <1>1, PlanIsGood DEF Planning, Input, BalanceInv, Changes
<1>5. b.op # "ADJUST"
  BY <1>1 DEF Changes
<1>6. UNCHANGED <<people, policy, books, lock, accrual>>
  BY DEF StartPlanned
<1> QED BY <1>2, <1>3, <1>4, <1>5, <1>6, RequestMoves

LEMMA StartChangeKeeps ==
  ASSUME BalanceInv, NEW w \in Workers, StartChange(w)
  PROVE  BalanceInv'
<1>1. CASE StartCreateEmployee(w)
  <2>1. PICK e \in Employees, r \in Roles, m \in JoinMonths \cup {0} :
          /\ status[e] = "absent"
          /\ StartPlanned(w, [Idle EXCEPT !.op = "NEW EMPLOYEE", !.emp = e, !.role = r,
                                          !.joined = m])
    BY <1>1 DEF StartCreateEmployee
  <2> DEFINE j == [Idle EXCEPT !.op = "NEW EMPLOYEE", !.emp = e, !.role = r, !.joined = m]
  <2>2. m \in Int
    BY MonthsAreNumbers
  <2>3. Input(j) /\ j.op \in Changes
    BY <2>1, <2>2 DEF Input, Idle, Fields, Changes
  <2> HIDE DEF j
  <2> QED BY <2>1, <2>3, StartPlannedKeeps DEF j
<1>2. CASE StartCreateLeaveType(w)
  <2>1. PICK t \in Types, pol \in Policies :
          /\ ~Created(t)
          /\ StartPlanned(w, [Idle EXCEPT !.op = "NEW TYPE", !.type = t, !.policy = pol])
    BY <1>2 DEF StartCreateLeaveType
  <2> DEFINE j == [Idle EXCEPT !.op = "NEW TYPE", !.type = t, !.policy = pol]
  <2>2. Input(j) /\ j.op \in Changes
    BY <2>1 DEF Input, Idle, Fields, Changes
  <2> HIDE DEF j
  <2> QED BY <2>1, <2>2, StartPlannedKeeps DEF j
<1>3. CASE StartUpdateLeaveType(w)
  <2> DEFINE j == job[w]
             plan == PlanForEntitlement(j, j.early)
             b == [j EXCEPT !.op = "ENTITLEMENT", !.plan = plan]
  <2>1. Planning(j) /\ j.op = "ENTITLEMENT?" /\ job' = [job EXCEPT ![w] = b]
    BY <1>3 DEF StartUpdateLeaveType, BalanceInv, Requests
  <2>2. plan \in [Pairs -> Int \cup {NoRow}]
    BY <2>1, PlanForEntitlementIsGood DEF Planning, BalanceInv
  <2> HIDE DEF j, plan
  <2>3. Planning(b) /\ b.op = "ENTITLEMENT"
    BY <2>1, <2>2 DEF Planning, Fields, Changes
  <2> HIDE DEF b
  <2>4. \A v \in Workers : Apart(job[v], b) /\ Apart(b, job[v])
    BY <2>3 DEF Apart
  <2>5. UNCHANGED <<people, policy, books, lock, accrual>>
    BY <1>3 DEF StartUpdateLeaveType
  <2> QED BY <2>1, <2>3, <2>4, <2>5, RequestMoves
<1>4. CASE StartUpdateJoiningDate(w)
  <2>1. PICK e \in Employees, m \in JoinMonths \cup {0} :
          StartPlanned(w, [Idle EXCEPT !.op = "JOINING DATE", !.emp = e, !.joined = m])
    BY <1>4 DEF StartUpdateJoiningDate
  <2> DEFINE j == [Idle EXCEPT !.op = "JOINING DATE", !.emp = e, !.joined = m]
  <2>2. m \in Int
    BY MonthsAreNumbers
  <2>3. Input(j) /\ j.op \in Changes
    BY <2>1, <2>2 DEF Input, Idle, Fields, Changes
  <2> HIDE DEF j
  <2> QED BY <2>1, <2>3, StartPlannedKeeps DEF j
<1>5. CASE ReadRole(w)
  <2>1. PICK e \in Employees, r \in Roles :
          /\ Start(w, [Idle EXCEPT !.op = "ROLE?", !.emp = e, !.role = r, !.was = role[e]])
          /\ UNCHANGED <<year, people, policy, books, lock, accrual, astray>>
    BY <1>5 DEF ReadRole
  <2> DEFINE b == [Idle EXCEPT !.op = "ROLE?", !.emp = e, !.role = r, !.was = role[e]]
  <2>2. Planning(b) /\ b.op = "ROLE?"
    BY DEF Planning, Idle, Fields, Changes
  <2>3. job' = [job EXCEPT ![w] = b]
    BY <2>1 DEF Start
  <2> HIDE DEF b
  <2>4. \A v \in Workers : Apart(job[v], b) /\ Apart(b, job[v])
    BY <2>2 DEF Apart
  <2> QED BY <2>1, <2>2, <2>3, <2>4, RequestMoves
<1>6. CASE StartUpdateRole(w)
  <2> DEFINE j == job[w]
             plan == PlanForRole(j, j.was)
             b == [j EXCEPT !.op = "ROLE", !.plan = plan]
  <2>1. Planning(j) /\ j.op = "ROLE?" /\ job' = [job EXCEPT ![w] = b]
    BY <1>6 DEF StartUpdateRole, BalanceInv, Requests
  <2>2. plan \in [Pairs -> Int \cup {NoRow}]
    BY <2>1, PlanForRoleIsGood DEF Planning, BalanceInv
  <2> HIDE DEF j, plan
  <2>3. Planning(b) /\ b.op = "ROLE"
    BY <2>1, <2>2 DEF Planning, Fields, Changes
  <2> HIDE DEF b
  <2>4. \A v \in Workers : Apart(job[v], b) /\ Apart(b, job[v])
    BY <2>3 DEF Apart
  <2>5. UNCHANGED <<people, policy, books, lock, accrual>>
    BY <1>6 DEF StartUpdateRole
  <2> QED BY <2>1, <2>3, <2>4, <2>5, RequestMoves
<1>7. CASE StartUpdateInfo(w)
  <2>1. PICK e \in Employees :
          /\ Start(w, [Idle EXCEPT !.op = "INFO", !.emp = e, !.joined = joined[e]])
          /\ UNCHANGED <<year, people, policy, books, lock, accrual, astray>>
    BY <1>7 DEF StartUpdateInfo
  <2> DEFINE b == [Idle EXCEPT !.op = "INFO", !.emp = e, !.joined = joined[e]]
  <2>2. joined[e] \in Int
    BY DEF BalanceInv, Tables
  <2>3. Planning(b) /\ b.op = "INFO"
    BY <2>2 DEF Planning, Idle, Fields, Changes
  <2>4. job' = [job EXCEPT ![w] = b]
    BY <2>1 DEF Start
  <2> HIDE DEF b
  <2>5. \A v \in Workers : Apart(job[v], b) /\ Apart(b, job[v])
    BY <2>3 DEF Apart
  <2> QED BY <2>1, <2>3, <2>4, <2>5, RequestMoves
<1>8. CASE ReadLeaveType(w)
  <2>1. PICK t \in Types, pol \in Policies :
          /\ Created(t)
          /\ Start(w, [Idle EXCEPT !.op = "ENTITLEMENT?", !.type = t, !.policy = pol,
                                   !.early = policy[t].early])
          /\ UNCHANGED <<year, people, policy, books, lock, accrual, astray>>
    BY <1>8 DEF ReadLeaveType
  <2> DEFINE b == [Idle EXCEPT !.op = "ENTITLEMENT?", !.type = t, !.policy = pol,
                               !.early = policy[t].early]
  <2>2. Planning(b) /\ b.op = "ENTITLEMENT?"
    BY <2>1 DEF Planning, Idle, Fields, Changes
  <2>3. job' = [job EXCEPT ![w] = b]
    BY <2>1 DEF Start
  <2> HIDE DEF b
  <2>4. \A v \in Workers : Apart(job[v], b) /\ Apart(b, job[v])
    BY <2>2 DEF Apart
  <2> QED BY <2>1, <2>2, <2>3, <2>4, RequestMoves
<1> QED BY <1>1, <1>2, <1>3, <1>4, <1>5, <1>6, <1>7, <1>8 DEF StartChange

-----------------------------------------------------------------------------
(* Rows are inserted, reopened and written.                                *)

LEMMA RowWritten ==
  ASSUME BalanceInv, NEW p \in Pairs, Present(p), NEW row, GoodRow(row),
         balance' = [balance EXCEPT ![p] = row],
         adjustments' \in [Pairs -> Int], adjustments'[p] = row.adjusted,
         \A o \in Pairs \ {p} : adjustments'[o] = adjustments[o],
         UNCHANGED <<people, policy>>
  PROVE  Tables'
<1>1. row # NoRow
  BY RowIsNotNoRow DEF GoodRow
<1>2. balance' = [o \in Pairs |-> IF o = p THEN row ELSE balance[o]]
  BY DEF BalanceInv, Tables
<1>3. \A o \in Pairs : HasRow(o)' => GoodRow(balance'[o]) /\ Present(o)'
  BY <1>2 DEF BalanceInv, Tables, HasRow, Present, Created, people
<1>4. NoAdjustmentIsLost'
  BY <1>1, <1>2 DEF BalanceInv, Tables, HasRow, NoAdjustmentIsLost
<1>5. balance' = [o \in Pairs |-> balance'[o]]
  BY <1>2
<1> QED BY <1>3, <1>4, <1>5 DEF BalanceInv, Tables, people

\* Nothing has a row yet that is inserted, and nobody adjusts it.
LEMMA RowsInserted ==
  ASSUME BalanceInv, Grows, NEW j, j.plan \in [Pairs -> Int \cup {NoRow}],
         \A p \in Planned(j) : ~HasRow(p) /\ Present(p)', InsertRows(j),
         status' \in [Employees -> Statuses], joined' \in [Employees -> Int],
         policy' \in [Types -> Policies \cup {Unset}], DOMAIN role' = Employees,
         UNCHANGED adjustments
  PROVE  Tables'
<1>1. \A p \in Planned(j) : balance'[p] = NewRow(j.plan[p]) /\ j.plan[p] \in Int
  BY DEF InsertRows, Planned
<1>2. \A p \in Pairs \ Planned(j) : balance'[p] = balance[p]
  BY DEF InsertRows
<1>3. ASSUME NEW p \in Pairs
      PROVE  /\ HasRow(p)' => GoodRow(balance'[p]) /\ Present(p)'
             /\ adjustments'[p] = IF HasRow(p)' THEN balance'[p].adjusted ELSE 0
  <2>1. CASE p \in Planned(j)
    <3>1. GoodRow(balance'[p]) /\ balance'[p].adjusted = 0
      BY <1>1, <2>1, NewRowIsGood
    <3>2. balance'[p] # NoRow
      BY <3>1, RowIsNotNoRow DEF GoodRow
    <3>3. adjustments[p] = 0
      BY <2>1 DEF BalanceInv, Tables, NoAdjustmentIsLost
    <3> QED BY <2>1, <3>1, <3>2, <3>3 DEF HasRow
  <2>2. CASE p \notin Planned(j)
    BY <1>2, <2>2, PresentStays DEF BalanceInv, Tables, NoAdjustmentIsLost, HasRow
  <2> QED BY <2>1, <2>2
<1>4. balance' = [p \in Pairs |-> balance'[p]]
  BY DEF InsertRows
<1> QED BY <1>3, <1>4 DEF BalanceInv, Tables, NoAdjustmentIsLost

LEMMA RowsReopened ==
  ASSUME BalanceInv, Grows, NEW j, j.plan \in [Pairs -> Int \cup {NoRow}], ReopenRows(j),
         status' \in [Employees -> Statuses], joined' \in [Employees -> Int],
         policy' \in [Types -> Policies \cup {Unset}], DOMAIN role' = Employees,
         UNCHANGED adjustments
  PROVE  Tables'
<1>1. ASSUME NEW p \in Pairs
      PROVE  /\ HasRow(p)' => GoodRow(balance'[p]) /\ Present(p)'
             /\ adjustments'[p] = IF HasRow(p)' THEN balance'[p].adjusted ELSE 0
  <2>1. CASE p \in Planned(j) /\ HasRow(p)
    <3>1. balance'[p] = Reopened(balance[p], j.plan[p]) /\ j.plan[p] \in Int
      BY <2>1 DEF ReopenRows, Planned
    <3>2. GoodRow(balance'[p]) /\ balance'[p].adjusted = balance[p].adjusted
      BY <2>1, <3>1, ReopenedIsGood DEF BalanceInv, Tables
    <3>3. balance'[p] # NoRow
      BY <3>2, RowIsNotNoRow DEF GoodRow
    <3> QED BY <2>1, <3>2, <3>3, PresentStays DEF BalanceInv, Tables, NoAdjustmentIsLost, HasRow
  <2>2. CASE ~(p \in Planned(j) /\ HasRow(p))
    <3>1. balance'[p] = balance[p]
      BY <2>2 DEF ReopenRows, Reopened, HasRow
    <3> QED BY <3>1, PresentStays DEF BalanceInv, Tables, NoAdjustmentIsLost, HasRow
  <2> QED BY <2>1, <2>2
<1>2. balance' = [p \in Pairs |-> balance'[p]]
  BY DEF ReopenRows
<1> QED BY <1>1, <1>2 DEF BalanceInv, Tables, NoAdjustmentIsLost

\* A row that an adjustment has locked is not reopened.
LEMMA ReopeningDisturbsNobody ==
  ASSUME BalanceInv, NEW w \in Workers, NEW j, ReopenRows(j), Finish(w), UNCHANGED status,
         \A v \in Workers : job[v].op = "NEW TYPE" => policy'[job[v].type] = policy[job[v].type]
  PROVE  \A v \in Workers \ {w} : Undisturbed(v)
<1>1. ASSUME NEW v \in Workers \ {w}, job[v].op = "ADJUST"
      PROVE  balance'[job[v].pair] = balance[job[v].pair]
  <2>1. job[v].pair \in Pairs /\ lock[job[v].pair] # NoWorker
    BY <1>1, BalanceAssumption DEF BalanceInv, Requests, Adjusting
  <2>2. \A p \in Pairs : lock[p] # NoWorker => balance'[p] = balance[p]
    BY DEF ReopenRows, Reopened, HasRow
  <2> QED BY <2>1, <2>2
<1> QED BY <1>1, OthersKeepLocks DEF BalanceInv, Undisturbed

\* The end of a request.
LEMMA RequestEnds ==
  ASSUME BalanceInv, Grows, NEW w \in Workers, Finish(w), Tables',
         \A v \in Workers \ {w} : Undisturbed(v), UNCHANGED accrual
  PROVE  BalanceInv'
<1>1. Requests'
  BY OthersKeepLocks, RequestsGoOn DEF BalanceInv
<1>2. AccrualRuns'
  BY AccrualsGoOn DEF BalanceInv
<1> QED BY <1>1, <1>2 DEF BalanceInv

LEMMA CreateEmployeeKeeps ==
  ASSUME BalanceInv, NEW w \in Workers, CommitCreateEmployee(w)
  PROVE  BalanceInv'
<1> DEFINE j == job[w]
<1>1. /\ Planning(j) /\ j.op = "NEW EMPLOYEE" /\ j.emp \in Employees
      /\ status[j.emp] = "absent" /\ j.joined \in Int
      /\ j.plan \in [Pairs -> Int \cup {NoRow}]
      /\ \A p \in Planned(j) : p[1] = j.emp /\ Created(p[2])
  BY DEF CommitCreateEmployee, BalanceInv, Requests, Planning, Changes, Planned
<1>2. /\ status' = [status EXCEPT ![j.emp] = "active"]
      /\ role' = [role EXCEPT ![j.emp] = j.role]
      /\ joined' = [joined EXCEPT ![j.emp] = j.joined]
      /\ InsertRows(j) /\ Finish(w) /\ UNCHANGED <<policy, adjustments, accrual>>
  BY DEF CommitCreateEmployee
<1>3. /\ status' \in [Employees -> Statuses] /\ joined' \in [Employees -> Int]
      /\ policy' \in [Types -> Policies \cup {Unset}] /\ DOMAIN role' = Employees /\ Grows
      /\ status'[j.emp] = "active"
      /\ \A e \in Employees \ {j.emp} : status'[e] = status[e]
  BY <1>1, <1>2 DEF BalanceInv, Tables, Statuses, Grows, Created
<1>4. \A p \in Planned(j) : p \in Pairs /\ ~Present(p) /\ ~HasRow(p) /\ Present(p)'
  <2>1. ASSUME NEW p \in Planned(j) PROVE p \in Pairs /\ ~Present(p) /\ Present(p)'
    BY <1>1, <1>2, <1>3 DEF Present, Created, Planned
  <2> QED BY <2>1 DEF BalanceInv, Tables
<1>5. ASSUME NEW v \in Workers \ {w} PROVE Undisturbed(v)
  <2>1. ASSUME job[v].op = "ADJUST"
        PROVE  balance'[job[v].pair] = balance[job[v].pair]
    <3>1. job[v].pair \in Pairs \ Planned(j)
      BY <1>4, <2>1 DEF BalanceInv, Requests, Adjusting
    <3> QED BY <1>2, <3>1 DEF InsertRows
  <2>2. ASSUME job[v].op = "NEW EMPLOYEE"
        PROVE  status'[job[v].emp] = status[job[v].emp]
    <3>1. job[v].emp \in Employees /\ job[v].emp # j.emp
      BY <1>1, <2>2 DEF BalanceInv, Requests, Planning, Apart
    <3> QED BY <1>3, <3>1
  <2> QED BY <1>2, <2>1, <2>2, OthersKeepLocks DEF BalanceInv, Undisturbed, people
<1> HIDE DEF j
<1>6. Tables'
  BY <1>1, <1>2, <1>3, <1>4, RowsInserted
<1> QED BY <1>2, <1>3, <1>5, <1>6, RequestEnds

LEMMA CreateLeaveTypeKeeps ==
  ASSUME BalanceInv, NEW w \in Workers, CommitCreateLeaveType(w)
  PROVE  BalanceInv'
<1> DEFINE j == job[w]
<1>1. /\ Planning(j) /\ j.op = "NEW TYPE" /\ j.type \in Types /\ j.policy \in Policies
      /\ ~Created(j.type) /\ j.plan \in [Pairs -> Int \cup {NoRow}]
      /\ \A p \in Planned(j) : p[2] = j.type /\ status[p[1]] # "absent"
  BY DEF CommitCreateLeaveType, BalanceInv, Requests, Planning, Changes, Planned
<1>2. /\ policy' = [policy EXCEPT ![j.type] = j.policy]
      /\ InsertRows(j) /\ Finish(w) /\ UNCHANGED <<people, adjustments, accrual>>
  BY DEF CommitCreateLeaveType
<1>3. /\ status' \in [Employees -> Statuses] /\ joined' \in [Employees -> Int]
      /\ policy' \in [Types -> Policies \cup {Unset}] /\ DOMAIN role' = Employees /\ Grows
      /\ policy'[j.type] \in Policies
      /\ \A t \in Types \ {j.type} : policy'[t] = policy[t]
  BY <1>1, <1>2, BalanceAssumption DEF BalanceInv, Tables, Statuses, Grows, Created, people
<1>4. \A p \in Planned(j) : p \in Pairs /\ ~Present(p) /\ ~HasRow(p) /\ Present(p)'
  BY <1>1, <1>2, <1>3, BalanceAssumption DEF people, BalanceInv, Tables, Present, Created, Planned
<1>5. ASSUME NEW v \in Workers \ {w} PROVE Undisturbed(v)
  <2>1. ASSUME job[v].op = "ADJUST"
        PROVE  balance'[job[v].pair] = balance[job[v].pair]
    <3>1. job[v].pair \in Pairs \ Planned(j)
      BY <1>4, <2>1 DEF BalanceInv, Requests, Adjusting
    <3> QED BY <1>2, <3>1 DEF InsertRows
  <2>2. ASSUME job[v].op = "NEW TYPE"
        PROVE  policy'[job[v].type] = policy[job[v].type]
    <3>1. job[v].type \in Types /\ job[v].type # j.type
      BY <1>1, <2>2 DEF BalanceInv, Requests, Planning, Apart
    <3> QED BY <1>3, <3>1
  <2> QED BY <1>2, <2>1, <2>2, OthersKeepLocks DEF BalanceInv, Undisturbed, people
<1> HIDE DEF j
<1>6. Tables'
  BY <1>1, <1>2, <1>3, <1>4, RowsInserted
<1> QED BY <1>2, <1>3, <1>5, <1>6, RequestEnds

LEMMA UpdateLeaveTypeKeeps ==
  ASSUME BalanceInv, NEW w \in Workers, CommitUpdateLeaveType(w)
  PROVE  BalanceInv'
<1> DEFINE j == job[w]
<1>1. /\ j.type \in Types /\ j.policy \in Policies /\ Created(j.type)
      /\ j.plan \in [Pairs -> Int \cup {NoRow}]
  BY DEF CommitUpdateLeaveType, BalanceInv, Requests, Planning, Changes
<1>2. /\ policy' = [policy EXCEPT ![j.type] = j.policy]
      /\ ReopenRows(j) /\ Finish(w) /\ UNCHANGED <<people, adjustments, accrual>>
  BY DEF CommitUpdateLeaveType
<1>3. /\ status' \in [Employees -> Statuses] /\ joined' \in [Employees -> Int]
      /\ policy' \in [Types -> Policies \cup {Unset}] /\ DOMAIN role' = Employees /\ Grows
      /\ \A t \in Types \ {j.type} : policy'[t] = policy[t]
  BY <1>1, <1>2, BalanceAssumption DEF BalanceInv, Tables, Statuses, Grows, Created, people
<1>4. \A v \in Workers : job[v].op = "NEW TYPE" => policy'[job[v].type] = policy[job[v].type]
  BY <1>1, <1>3 DEF BalanceInv, Requests, Planning
<1> HIDE DEF j
<1>5. \A v \in Workers \ {w} : Undisturbed(v)
  BY <1>2, <1>4, ReopeningDisturbsNobody DEF people
<1>6. Tables'
  BY <1>1, <1>2, <1>3, RowsReopened
<1> QED BY <1>2, <1>3, <1>5, <1>6, RequestEnds

LEMMA UpdateRoleKeeps ==
  ASSUME BalanceInv, NEW w \in Workers, CommitUpdateRole(w)
  PROVE  BalanceInv'
<1> DEFINE j == job[w]
<1>1. j.plan \in [Pairs -> Int \cup {NoRow}]
  BY DEF CommitUpdateRole, BalanceInv, Requests, Planning, Changes
<1>2. /\ role' = [role EXCEPT ![j.emp] = j.role]
      /\ ReopenRows(j) /\ Finish(w) /\ UNCHANGED <<status, joined, policy, adjustments, accrual>>
  BY DEF CommitUpdateRole
<1>3. Grows
  BY <1>2 DEF Grows, Created
<1> HIDE DEF j
<1>4. \A v \in Workers \ {w} : Undisturbed(v)
  BY <1>2, ReopeningDisturbsNobody
<1>5. Tables'
  BY <1>1, <1>2, <1>3, RowsReopened DEF BalanceInv, Tables
<1> QED BY <1>2, <1>3, <1>4, <1>5, RequestEnds

LEMMA UpdateJoiningDateKeeps ==
  ASSUME BalanceInv, NEW w \in Workers, CommitUpdateJoiningDate(w)
  PROVE  BalanceInv'
<1> DEFINE j == job[w]
<1>1. /\ j.emp \in Employees /\ j.joined \in Int
      /\ j.plan \in [Pairs -> Int \cup {NoRow}]
  BY DEF CommitUpdateJoiningDate, BalanceInv, Requests, Planning, Changes
<1>2. /\ joined' = [joined EXCEPT ![j.emp] = j.joined]
      /\ ReopenRows(j) /\ Finish(w) /\ UNCHANGED <<status, role, policy, adjustments, accrual>>
  BY DEF CommitUpdateJoiningDate
<1>3. joined' \in [Employees -> Int] /\ Grows
  BY <1>1, <1>2 DEF BalanceInv, Tables, Grows, Created
<1> HIDE DEF j
<1>4. \A v \in Workers \ {w} : Undisturbed(v)
  BY <1>2, ReopeningDisturbsNobody
<1>5. Tables'
  BY <1>1, <1>2, <1>3, RowsReopened DEF BalanceInv, Tables
<1> QED BY <1>2, <1>3, <1>4, <1>5, RequestEnds

LEMMA UpdateInfoKeeps ==
  ASSUME BalanceInv, NEW w \in Workers, CommitUpdateInfo(w)
  PROVE  BalanceInv'
<1> DEFINE j == job[w]
<1>1. j.emp \in Employees /\ j.joined \in Int
  BY DEF CommitUpdateInfo, BalanceInv, Requests, Planning
<1>2. /\ joined' = [joined EXCEPT ![j.emp] = j.joined]
      /\ Finish(w) /\ UNCHANGED <<status, role, policy, books, accrual>>
  BY DEF CommitUpdateInfo
<1>3. joined' \in [Employees -> Int] /\ Grows
  BY <1>1, <1>2 DEF BalanceInv, Tables, Grows, Created
<1>4. \A v \in Workers \ {w} : Undisturbed(v)
  BY <1>2, OthersKeepLocks DEF BalanceInv, Undisturbed, books
<1>5. Tables'
  BY <1>2, <1>3
  DEF BalanceInv, Tables, books, NoAdjustmentIsLost, HasRow, Present, Created
<1> QED BY <1>2, <1>3, <1>4, <1>5, RequestEnds

LEMMA CommitChangeKeeps ==
  ASSUME BalanceInv, NEW w \in Workers, CommitChange(w)
  PROVE  BalanceInv'
BY CreateEmployeeKeeps, CreateLeaveTypeKeeps, UpdateLeaveTypeKeeps, UpdateRoleKeeps,
   UpdateJoiningDateKeeps, UpdateInfoKeeps DEF CommitChange

-----------------------------------------------------------------------------
(* Adjustments.                                                            *)

LEMMA RowToAdjustIsGood ==
  ASSUME Tables, NEW p \in Pairs, Present(p)
  PROVE  /\ GoodRow(RowToAdjust(p))
         /\ IF HasRow(p) THEN balance[p] = RowToAdjust(p) ELSE RowToAdjust(p).adjusted = 0
<1>1. policy[p[2]] \in Policies
  BY PairsAreOf, EntitlementsOfTypes DEF Present
<1>2. FullEntitlement(role[p[1]], policy[p[2]]) \in Int
  BY <1>1, BalanceAssumption DEF FullEntitlement
<1> QED BY <1>2, NewRowIsGood DEF RowToAdjust, Tables

LEMMA StartAdjustKeeps ==
  ASSUME BalanceInv, NEW w \in Workers, StartAdjust(w)
  PROVE  BalanceInv'
<1>1. PICK p \in Pairs, q \in Quantities :
        /\ Present(p) /\ Lock(p, w)
        /\ Start(w, [Idle EXCEPT !.op = "ADJUST", !.pair = p, !.qty = q,
                                 !.row = RowToAdjust(p)])
        /\ UNCHANGED <<people, policy, books, accrual>>
  BY DEF StartAdjust, Present
<1>r. PICK row : row = RowToAdjust(p)
  OBVIOUS
<1>b. PICK b : b = [Idle EXCEPT !.op = "ADJUST", !.pair = p, !.qty = q, !.row = row]
  OBVIOUS
<1>2. GoodRow(row) /\ IF HasRow(p) THEN balance[p] = row ELSE row.adjusted = 0
  BY <1>1, <1>r, RowToAdjustIsGood DEF BalanceInv
<1>3. q \in Int
  BY BalanceAssumption
<1>4. /\ DOMAIN b = Fields /\ b.op = "ADJUST" /\ b.pair = p /\ b.qty = q /\ b.row = row
      /\ b.joined \in Int
  BY <1>b DEF Idle, Fields
<1>5. /\ job[w] = Idle /\ job' = [job EXCEPT ![w] = b]
      /\ lock[p] = NoWorker /\ lock' = [lock EXCEPT ![p] = w]
  BY <1>1, <1>r, <1>b DEF Start, Lock
<1>6. Tables'
  BY <1>1 DEF BalanceInv, Tables, people, books, NoAdjustmentIsLost, HasRow, Present, Created
<1>7. Planning(b) /\ \A i : Apart(b, i) /\ Apart(i, b)
  BY <1>4 DEF Planning, Changes, Apart
<1>8. Adjusting(w, b)'
  <2>1. lock'[p] = w
    BY <1>5 DEF BalanceInv, Requests
  <2> QED BY <1>1, <1>2, <1>3, <1>4, <2>1
          DEF Adjusting, people, books, HasRow, Present, Created
<1>9. ASSUME NEW v \in Workers PROVE Planning(job[v])' /\ Adjusting(v, job[v])'
  <2>1. CASE v = w
    <3>1. job'[v] = b
      BY <1>5, <2>1 DEF BalanceInv, Requests
    <3>2. Planning(job[v])'
      BY <1>1, <1>7, <3>1 DEF Planning, people, Created
    <3> QED BY <1>8, <2>1, <3>1, <3>2 DEF Adjusting, Present, Created, HasRow
  <2>2. CASE v # w
    <3>1. job'[v] = job[v] /\ Planning(job[v]) /\ Adjusting(v, job[v])
      BY <1>5, <2>2 DEF BalanceInv, Requests
    <3>2. Planning(job[v])'
      BY <1>1, <3>1 DEF people, Planning, Created
    <3>3. job[v].op = "ADJUST" => lock'[job[v].pair] = v
      BY <1>5, <3>1, BalanceAssumption DEF Adjusting, BalanceInv, Requests
    <3>4. Adjusting(v, job[v])'
      BY <1>1, <3>1, <3>3 DEF people, books, Adjusting, HasRow, Present, Created
    <3> QED BY <3>2, <3>4
  <2> QED BY <2>1, <2>2
<1>10. Requests'
  BY <1>5, <1>7, <1>9 DEF BalanceInv, Requests
<1>11. AccrualRuns'
  BY <1>1 DEF BalanceInv, AccrualRuns, Accruing, people, Present, Created
<1> QED BY <1>6, <1>10, <1>11 DEF BalanceInv

LEMMA AdjustedIsGood ==
  ASSUME NEW row, GoodRow(row), NEW a \in Int
  PROVE  GoodRow(Adjusted(row, row, a)) /\ Adjusted(row, row, a).adjusted = a
<1> DEFINE closing == row.opening - row.used + a
           b == [opening |-> row.opening, accrued |-> row.accrued, used |-> row.used,
                 adjusted |-> a, closing |-> closing]
<1>1. /\ row = [opening |-> row.opening, accrued |-> row.accrued, used |-> row.used,
                adjusted |-> row.adjusted, closing |-> row.closing]
      /\ row.used \in Int /\ row.opening \in Int /\ row.accrued \in Nat
  BY DEF GoodRow, Row
<1>2. Adjusted(row, row, a) = b
  <2>1. Adjusted(row, row, a) = [row EXCEPT !.adjusted = a, !.closing = closing]
    BY DEF Adjusted
  <2> HIDE DEF closing
  <2> QED BY <1>1, <2>1
<1>3. b \in Row /\ AddsUp(b) /\ b.adjusted = a
  BY <1>1 DEF Row, AddsUp
<1> HIDE DEF b
<1> QED BY <1>2, <1>3 DEF GoodRow

LEMMA CommitAdjustKeeps ==
  ASSUME BalanceInv, NEW w \in Workers, CommitAdjust(w)
  PROVE  BalanceInv'
<1> DEFINE j == job[w]
           p == j.pair
           adjusted == j.row.adjusted + j.qty
           row == Adjusted(j.row, j.row, adjusted)
<1>1. /\ j.op = "ADJUST" /\ p \in Pairs /\ Present(p) /\ lock[p] = w
      /\ j.qty \in Int /\ GoodRow(j.row)
      /\ IF HasRow(p) THEN balance[p] = j.row ELSE j.row.adjusted = 0
  BY DEF CommitAdjust, BalanceInv, Requests, Adjusting
<1>2. /\ balance' = [balance EXCEPT ![p] = row]
      /\ adjustments' = [adjustments EXCEPT ![p] = @ + j.qty]
      /\ Finish(w) /\ UNCHANGED <<people, policy, accrual>>
  BY <1>1 DEF CommitAdjust
<1>3. adjusted \in Int /\ adjustments[p] = j.row.adjusted
  BY <1>1 DEF GoodRow, Row, BalanceInv, Tables, NoAdjustmentIsLost
<1>4. GoodRow(row) /\ row.adjusted = adjusted
  BY <1>1, <1>3, AdjustedIsGood
<1> HIDE DEF row
<1>5. /\ adjustments' \in [Pairs -> Int] /\ adjustments'[p] = row.adjusted
      /\ \A o \in Pairs \ {p} : adjustments'[o] = adjustments[o]
  BY <1>1, <1>2, <1>3, <1>4 DEF BalanceInv, Tables
<1>6. Grows
  BY <1>2 DEF Grows, people, Created
<1>7. ASSUME NEW v \in Workers \ {w} PROVE Undisturbed(v)
  <2>1. job[v].op = "ADJUST" => job[v].pair \in Pairs /\ job[v].pair # p
    BY <1>1 DEF BalanceInv, Requests, Adjusting
  <2>2. job[v].op = "ADJUST" => balance'[job[v].pair] = balance[job[v].pair]
    BY <1>2, <2>1 DEF BalanceInv, Tables
  <2> QED BY <1>2, <2>2, OthersKeepLocks DEF BalanceInv, Undisturbed, people
<1> HIDE DEF j, p
<1>8. Tables'
  BY <1>1, <1>2, <1>4, <1>5, RowWritten
<1> QED BY <1>2, <1>6, <1>7, <1>8, RequestEnds

LEMMA AbortKeeps ==
  ASSUME BalanceInv, NEW w \in Workers, Abort(w)
  PROVE  BalanceInv'
<1>1. Finish(w) /\ UNCHANGED <<people, policy, books, accrual>>
  BY DEF Abort
<1>2. Grows
  BY <1>1 DEF Grows, people, Created
<1>3. \A v \in Workers \ {w} : Undisturbed(v)
  BY <1>1, OthersKeepLocks DEF BalanceInv, Undisturbed, books, people
<1>4. Tables'
  BY <1>1 DEF BalanceInv, Tables, people, books, NoAdjustmentIsLost, HasRow, Present, Created
<1> QED BY <1>1, <1>2, <1>3, <1>4, RequestEnds

-----------------------------------------------------------------------------
(* Leaves, accruals, the status of an employee, a crash, the new year.     *)

\* Who writes only rows that no adjustment has locked disturbs no request.
LEMMA RequestsWait ==
  ASSUME BalanceInv, Grows, UNCHANGED <<lock, job, policy>>,
         \A p \in Pairs : lock[p] # NoWorker => balance'[p] = balance[p],
         \A e \in Employees : status[e] = "absent" => status'[e] = "absent"
  PROVE  Requests'
<1>1. ASSUME NEW v \in Workers PROVE Undisturbed(v)
  <2>1. job[v].op = "ADJUST" =>
          job[v].pair \in Pairs /\ lock[job[v].pair] = v /\ v # NoWorker
    BY BalanceAssumption DEF BalanceInv, Requests, Adjusting
  <2>2. job[v].op = "NEW EMPLOYEE" =>
          job[v].emp \in Employees /\ status[job[v].emp] = "absent"
    BY DEF BalanceInv, Requests, Planning
  <2> QED BY <2>1, <2>2 DEF Undisturbed
<1> QED BY <1>1, RequestsGoOn DEF BalanceInv, Requests

LEMMA ToggleStatusKeeps ==
  ASSUME BalanceInv, NEW e \in Employees, ToggleStatus(e)
  PROVE  BalanceInv'
<1>1. /\ status[e] # "absent" /\ UNCHANGED <<role, joined, policy, books, lock, job, accrual>>
      /\ status' = [status EXCEPT ![e] = IF @ = "active" THEN "deactive" ELSE "active"]
  BY DEF ToggleStatus, working
<1>2. Grows /\ status' \in [Employees -> Statuses]
  BY <1>1 DEF Grows, Created, BalanceInv, Tables, Statuses
<1>3. \A i \in Employees : status[i] = "absent" => status'[i] = "absent"
  BY <1>1 DEF BalanceInv, Tables
<1>4. Tables'
  BY <1>1, <1>2, PresentStays DEF BalanceInv, Tables, books, NoAdjustmentIsLost, HasRow
<1>5. Requests'
  BY <1>1, <1>2, <1>3, RequestsWait DEF books
<1>6. AccrualRuns'
  BY <1>1, <1>2, AccrualsGoOn DEF BalanceInv
<1> QED BY <1>4, <1>5, <1>6 DEF BalanceInv

LEMMA SpentIsGood ==
  ASSUME NEW old, GoodRow(old), NEW d \in Int,
         NEW row, row = [old EXCEPT !.used = @ + d, !.closing = @ - d]
  PROVE  GoodRow(row) /\ row.adjusted = old.adjusted
<1> DEFINE used == old.used + d
           closing == old.closing - d
           b == [opening |-> old.opening, accrued |-> old.accrued, used |-> used,
                 adjusted |-> old.adjusted, closing |-> closing]
<1>1. /\ old = [opening |-> old.opening, accrued |-> old.accrued, used |-> old.used,
                adjusted |-> old.adjusted, closing |-> old.closing]
      /\ old.accrued \in Nat /\ old.opening \in Int /\ old.used \in Int
      /\ old.adjusted \in Int /\ old.closing \in Int
      /\ old.closing = old.opening - old.used + old.adjusted
  BY DEF GoodRow, Row, AddsUp
<1>2. row = b
  <2>1. row = [old EXCEPT !.used = used, !.closing = closing]
    OBVIOUS
  <2> HIDE DEF used, closing
  <2> QED BY <1>1, <2>1
<1>3. b \in Row /\ AddsUp(b) /\ b.adjusted = old.adjusted
  BY <1>1 DEF Row, AddsUp
<1> HIDE DEF b
<1> QED BY <1>2, <1>3 DEF GoodRow

LEMMA SpendKeeps ==
  ASSUME BalanceInv, NEW p \in Pairs, NEW d \in Int, Spend(p, d)
  PROVE  BalanceInv'
<1>1. UNCHANGED <<people, policy, adjustments, lock, job, accrual>>
  BY DEF Spend, working
<1>2. Grows /\ \A e \in Employees : status[e] = "absent" => status'[e] = "absent"
  BY <1>1 DEF Grows, people, Created
<1>3. AccrualRuns'
  BY <1>1, <1>2, AccrualsGoOn DEF BalanceInv
<1>4. CASE UNCHANGED balance
  <2>1. Tables'
    BY <1>1, <1>4 DEF BalanceInv, Tables, people, NoAdjustmentIsLost, HasRow, Present, Created
  <2> QED BY <1>1, <1>2, <1>3, <1>4, <2>1, RequestsWait DEF BalanceInv
<1>5. CASE HasRow(p) /\ Charge(p, d)
  <2> DEFINE row == [balance[p] EXCEPT !.used = @ + d, !.closing = @ - d]
  <2>1. GoodRow(balance[p]) /\ Present(p) /\ adjustments[p] = balance[p].adjusted
    BY <1>5 DEF BalanceInv, Tables, NoAdjustmentIsLost
  <2>2. GoodRow(row) /\ row.adjusted = balance[p].adjusted
    BY <2>1, SpentIsGood
  <2>3. balance' = [balance EXCEPT ![p] = row] /\ lock[p] = NoWorker
    BY <1>5 DEF Charge
  <2> HIDE DEF row
  <2>4. Tables'
    BY <1>1, <2>1, <2>2, <2>3, RowWritten DEF BalanceInv, Tables
  <2>5. \A o \in Pairs : lock[o] # NoWorker => balance'[o] = balance[o]
    BY <2>3 DEF BalanceInv, Tables
  <2> QED BY <1>1, <1>2, <1>3, <2>4, <2>5, RequestsWait DEF BalanceInv
<1> QED BY <1>4, <1>5 DEF Spend, Charge

\* The accrual a goes on, or ends.
LEMMA AccrualMoves ==
  ASSUME BalanceInv, Grows, NEW a \in Accruals, NEW run, Accruing(run)',
         accrual' = [accrual EXCEPT ![a] = run]
  PROVE  AccrualRuns'
<1>1. ASSUME NEW c \in Accruals PROVE Accruing(accrual[c])'
  <2>1. CASE c = a
    BY <2>1 DEF BalanceInv, AccrualRuns, Accruing, Present, Created
  <2>2. CASE c # a
    <3>1. accrual'[c] = accrual[c] /\ Accruing(accrual[c])
      BY <2>2 DEF BalanceInv, AccrualRuns
    <3> QED BY <3>1, PresentStays DEF Accruing
  <2> QED BY <2>1, <2>2
<1> QED BY <1>1 DEF BalanceInv, AccrualRuns

\* An accrual reads, but writes no table.
LEMMA AccrualReads ==
  ASSUME BalanceInv, NEW a \in Accruals, NEW run, Accruing(run),
         accrual' = [accrual EXCEPT ![a] = run],
         UNCHANGED <<people, policy, books, lock, job>>
  PROVE  BalanceInv'
<1>1. Grows /\ \A e \in Employees : status[e] = "absent" => status'[e] = "absent"
  BY DEF Grows, people, Created
<1>2. Accruing(run)'
  BY <1>1, PresentStays DEF Accruing
<1>3. Tables'
  BY DEF BalanceInv, Tables, people, books, NoAdjustmentIsLost, HasRow, Present, Created
<1>4. Requests'
  BY <1>1, RequestsWait DEF books
<1> QED BY <1>1, <1>2, <1>3, <1>4, AccrualMoves DEF BalanceInv

LEMMA WithoutIsFine ==
  ASSUME NEW run, Accruing(run), NEW x
  PROVE  Accruing(Without(run, x))
<1>1. CASE run.todo = {x}
  BY <1>1, IdleAccrualIsFine DEF Without
<1>2. CASE run.todo # {x}
  BY <1>2 DEF Without, Accruing
<1> QED BY <1>1, <1>2

LEMMA StartAccrualKeeps ==
  ASSUME BalanceInv, NEW a \in Accruals, StartAccrual(a)
  PROVE  BalanceInv'
<1>1. PICK m \in Months : RunAccrual(a, m)
  BY DEF StartAccrual
<1>2. PICK todo : todo = {[pair |-> p, rate |-> AccrualRate(role[p[1]])] : p \in AccruablePairs}
  OBVIOUS
<1>3. PICK run : run = [IdleAccrual EXCEPT !.month = m, !.todo = todo]
  OBVIOUS
<1>4. \A x \in todo : x.pair \in Pairs /\ Present(x.pair) /\ x.rate \in Nat
  BY <1>2 DEF AccruablePairs, Allotted, Present, AccrualRate
<1>5. Accruing(run)
  BY <1>3, <1>4 DEF Accruing, IdleAccrual
<1>6. /\ accrual' = [accrual EXCEPT ![a] = run]
      /\ UNCHANGED <<people, policy, books, lock, job>>
  BY <1>1, <1>2, <1>3 DEF RunAccrual
<1> QED BY <1>5, <1>6, AccrualReads

LEMMA CheckAccrualKeeps ==
  ASSUME BalanceInv, NEW a \in Accruals, CheckAccrual(a)
  PROVE  BalanceInv'
<1> DEFINE was == accrual[a]
<1>1. Accruing(was)
  BY DEF BalanceInv, AccrualRuns
<1>2. PICK x \in was.todo :
        /\ accrual' = [accrual EXCEPT ![a] =
             IF IsAccrualAlreadyRun(x.pair, was.month) THEN Without(was, x)
             ELSE [was EXCEPT !.now = x.pair, !.rate = x.rate]]
        /\ UNCHANGED <<people, policy, books, lock, job>>
  BY DEF CheckAccrual
<1> HIDE DEF was
<1>3. PICK run : run = IF IsAccrualAlreadyRun(x.pair, was.month) THEN Without(was, x)
                       ELSE [was EXCEPT !.now = x.pair, !.rate = x.rate]
  OBVIOUS
<1>4. Accruing([was EXCEPT !.now = x.pair, !.rate = x.rate])
  BY <1>1 DEF Accruing
<1>5. Accruing(run)
  BY <1>1, <1>3, <1>4, WithoutIsFine
<1> QED BY <1>2, <1>3, <1>5, AccrualReads

LEMMA FailAccrualKeeps ==
  ASSUME BalanceInv, NEW a \in Accruals, FailAccrual(a)
  PROVE  BalanceInv'
<1>1. PICK run : run = Without(accrual[a], Current(a))
  OBVIOUS
<1>2. Accruing(run)
  BY <1>1, WithoutIsFine DEF BalanceInv, AccrualRuns
<1>3. /\ accrual' = [accrual EXCEPT ![a] = run]
      /\ UNCHANGED <<people, policy, books, lock, job>>
  BY <1>1 DEF FailAccrual
<1> QED BY <1>2, <1>3, AccrualReads

LEMMA CreditAccrualKeeps ==
  ASSUME BalanceInv, NEW a \in Accruals, CreditAccrual(a)
  PROVE  BalanceInv'
<1>1. PICK run : run = Without(accrual[a], Current(a))
  OBVIOUS
<1>2. PICK p : p = accrual[a].now
  OBVIOUS
<1>3. PICK rate : rate = accrual[a].rate
  OBVIOUS
<1>4. PICK old : old = IF HasRow(p) THEN balance[p] ELSE NewRow(0)
  OBVIOUS
<1>5. PICK row : row = [old EXCEPT !.accrued = @ + rate]
  OBVIOUS
<1>6. Accruing(accrual[a])
  BY DEF BalanceInv, AccrualRuns
<1>7. /\ p # <<>> /\ lock[p] = NoWorker /\ balance' = [balance EXCEPT ![p] = row]
      /\ accrual' = [accrual EXCEPT ![a] = run]
      /\ UNCHANGED <<people, policy, adjustments, lock, job>>
  BY <1>1, <1>2, <1>3, <1>4, <1>5 DEF CreditAccrual
<1>8. p \in Pairs /\ Present(p) /\ rate \in Nat
  BY <1>2, <1>3, <1>6, <1>7 DEF Accruing
<1>9. GoodRow(old) /\ old.adjusted = adjustments[p]
  BY <1>4, <1>8, NewRowIsGood DEF BalanceInv, Tables, NoAdjustmentIsLost
<1>10. GoodRow(row) /\ row.adjusted = old.adjusted
  BY <1>5, <1>8, <1>9 DEF GoodRow, Row, AddsUp
<1>11. Tables'
  BY <1>7, <1>8, <1>9, <1>10, RowWritten DEF BalanceInv, Tables
<1>12. Grows /\ \A e \in Employees : status[e] = "absent" => status'[e] = "absent"
  BY <1>7 DEF Grows, people, Created
<1>13. Requests'
  <2>1. \A o \in Pairs : lock[o] # NoWorker => balance'[o] = balance[o]
    BY <1>7 DEF BalanceInv, Tables
  <2> QED BY <1>7, <1>12, <2>1, RequestsWait
<1>14. AccrualRuns'
  <2>1. Accruing(run)
    BY <1>1, <1>6, WithoutIsFine
  <2>2. Accruing(run)'
    BY <1>12, <2>1, PresentStays DEF Accruing
  <2> QED BY <1>7, <1>8, <1>12, <2>2, AccrualMoves
<1> QED BY <1>11, <1>13, <1>14 DEF BalanceInv

LEMMA RestartKeeps ==
  ASSUME BalanceInv, Restart
  PROVE  BalanceInv'
<1>1. Tables'
  BY DEF Restart, BalanceInv, Tables, people, books, NoAdjustmentIsLost, HasRow, Present, Created
<1>2. Requests'
  <2>1. \A v \in Workers : job'[v] = Idle
    BY DEF Restart
  <2>2. Grows /\ DOMAIN job' = Workers /\ DOMAIN lock' = Pairs
    BY DEF Restart, Grows, people, Created
  <2> QED BY <2>1, <2>2, RequestsGoOn DEF BalanceInv
<1>3. AccrualRuns'
  BY DEF Restart, AccrualRuns, Accruing, IdleAccrual
<1> QED BY <1>1, <1>2, <1>3 DEF BalanceInv

LEMMA NewYearKeeps ==
  ASSUME BalanceInv, NewYear
  PROVE  BalanceInv'
<1>1. Tables'
  BY DEF NewYear, BalanceInv, Tables, NoAdjustmentIsLost, HasRow
<1>2. Grows
  BY DEF NewYear, Grows, Created
<1>3. Requests'
  <2>1. \A v \in Workers : job'[v] = Idle
    BY DEF NewYear, working
  <2>2. DOMAIN job' = Workers /\ DOMAIN lock' = Pairs
    BY DEF NewYear, working, BalanceInv, Requests
  <2> QED BY <1>2, <2>1, <2>2, RequestsGoOn DEF BalanceInv
<1>4. AccrualRuns'
  BY <1>2, AccrualsGoOn DEF NewYear, working, BalanceInv
<1> QED BY <1>1, <1>3, <1>4 DEF BalanceInv

-----------------------------------------------------------------------------
LEMMA StepBalance == BalanceInv /\ [Next]_vars => BalanceInv'
<1> SUFFICES ASSUME BalanceInv, [Next]_vars PROVE BalanceInv'
  OBVIOUS
<1>1. ASSUME NEW w \in Workers, StartChange(w) \/ CommitChange(w) PROVE BalanceInv'
  BY <1>1, StartChangeKeeps, CommitChangeKeeps
<1>2. ASSUME NEW e \in Employees, ToggleStatus(e) PROVE BalanceInv'
  BY <1>2, ToggleStatusKeeps
<1>3. ASSUME NEW p \in Pairs, NEW d \in Days, Approve(p, d) \/ Withdraw(p, d)
      PROVE  BalanceInv'
  <2>1. d \in Int /\ -d \in Int
    BY BalanceAssumption
  <2> QED BY <1>3, <2>1, SpendKeeps DEF Approve, Withdraw
<1>4. ASSUME NEW w \in Workers, StartAdjust(w) \/ CommitAdjust(w) \/ Abort(w)
      PROVE  BalanceInv'
  BY <1>4, StartAdjustKeeps, CommitAdjustKeeps, AbortKeeps
<1>5. ASSUME NEW a \in Accruals,
             StartAccrual(a) \/ CheckAccrual(a) \/ CreditAccrual(a) \/ FailAccrual(a)
      PROVE  BalanceInv'
  BY <1>5, StartAccrualKeeps, CheckAccrualKeeps, CreditAccrualKeeps, FailAccrualKeeps
<1>6. CASE Restart
  BY <1>6, RestartKeeps
<1>7. CASE NewYear
  BY <1>7, NewYearKeeps
<1>8. CASE UNCHANGED vars
  <2>1. UNCHANGED <<people, policy, books, lock, job, accrual>>
    BY <1>8 DEF vars, working
  <2>2. Tables'
    BY <2>1 DEF BalanceInv, Tables, people, books, NoAdjustmentIsLost, HasRow, Present, Created
  <2>3. Grows /\ \A e \in Employees : status[e] = "absent" => status'[e] = "absent"
    BY <2>1 DEF Grows, people, Created
  <2>4. Requests'
    BY <2>1, <2>3, RequestsWait DEF books
  <2>5. AccrualRuns'
    BY <2>1, <2>3, AccrualsGoOn DEF BalanceInv
  <2> QED BY <2>2, <2>4, <2>5 DEF BalanceInv
<1> QED BY <1>1, <1>2, <1>3, <1>4, <1>5, <1>6, <1>7, <1>8 DEF Next

(***************************************************************************)
(* UpdateLeaveBalanceAdjustment writes closing from the values that were   *)
(* read, the approval of a leave moves it, and UpdateLeaveBalance computes *)
(* it anew: in whatever order they commit, opening - used + adjusted is    *)
(* the closing balance of every row.                                       *)
(***************************************************************************)
THEOREM BooksAlwaysBalance == Spec => []BooksBalance
<1>1. Init => BalanceInv
  BY InitBalance
<1>2. BalanceInv /\ [Next]_vars => BalanceInv'
  BY StepBalance
<1>3. BalanceInv => BooksBalance
  BY BooksOfTheInvariant
<1> QED BY <1>1, <1>2, <1>3, PTL DEF Spec

(***************************************************************************)
(* The adjusted column, which AdjustLeaveBalance writes as an absolute     *)
(* value, is the sum of the adjustments recorded in Tbl_Leave_adjustment.  *)
(***************************************************************************)
THEOREM AdjustmentsStay == Spec => []NoAdjustmentIsLost
<1>1. Init => BalanceInv
  BY InitBalance
<1>2. BalanceInv /\ [Next]_vars => BalanceInv'
  BY StepBalance
<1>3. BalanceInv => NoAdjustmentIsLost
  BY BooksOfTheInvariant
<1> QED BY <1>1, <1>2, <1>3, PTL DEF Spec

-----------------------------------------------------------------------------
(* Openings.                                                               *)

\* A balance there has to be.
Due(p) == status[p[1]] # "absent" /\ Allotted(p[2])

Right(p) ==
  Due(p) => HasRow(p) /\ balance[p].opening = Opening(role[p[1]], joined[p[1]], policy[p[2]])

LEMMA OpeningsAreRight == OpeningIsEntitlement <=> \A p \in Pairs \ astray : Right(p)
BY DEF OpeningIsEntitlement, Right, Due

LEMMA DueIsPresent == \A p \in Pairs : Due(p) => Present(p)
BY DEF Due, Present, Allotted

\* Every step but the end of an administrative change, and the new year.
LEMMA OpeningsStay ==
  ASSUME BalanceInv, OpeningIsEntitlement, UNCHANGED <<role, joined, policy, astray>>,
         \A e \in Employees : status'[e] = "absent" <=> status[e] = "absent",
         \A p \in Pairs : HasRow(p) => HasRow(p)' /\ balance'[p].opening = balance[p].opening
  PROVE  OpeningIsEntitlement'
<1>1. ASSUME NEW p \in Pairs \ astray PROVE Right(p)'
  BY OpeningsAreRight, PairsAreOf DEF Right, Due, Allotted, Created
<1> QED BY <1>1 DEF OpeningIsEntitlement, Right, Due, Allotted, Created

\* A balance that is vouched for was planned as it would be planned now.
LEMMA Vouched ==
  ASSUME NEW j, NEW never, Vouch(j, never), OpeningIsEntitlement, NEW p \in Pairs \ astray'
  PROVE  /\ j.plan[p] = Plan(j)[p] /\ p \notin never
         /\ (p \in Planned(j) /\ HasRow(p)') \/ Right(p)
BY OpeningsAreRight DEF Vouch, Outdated, HasRow

LEMMA InsertedOpenings ==
  ASSUME NEW j, InsertRows(j), NEW p \in Pairs, j.plan[p] \in Int
  PROVE  HasRow(p)' /\ balance'[p].opening = j.plan[p]
<1>1. j.plan[p] # NoRow
  BY BalanceAssumption
<1>2. balance'[p] = NewRow(j.plan[p])
  BY <1>1 DEF InsertRows, Planned
<1> QED BY <1>2, NewRowIsGood, RowIsNotNoRow DEF NewRow, GoodRow, HasRow

LEMMA ReopenedOpenings ==
  ASSUME BalanceInv, NEW j, ReopenRows(j), j.plan \in [Pairs -> Int \cup {NoRow}],
         NEW p \in Pairs
  PROVE  /\ HasRow(p)' <=> HasRow(p)
         /\ HasRow(p) => balance'[p].opening =
                           IF p \in Planned(j) THEN j.plan[p] ELSE balance[p].opening
<1>1. CASE p \in Planned(j) /\ HasRow(p)
  <2>1. balance'[p] = Reopened(balance[p], j.plan[p]) /\ j.plan[p] \in Int
    BY <1>1 DEF ReopenRows, Planned
  <2>2. GoodRow(balance'[p]) /\ balance'[p].opening = j.plan[p]
    BY <1>1, <2>1, ReopenedIsGood DEF BalanceInv, Tables
  <2> QED BY <1>1, <2>2, RowIsNotNoRow DEF HasRow, GoodRow
<1>2. CASE ~(p \in Planned(j) /\ HasRow(p))
  <2>1. balance'[p] = balance[p]
    BY <1>2 DEF ReopenRows, Reopened, HasRow
  <2> QED BY <1>2, <2>1 DEF HasRow
<1> QED BY <1>1, <1>2

LEMMA CreateEmployeeOpens ==
  ASSUME BalanceInv, OpeningIsEntitlement, NEW w \in Workers, CommitCreateEmployee(w)
  PROVE  OpeningIsEntitlement'
<1>1. PICK j : j = job[w]
  OBVIOUS
<1>2. /\ j.op = "NEW EMPLOYEE" /\ j.emp \in Employees /\ j.joined \in Int
      /\ j.plan \in [Pairs -> Int \cup {NoRow}]
      /\ \A p \in Pairs : j.plan[p] # NoRow => p[1] = j.emp
  BY <1>1 DEF CommitCreateEmployee, BalanceInv, Requests, Planning, Changes
<1>3. /\ status' = [status EXCEPT ![j.emp] = "active"]
      /\ role' = [role EXCEPT ![j.emp] = j.role]
      /\ joined' = [joined EXCEPT ![j.emp] = j.joined]
      /\ InsertRows(j) /\ Vouch(j, {}) /\ UNCHANGED policy
  BY <1>1 DEF CommitCreateEmployee
<1>4. ASSUME NEW p \in Pairs \ astray' PROVE Right(p)'
  <2>1. CASE p[1] = j.emp
    <3>1. SUFFICES ASSUME Due(p)' PROVE Right(p)'
      BY DEF Right
    <3>2. Allotted(p[2]) /\ policy[p[2]] \in Policies
      BY <1>3, <3>1, PairsAreOf, EntitlementsOfTypes DEF Due, Allotted, Created, BalanceInv
    <3>3. j.plan[p] = Opening(j.role, j.joined, policy[p[2]])
      BY <1>2, <1>3, <2>1, <3>2, Vouched DEF Plan, PlanForEmployee, PlanIf
    <3>n. Opening(j.role, j.joined, policy[p[2]]) \in Int
      BY <1>2, <3>2, OpeningIsANumber
    <3>4. HasRow(p)' /\ balance'[p].opening = j.plan[p]
      BY <1>3, <3>3, <3>n, InsertedOpenings
    <3>5. role'[p[1]] = j.role /\ joined'[p[1]] = j.joined
      BY <1>2, <1>3, <2>1 DEF BalanceInv, Tables
    <3> QED BY <1>3, <3>3, <3>4, <3>5 DEF Right
  <2>2. CASE p[1] # j.emp
    <3>1. p \notin Planned(j) /\ Right(p)
      BY <1>2, <1>3, <2>2, Vouched DEF Planned
    <3>2. balance'[p] = balance[p]
      BY <1>3, <3>1 DEF InsertRows
    <3>3. p[1] \in Employees
      BY PairsAreOf
    <3>4. /\ status'[p[1]] = status[p[1]] /\ role'[p[1]] = role[p[1]]
          /\ joined'[p[1]] = joined[p[1]]
      BY <1>3, <2>2, <3>3 DEF BalanceInv, Tables
    <3> QED BY <1>3, <3>1, <3>2, <3>4 DEF Right, Due, Allotted, Created, HasRow
  <2> QED BY <2>1, <2>2
<1> QED BY <1>4 DEF OpeningIsEntitlement, Right, Due, Allotted, Created

LEMMA CreateLeaveTypeOpens ==
  ASSUME BalanceInv, OpeningIsEntitlement, NEW w \in Workers, CommitCreateLeaveType(w)
  PROVE  OpeningIsEntitlement'
<1>1. PICK j : j = job[w]
  OBVIOUS
<1>d. PICK never : never = {p \in Pairs : p[2] = j.type /\ status[p[1]] = "deactive"}
  OBVIOUS
<1>2. /\ j.op = "NEW TYPE" /\ j.type \in Types /\ j.policy \in Policies
      /\ j.plan \in [Pairs -> Int \cup {NoRow}]
      /\ \A p \in Pairs : j.plan[p] # NoRow => p[2] = j.type
  BY <1>1 DEF CommitCreateLeaveType, BalanceInv, Requests, Planning, Changes
<1>3. /\ policy' = [policy EXCEPT ![j.type] = j.policy]
      /\ InsertRows(j) /\ Vouch(j, never) /\ UNCHANGED people
  BY <1>1, <1>d DEF CommitCreateLeaveType
<1>4. ASSUME NEW p \in Pairs \ astray' PROVE Right(p)'
  <2>1. CASE p[2] = j.type
    <3>1. SUFFICES ASSUME Due(p)' PROVE Right(p)'
      BY DEF Right
    <3>2. status[p[1]] = "active" /\ joined[p[1]] \in Int
      <4>1. p \notin never
        BY <1>3, Vouched
      <4> QED BY <1>d, <1>3, <2>1, <3>1, <4>1, PairsAreOf
              DEF Due, BalanceInv, Tables, Statuses, people
    <3>5. policy'[p[2]] = j.policy /\ ~j.policy.early
      BY <1>2, <1>3, <2>1, <3>1 DEF BalanceInv, Tables, Due, Allotted
    <3>3. j.plan[p] = Opening(role[p[1]], joined[p[1]], j.policy)
      BY <1>2, <1>3, <2>1, <3>2, <3>5, Vouched DEF Plan, PlanForType, PlanIf
    <3>n. Opening(role[p[1]], joined[p[1]], j.policy) \in Int
      BY <1>2, <3>2, OpeningIsANumber
    <3>4. HasRow(p)' /\ balance'[p].opening = j.plan[p]
      BY <1>3, <3>3, <3>n, InsertedOpenings
    <3> QED BY <1>3, <3>3, <3>4, <3>5 DEF Right, people
  <2>2. CASE p[2] # j.type
    <3>1. p \notin Planned(j) /\ Right(p)
      BY <1>2, <1>3, <2>2, Vouched DEF Planned
    <3>2. balance'[p] = balance[p]
      BY <1>3, <3>1 DEF InsertRows
    <3>3. policy'[p[2]] = policy[p[2]]
      BY <1>3, <2>2, PairsAreOf DEF BalanceInv, Tables
    <3> QED BY <1>3, <3>1, <3>2, <3>3 DEF Right, Due, Allotted, Created, HasRow, people
  <2> QED BY <2>1, <2>2
<1> QED BY <1>4 DEF OpeningIsEntitlement, Right, Due, Allotted, Created

LEMMA UpdateLeaveTypeOpens ==
  ASSUME BalanceInv, OpeningIsEntitlement, NEW w \in Workers, CommitUpdateLeaveType(w)
  PROVE  OpeningIsEntitlement'
<1>1. PICK j : j = job[w]
  OBVIOUS
<1>d. PICK never : never = LeftOut(j)
  OBVIOUS
<1>2. /\ j.op = "ENTITLEMENT" /\ j.type \in Types /\ j.policy \in Policies
      /\ Created(j.type) /\ j.plan \in [Pairs -> Int \cup {NoRow}]
  BY <1>1 DEF CommitUpdateLeaveType, BalanceInv, Requests, Planning, Changes
<1>3. /\ policy' = [policy EXCEPT ![j.type] = j.policy]
      /\ ReopenRows(j) /\ Vouch(j, never) /\ UNCHANGED people
  BY <1>1, <1>d DEF CommitUpdateLeaveType
<1>4. ASSUME NEW p \in Pairs \ astray', Due(p)'
      PROVE  /\ HasRow(p)'
             /\ balance'[p].opening = Opening(role[p[1]], joined[p[1]], policy'[p[2]])
  <2>1. status[p[1]] # "absent" /\ joined[p[1]] \in Int
    BY <1>3, <1>4, PairsAreOf DEF Due, people, BalanceInv, Tables
  <2>2. CASE p[2] = j.type
    <3>1. p \in Planned(j) /\ j.plan[p] = Opening(role[p[1]], joined[p[1]], j.policy)
      <4>1. j.plan[p] = Plan(j)[p] /\ p \notin never
        BY <1>3, Vouched
      <4>2. Opening(role[p[1]], joined[p[1]], j.policy) \in Int
        BY <1>2, <2>1, OpeningIsANumber
      <4>3. CASE policy[p[2]].early
        <5>1. p \in Planned(j)
          BY <1>d, <2>1, <2>2, <4>1, <4>3 DEF LeftOut
        <5> QED BY <1>2, <2>2, <4>1, <5>1 DEF Planned, Plan, PlanForEntitlement, PlanIf
      <4>4. CASE ~policy[p[2]].early
        <5>1. j.plan[p] = Opening(role[p[1]], joined[p[1]], j.policy)
          BY <1>2, <2>1, <2>2, <4>1, <4>4 DEF Plan, PlanForEntitlement, PlanIf
        <5> QED BY <4>2, <5>1, BalanceAssumption DEF Planned
      <4> QED BY <4>3, <4>4
    <3>2. HasRow(p)'
      <4>1. CASE policy[p[2]].early
        <5>1. HasRow(p)
          BY <1>3, <1>d, <2>1, <2>2, <4>1, Vouched DEF LeftOut
        <5> QED BY <1>2, <1>3, <5>1, ReopenedOpenings
      <4>2. CASE ~policy[p[2]].early
        <5>1. Due(p)
          BY <1>2, <2>1, <2>2, <4>2 DEF Due, Allotted
        <5> QED BY <1>2, <1>3, <5>1, Vouched, ReopenedOpenings DEF Right
      <4> QED BY <4>1, <4>2
    <3>3. balance'[p].opening = j.plan[p]
      BY <1>2, <1>3, <3>1, <3>2, ReopenedOpenings
    <3>4. policy'[p[2]] = j.policy
      BY <1>2, <1>3, <2>2 DEF BalanceInv, Tables
    <3> QED BY <3>1, <3>2, <3>3, <3>4
  <2>3. CASE p[2] # j.type
    <3>1. policy'[p[2]] = policy[p[2]]
      BY <1>3, <2>3, PairsAreOf DEF BalanceInv, Tables
    <3>2. Due(p)
      BY <1>4, <2>1, <3>1 DEF Due, Allotted, Created
    <3>3. j.plan[p] = NoRow
      <4>1. j.plan[p] = Plan(j)[p]
        BY <1>3, Vouched
      <4> QED BY <1>2, <2>3, <4>1 DEF Plan, PlanForEntitlement, PlanIf
    <3>4. p \notin Planned(j) /\ Right(p)
      BY <1>3, <3>3, Vouched DEF Planned
    <3> QED BY <1>2, <1>3, <3>1, <3>2, <3>4, ReopenedOpenings DEF Right
  <2> QED BY <2>2, <2>3
<1> QED BY <1>3, <1>4 DEF OpeningIsEntitlement, people, Due, Allotted, Created

\* The row of a balance that is vouched for has the opening that would be planned
\* now, if the change concerns it; else the row stays.
LEMMA ReopenedAsPlanned ==
  ASSUME BalanceInv, OpeningIsEntitlement, NEW j, NEW never, ReopenRows(j), Vouch(j, never),
         j.plan \in [Pairs -> Int \cup {NoRow}], NEW p \in Pairs \ astray', Due(p)
  PROVE  /\ HasRow(p)'
         /\ Plan(j)[p] # NoRow => balance'[p].opening = Plan(j)[p]
         /\ Plan(j)[p] = NoRow =>
              balance'[p].opening = Opening(role[p[1]], joined[p[1]], policy[p[2]])
<1>1. /\ j.plan[p] = Plan(j)[p]
      /\ (p \in Planned(j) /\ HasRow(p)') \/ Right(p)
  BY Vouched
<1>2. HasRow(p)' /\ HasRow(p)
  BY <1>1, ReopenedOpenings DEF Right
<1>3. balance'[p].opening = IF p \in Planned(j) THEN j.plan[p] ELSE balance[p].opening
  BY <1>2, ReopenedOpenings
<1> QED BY <1>1, <1>2, <1>3 DEF Planned, Right

LEMMA UpdateRoleOpens ==
  ASSUME BalanceInv, OpeningIsEntitlement, NEW w \in Workers, CommitUpdateRole(w)
  PROVE  OpeningIsEntitlement'
<1>1. PICK j : j = job[w]
  OBVIOUS
<1>2. /\ j.op = "ROLE" /\ j.emp \in Employees /\ j.plan \in [Pairs -> Int \cup {NoRow}]
  BY <1>1 DEF CommitUpdateRole, BalanceInv, Requests, Planning, Changes
<1>3. /\ role' = [role EXCEPT ![j.emp] = j.role]
      /\ ReopenRows(j) /\ Vouch(j, {}) /\ UNCHANGED <<status, joined, policy>>
  BY <1>1 DEF CommitUpdateRole
<1>4. ASSUME NEW p \in Pairs \ astray', Due(p)
      PROVE  /\ HasRow(p)'
             /\ balance'[p].opening = Opening(role'[p[1]], joined[p[1]], policy[p[2]])
  <2>1. /\ HasRow(p)'
        /\ Plan(j)[p] # NoRow => balance'[p].opening = Plan(j)[p]
        /\ Plan(j)[p] = NoRow =>
             balance'[p].opening = Opening(role[p[1]], joined[p[1]], policy[p[2]])
    BY <1>2, <1>3, <1>4, ReopenedAsPlanned
  <2>2. p[1] \in Employees /\ Allotted(p[2]) /\ Created(p[2])
    BY <1>4, PairsAreOf DEF Due, Allotted
  <2>3. Plan(j)[p] = IF p[1] = j.emp /\ "INTERN" \in {role[j.emp], j.role}
                     THEN Opening(j.role, joined[j.emp], policy[p[2]]) ELSE NoRow
    BY <1>2, <2>2 DEF Plan, PlanForRole, PlanIf
  <2>4. role'[p[1]] = IF p[1] = j.emp THEN j.role ELSE role[p[1]]
    BY <1>3, <2>2 DEF BalanceInv, Tables
  <2>5. CASE p[1] = j.emp /\ "INTERN" \in {role[j.emp], j.role}
    <3>1. policy[p[2]] \in Policies /\ joined[p[1]] \in Int
      BY <2>2, PairsAreOf, EntitlementsOfTypes DEF BalanceInv, Tables
    <3>2. Opening(j.role, joined[p[1]], policy[p[2]]) \in Int
      BY <3>1, OpeningIsANumber
    <3> QED BY <2>1, <2>3, <2>4, <2>5, <3>2, BalanceAssumption
  <2>6. CASE p[1] = j.emp /\ role[j.emp] # "INTERN" /\ j.role # "INTERN"
    BY <2>1, <2>3, <2>4, <2>6 DEF Opening, FullEntitlement
  <2>7. CASE p[1] # j.emp
    BY <2>1, <2>3, <2>4, <2>7
  <2> QED BY <2>5, <2>6, <2>7
<1> QED BY <1>3, <1>4 DEF OpeningIsEntitlement, Due, Allotted, Created

LEMMA UpdateJoiningDateOpens ==
  ASSUME BalanceInv, OpeningIsEntitlement, NEW w \in Workers, CommitUpdateJoiningDate(w)
  PROVE  OpeningIsEntitlement'
<1>1. PICK j : j = job[w]
  OBVIOUS
<1>2. /\ j.op = "JOINING DATE" /\ j.emp \in Employees /\ j.joined \in Int
      /\ j.plan \in [Pairs -> Int \cup {NoRow}]
  BY <1>1 DEF CommitUpdateJoiningDate, BalanceInv, Requests, Planning, Changes
<1>3. /\ joined' = [joined EXCEPT ![j.emp] = j.joined]
      /\ ReopenRows(j) /\ Vouch(j, {}) /\ UNCHANGED <<status, role, policy>>
  BY <1>1 DEF CommitUpdateJoiningDate
<1>4. ASSUME NEW p \in Pairs \ astray', Due(p)
      PROVE  /\ HasRow(p)'
             /\ balance'[p].opening = Opening(role[p[1]], joined'[p[1]], policy[p[2]])
  <2>1. /\ HasRow(p)'
        /\ Plan(j)[p] # NoRow => balance'[p].opening = Plan(j)[p]
        /\ Plan(j)[p] = NoRow =>
             balance'[p].opening = Opening(role[p[1]], joined[p[1]], policy[p[2]])
    BY <1>2, <1>3, <1>4, ReopenedAsPlanned
  <2>2. p[1] \in Employees /\ Allotted(p[2]) /\ Created(p[2])
    BY <1>4, PairsAreOf DEF Due, Allotted
  <2>3. Plan(j)[p] = IF p[1] = j.emp
                     THEN Opening(role[j.emp], j.joined, policy[p[2]]) ELSE NoRow
    BY <1>2, <2>2 DEF Plan, PlanForJoiningDate, PlanIf
  <2>4. joined'[p[1]] = IF p[1] = j.emp THEN j.joined ELSE joined[p[1]]
    BY <1>3, <2>2 DEF BalanceInv, Tables
  <2>5. Opening(role[j.emp], j.joined, policy[p[2]]) \in Int
    <3>1. policy[p[2]] \in Policies
      BY <2>2, PairsAreOf, EntitlementsOfTypes DEF BalanceInv
    <3> QED BY <1>2, <3>1, OpeningIsANumber
  <2> QED BY <2>1, <2>3, <2>4, <2>5, BalanceAssumption
<1> QED BY <1>3, <1>4 DEF OpeningIsEntitlement, Due, Allotted, Created

LEMMA UpdateInfoOpens ==
  ASSUME BalanceInv, OpeningIsEntitlement, NEW w \in Workers, CommitUpdateInfo(w)
  PROVE  OpeningIsEntitlement'
<1>1. PICK j : j = job[w]
  OBVIOUS
<1>2. /\ joined' = [joined EXCEPT ![j.emp] = j.joined]
      /\ astray' = astray \cup {p \in Pairs : p[1] = j.emp /\ joined[j.emp] # j.joined}
      /\ UNCHANGED <<status, role, policy, balance>>
  BY <1>1 DEF CommitUpdateInfo, books
<1>3. \A p \in Pairs \ astray' : joined'[p[1]] = joined[p[1]] /\ p \notin astray
  BY <1>2, PairsAreOf DEF BalanceInv, Tables
<1> QED BY <1>2, <1>3 DEF OpeningIsEntitlement, HasRow, Allotted, Created

LEMMA CommitChangeOpens ==
  ASSUME BalanceInv, OpeningIsEntitlement, NEW w \in Workers, CommitChange(w)
  PROVE  OpeningIsEntitlement'
BY CreateEmployeeOpens, CreateLeaveTypeOpens, UpdateLeaveTypeOpens, UpdateRoleOpens,
   UpdateJoiningDateOpens, UpdateInfoOpens DEF CommitChange

\* The other steps: no row ever goes, and none changes its opening.
LEMMA StartsKeepOpenings ==
  ASSUME BalanceInv, OpeningIsEntitlement, NEW w \in Workers,
         StartChange(w) \/ StartAdjust(w) \/ Abort(w)
  PROVE  OpeningIsEntitlement'
<1>1. UNCHANGED <<people, policy, books, astray>>
  BY DEF StartChange, StartCreateEmployee, StartCreateLeaveType, ReadLeaveType,
         StartUpdateLeaveType, StartUpdateJoiningDate, ReadRole, StartUpdateRole, StartUpdateInfo, StartPlanned,
         StartAdjust, Abort
<1> QED BY <1>1, OpeningsStay DEF people, books, HasRow

LEMMA CommitAdjustKeepsOpenings ==
  ASSUME BalanceInv, OpeningIsEntitlement, NEW w \in Workers, CommitAdjust(w)
  PROVE  OpeningIsEntitlement'
<1>1. PICK j : j = job[w]
  OBVIOUS
<1>2. PICK written : written = IF HasRow(j.pair) THEN balance[j.pair] ELSE j.row
  OBVIOUS
<1>3. PICK row : row = Adjusted(written, j.row, j.row.adjusted + j.qty)
  OBVIOUS
<1>4. /\ j.op = "ADJUST" /\ balance' = [balance EXCEPT ![j.pair] = row]
      /\ UNCHANGED <<people, policy, astray>>
  BY <1>1, <1>2, <1>3 DEF CommitAdjust
<1>5. /\ j.pair \in Pairs /\ GoodRow(j.row) /\ j.qty \in Int
      /\ HasRow(j.pair) => balance[j.pair] = j.row
  BY <1>1, <1>4 DEF BalanceInv, Requests, Adjusting
<1>6. written = j.row /\ j.row.adjusted + j.qty \in Int
  BY <1>2, <1>5 DEF GoodRow, Row
<1>7. GoodRow(row)
  BY <1>3, <1>5, <1>6, AdjustedIsGood
<1>8. row.opening = j.row.opening
  <2>1. j.row \in Row
    BY <1>5 DEF GoodRow
  <2> QED BY <1>3, <1>6, <2>1 DEF Adjusted, Row
<1>9. \A p \in Pairs : HasRow(p) => HasRow(p)' /\ balance'[p].opening = balance[p].opening
  BY <1>4, <1>5, <1>7, <1>8, RowIsNotNoRow DEF GoodRow, HasRow, BalanceInv, Tables
<1> QED BY <1>4, <1>9, OpeningsStay DEF people

LEMMA ToggleKeepsOpenings ==
  ASSUME BalanceInv, OpeningIsEntitlement, NEW e \in Employees, ToggleStatus(e)
  PROVE  OpeningIsEntitlement'
<1>1. \A i \in Employees : status'[i] = "absent" <=> status[i] = "absent"
  BY DEF ToggleStatus, BalanceInv, Tables
<1> QED BY <1>1, OpeningsStay DEF ToggleStatus, books, HasRow

LEMMA SpendKeepsOpenings ==
  ASSUME BalanceInv, OpeningIsEntitlement, NEW p \in Pairs, NEW d \in Int, Spend(p, d)
  PROVE  OpeningIsEntitlement'
<1>1. UNCHANGED <<people, policy, astray>>
  BY DEF Spend
<1>2. \A o \in Pairs : HasRow(o) => HasRow(o)' /\ balance'[o].opening = balance[o].opening
  <2>1. CASE UNCHANGED balance
    BY <2>1 DEF HasRow
  <2>2. CASE HasRow(p) /\ Charge(p, d)
    <3>1. PICK row : row = [balance[p] EXCEPT !.used = @ + d, !.closing = @ - d]
      OBVIOUS
    <3>2. GoodRow(balance[p])
      BY <2>2 DEF BalanceInv, Tables
    <3>3. GoodRow(row)
      BY <3>1, <3>2, SpentIsGood
    <3>4. row.opening = balance[p].opening
      BY <3>1, <3>2 DEF GoodRow, Row
    <3>5. balance' = [balance EXCEPT ![p] = row]
      BY <2>2, <3>1 DEF Charge
    <3> QED BY <3>3, <3>4, <3>5, RowIsNotNoRow DEF GoodRow, HasRow, BalanceInv, Tables
  <2> QED BY <2>1, <2>2 DEF Spend, Charge
<1> QED BY <1>1, <1>2, OpeningsStay DEF people

LEMMA AccrualsKeepOpenings ==
  ASSUME BalanceInv, OpeningIsEntitlement, NEW a \in Accruals,
         StartAccrual(a) \/ CheckAccrual(a) \/ CreditAccrual(a) \/ FailAccrual(a)
  PROVE  OpeningIsEntitlement'
<1>1. CASE StartAccrual(a) \/ CheckAccrual(a) \/ FailAccrual(a)
  <2>1. UNCHANGED <<people, policy, books, astray>>
    BY <1>1 DEF StartAccrual, RunAccrual, CheckAccrual, FailAccrual
  <2> QED BY <2>1, OpeningsStay DEF people, books, HasRow
<1>2. CASE CreditAccrual(a)
  <2>1. PICK p : p = accrual[a].now
    OBVIOUS
  <2>2. PICK rate : rate = accrual[a].rate
    OBVIOUS
  <2>3. PICK old : old = IF HasRow(p) THEN balance[p] ELSE NewRow(0)
    OBVIOUS
  <2>4. PICK row : row = [old EXCEPT !.accrued = @ + rate]
    OBVIOUS
  <2>5. /\ p # <<>> /\ balance' = [balance EXCEPT ![p] = row]
        /\ UNCHANGED <<people, policy, astray>>
    BY <1>2, <2>1, <2>2, <2>3, <2>4 DEF CreditAccrual
  <2>6. p \in Pairs /\ rate \in Nat
    BY <2>1, <2>2, <2>5 DEF BalanceInv, AccrualRuns, Accruing
  <2>7. GoodRow(old)
    BY <2>3, <2>6, NewRowIsGood DEF BalanceInv, Tables
  <2>8. row \in Row /\ row.opening = old.opening
    BY <2>4, <2>6, <2>7 DEF GoodRow, Row
  <2>9. \A o \in Pairs : HasRow(o) => HasRow(o)' /\ balance'[o].opening = balance[o].opening
    BY <2>3, <2>5, <2>6, <2>8, RowIsNotNoRow DEF HasRow, BalanceInv, Tables
  <2> QED BY <2>5, <2>9, OpeningsStay DEF people
<1> QED BY <1>1, <1>2

LEMMA StepOpenings ==
  BalanceInv /\ OpeningIsEntitlement /\ [Next]_vars => OpeningIsEntitlement'
<1> SUFFICES ASSUME BalanceInv, OpeningIsEntitlement, [Next]_vars PROVE OpeningIsEntitlement'
  OBVIOUS
<1>1. ASSUME NEW w \in Workers, StartChange(w) \/ CommitChange(w) PROVE OpeningIsEntitlement'
  BY <1>1, StartsKeepOpenings, CommitChangeOpens
<1>2. ASSUME NEW e \in Employees, ToggleStatus(e) PROVE OpeningIsEntitlement'
  BY <1>2, ToggleKeepsOpenings
<1>3. ASSUME NEW p \in Pairs, NEW d \in Days, Approve(p, d) \/ Withdraw(p, d)
      PROVE  OpeningIsEntitlement'
  <2>1. d \in Int /\ -d \in Int
    BY BalanceAssumption
  <2> QED BY <1>3, <2>1, SpendKeepsOpenings DEF Approve, Withdraw
<1>4. ASSUME NEW w \in Workers, StartAdjust(w) \/ CommitAdjust(w) \/ Abort(w)
      PROVE  OpeningIsEntitlement'
  BY <1>4, StartsKeepOpenings, CommitAdjustKeepsOpenings
<1>5. ASSUME NEW a \in Accruals,
             StartAccrual(a) \/ CheckAccrual(a) \/ CreditAccrual(a) \/ FailAccrual(a)
      PROVE  OpeningIsEntitlement'
  BY <1>5, AccrualsKeepOpenings
<1>6. CASE Restart
  BY <1>6, OpeningsStay DEF Restart, people, books, HasRow
<1>7. CASE NewYear
  BY <1>7 DEF NewYear, OpeningIsEntitlement, Allotted, Created
<1>8. CASE UNCHANGED vars
  BY <1>8, OpeningsStay DEF vars, people, books, HasRow
<1> QED BY <1>1, <1>2, <1>3, <1>4, <1>5, <1>6, <1>7, <1>8 DEF Next

(***************************************************************************)
(* The opening of a row is the entitlement of the employee, prorated if    *)
(* the joining date is in this year, whatever roles, joining dates and     *)
(* entitlements were changed in which order: CreateEmployee and the loops  *)
(* of UpdateLeaveBalancesForEntitlementChange, of                          *)
(* AdjustLeaveBalancesForRoleChange and of                                 *)
(* RecalculateLeaveBalancesForJoiningDateChange leave no other row wrong   *)
(* than those gone astray.                                                 *)
(***************************************************************************)
THEOREM OpeningsAreEntitlements == Spec => []OpeningIsEntitlement
<1>1. Init => BalanceInv /\ OpeningIsEntitlement
  BY InitBalance, PairsAreOf DEF Init, OpeningIsEntitlement, Allotted, Created
<1>2. BalanceInv /\ OpeningIsEntitlement /\ [Next]_vars
        => BalanceInv' /\ OpeningIsEntitlement'
  BY StepBalance, StepOpenings
<1> QED BY <1>1, <1>2, PTL DEF Spec

-----------------------------------------------------------------------------
(* Types.                                                                  *)

TypedTables ==
  /\ year \in 1 .. MaxYear
  /\ role \in [Employees -> Roles]
  /\ joined \in [Employees -> JoinMonths \cup {0}]
  /\ adjustments \in [Pairs -> -MaxAdjusted .. MaxAdjusted]
  /\ accrualLog \in [Pairs -> [Months -> {0, 2, 3}]]
  /\ granted \in [Pairs -> 0 .. MaxUsed]
  /\ astray \subseteq Pairs

TypedJob(j) ==
  /\ j.role \in Roles /\ j.joined \in JoinMonths \cup {0}
  /\ j.plan \in [Pairs -> Int \cup {NoRow}]

TypedRequests ==
  /\ lock \in [Pairs -> Workers \cup {NoWorker}]
  /\ \A w \in Workers : TypedJob(job[w])

\* What an accrual has found is of a month, and worth a day or a day and a half.
TypedRun(run) ==
  /\ run.month \in Months \cup {0}
  /\ run.todo # {} \/ run.now # <<>> => run.month \in Months
  /\ run.now # <<>> => run.rate \in {2, 3}
  /\ \A x \in run.todo : x.rate \in {2, 3}

Typed == TypedTables /\ TypedRequests /\ \A a \in Accruals : TypedRun(accrual[a])

LEMMA TypesOfTheInvariant == BalanceInv /\ Typed => TypeOK
<1> SUFFICES ASSUME BalanceInv, Typed PROVE TypeOK
  OBVIOUS
<1>1. balance \in [Pairs -> Row \cup {NoRow}]
  BY DEF BalanceInv, Tables, HasRow, GoodRow
<1>2. \A w \in Workers : job[w].op = "ADJUST" => job[w].pair \in Pairs /\ job[w].row \in Row
  BY DEF BalanceInv, Requests, Adjusting, GoodRow
<1>3. /\ status \in [Employees -> Statuses]
      /\ policy \in [Types -> Policies \cup {Unset}]
  BY DEF BalanceInv, Tables
<1> QED BY <1>1, <1>2, <1>3 DEF Typed, TypedTables, TypedRequests, TypedJob, TypedRun, TypeOK

LEMMA IdleIsTyped == TypedJob(Idle)
BY DEF TypedJob, Idle, NoPlan, Roles

LEMMA IdleAccrualIsTyped == TypedRun(IdleAccrual)
BY DEF TypedRun, IdleAccrual

LEMMA InitTyped == Init => Typed
<1> SUFFICES ASSUME Init PROVE Typed
  OBVIOUS
<1>1. TypedTables
  BY BalanceAssumption DEF Init, TypedTables, Roles
<1>2. TypedRequests
  BY IdleIsTyped DEF Init, TypedRequests
<1>3. \A a \in Accruals : TypedRun(accrual[a])
  BY IdleAccrualIsTyped DEF Init
<1> QED BY <1>1, <1>2, <1>3 DEF Typed

LEMMA RequestBeginsTyped ==
  ASSUME BalanceInv, TypedRequests, NEW w \in Workers, NEW b, TypedJob(b),
         job' = [job EXCEPT ![w] = b],
         lock' = lock \/ \E p : lock' = [lock EXCEPT ![p] = w]
  PROVE  TypedRequests'
<1>1. \A v \in Workers : TypedJob(job[v])'
  BY DEF TypedRequests, TypedJob, BalanceInv, Requests
<1>2. lock' \in [Pairs -> Workers \cup {NoWorker}]
  BY DEF TypedRequests
<1> QED BY <1>1, <1>2 DEF TypedRequests

LEMMA RequestEndsTyped ==
  ASSUME BalanceInv, TypedRequests, NEW w \in Workers, Finish(w)
  PROVE  TypedRequests'
<1>1. \A v \in Workers : TypedJob(job[v])'
  BY IdleIsTyped DEF TypedRequests, TypedJob, BalanceInv, Requests, Finish
<1>2. lock' \in [Pairs -> Workers \cup {NoWorker}]
  BY DEF TypedRequests, Finish
<1> QED BY <1>1, <1>2 DEF TypedRequests

LEMMA StartPlannedTyped ==
  ASSUME BalanceInv, TypedRequests, NEW w \in Workers, NEW j, Input(j), j.op \in Changes,
         TypedJob(j), StartPlanned(w, j)
  PROVE  TypedRequests'
<1>1. PICK plan : plan = Plan(j)
  OBVIOUS
<1>2. plan \in [Pairs -> Int \cup {NoRow}]
  BY <1>1, PlanIsGood DEF BalanceInv
<1>3. PICK b : b = [j EXCEPT !.plan = plan]
  OBVIOUS
<1>4. b.role = j.role /\ b.joined = j.joined /\ b.plan = plan
  BY <1>3 DEF Input, Fields
<1>5. TypedJob(b)
  BY <1>2, <1>4 DEF TypedJob
<1> QED BY <1>1, <1>3, <1>5, RequestBeginsTyped DEF StartPlanned, Start

LEMMA StartChangeTyped ==
  ASSUME BalanceInv, Typed, NEW w \in Workers, StartChange(w)
  PROVE  TypedRequests' /\ UNCHANGED <<year, people, policy, books, accrual, astray>>
<1> USE DEF Typed
<1>0. TypedJob(job[w]) /\ role \in [Employees -> Roles] /\ joined \in [Employees -> JoinMonths \cup {0}]
  BY DEF TypedRequests, TypedTables
<1>1. CASE StartCreateEmployee(w)
  <2>1. PICK e \in Employees, r \in Roles, m \in JoinMonths \cup {0} :
          /\ status[e] = "absent"
          /\ StartPlanned(w, [Idle EXCEPT !.op = "NEW EMPLOYEE", !.emp = e, !.role = r,
                                          !.joined = m])
    BY <1>1 DEF StartCreateEmployee
  <2> DEFINE j == [Idle EXCEPT !.op = "NEW EMPLOYEE", !.emp = e, !.role = r, !.joined = m]
  <2>2. m \in Int
    BY MonthsAreNumbers
  <2>3. Input(j) /\ j.op \in Changes
    BY <2>1, <2>2 DEF Input, Idle, Fields, Changes
  <2>4. TypedJob(j)
    BY DEF TypedJob, Idle, NoPlan
  <2> HIDE DEF j
  <2> QED BY <2>1, <2>3, <2>4, StartPlannedTyped DEF j, StartPlanned
<1>2. CASE StartCreateLeaveType(w)
  <2>1. PICK t \in Types, pol \in Policies :
          /\ ~Created(t)
          /\ StartPlanned(w, [Idle EXCEPT !.op = "NEW TYPE", !.type = t, !.policy = pol])
    BY <1>2 DEF StartCreateLeaveType
  <2> DEFINE j == [Idle EXCEPT !.op = "NEW TYPE", !.type = t, !.policy = pol]
  <2>2. Input(j) /\ j.op \in Changes
    BY <2>1 DEF Input, Idle, Fields, Changes
  <2>3. TypedJob(j)
    BY DEF TypedJob, Idle, NoPlan, Roles
  <2> HIDE DEF j
  <2> QED BY <2>1, <2>2, <2>3, StartPlannedTyped DEF j, StartPlanned
<1>3. CASE StartUpdateLeaveType(w)
  <2> DEFINE j == job[w]
  <2>1. Planning(j) /\ j.op = "ENTITLEMENT?"
    BY <1>3 DEF StartUpdateLeaveType, BalanceInv, Requests
  <2>2. PICK plan : plan = PlanForEntitlement(j, j.early)
    OBVIOUS
  <2>3. plan \in [Pairs -> Int \cup {NoRow}]
    BY <2>1, <2>2, PlanForEntitlementIsGood DEF Planning, BalanceInv
  <2>4. PICK b : b = [j EXCEPT !.op = "ENTITLEMENT", !.plan = plan]
    OBVIOUS
  <2>5. b.role = j.role /\ b.joined = j.joined /\ b.plan = plan
    BY <2>1, <2>4 DEF Planning, Fields
  <2>6. TypedJob(b)
    BY <1>0, <2>3, <2>5 DEF TypedJob
  <2> QED BY <1>3, <2>2, <2>4, <2>6, RequestBeginsTyped DEF StartUpdateLeaveType
<1>4. CASE StartUpdateJoiningDate(w)
  <2>1. PICK e \in Employees, m \in JoinMonths \cup {0} :
          StartPlanned(w, [Idle EXCEPT !.op = "JOINING DATE", !.emp = e, !.joined = m])
    BY <1>4 DEF StartUpdateJoiningDate
  <2> DEFINE j == [Idle EXCEPT !.op = "JOINING DATE", !.emp = e, !.joined = m]
  <2>2. m \in Int
    BY MonthsAreNumbers
  <2>3. Input(j) /\ j.op \in Changes
    BY <2>1, <2>2 DEF Input, Idle, Fields, Changes
  <2>4. TypedJob(j)
    BY DEF TypedJob, Idle, NoPlan, Roles
  <2> HIDE DEF j
  <2> QED BY <2>1, <2>3, <2>4, StartPlannedTyped DEF j, StartPlanned
<1>5. CASE ReadRole(w)
  <2>1. PICK e \in Employees, r \in Roles :
          /\ Start(w, [Idle EXCEPT !.op = "ROLE?", !.emp = e, !.role = r, !.was = role[e]])
          /\ UNCHANGED <<year, people, policy, books, lock, accrual, astray>>
    BY <1>5 DEF ReadRole
  <2>2. PICK b : b = [Idle EXCEPT !.op = "ROLE?", !.emp = e, !.role = r, !.was = role[e]]
    OBVIOUS
  <2>3. TypedJob(b)
    BY <2>2 DEF TypedJob, Idle, NoPlan
  <2> QED BY <2>1, <2>2, <2>3, RequestBeginsTyped DEF Start
<1>6. CASE StartUpdateRole(w)
  <2> DEFINE j == job[w]
  <2>1. Planning(j) /\ j.op = "ROLE?"
    BY <1>6 DEF StartUpdateRole, BalanceInv, Requests
  <2>2. PICK plan : plan = PlanForRole(j, j.was)
    OBVIOUS
  <2>3. plan \in [Pairs -> Int \cup {NoRow}]
    BY <2>1, <2>2, PlanForRoleIsGood DEF Planning, BalanceInv
  <2>4. PICK b : b = [j EXCEPT !.op = "ROLE", !.plan = plan]
    OBVIOUS
  <2>5. b.role = j.role /\ b.joined = j.joined /\ b.plan = plan
    BY <2>1, <2>4 DEF Planning, Fields
  <2>6. TypedJob(b)
    BY <1>0, <2>3, <2>5 DEF TypedJob
  <2> QED BY <1>6, <2>2, <2>4, <2>6, RequestBeginsTyped DEF StartUpdateRole
<1>7. CASE StartUpdateInfo(w)
  <2>1. PICK e \in Employees :
          /\ Start(w, [Idle EXCEPT !.op = "INFO", !.emp = e, !.joined = joined[e]])
          /\ UNCHANGED <<year, people, policy, books, lock, accrual, astray>>
    BY <1>7 DEF StartUpdateInfo
  <2>2. PICK m \in JoinMonths \cup {0} : m = joined[e]
    BY <1>0
  <2>3. PICK b : b = [Idle EXCEPT !.op = "INFO", !.emp = e, !.joined = m]
    OBVIOUS
  <2>4. TypedJob(b)
    BY <2>3 DEF TypedJob, Idle, NoPlan, Roles
  <2> QED BY <2>1, <2>2, <2>3, <2>4, RequestBeginsTyped DEF Start
<1>8. CASE ReadLeaveType(w)
  <2>1. PICK t \in Types, pol \in Policies :
          /\ Start(w, [Idle EXCEPT !.op = "ENTITLEMENT?", !.type = t, !.policy = pol,
                                   !.early = policy[t].early])
          /\ UNCHANGED <<year, people, policy, books, lock, accrual, astray>>
    BY <1>8 DEF ReadLeaveType
  <2>2. PICK b : b = [Idle EXCEPT !.op = "ENTITLEMENT?", !.type = t, !.policy = pol,
                                  !.early = policy[t].early]
    OBVIOUS
  <2>3. TypedJob(b)
    BY <2>2 DEF TypedJob, Idle, NoPlan, Roles
  <2> QED BY <2>1, <2>2, <2>3, RequestBeginsTyped DEF Start
<1> QED BY <1>1, <1>2, <1>3, <1>4, <1>5, <1>6, <1>7, <1>8 DEF StartChange

LEMMA CommitChangeTyped ==
  ASSUME BalanceInv, Typed, NEW w \in Workers, CommitChange(w)
  PROVE  TypedTables' /\ TypedRequests' /\ UNCHANGED accrual
<1>1. /\ job[w].role \in Roles /\ job[w].joined \in JoinMonths \cup {0}
      /\ TypedTables /\ TypedRequests
  BY DEF Typed, TypedRequests, TypedJob
<1>2. Finish(w) /\ UNCHANGED <<year, adjustments, accrualLog, granted, accrual>>
  BY DEF CommitChange, CommitCreateEmployee, CommitCreateLeaveType, CommitUpdateLeaveType,
         CommitUpdateRole, CommitUpdateJoiningDate, CommitUpdateInfo, books
<1>3. role' \in [Employees -> Roles] /\ joined' \in [Employees -> JoinMonths \cup {0}]
  BY <1>1 DEF CommitChange, CommitCreateEmployee, CommitCreateLeaveType, CommitUpdateLeaveType,
         CommitUpdateRole, CommitUpdateJoiningDate, CommitUpdateInfo, people, TypedTables
<1>4. astray' \subseteq Pairs
  BY <1>1 DEF CommitChange, CommitCreateEmployee, CommitCreateLeaveType, CommitUpdateLeaveType,
         CommitUpdateRole, CommitUpdateJoiningDate, CommitUpdateInfo, Vouch, Outdated, LeftOut,
         TypedTables
<1> QED BY <1>1, <1>2, <1>3, <1>4, RequestEndsTyped DEF TypedTables

LEMMA StartAdjustTyped ==
  ASSUME BalanceInv, Typed, NEW w \in Workers, StartAdjust(w)
  PROVE  TypedRequests' /\ UNCHANGED <<year, people, books, accrual, astray>>
<1>1. PICK p \in Pairs, q \in Quantities :
        /\ Lock(p, w)
        /\ Start(w, [Idle EXCEPT !.op = "ADJUST", !.pair = p, !.qty = q,
                                 !.row = RowToAdjust(p)])
        /\ UNCHANGED <<year, people, books, accrual, astray>>
  BY DEF StartAdjust
<1>2. PICK b : b = [Idle EXCEPT !.op = "ADJUST", !.pair = p, !.qty = q, !.row = RowToAdjust(p)]
  OBVIOUS
<1>3. TypedJob(b)
  BY <1>2 DEF TypedJob, Idle, NoPlan, Roles
<1> QED BY <1>1, <1>2, <1>3, RequestBeginsTyped DEF Typed, Start, Lock

LEMMA CommitAdjustTyped ==
  ASSUME BalanceInv, Typed, NEW w \in Workers, CommitAdjust(w)
  PROVE  TypedTables' /\ TypedRequests' /\ UNCHANGED accrual
<1> DEFINE j == job[w]
           adjusted == j.row.adjusted + j.qty
<1>1. /\ j.op = "ADJUST" /\ j.pair \in Pairs
      /\ IF HasRow(j.pair) THEN balance[j.pair] = j.row ELSE j.row.adjusted = 0
  BY DEF CommitAdjust, BalanceInv, Requests, Adjusting
<1>2. adjustments[j.pair] = j.row.adjusted
  BY <1>1 DEF BalanceInv, Tables, NoAdjustmentIsLost
<1>3. /\ adjusted \in -MaxAdjusted .. MaxAdjusted /\ Finish(w)
      /\ adjustments' = [adjustments EXCEPT ![j.pair] = @ + j.qty]
      /\ UNCHANGED <<year, people, accrualLog, granted, accrual, astray>>
  BY DEF CommitAdjust
<1>4. adjustments' = [adjustments EXCEPT ![j.pair] = adjusted]
  BY <1>2, <1>3
<1>5. adjustments' \in [Pairs -> -MaxAdjusted .. MaxAdjusted]
  <2> HIDE DEF adjusted, j
  <2> QED BY <1>1, <1>3, <1>4 DEF Typed, TypedTables
<1> QED BY <1>3, <1>5, RequestEndsTyped DEF Typed, TypedTables, people

LEMMA SpendTyped ==
  ASSUME Typed, NEW p \in Pairs, NEW d \in Int, granted[p] + d \in 0 .. MaxUsed, Spend(p, d)
  PROVE  TypedTables' /\ UNCHANGED <<lock, job, accrual>>
<1>1. granted' = [granted EXCEPT ![p] = granted[p] + d]
  BY DEF Spend
<1>2. granted' \in [Pairs -> 0 .. MaxUsed]
  BY <1>1 DEF Typed, TypedTables
<1> QED BY <1>2 DEF Spend, Typed, TypedTables, people, working

LEMMA ApproveTyped ==
  ASSUME Typed, NEW p \in Pairs, NEW d \in Days, Approve(p, d) \/ Withdraw(p, d)
  PROVE  TypedTables' /\ UNCHANGED <<lock, job, accrual>>
<1>1. d \in Nat /\ granted[p] \in 0 .. MaxUsed /\ MaxUsed \in Nat
  BY BalanceAssumption DEF Typed, TypedTables
<1>2. CASE Approve(p, d)
  <2>1. granted[p] + d \in 0 .. MaxUsed /\ d \in Int
    BY <1>1, <1>2 DEF Approve
  <2> QED BY <1>2, <2>1, SpendTyped DEF Approve
<1>3. CASE Withdraw(p, d)
  <2>1. granted[p] + (-d) \in 0 .. MaxUsed /\ -d \in Int
    BY <1>1, <1>3 DEF Withdraw
  <2> QED BY <1>3, <2>1, SpendTyped DEF Withdraw
<1> QED BY <1>2, <1>3

LEMMA WithoutIsTyped ==
  ASSUME NEW run, DOMAIN run = {"month", "todo", "now", "rate"}, TypedRun(run), NEW x,
         x \in run.todo \/ run.now # <<>>
  PROVE  TypedRun(Without(run, x))
<1>1. CASE run.todo = {x}
  BY <1>1, IdleAccrualIsTyped DEF Without
<1>2. CASE run.todo # {x}
  BY <1>2 DEF Without, TypedRun
<1> QED BY <1>1, <1>2

\* The accrual a goes on, or ends; in the log it writes nothing but what it earned.
LEMMA AccrualTyped ==
  ASSUME BalanceInv, Typed, NEW a \in Accruals,
         StartAccrual(a) \/ CheckAccrual(a) \/ CreditAccrual(a) \/ FailAccrual(a)
  PROVE  TypedTables' /\ UNCHANGED <<lock, job>> /\ \A c \in Accruals : TypedRun(accrual[c])'
<1>r. PICK run : run = accrual[a]
  OBVIOUS
<1>0. /\ TypedRun(run) /\ DOMAIN run = {"month", "todo", "now", "rate"}
      /\ run.now # <<>> => run.now \in Pairs
  BY <1>r DEF BalanceInv, AccrualRuns, Accruing, Typed
<1>u. ASSUME UNCHANGED <<year, people, books, lock, job, astray>>
      PROVE  TypedTables' /\ UNCHANGED <<lock, job>>
  BY <1>u DEF Typed, TypedTables, people, books
<1>m. ASSUME NEW new, TypedRun(new), accrual' = [accrual EXCEPT ![a] = new]
      PROVE  \A c \in Accruals : TypedRun(accrual[c])'
  BY <1>m DEF BalanceInv, AccrualRuns, Typed, TypedRun
<1>1. CASE StartAccrual(a)
  <2>1. PICK m \in Months : RunAccrual(a, m)
    BY <1>1 DEF StartAccrual
  <2>2. PICK todo : todo = {[pair |-> p, rate |-> AccrualRate(role[p[1]])] : p \in AccruablePairs}
    OBVIOUS
  <2>3. PICK new : new = [IdleAccrual EXCEPT !.month = m, !.todo = todo]
    OBVIOUS
  <2>4. \A x \in todo : x.rate \in {2, 3}
    BY <2>2 DEF AccrualRate
  <2>5. TypedRun(new)
    BY <2>3, <2>4 DEF TypedRun, IdleAccrual
  <2> QED BY <1>u, <1>m, <2>1, <2>2, <2>3, <2>5 DEF RunAccrual
<1>2. CASE CheckAccrual(a)
  <2>1. PICK x \in run.todo :
          /\ accrual' = [accrual EXCEPT ![a] =
               IF IsAccrualAlreadyRun(x.pair, run.month) THEN Without(run, x)
               ELSE [run EXCEPT !.now = x.pair, !.rate = x.rate]]
          /\ UNCHANGED <<year, people, books, lock, job, astray>>
    BY <1>2, <1>r DEF CheckAccrual
  <2>2. PICK new : new = IF IsAccrualAlreadyRun(x.pair, run.month) THEN Without(run, x)
                         ELSE [run EXCEPT !.now = x.pair, !.rate = x.rate]
    OBVIOUS
  <2>3. TypedRun([run EXCEPT !.now = x.pair, !.rate = x.rate])
    BY <1>0 DEF TypedRun
  <2>4. TypedRun(new)
    BY <1>0, <2>2, <2>3, WithoutIsTyped
  <2> QED BY <1>u, <1>m, <2>1, <2>2, <2>4
<1>3. CASE CreditAccrual(a)
  <2>1. PICK new : new = Without(run, Current(a))
    OBVIOUS
  <2>2. PICK p \in Pairs : p = run.now
    BY <1>0, <1>3, <1>r DEF CreditAccrual
  <2>3. PICK m \in Months : m = run.month
    BY <1>0, <1>3, <1>r DEF CreditAccrual, TypedRun
  <2>4. PICK rate \in {2, 3} : rate = run.rate
    BY <1>0, <1>3, <1>r DEF CreditAccrual, TypedRun
  <2>5. TypedRun(new)
    BY <1>0, <1>3, <1>r, <2>1, WithoutIsTyped DEF CreditAccrual
  <2>6. /\ accrualLog' = [accrualLog EXCEPT ![p][m] = IF @ = 0 THEN rate ELSE @]
        /\ accrual' = [accrual EXCEPT ![a] = new]
        /\ UNCHANGED <<year, people, adjustments, granted, lock, job, astray>>
    BY <1>3, <1>r, <2>1, <2>2, <2>3, <2>4 DEF CreditAccrual
  <2>7. accrualLog' \in [Pairs -> [Months -> {0, 2, 3}]]
    BY <2>6 DEF Typed, TypedTables
  <2>8. TypedTables'
    BY <2>6, <2>7 DEF Typed, TypedTables, people
  <2> QED BY <1>m, <2>5, <2>6, <2>8
<1>4. CASE FailAccrual(a)
  <2>1. PICK new : new = Without(run, Current(a))
    OBVIOUS
  <2>2. TypedRun(new)
    BY <1>0, <1>4, <1>r, <2>1, WithoutIsTyped DEF FailAccrual
  <2> QED BY <1>4, <1>r, <1>u, <1>m, <2>1, <2>2 DEF FailAccrual
<1> QED BY <1>1, <1>2, <1>3, <1>4

LEMMA NewYearTyped ==
  ASSUME Typed, NewYear
  PROVE  Typed'
<1>1. TypedTables'
  BY BalanceAssumption DEF NewYear, Typed, TypedTables
<1> QED BY <1>1 DEF NewYear, working, Typed, TypedRequests, TypedJob, TypedRun

LEMMA RestartTyped ==
  ASSUME Typed, Restart
  PROVE  Typed'
<1>1. TypedTables'
  BY DEF Restart, people, books, Typed, TypedTables
<1>2. TypedRequests'
  BY IdleIsTyped DEF Restart, TypedRequests, TypedJob
<1>3. \A a \in Accruals : TypedRun(accrual[a])'
  BY IdleAccrualIsTyped DEF Restart, TypedRun
<1> QED BY <1>1, <1>2, <1>3 DEF Typed

LEMMA StepTyped == BalanceInv /\ Typed /\ [Next]_vars => Typed'
<1> SUFFICES ASSUME BalanceInv, Typed, [Next]_vars PROVE Typed'
  OBVIOUS
<1>t. UNCHANGED <<year, people, books, astray>> => TypedTables'
  BY DEF Typed, TypedTables, people, books
<1>r. UNCHANGED <<lock, job>> => TypedRequests'
  BY DEF Typed, TypedRequests, TypedJob
<1>a. UNCHANGED accrual => \A a \in Accruals : TypedRun(accrual[a])'
  BY DEF Typed, TypedRun
<1>1. ASSUME NEW w \in Workers, StartChange(w) \/ CommitChange(w) PROVE Typed'
  BY <1>1, <1>t, <1>a, StartChangeTyped, CommitChangeTyped DEF Typed
<1>2. ASSUME NEW e \in Employees, ToggleStatus(e) PROVE Typed'
  BY <1>2, <1>r, <1>a DEF ToggleStatus, Typed, TypedTables, books, working
<1>3. ASSUME NEW p \in Pairs, NEW d \in Days, Approve(p, d) \/ Withdraw(p, d)
      PROVE  Typed'
  BY <1>3, <1>r, <1>a, ApproveTyped DEF Typed
<1>4. ASSUME NEW w \in Workers, StartAdjust(w) \/ CommitAdjust(w) \/ Abort(w)
      PROVE  Typed'
  <2>1. CASE StartAdjust(w)
    BY <2>1, <1>t, <1>a, StartAdjustTyped DEF Typed
  <2>2. CASE CommitAdjust(w)
    BY <2>2, <1>a, CommitAdjustTyped DEF Typed
  <2>3. CASE Abort(w)
    BY <2>3, <1>t, <1>a, RequestEndsTyped DEF Abort, Typed
  <2> QED BY <1>4, <2>1, <2>2, <2>3
<1>5. ASSUME NEW a \in Accruals,
             StartAccrual(a) \/ CheckAccrual(a) \/ CreditAccrual(a) \/ FailAccrual(a)
      PROVE  Typed'
  BY <1>5, <1>r, AccrualTyped DEF Typed
<1>6. CASE Restart
  BY <1>6, RestartTyped
<1>7. CASE NewYear
  BY <1>7, NewYearTyped
<1>8. CASE UNCHANGED vars
  BY <1>8, <1>t, <1>r, <1>a DEF vars, working, Typed
<1> QED BY <1>1, <1>2, <1>3, <1>4, <1>5, <1>6, <1>7, <1>8 DEF Next

(***************************************************************************)
(* The tables and what requests and accruals hold of them are of the       *)
(* expected kinds: every row is a row, every planned opening a number, an  *)
(* adjustment a bounded one, and the log of accruals has nothing but the   *)
(* two monthly rates.                                                      *)
(***************************************************************************)
THEOREM BalanceTyped == Spec => []TypeOK
<1>1. Init => BalanceInv /\ Typed
  BY InitBalance, InitTyped
<1>2. BalanceInv /\ Typed /\ [Next]_vars => (BalanceInv /\ Typed)'
  BY StepBalance, StepTyped
<1>3. BalanceInv /\ Typed => TypeOK
  BY TypesOfTheInvariant
<1> QED BY <1>1, <1>2, <1>3, PTL DEF Spec

-----------------------------------------------------------------------------
(* Accruals.                                                               *)

\* Half days credited to a balance, and those that the log knows of.
AccruedOf(p) == IF HasRow(p) THEN balance[p].accrued ELSE 0

Logged(p) == SumFunctionOnSet(accrualLog[p], Months)

\* Nothing is logged without being credited.
Covered == \A p \in Pairs : Logged(p) <= AccruedOf(p)

\* Nothing is credited without being logged.
Exact == \A p \in Pairs : AccruedOf(p) = Logged(p)

\* The month an accrual has found to be missing from the log is missing still.
StillMissing ==
  \A a \in Accruals : accrual[a].now # <<>> => accrualLog[accrual[a].now][accrual[a].month] = 0

\* A row that an adjustment will insert has no accruals.
InsertsNothing ==
  \A w \in Workers : job[w].op = "ADJUST" /\ ~HasRow(job[w].pair) => job[w].row.accrued = 0

\* A step neither credits nor logs an accrual, and removes no row.
CreditsNothing ==
  /\ \A p \in Pairs : AccruedOf(p)' = AccruedOf(p) /\ (HasRow(p) => HasRow(p)')
  /\ UNCHANGED accrualLog

LEMMA MonthsAreFinite == IsFiniteSet(Months)
<1>1. \A i, j \in Int : IsFiniteSet(i .. j)
  BY FS_Interval, Zenon
<1>2. PICK i \in Int, j \in Int : i = 1 /\ j = 12
  OBVIOUS
<1>3. IsFiniteSet(i .. j)
  BY <1>1, Zenon
<1>4. Months \subseteq i .. j
  BY <1>2, BalanceAssumption
<1> QED BY <1>3, <1>4, FS_Subset

LEMMA LoggedIsANumber ==
  ASSUME Typed, NEW p \in Pairs
  PROVE  Logged(p) \in Nat
<1>1. \A m \in Months : accrualLog[p][m] \in Nat
  BY DEF Typed, TypedTables
<1> QED BY <1>1, MonthsAreFinite, SumIsNat DEF Logged

LEMMA NothingIsLogged ==
  ASSUME NEW p \in Pairs, accrualLog = [o \in Pairs |-> [m \in Months |-> 0]]
  PROVE  Logged(p) = 0
<1>1. \A m \in Months : accrualLog[p][m] = 0
  OBVIOUS
<1> QED BY <1>1, MonthsAreFinite, SumOfZeros DEF Logged

LEMMA RowsWereNew ==
  ASSUME BalanceInv, NEW w \in Workers, job[w].op \in {"NEW EMPLOYEE", "NEW TYPE"}
  PROVE  /\ job[w].plan \in [Pairs -> Int \cup {NoRow}]
         /\ \A p \in Planned(job[w]) : ~HasRow(p)
<1> DEFINE j == job[w]
<1>1. Planning(j) /\ j.plan \in [Pairs -> Int \cup {NoRow}]
  BY DEF BalanceInv, Requests, Planning, Changes
<1>2. ASSUME NEW p \in Planned(j) PROVE ~Present(p) /\ p \in Pairs
  <2>1. p \in Pairs /\ j.plan[p] # NoRow
    BY DEF Planned
  <2>2. CASE j.op = "NEW EMPLOYEE"
    BY <1>1, <2>1, <2>2 DEF Planning, Present
  <2>3. CASE j.op = "NEW TYPE"
    BY <1>1, <2>1, <2>3 DEF Planning, Present, Created
  <2> QED BY <2>1, <2>2, <2>3
<1> QED BY <1>1, <1>2 DEF BalanceInv, Tables

LEMMA InsertedNothing ==
  ASSUME BalanceInv, NEW w \in Workers, job[w].op \in {"NEW EMPLOYEE", "NEW TYPE"},
         InsertRows(job[w]), UNCHANGED accrualLog
  PROVE  CreditsNothing
<1>1. PICK j : j = job[w]
  OBVIOUS
<1>2. j.plan \in [Pairs -> Int \cup {NoRow}] /\ \A p \in Planned(j) : ~HasRow(p)
  BY <1>1, RowsWereNew
<1>3. ASSUME NEW p \in Pairs
      PROVE  AccruedOf(p)' = AccruedOf(p) /\ (HasRow(p) => HasRow(p)')
  <2>1. CASE p \in Planned(j)
    <3>0. PICK opening : opening = j.plan[p]
      OBVIOUS
    <3>1. balance'[p] = NewRow(opening)
      BY <1>1, <2>1, <3>0 DEF InsertRows
    <3>2. NewRow(opening).accrued = 0
      BY DEF NewRow
    <3> QED BY <1>2, <2>1, <3>1, <3>2 DEF AccruedOf, HasRow
  <2>2. CASE p \notin Planned(j)
    BY <1>1, <2>2 DEF InsertRows, AccruedOf, HasRow
  <2> QED BY <2>1, <2>2
<1> QED BY <1>3 DEF CreditsNothing

LEMMA ReopenedNothing ==
  ASSUME BalanceInv, NEW j, j.plan \in [Pairs -> Int \cup {NoRow}], ReopenRows(j),
         UNCHANGED accrualLog
  PROVE  CreditsNothing
<1>1. ASSUME NEW p \in Pairs
      PROVE  AccruedOf(p)' = AccruedOf(p) /\ (HasRow(p) => HasRow(p)')
  <2>1. CASE p \in Planned(j) /\ HasRow(p)
    <3>1. PICK row \in Row : row = balance[p]
      BY <2>1 DEF BalanceInv, Tables, GoodRow
    <3>3. PICK opening \in Int : opening = j.plan[p]
      BY <2>1 DEF Planned
    <3>4. PICK c : c = opening - row.used + row.adjusted
      OBVIOUS
    <3>5. balance'[p] = [row EXCEPT !.opening = opening, !.closing = c]
      BY <2>1, <3>1, <3>3, <3>4 DEF ReopenRows, Reopened, HasRow
    <3>6. balance'[p].accrued = row.accrued /\ DOMAIN balance'[p] = DOMAIN row
      BY <3>5 DEF Row
    <3>7. HasRow(p)'
      <4>1. balance'[p] = Reopened(row, opening) /\ GoodRow(row)
        BY <2>1, <3>1, <3>3 DEF ReopenRows, BalanceInv, Tables
      <4>2. balance'[p] \in Row
        BY <4>1, ReopenedIsGood DEF GoodRow
      <4> QED BY <4>2, RowIsNotNoRow DEF HasRow
    <3> QED BY <2>1, <3>1, <3>6, <3>7 DEF AccruedOf
  <2>2. CASE ~(p \in Planned(j) /\ HasRow(p))
    BY <2>2 DEF ReopenRows, Reopened, HasRow, AccruedOf
  <2> QED BY <2>1, <2>2
<1> QED BY <1>1 DEF CreditsNothing

LEMMA CommitChangeCredits ==
  ASSUME BalanceInv, NEW w \in Workers, CommitChange(w)
  PROVE  CreditsNothing /\ UNCHANGED accrual
<1>0. job[w].op \in Changes => job[w].plan \in [Pairs -> Int \cup {NoRow}]
  BY DEF BalanceInv, Requests, Planning
<1>1. CASE CommitCreateEmployee(w)
  BY <1>1, InsertedNothing DEF CommitCreateEmployee
<1>2. CASE CommitCreateLeaveType(w)
  BY <1>2, InsertedNothing DEF CommitCreateLeaveType
<1>3. CASE CommitUpdateLeaveType(w)
  BY <1>0, <1>3, ReopenedNothing DEF Changes, CommitUpdateLeaveType
<1>4. CASE CommitUpdateRole(w)
  BY <1>0, <1>4, ReopenedNothing DEF Changes, CommitUpdateRole
<1>5. CASE CommitUpdateJoiningDate(w)
  BY <1>0, <1>5, ReopenedNothing DEF Changes, CommitUpdateJoiningDate
<1>6. CASE CommitUpdateInfo(w)
  BY <1>6 DEF CommitUpdateInfo, books, CreditsNothing, AccruedOf, HasRow
<1> QED BY <1>1, <1>2, <1>3, <1>4, <1>5, <1>6 DEF CommitChange

LEMMA CommitAdjustCredits ==
  ASSUME BalanceInv, InsertsNothing, NEW w \in Workers, CommitAdjust(w)
  PROVE  CreditsNothing
<1> DEFINE j == job[w]
<1>1. PICK p \in Pairs : p = j.pair
  BY DEF CommitAdjust, BalanceInv, Requests, Adjusting
<1>2. PICK old \in Row : old = j.row
  BY DEF CommitAdjust, BalanceInv, Requests, Adjusting, GoodRow
<1>3. old.accrued = AccruedOf(p) /\ j.op = "ADJUST"
  BY <1>1, <1>2 DEF CommitAdjust, BalanceInv, Requests, Adjusting, InsertsNothing, AccruedOf
<1>4. PICK adjusted : adjusted = old.adjusted + j.qty
  OBVIOUS
<1>5. PICK row : row = Adjusted(old, old, adjusted)
  OBVIOUS
<1>6. balance' = [balance EXCEPT ![p] = row] /\ UNCHANGED accrualLog
  BY <1>1, <1>2, <1>4, <1>5 DEF CommitAdjust, BalanceInv, Requests, Adjusting
<1>7. row # NoRow /\ row.accrued = old.accrued
  <2>1. GoodRow(old) /\ adjusted \in Int
    BY <1>2, <1>3, <1>4 DEF BalanceInv, Requests, Adjusting, Row, GoodRow
  <2>2. row \in Row
    BY <1>5, <2>1, AdjustedIsGood DEF GoodRow
  <2>3. PICK c : c = old.opening - old.used + adjusted
    OBVIOUS
  <2>4. row = [old EXCEPT !.adjusted = adjusted, !.closing = c]
    BY <1>5, <2>3 DEF Adjusted
  <2>5. row.accrued = old.accrued
    BY <2>4 DEF Row
  <2> QED BY <2>2, <2>5, RowIsNotNoRow
<1>8. ASSUME NEW o \in Pairs
      PROVE  AccruedOf(o)' = AccruedOf(o) /\ (HasRow(o) => HasRow(o)')
  <2>1. CASE o = p
    BY <1>3, <1>6, <1>7, <2>1 DEF AccruedOf, HasRow, BalanceInv, Tables
  <2>2. CASE o # p
    BY <1>6, <2>2 DEF AccruedOf, HasRow, BalanceInv, Tables
  <2> QED BY <2>1, <2>2
<1> QED BY <1>6, <1>8 DEF CreditsNothing

LEMMA SpendCredits ==
  ASSUME BalanceInv, NEW p \in Pairs, NEW d \in Int, Spend(p, d)
  PROVE  CreditsNothing
<1>1. UNCHANGED accrualLog
  BY DEF Spend
<1>2. CASE UNCHANGED balance
  BY <1>1, <1>2 DEF CreditsNothing, AccruedOf, HasRow
<1>3. CASE HasRow(p) /\ Charge(p, d)
  <2>1. PICK old : old = balance[p]
    OBVIOUS
  <2>2. PICK row : row = [old EXCEPT !.used = @ + d, !.closing = @ - d]
    OBVIOUS
  <2>3. GoodRow(old)
    BY <1>3, <2>1 DEF BalanceInv, Tables
  <2>4. row # NoRow
    BY <2>2, <2>3, SpentIsGood, RowIsNotNoRow DEF GoodRow
  <2>5. row.accrued = old.accrued
    BY <2>2, <2>3 DEF GoodRow, Row
  <2>6. balance' = [balance EXCEPT ![p] = row]
    BY <1>3, <2>1, <2>2 DEF Charge
  <2>7. ASSUME NEW o \in Pairs
        PROVE  AccruedOf(o)' = AccruedOf(o) /\ (HasRow(o) => HasRow(o)')
    <3>1. CASE o = p
      BY <1>3, <2>1, <2>4, <2>5, <2>6, <3>1 DEF AccruedOf, HasRow, BalanceInv, Tables
    <3>2. CASE o # p
      BY <2>6, <3>2 DEF AccruedOf, HasRow, BalanceInv, Tables
    <3> QED BY <3>1, <3>2
  <2> QED BY <1>1, <2>7 DEF CreditsNothing
<1> QED BY <1>2, <1>3 DEF Spend, Charge

LEMMA NothingChangedCredits == UNCHANGED books => CreditsNothing
BY DEF books, CreditsNothing, AccruedOf, HasRow

\* Everything but the credit of an accrual and the new year.
LEMMA OthersCreditNothing ==
  ASSUME BalanceInv, BalanceInv', Typed, InsertsNothing, [Next]_vars, ~NewYear,
         \A a \in Accruals : ~CreditAccrual(a)
  PROVE  CreditsNothing
<1>1. ASSUME NEW w \in Workers, StartChange(w) \/ CommitChange(w) PROVE CreditsNothing
  BY <1>1, StartChangeTyped, CommitChangeCredits, NothingChangedCredits
<1>2. ASSUME NEW e \in Employees, ToggleStatus(e) PROVE CreditsNothing
  BY <1>2, NothingChangedCredits DEF ToggleStatus
<1>3. ASSUME NEW p \in Pairs, NEW d \in Days, Approve(p, d) \/ Withdraw(p, d)
      PROVE  CreditsNothing
  <2>1. d \in Int /\ -d \in Int
    BY BalanceAssumption
  <2> QED BY <1>3, <2>1, SpendCredits DEF Approve, Withdraw
<1>4. ASSUME NEW w \in Workers, StartAdjust(w) \/ CommitAdjust(w) \/ Abort(w)
      PROVE  CreditsNothing
  BY <1>4, StartAdjustTyped, CommitAdjustCredits, NothingChangedCredits DEF Abort
<1>5. ASSUME NEW a \in Accruals, StartAccrual(a) \/ CheckAccrual(a) \/ FailAccrual(a)
      PROVE  CreditsNothing
  BY <1>5, NothingChangedCredits DEF StartAccrual, RunAccrual, CheckAccrual, FailAccrual
<1>6. CASE Restart
  BY <1>6, NothingChangedCredits DEF Restart
<1>7. CASE UNCHANGED vars
  BY <1>7, NothingChangedCredits DEF vars
<1> QED BY <1>1, <1>2, <1>3, <1>4, <1>5, <1>6, <1>7 DEF Next

\* A credit adds what the accrual earns, and logs it unless the month is logged.
LEMMA Credit ==
  ASSUME BalanceInv, Typed, NEW a \in Accruals, CreditAccrual(a)
  PROVE  \E p \in Pairs, m \in Months, rate \in {2, 3} :
           /\ p = accrual[a].now /\ m = accrual[a].month
           /\ AccruedOf(p)' = AccruedOf(p) + rate
           /\ Logged(p)' = Logged(p) + IF accrualLog[p][m] = 0 THEN rate ELSE 0
           /\ \A o \in Pairs : HasRow(o) => HasRow(o)'
           /\ \A o \in Pairs : o # p =>
                AccruedOf(o)' = AccruedOf(o) /\ Logged(o)' = Logged(o)
           /\ UNCHANGED job
<1>1. PICK p \in Pairs : p = accrual[a].now
  BY DEF CreditAccrual, BalanceInv, AccrualRuns, Accruing
<1>2. PICK m \in Months : m = accrual[a].month
  BY DEF CreditAccrual, Typed, TypedRun
<1>3. PICK rate \in {2, 3} : rate = accrual[a].rate
  BY DEF CreditAccrual, Typed, TypedRun
<1>4. PICK old : old = IF HasRow(p) THEN balance[p] ELSE NewRow(0)
  OBVIOUS
<1>5. old \in Row /\ old.accrued = AccruedOf(p)
  <2>1. CASE HasRow(p)
    BY <1>4, <2>1 DEF AccruedOf, BalanceInv, Tables, GoodRow
  <2>2. CASE ~HasRow(p)
    BY <1>4, <2>2 DEF AccruedOf, NewRow, Row
  <2> QED BY <2>1, <2>2
<1>6. PICK row : row = [old EXCEPT !.accrued = @ + rate]
  OBVIOUS
<1>7. row \in Row /\ row.accrued = old.accrued + rate
  BY <1>5, <1>6 DEF Row
<1>8. row # NoRow
  BY <1>7, RowIsNotNoRow
<1>9. balance' = [balance EXCEPT ![p] = row] /\ UNCHANGED <<lock, job>>
  BY <1>1, <1>3, <1>4, <1>6 DEF CreditAccrual
<1>10. accrualLog' = [accrualLog EXCEPT ![p][m] = IF @ = 0 THEN rate ELSE @]
  BY <1>1, <1>2, <1>3 DEF CreditAccrual
<1>11. accrualLog \in [Pairs -> [Months -> {0, 2, 3}]]
  BY DEF Typed, TypedTables
<1>12. AccruedOf(p)' = AccruedOf(p) + rate
  BY <1>5, <1>7, <1>8, <1>9 DEF AccruedOf, HasRow, BalanceInv, Tables
<1>13. \A o \in Pairs : HasRow(o) => HasRow(o)'
  BY <1>8, <1>9 DEF HasRow, BalanceInv, Tables
<1>14. Logged(p)' = Logged(p) + IF accrualLog[p][m] = 0 THEN rate ELSE 0
  <2>1. PICK f : f = accrualLog[p]
    OBVIOUS
  <2>2. PICK g : g = accrualLog'[p]
    OBVIOUS
  <2>3. g = [f EXCEPT ![m] = IF @ = 0 THEN rate ELSE @] /\ f \in [Months -> {0, 2, 3}]
    BY <1>10, <1>11, <2>1, <2>2
  <2>4. /\ \A n \in Months : f[n] \in Int /\ g[n] \in Int
        /\ \A n \in Months \ {m} : f[n] = g[n]
        /\ g[m] = IF f[m] = 0 THEN rate ELSE f[m]
    BY <2>3
  <2>5. SumFunctionOnSet(g, Months) = SumFunctionOnSet(f, Months) - f[m] + g[m]
    BY <2>4, MonthsAreFinite, SumOfChanged
  <2>6. SumFunctionOnSet(f, Months) \in Int
    BY <2>4, MonthsAreFinite, SumIsInt
  <2>7. SumFunctionOnSet(g, Months) = SumFunctionOnSet(f, Months) + IF f[m] = 0 THEN rate ELSE 0
    BY <2>4, <2>5, <2>6
  <2> QED BY <2>1, <2>2, <2>7 DEF Logged
<1>15. ASSUME NEW o \in Pairs, o # p
       PROVE  AccruedOf(o)' = AccruedOf(o) /\ Logged(o)' = Logged(o)
  <2>1. accrualLog'[o] = accrualLog[o]
    BY <1>10, <1>11, <1>15
  <2>2. balance'[o] = balance[o]
    BY <1>9, <1>15 DEF BalanceInv, Tables
  <2> QED BY <2>1, <2>2 DEF AccruedOf, HasRow, Logged
<1> WITNESS p \in Pairs, m \in Months, rate \in {2, 3}
<1> QED BY <1>1, <1>2, <1>9, <1>12, <1>13, <1>14, <1>15

\* An accrual finds a month to be missing, or goes on to credit nothing.
LEMMA Finds ==
  ASSUME BalanceInv, Typed, StillMissing, NEW a \in Accruals,
         StartAccrual(a) \/ CheckAccrual(a) \/ CreditAccrual(a) \/ FailAccrual(a)
  PROVE  \E run :
           /\ accrual' = [accrual EXCEPT ![a] = run]
           /\ run.now # <<>> => accrualLog[run.now][run.month] = 0 /\ ~CreditAccrual(a)
<1> DEFINE was == accrual[a]
<1>1. DOMAIN was = {"month", "todo", "now", "rate"}
  BY DEF BalanceInv, AccrualRuns, Accruing
<1>2. \A x : Without(was, x).now = <<>>
  BY <1>1 DEF Without, IdleAccrual
<1>3. CASE StartAccrual(a)
  <2>1. PICK m, todo : accrual' = [accrual EXCEPT ![a] = [IdleAccrual EXCEPT !.month = m, !.todo = todo]]
    BY <1>3 DEF StartAccrual, RunAccrual
  <2>2. PICK run : run = [IdleAccrual EXCEPT !.month = m, !.todo = todo]
    OBVIOUS
  <2>3. run.now = <<>>
    BY <2>2 DEF IdleAccrual
  <2> QED BY <2>1, <2>2, <2>3
<1>4. CASE CheckAccrual(a)
  <2>0. PICK old : old = was
    OBVIOUS
  <2>1. PICK x \in old.todo :
          accrual' = [accrual EXCEPT ![a] =
            IF IsAccrualAlreadyRun(x.pair, old.month) THEN Without(old, x)
            ELSE [old EXCEPT !.now = x.pair, !.rate = x.rate]]
    BY <1>4, <2>0 DEF CheckAccrual
  <2>2. ~CreditAccrual(a)
    BY <1>4 DEF CheckAccrual, CreditAccrual
  <2>3. CASE IsAccrualAlreadyRun(x.pair, old.month)
    BY <1>2, <2>0, <2>1, <2>3
  <2>4. CASE ~IsAccrualAlreadyRun(x.pair, old.month)
    <3>1. PICK run : run = [old EXCEPT !.now = x.pair, !.rate = x.rate]
      OBVIOUS
    <3>2. run.now = x.pair /\ run.month = old.month
      BY <1>1, <2>0, <3>1
    <3>3. x.pair \in Pairs /\ old.month \in Months
      BY <2>0 DEF BalanceInv, AccrualRuns, Accruing, Typed, TypedRun
    <3>4. accrualLog[x.pair][old.month] = 0
      BY <2>4, <3>3 DEF IsAccrualAlreadyRun, Typed, TypedTables
    <3> QED BY <2>1, <2>2, <2>4, <3>1, <3>2, <3>4
  <2> QED BY <2>3, <2>4
<1>5. CASE CreditAccrual(a) \/ FailAccrual(a)
  BY <1>2, <1>5 DEF CreditAccrual, FailAccrual
<1> QED BY <1>3, <1>4, <1>5

\* With one accrual at a time, what it has found to be missing stays so.
LEMMA StepStillMissing ==
  ASSUME BalanceInv, Typed, StillMissing, \A a, b \in Accruals : a = b, [Next]_vars
  PROVE  StillMissing'
<1>u. UNCHANGED <<accrual, accrualLog>> => StillMissing'
  BY DEF StillMissing
<1>1. ASSUME NEW w \in Workers, StartChange(w) \/ CommitChange(w) PROVE StillMissing'
  BY <1>1, <1>u, StartChangeTyped, CommitChangeCredits DEF books, CreditsNothing
<1>2. ASSUME NEW e \in Employees, ToggleStatus(e) PROVE StillMissing'
  BY <1>2, <1>u DEF ToggleStatus, books, working
<1>3. ASSUME NEW p \in Pairs, NEW d \in Days, Approve(p, d) \/ Withdraw(p, d)
      PROVE  StillMissing'
  BY <1>3, <1>u DEF Approve, Withdraw, Spend, working
<1>4. ASSUME NEW w \in Workers, StartAdjust(w) \/ CommitAdjust(w) \/ Abort(w)
      PROVE  StillMissing'
  BY <1>4, <1>u DEF StartAdjust, CommitAdjust, Abort, books
<1>5. ASSUME NEW a \in Accruals,
             StartAccrual(a) \/ CheckAccrual(a) \/ CreditAccrual(a) \/ FailAccrual(a)
      PROVE  StillMissing'
  <2>1. PICK run :
          /\ accrual' = [accrual EXCEPT ![a] = run]
          /\ run.now # <<>> => accrualLog[run.now][run.month] = 0 /\ ~CreditAccrual(a)
    BY <1>5, Finds
  <2>2. ASSUME NEW c \in Accruals PROVE accrual'[c] = run
    BY <2>1 DEF BalanceInv, AccrualRuns
  <2>3. ~CreditAccrual(a) => UNCHANGED accrualLog
    BY <1>5 DEF StartAccrual, RunAccrual, CheckAccrual, FailAccrual, books
  <2> QED BY <2>1, <2>2, <2>3 DEF StillMissing
<1>6. CASE Restart
  BY <1>6 DEF Restart, StillMissing, IdleAccrual
<1>7. CASE NewYear
  BY <1>7 DEF NewYear, working, StillMissing, IdleAccrual
<1>8. CASE UNCHANGED vars
  BY <1>8, <1>u DEF vars, books, working
<1> QED BY <1>1, <1>2, <1>3, <1>4, <1>5, <1>6, <1>7, <1>8 DEF Next

LEMMA StartedChangesInsertNothing ==
  ASSUME BalanceInv, NEW w \in Workers, StartChange(w)
  PROVE  \E b : job' = [job EXCEPT ![w] = b] /\ b.op # "ADJUST"
<1>1. ASSUME NEW j, DOMAIN j = Fields, j.op # "ADJUST", StartPlanned(w, j)
      PROVE  \E b : job' = [job EXCEPT ![w] = b] /\ b.op # "ADJUST"
  <2>1. PICK plan : plan = Plan(j)
    OBVIOUS
  <2>2. PICK b : b = [j EXCEPT !.plan = plan]
    OBVIOUS
  <2>3. b.op = j.op
    BY <1>1, <2>2 DEF Fields
  <2> QED BY <1>1, <2>1, <2>2, <2>3 DEF StartPlanned, Start
<1>2. DOMAIN Idle = Fields
  BY DEF Idle, Fields
<1>3. CASE StartCreateEmployee(w)
  <2>1. PICK e, r, m :
          StartPlanned(w, [Idle EXCEPT !.op = "NEW EMPLOYEE", !.emp = e, !.role = r, !.joined = m])
    BY <1>3 DEF StartCreateEmployee
  <2>2. PICK j : j = [Idle EXCEPT !.op = "NEW EMPLOYEE", !.emp = e, !.role = r, !.joined = m]
    OBVIOUS
  <2>3. j.op = "NEW EMPLOYEE" /\ DOMAIN j = Fields
    BY <2>2 DEF Idle, Fields
  <2> QED BY <1>1, <2>1, <2>2, <2>3
<1>4. CASE StartCreateLeaveType(w)
  <2>1. PICK t, pol :
          StartPlanned(w, [Idle EXCEPT !.op = "NEW TYPE", !.type = t, !.policy = pol])
    BY <1>4 DEF StartCreateLeaveType
  <2>2. PICK j : j = [Idle EXCEPT !.op = "NEW TYPE", !.type = t, !.policy = pol]
    OBVIOUS
  <2>3. j.op = "NEW TYPE" /\ DOMAIN j = Fields
    BY <2>2 DEF Idle, Fields
  <2> QED BY <1>1, <2>1, <2>2, <2>3
<1>5. CASE StartUpdateLeaveType(w)
  <2>1. PICK j : j = job[w]
    OBVIOUS
  <2>2. DOMAIN j = Fields
    BY <2>1 DEF BalanceInv, Requests, Planning
  <2>3. PICK plan : plan = PlanForEntitlement(j, j.early)
    OBVIOUS
  <2>4. PICK b : b = [j EXCEPT !.op = "ENTITLEMENT", !.plan = plan]
    OBVIOUS
  <2>5. b.op = "ENTITLEMENT"
    BY <2>2, <2>4 DEF Fields
  <2> QED BY <1>5, <2>1, <2>3, <2>4, <2>5 DEF StartUpdateLeaveType
<1>6. CASE StartUpdateJoiningDate(w)
  <2>1. PICK e, m :
          StartPlanned(w, [Idle EXCEPT !.op = "JOINING DATE", !.emp = e, !.joined = m])
    BY <1>6 DEF StartUpdateJoiningDate
  <2>2. PICK j : j = [Idle EXCEPT !.op = "JOINING DATE", !.emp = e, !.joined = m]
    OBVIOUS
  <2>3. j.op = "JOINING DATE" /\ DOMAIN j = Fields
    BY <2>2 DEF Idle, Fields
  <2> QED BY <1>1, <2>1, <2>2, <2>3
<1>7. CASE ReadRole(w)
  <2>1. PICK e, r, was :
          Start(w, [Idle EXCEPT !.op = "ROLE?", !.emp = e, !.role = r, !.was = was])
    BY <1>7 DEF ReadRole
  <2>2. PICK b : b = [Idle EXCEPT !.op = "ROLE?", !.emp = e, !.role = r, !.was = was]
    OBVIOUS
  <2>3. b.op = "ROLE?"
    BY <2>2 DEF Idle
  <2> QED BY <2>1, <2>2, <2>3 DEF Start
<1>9. CASE StartUpdateInfo(w)
  <2>1. PICK e, m : Start(w, [Idle EXCEPT !.op = "INFO", !.emp = e, !.joined = m])
    BY <1>9 DEF StartUpdateInfo
  <2>2. PICK b : b = [Idle EXCEPT !.op = "INFO", !.emp = e, !.joined = m]
    OBVIOUS
  <2>3. b.op = "INFO"
    BY <2>2 DEF Idle
  <2> QED BY <2>1, <2>2, <2>3 DEF Start
<1>8. CASE StartUpdateRole(w)
  <2>1. PICK j : j = job[w]
    OBVIOUS
  <2>2. DOMAIN j = Fields
    BY <2>1 DEF BalanceInv, Requests, Planning
  <2>3. PICK plan : plan = PlanForRole(j, j.was)
    OBVIOUS
  <2>4. PICK b : b = [j EXCEPT !.op = "ROLE", !.plan = plan]
    OBVIOUS
  <2>5. b.op = "ROLE"
    BY <2>2, <2>4 DEF Fields
  <2> QED BY <1>8, <2>1, <2>3, <2>4, <2>5 DEF StartUpdateRole
<1>10. CASE ReadLeaveType(w)
  <2>1. PICK t, pol, early :
          Start(w, [Idle EXCEPT !.op = "ENTITLEMENT?", !.type = t, !.policy = pol,
                                !.early = early])
    BY <1>10 DEF ReadLeaveType
  <2>2. PICK b : b = [Idle EXCEPT !.op = "ENTITLEMENT?", !.type = t, !.policy = pol,
                                  !.early = early]
    OBVIOUS
  <2>3. b.op = "ENTITLEMENT?"
    BY <2>2 DEF Idle
  <2> QED BY <2>1, <2>2, <2>3 DEF Start
<1> QED BY <1>3, <1>4, <1>5, <1>6, <1>7, <1>8, <1>9, <1>10 DEF StartChange

\* What a request is about to insert has no accruals, and rows do not go away.
LEMMA StepInsertsNothing ==
  ASSUME BalanceInv, BalanceInv', Typed, InsertsNothing, [Next]_vars
  PROVE  InsertsNothing'
<1>1. CASE NewYear
  BY <1>1 DEF NewYear, working, InsertsNothing, Idle
<1>2. CASE ~NewYear
  <2>1. \A p \in Pairs : HasRow(p) => HasRow(p)'
    <3>1. CASE \E a \in Accruals : CreditAccrual(a)
      BY <3>1, Credit
    <3>2. CASE ~ \E a \in Accruals : CreditAccrual(a)
      BY <1>2, <3>2, OthersCreditNothing DEF CreditsNothing
    <3> QED BY <3>1, <3>2
  <2>2. ASSUME NEW w \in Workers, job'[w].op = "ADJUST", job'[w] = job[w], ~HasRow(job[w].pair)'
        PROVE  job'[w].row.accrued = 0
    <3>1. job[w].pair \in Pairs /\ ~HasRow(job[w].pair)
      BY <2>1, <2>2 DEF BalanceInv, Requests, Adjusting, HasRow
    <3> QED BY <2>2, <3>1 DEF InsertsNothing
  <2>u. UNCHANGED job => InsertsNothing'
    BY <2>2 DEF InsertsNothing, HasRow
  <2>f. ASSUME NEW w \in Workers, Finish(w) PROVE InsertsNothing'
    <3>1. \A v \in Workers : job'[v] = job[v] \/ job'[v].op = "IDLE"
      BY <2>f, IdleIsFine DEF Finish, BalanceInv, Requests
    <3> QED BY <2>2, <3>1 DEF InsertsNothing, HasRow
  <2>b. ASSUME NEW w \in Workers, NEW b, job' = [job EXCEPT ![w] = b],
               b.op = "ADJUST" /\ ~HasRow(b.pair)' => b.row.accrued = 0
        PROVE  InsertsNothing'
    <3>1. \A v \in Workers : job'[v] = IF v = w THEN b ELSE job[v]
      BY <2>b DEF BalanceInv, Requests
    <3> QED BY <2>2, <2>b, <3>1 DEF InsertsNothing, HasRow
  <2>3. ASSUME NEW w \in Workers, StartChange(w) PROVE InsertsNothing'
    BY <2>3, <2>b, StartedChangesInsertNothing
  <2>4. ASSUME NEW w \in Workers, CommitChange(w) \/ CommitAdjust(w) \/ Abort(w)
        PROVE  InsertsNothing'
    <3>1. Finish(w)
      BY <2>4 DEF CommitChange, CommitCreateEmployee, CommitCreateLeaveType,
         CommitUpdateLeaveType, CommitUpdateRole, CommitUpdateJoiningDate, CommitUpdateInfo,
         CommitAdjust, Abort
    <3> QED BY <2>f, <3>1
  <2>5. ASSUME NEW w \in Workers, StartAdjust(w) PROVE InsertsNothing'
    <3>1. PICK p \in Pairs, q \in Quantities :
            job' = [job EXCEPT ![w] =
              [Idle EXCEPT !.op = "ADJUST", !.pair = p, !.qty = q, !.row = RowToAdjust(p)]]
      BY <2>5 DEF StartAdjust, Start
    <3>2. PICK row : row = RowToAdjust(p)
      OBVIOUS
    <3>3. PICK b : b = [Idle EXCEPT !.op = "ADJUST", !.pair = p, !.qty = q, !.row = row]
      OBVIOUS
    <3>4. b.pair = p /\ b.row = row
      BY <3>3 DEF Idle
    <3>5. ~HasRow(p) => row.accrued = 0
      BY <3>2 DEF RowToAdjust, NewRow
    <3>6. HasRow(p)' = HasRow(p)
      BY <2>5, StartAdjustTyped DEF books, HasRow
    <3> QED BY <2>b, <3>1, <3>2, <3>3, <3>4, <3>5, <3>6 DEF HasRow
  <2>6. ASSUME NEW e \in Employees, ToggleStatus(e) PROVE InsertsNothing'
    BY <2>6, <2>u DEF ToggleStatus, working
  <2>7. ASSUME NEW p \in Pairs, NEW d \in Days, Approve(p, d) \/ Withdraw(p, d)
        PROVE  InsertsNothing'
    BY <2>7, <2>u DEF Approve, Withdraw, Spend, working
  <2>8. ASSUME NEW a \in Accruals,
               StartAccrual(a) \/ CheckAccrual(a) \/ CreditAccrual(a) \/ FailAccrual(a)
        PROVE  InsertsNothing'
    BY <2>8, <2>u, AccrualTyped
  <2>9. CASE Restart
    BY <2>9, IdleIsFine DEF Restart, InsertsNothing
  <2>10. CASE UNCHANGED vars
    BY <2>10, <2>u DEF vars, working
  <2> QED BY <1>2, <2>3, <2>4, <2>5, <2>6, <2>7, <2>8, <2>9, <2>10 DEF Next
<1> QED BY <1>1, <1>2

LEMMA NewYearCredits ==
  ASSUME NewYear
  PROVE  \A p \in Pairs : AccruedOf(p)' = 0 /\ Logged(p)' = 0
<1>1. \A p \in Pairs : AccruedOf(p)' = 0
  BY DEF NewYear, AccruedOf, HasRow
<1>2. ASSUME NEW p \in Pairs PROVE Logged(p)' = 0
  <2>1. \A m \in Months : accrualLog'[p][m] = 0
    BY DEF NewYear
  <2> QED BY <2>1, MonthsAreFinite, SumOfZeros DEF Logged
<1> QED BY <1>1, <1>2

LEMMA NumbersOfAccruals ==
  ASSUME BalanceInv, Typed, NEW p \in Pairs
  PROVE  AccruedOf(p) \in Nat /\ Logged(p) \in Nat
BY LoggedIsANumber DEF AccruedOf, BalanceInv, Tables, GoodRow, Row

LEMMA StepCovered ==
  ASSUME BalanceInv, BalanceInv', Typed, InsertsNothing, Covered, [Next]_vars
  PROVE  Covered'
<1>1. CASE NewYear
  BY <1>1, NewYearCredits DEF Covered
<1>2. ASSUME NEW a \in Accruals, CreditAccrual(a) PROVE Covered'
  <2>1. PICK p \in Pairs, m \in Months, rate \in {2, 3} :
          /\ AccruedOf(p)' = AccruedOf(p) + rate
          /\ Logged(p)' = Logged(p) + IF accrualLog[p][m] = 0 THEN rate ELSE 0
          /\ \A o \in Pairs : o # p => AccruedOf(o)' = AccruedOf(o) /\ Logged(o)' = Logged(o)
    BY <1>2, Credit
  <2>2. Logged(p)' <= AccruedOf(p)'
    BY <2>1, NumbersOfAccruals DEF Covered
  <2> QED BY <2>1, <2>2 DEF Covered
<1>3. CASE ~NewYear /\ \A a \in Accruals : ~CreditAccrual(a)
  BY <1>3, OthersCreditNothing DEF CreditsNothing, Covered, Logged
<1> QED BY <1>1, <1>2, <1>3

LEMMA StepExact ==
  ASSUME BalanceInv, BalanceInv', Typed, InsertsNothing, StillMissing, Exact, [Next]_vars
  PROVE  Exact'
<1>1. CASE NewYear
  BY <1>1, NewYearCredits DEF Exact
<1>2. ASSUME NEW a \in Accruals, CreditAccrual(a) PROVE Exact'
  <2>1. PICK p \in Pairs, m \in Months, rate \in {2, 3} :
          /\ p = accrual[a].now /\ m = accrual[a].month
          /\ AccruedOf(p)' = AccruedOf(p) + rate
          /\ Logged(p)' = Logged(p) + IF accrualLog[p][m] = 0 THEN rate ELSE 0
          /\ \A o \in Pairs : o # p => AccruedOf(o)' = AccruedOf(o) /\ Logged(o)' = Logged(o)
    BY <1>2, Credit
  <2>2. accrualLog[p][m] = 0
    BY <1>2, <2>1 DEF CreditAccrual, StillMissing
  <2>3. AccruedOf(p)' = Logged(p)'
    BY <2>1, <2>2 DEF Exact
  <2> QED BY <2>1, <2>3 DEF Exact
<1>3. CASE ~NewYear /\ \A a \in Accruals : ~CreditAccrual(a)
  BY <1>3, OthersCreditNothing DEF CreditsNothing, Exact, Logged
<1> QED BY <1>1, <1>2, <1>3

LEMMA InitCredits ==
  ASSUME Init
  PROVE  Exact /\ Covered /\ StillMissing /\ InsertsNothing
<1>1. ASSUME NEW p \in Pairs PROVE AccruedOf(p) = 0 /\ Logged(p) = 0
  BY NothingIsLogged DEF Init, AccruedOf, HasRow
<1>2. StillMissing
  BY DEF Init, StillMissing, IdleAccrual
<1>3. InsertsNothing
  BY DEF Init, InsertsNothing, Idle
<1> QED BY <1>1, <1>2, <1>3 DEF Exact, Covered

(***************************************************************************)
(* What the log of accruals says was credited has been credited, however   *)
(* many accruals run at once and wherever they stop: a repeated run leaves *)
(* out nobody who did not get the days.                                    *)
(***************************************************************************)
THEOREM LoggedIsCredited == Spec => []Covered
<1>1. Init => BalanceInv /\ Typed /\ InsertsNothing /\ Covered
  BY InitBalance, InitTyped, InitCredits
<1>2. BalanceInv /\ Typed /\ InsertsNothing /\ Covered /\ [Next]_vars
        => (BalanceInv /\ Typed /\ InsertsNothing /\ Covered)'
  BY StepBalance, StepTyped, StepInsertsNothing, StepCovered
<1> QED BY <1>1, <1>2, PTL DEF Spec

(***************************************************************************)
(* If no two accruals run at the same time, the idempotency that RunAccrual*)
(* claims holds: a month is credited once, whatever else happens to the    *)
(* row and wherever a run stops.  The run balance_accrual shows that the   *)
(* assumption is needed.                                                   *)
(***************************************************************************)
THEOREM CreditedOnceByOneAccrual ==
  ASSUME \A a, b \in Accruals : a = b
  PROVE  Spec => []CreditedOnce
<1>1. Init => BalanceInv /\ Typed /\ InsertsNothing /\ StillMissing /\ Exact
  BY InitBalance, InitTyped, InitCredits
<1>2. BalanceInv /\ Typed /\ InsertsNothing /\ StillMissing /\ Exact /\ [Next]_vars
        => (BalanceInv /\ Typed /\ InsertsNothing /\ StillMissing /\ Exact)'
  BY StepBalance, StepTyped, StepInsertsNothing, StepStillMissing, StepExact
<1>3. Exact => CreditedOnce
  BY DEF Exact, AccruedOf, Logged, CreditedOnce
<1> QED BY <1>1, <1>2, <1>3, PTL DEF Spec

=============================================================================
