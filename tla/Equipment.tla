------------------------------ MODULE Equipment ------------------------------
(***************************************************************************)
(* The equipment inventory: tbl_equipment with its remaining_quantity, its *)
(* categories, the assignment rows, and the deactivation of an employee,   *)
(* which gives equipment back.                                             *)
(*                                                                         *)
(* Every request is one transaction (READ COMMITTED).  What it reads       *)
(* without a lock and then uses is a step of its own; the writes of a      *)
(* transaction are one step.  AssignEquipment locks the item with SELECT   *)
(* ... FOR UPDATE from its read to its commit.  The CHECK constraints of   *)
(* the schema turn a write that breaks them into a rollback.  "The most    *)
(* recent assignment" is the one inserted last: assigned_at is the start   *)
(* of the inserting transaction, which differs only for one that waited.   *)
(*                                                                         *)
(* UpdateEquipment, UpdateAssignment, RemoveEquipment and a deactivation   *)
(* write what follows from rows they read without a lock.  The history     *)
(* variable stale names the items to which a request wrote what no longer  *)
(* followed from the rows of then.                                         *)
(***************************************************************************)
EXTENDS Integers, FiniteSets, FiniteSetsExt

CONSTANTS
  Items,       \* equipment ids
  NoItem,
  Categories,  \* category ids
  NoCategory,  \* of an item without a row
  Employees,
  NoEmployee,  \* "to_employee_id" left out
  Workers,     \* requests served at the same time
  NoWorker,    \* nobody holds the lock
  Quantities,  \* quantities a request may ask for
  Totals,      \* total quantities an item may be given
  Sharing,     \* values of is_shared a request may give
  MaxRows,     \* bound: assignment rows ever inserted
  MaxQuantity  \* bound: units merged into one assignment

ASSUME EquipmentAssumption ==
  /\ NoItem \notin Items
  /\ NoCategory \notin Categories
  /\ NoEmployee \notin Employees
  /\ NoWorker \notin Workers
  /\ Quantities \subseteq Nat \ {0}
  /\ Totals \subseteq Nat \ {0}
  /\ Sharing \subseteq BOOLEAN
  /\ MaxRows \in Nat /\ MaxQuantity \in Nat

VARIABLES
  total,       \* tbl_equipment.total_quantity, 0 without a row
  remaining,   \* tbl_equipment.remaining_quantity
  shared,      \* tbl_equipment.is_shared
  category,    \* tbl_equipment.category_id
  categories,  \* tbl_equipment_category
  rows,        \* tbl_equipment_assignment
  nextRow,     \* id of the next assignment
  active,      \* employees whose status is active
  lock,        \* the request that locked the item
  deleted,     \* items deleted: ids are not used again
  job,         \* what each worker is doing
  stale        \* history: items that were written from outdated reads

itemVars == <<total, remaining, shared, category, categories, deleted>>
vars == <<itemVars, rows, nextRow, active, lock, job, stale>>

Row == [id : Nat, item : Items, emp : Employees, qty : Nat \ {0}]

Job ==
  [op : {"IDLE", "ASSIGN", "REMOVE", "UPDATE", "MOVE", "DEACTIVATE"},
   item : Items \cup {NoItem},
   items : SUBSET Items,     \* items to return: those an employee had, as read
   held : SUBSET Row,        \* their assignments, as read
   emp : Employees \cup {NoEmployee},
   to : Employees \cup {NoEmployee},
   qty : Nat,                \* requested quantity
   row : Nat,                \* assignment row as read
   rowQty : Nat,             \* its quantity as read
   total : Nat,              \* requested total quantity
   remaining : Nat,          \* remaining quantity that follows from what was read
   category : Categories \cup {NoCategory},  \* requested category
   shared : BOOLEAN,         \* requested is_shared
   sharing : SUBSET Items]   \* shared items, as read

Idle ==
  [op |-> "IDLE", item |-> NoItem, items |-> {}, held |-> {}, emp |-> NoEmployee, to |-> NoEmployee,
   qty |-> 0, row |-> 0, rowQty |-> 0, total |-> 0, remaining |-> 0,
   category |-> NoCategory, shared |-> FALSE, sharing |-> {}]

Exists(i) == total[i] > 0

Held(i, e) == {r \in rows : r.item = i /\ r.emp = e}

\* ORDER BY assigned_at DESC LIMIT 1.
Latest(held) == CHOOSE r \in held : \A q \in held : q.id <= r.id

\* The units of an item in some rows.
Units(held, i) ==
  SumFunctionOnSet([r \in held |-> r.qty], {r \in held : r.item = i})

Assigned(i) == Units(rows, i)

SharedItems == {i \in Items : shared[i]}

\* A worker takes a request.
Take(w, j) == job[w] = Idle /\ job' = [job EXCEPT ![w] = j]

Mark(suspects) == stale' = stale \cup suspects

\* The transaction ends, and with it its locks.
Finish(w) ==
  /\ job' = [job EXCEPT ![w] = Idle]
  /\ lock' = [i \in Items |-> IF lock[i] = w THEN NoWorker ELSE lock[i]]

Unlocked(i, w) == lock[i] \in {NoWorker, w}

Init ==
  /\ total = [i \in Items |-> 0]
  /\ remaining = [i \in Items |-> 0]
  /\ shared = [i \in Items |-> FALSE]
  /\ category = [i \in Items |-> NoCategory]
  /\ categories = {}
  /\ rows = {}
  /\ nextRow = 1
  /\ active = Employees
  /\ lock = [i \in Items |-> NoWorker]
  /\ deleted = {}
  /\ job = [w \in Workers |-> Idle]
  /\ stale = {}

-----------------------------------------------------------------------------
CreateCategory(c) ==
  /\ c \notin categories
  /\ categories' = categories \cup {c}
  /\ UNCHANGED <<total, remaining, shared, category, deleted, rows, nextRow, active, lock, job, stale>>

\* ON DELETE RESTRICT: a category with items is not deleted.
DeleteCategory(c) ==
  /\ c \in categories
  /\ \A i \in Items : category[i] # c
  /\ categories' = categories \ {c}
  /\ UNCHANGED <<total, remaining, shared, category, deleted, rows, nextRow, active, lock, job, stale>>

\* All of a new item's units are in the pool.
CreateEquipment(i) ==
  \E t \in Totals, s \in Sharing, c \in categories :
    /\ ~Exists(i) /\ i \notin deleted
    /\ category' = [category EXCEPT ![i] = c]
    /\ total' = [total EXCEPT ![i] = t]
    /\ remaining' = [remaining EXCEPT ![i] = t]
    /\ shared' = [shared EXCEPT ![i] = s]
    /\ UNCHANGED <<categories, rows, nextRow, active, lock, deleted, job, stale>>

\* ON DELETE RESTRICT: an item that is assigned is not deleted.
Deletable(i) == Exists(i) /\ lock[i] = NoWorker /\ \A r \in rows : r.item # i

DeleteEquipment(i) ==
  /\ Deletable(i)
  /\ category' = [category EXCEPT ![i] = NoCategory]
  /\ total' = [total EXCEPT ![i] = 0]
  /\ remaining' = [remaining EXCEPT ![i] = 0]
  /\ shared' = [shared EXCEPT ![i] = FALSE]
  /\ deleted' = deleted \cup {i}
  /\ UNCHANGED <<categories, rows, nextRow, active, lock, job, stale>>

UnclampedRemaining(i, t, s) == IF s THEN t ELSE remaining[i] + (t - total[i])

\* A shared item counts no units; otherwise the difference, never below 0.
NewRemaining(i, t, s) ==
  LET r == remaining[i] + (t - total[i]) IN
  IF s THEN t ELSE IF r < 0 THEN 0 ELSE r

\* UpdateEquipment reads the quantities without a lock ...
StartUpdate(w) ==
  \E i \in Items, t \in Totals, s \in Sharing, c \in Categories :
    /\ Exists(i)
    /\ Take(w, [Idle EXCEPT !.op = "UPDATE", !.item = i, !.total = t, !.shared = s,
                            !.category = c,
                            !.remaining = NewRemaining(i, t, s)])
    /\ UNCHANGED <<itemVars, rows, nextRow, active, lock, stale>>

\* ... and writes absolute values, with a category that must be there.
CommitUpdate(w) ==
  LET j == job[w] IN
  /\ j.op = "UPDATE" /\ Exists(j.item) /\ Unlocked(j.item, w)
  /\ j.category \in categories
  /\ category' = [category EXCEPT ![j.item] = j.category]
  /\ total' = [total EXCEPT ![j.item] = j.total]
  /\ remaining' = [remaining EXCEPT ![j.item] = j.remaining]
  /\ shared' = [shared EXCEPT ![j.item] = j.shared]
  /\ Mark({i \in {j.item} : j.remaining # NewRemaining(i, j.total, j.shared)})
  /\ Finish(w)
  /\ UNCHANGED <<categories, deleted, rows, nextRow, active>>

-----------------------------------------------------------------------------
\* UPDATE ... SET remaining_quantity = remaining_quantity + amount, with the
\* CHECK on the result; an item that was read as shared is not counted.
AddToPool(i, amount, isShared) ==
  IF isShared THEN UNCHANGED remaining
  ELSE /\ remaining[i] + amount \in 0 .. total[i]
       /\ remaining' = [remaining EXCEPT ![i] = @ + amount]

Insert(kept, i, e, q) ==
  /\ nextRow <= MaxRows
  /\ rows' = kept \cup {[id |-> nextRow, item |-> i, emp |-> e, qty |-> q]}
  /\ nextRow' = nextRow + 1

\* The item, locked with SELECT ... FOR UPDATE, has enough units.
LockedWithStock(i, q, w) ==
  /\ Exists(i) /\ lock[i] = NoWorker
  /\ ~shared[i] => remaining[i] >= q
  /\ lock' = [lock EXCEPT ![i] = w]

\* AssignEquipment, whoever the employee is: locks the item and checks it.
StartAssign(w) ==
  \E i \in Items, e \in Employees, q \in Quantities :
    /\ LockedWithStock(i, q, w)
    /\ Take(w, [Idle EXCEPT !.op = "ASSIGN", !.item = i, !.emp = e, !.qty = q])
    /\ UNCHANGED <<itemVars, rows, nextRow, active, stale>>

CommitAssign(w) ==
  LET j == job[w] IN
  /\ j.op = "ASSIGN"
  /\ Insert(rows, j.item, j.emp, j.qty)
  /\ AddToPool(j.item, -j.qty, shared[j.item])
  /\ Finish(w)
  /\ UNCHANGED <<total, shared, category, categories, deleted, active, stale>>

-----------------------------------------------------------------------------
\* RemoveEquipment reads the most recent assignment without a lock ...
StartRemove(w) ==
  \E i \in Items, e \in Employees :
    /\ Held(i, e) # {}
    /\ Take(w, [Idle EXCEPT !.op = "REMOVE", !.emp = e, !.items = {i},
                            !.held = {Latest(Held(i, e))}, !.sharing = SharedItems])
    /\ UNCHANGED <<itemVars, rows, nextRow, active, lock, stale>>

NothingChecked(j) == TRUE

\* The assignments that were read are there to be deleted.
StillThere(j) == \A r \in j.held : \E q \in rows : q.id = r.id

\* The assignment is there, but with another quantity than was read.
Outdated(r) == \E q \in rows : q.id = r.id /\ q # r

(***************************************************************************)
(* ... deletes it by its id, and returns the quantity it had read to the   *)
(* pool, unless is_shared is set - which is read in between, before or     *)
(* after an update that commits meanwhile.                                 *)
(***************************************************************************)
ReturnHeld(w) ==
  LET j == job[w] IN
  /\ StillThere(j)
  /\ rows' = {q \in rows : \A r \in j.held : q.id # r.id}
  /\ \E sharing \in SUBSET Items :
       LET back(i) == IF i \in sharing THEN 0 ELSE Units(j.held, i) IN
       /\ j.sharing \cap SharedItems \subseteq sharing
       /\ sharing \subseteq j.sharing \cup SharedItems
       /\ \A i \in j.items \ sharing : Unlocked(i, w) /\ remaining[i] + back(i) <= total[i]
       /\ remaining' = [i \in Items |-> remaining[i] + back(i)]
       /\ Mark({i \in j.items : \/ (i \in sharing) # shared[i]
                                \/ \E r \in j.held : r.item = i /\ Outdated(r)})
  /\ Finish(w)
  /\ UNCHANGED <<total, shared, category, categories, deleted, nextRow>>

CommitRemove(w) ==
  /\ job[w].op = "REMOVE"
  /\ ReturnHeld(w)
  /\ UNCHANGED active

\* A reassignment may not move more than there is in the row.
Movable(r, to, q) == to # NoEmployee => q <= r.qty

\* The row is there, as it was read.
Fresh(j) == \E r \in rows : r.id = j.row /\ r.qty = j.rowQty

\* UpdateAssignment reads the most recent assignment before it locks the item.
StartMove(w) ==
  \E i \in Items, e \in Employees, to \in Employees \cup {NoEmployee},
     q \in Quantities :
    /\ Held(i, e) # {}
    /\ LET r == Latest(Held(i, e)) IN
       /\ Movable(r, to, q)
       /\ Take(w, [Idle EXCEPT !.op = "MOVE", !.item = i, !.emp = e, !.to = to,
                               !.qty = q, !.row = r.id, !.rowQty = r.qty])
    /\ UNCHANGED <<itemVars, rows, nextRow, active, lock, stale>>

WholeRowTakenOff(j) == {r \in rows : r.id # j.row}

\* The rows once q units were taken off the row as read: the whole row is
\* deleted, also if it is gone or has changed; a part is subtracted.
TakenOff(j) ==
  IF j.qty = j.rowQty THEN {r \in rows : r.id # j.row}
  ELSE {IF r.id = j.row THEN [r EXCEPT !.qty = @ - j.qty] ELSE r : r \in rows}

AddTo(held, kept, q) ==
  LET r == Latest(held) IN (kept \ {r}) \cup {[r EXCEPT !.qty = @ + q]}

(***************************************************************************)
(* Reassignment: the units leave the row as read, pass through the pool    *)
(* (added, then taken: both writes are checked) and are merged into the    *)
(* most recent row of the new employee, or inserted.                       *)
(***************************************************************************)
CommitMove(w) ==
  LET j == job[w]
      kept == TakenOff(j)
      held == {r \in kept : r.item = j.item /\ r.emp = j.to}
  IN
  /\ j.op = "MOVE" /\ j.to # NoEmployee /\ Exists(j.item) /\ Unlocked(j.item, w)
  /\ \A r \in kept : r.qty > 0
  /\ ~shared[j.item] => remaining[j.item] + j.qty <= total[j.item]
  /\ IF held # {}
     THEN /\ Latest(held).qty + j.qty <= MaxQuantity
          /\ rows' = AddTo(held, kept, j.qty)
          /\ UNCHANGED nextRow
     ELSE Insert(kept, j.item, j.to, j.qty)
  /\ Mark({i \in {j.item} : ~Fresh(j)})
  /\ Finish(w)
  /\ UNCHANGED <<itemVars, active>>

\* Same employee: the pool moves by the difference to the quantity as read.
CommitQuantity(w) ==
  LET j == job[w] IN
  /\ j.op = "MOVE" /\ j.to = NoEmployee /\ Exists(j.item) /\ Unlocked(j.item, w)
  /\ \E r \in rows : r.id = j.row
  /\ rows' = {IF r.id = j.row THEN [r EXCEPT !.qty = j.qty] ELSE r : r \in rows}
  /\ AddToPool(j.item, j.rowQty - j.qty, shared[j.item])
  /\ Mark({i \in {j.item} : ~Fresh(j)})
  /\ Finish(w)
  /\ UNCHANGED <<total, shared, category, categories, deleted, nextRow, active>>

-----------------------------------------------------------------------------
(***************************************************************************)
(* DeleteEmployeeStatus toggles the status, which locks the employee.  A   *)
(* deactivation lists the items the employee has ...                       *)
(***************************************************************************)
StartDeactivate(w) ==
  \E e \in active :
    /\ \A v \in Workers : job[v].op = "DEACTIVATE" => job[v].emp # e
    /\ Take(w, [Idle EXCEPT !.op = "DEACTIVATE", !.emp = e,
                            !.items = {i \in Items : Held(i, e) # {}}])
    /\ UNCHANGED <<itemVars, rows, nextRow, active, lock, stale>>

\* ... and calls RemoveEquipment once for each of them, which reads as above;
\* another request may have changed the assignment, or taken it away.
ReadHeld(w) ==
  LET j == job[w] IN
  /\ j.op = "DEACTIVATE"
  /\ \E i \in j.items \ {r.item : r \in j.held} :
       /\ Held(i, j.emp) # {}
       /\ job' = [job EXCEPT ![w].held = @ \cup {Latest(Held(i, j.emp))},
                             ![w].sharing = @ \cup ({i} \cap SharedItems)]
  /\ UNCHANGED <<itemVars, rows, nextRow, active, lock, stale>>

\* All the items' assignments were read.
AllRead(j) == j.items = {r.item : r \in j.held}

DeactivateKeepingPool(w) ==
  LET j == job[w] IN
  /\ j.op = "DEACTIVATE" /\ AllRead(j) /\ StillThere(j)
  /\ active' = active \ {j.emp}
  /\ rows' = {q \in rows : \A r \in j.held : q.id # r.id}
  /\ Finish(w)
  /\ UNCHANGED <<itemVars, nextRow, stale>>

\* If one of them fails, nothing happens.
CommitDeactivate(w) ==
  LET j == job[w] IN
  /\ j.op = "DEACTIVATE" /\ AllRead(j)
  /\ ReturnHeld(w)
  /\ active' = active \ {j.emp}

Reactivate(e) ==
  /\ e \notin active
  /\ active' = active \cup {e}
  /\ UNCHANGED <<itemVars, rows, nextRow, lock, job, stale>>

\* Refused by a check or a constraint, failed and rolled back, or crashed.
Abort(w) ==
  /\ job[w] # Idle
  /\ Finish(w)
  /\ UNCHANGED <<itemVars, rows, nextRow, active, stale>>

Next ==
  \/ \E c \in Categories : CreateCategory(c) \/ DeleteCategory(c)
  \/ \E i \in Items : CreateEquipment(i) \/ DeleteEquipment(i)
  \/ \E e \in Employees : Reactivate(e)
  \/ \E w \in Workers :
       \/ StartUpdate(w) \/ CommitUpdate(w)
       \/ StartAssign(w) \/ CommitAssign(w)
       \/ StartRemove(w) \/ CommitRemove(w)
       \/ StartMove(w) \/ CommitMove(w) \/ CommitQuantity(w)
       \/ StartDeactivate(w) \/ ReadHeld(w) \/ CommitDeactivate(w)
       \/ Abort(w)

Spec == Init /\ [][Next]_vars

-----------------------------------------------------------------------------
TypeOK ==
  /\ total \in [Items -> Nat] /\ remaining \in [Items -> Nat]
  /\ \A i \in Items : remaining[i] \in 0 .. total[i]
  /\ shared \in [Items -> BOOLEAN]
  /\ category \in [Items -> Categories \cup {NoCategory}]
  /\ \A i \in Items : category[i] \in IF Exists(i) THEN categories ELSE {NoCategory}
  /\ categories \subseteq Categories
  /\ rows \subseteq Row
  /\ nextRow \in 1 .. MaxRows + 1
  /\ active \subseteq Employees
  /\ lock \in [Items -> Workers \cup {NoWorker}]
  /\ deleted \subseteq Items
  /\ stale \subseteq Items
  /\ job \in [Workers -> Job]

(***************************************************************************)
(* The units in the pool and in somebody's hands are at least the item's   *)
(* total: no interleaving of assignments, returns, updates, reassignments  *)
(* and deactivations loses a unit, except by a write from outdated reads.  *)
(* (There may be more: a total lowered below what is assigned leaves the   *)
(* pool at 0.)                                                             *)
(***************************************************************************)
NoUnitIsLost ==
  \A i \in Items \ stale : ~shared[i] => remaining[i] + Assigned(i) >= total[i]

Balanced(i) == ~shared[i] /\ remaining[i] + Assigned(i) = total[i]

(***************************************************************************)
(* An item whose units are all accounted for stays so through every        *)
(* assignment, return, reassignment and deactivation, whatever runs at the *)
(* same time: only an update that shares it, or lowers its total below     *)
(* what is assigned, or a write from outdated reads ends that.             *)
(***************************************************************************)
OnlyUpdatesUnbalance ==
  [][\A i \in Items :
       Balanced(i) => \/ Balanced(i)'
                      \/ shared'[i] \/ total'[i] < Assigned(i)
                      \/ i \in stale']_vars

(***************************************************************************)
(* However requests interleave, of every item that no write from outdated  *)
(* reads has hit each transaction lends, returns or passes on units, or    *)
(* revises the item: Equipment implements Inventory.                       *)
(***************************************************************************)
Stock ==
  INSTANCE Inventory WITH pool <- remaining,
                          out <- [i \in Items |-> Assigned(i)],
                          astray <- stale

ImplementsInventory == Stock!Spec
=============================================================================
