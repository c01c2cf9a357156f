--------------------------- MODULE EquipmentProofs ---------------------------
(***************************************************************************)
(* Proofs about Equipment: the types, which include the CHECK constraints  *)
(* of the schema; that no unit is lost; that what is balanced stays so     *)
(* except for updates and for writes from outdated reads; and that         *)
(* Equipment implements Inventory.                                         *)
(*                                                                         *)
(* All but the first say something of the units in all the rows of an      *)
(* item.  What each step does to that sum is proved once, with the facts   *)
(* of SumTheorems: a step moves units between the pool and the rows, or    *)
(* sets the total anew, or the item is stale.                              *)
(***************************************************************************)
EXTENDS Equipment, SumTheorems

-----------------------------------------------------------------------------
(* The inductive invariant. *)

\* Assignment ids are serial numbers.
RowsInv ==
  /\ IsFiniteSet(rows)
  /\ \A r \in rows : r.id < nextRow
  /\ \A r \in rows, q \in rows : r.id = q.id => r = q

\* A row that was read, or its successor under the same id, is of the item it
\* was read for.
ReadRow(j) ==
  /\ j.item \in Items /\ j.row < nextRow /\ j.rowQty > 0
  /\ \A r \in rows : r.id = j.row => r.item = j.item

\* The rows that were read for the items to return, at most one for each.
ReadRows(j) ==
  /\ \A r \in j.held : /\ r.item \in j.items /\ r.id < nextRow
                       /\ \A q \in rows : q.id = r.id => q.item = r.item
  /\ \A r \in j.held, q \in j.held : r.item = q.item => r = q

JobInv(j) ==
  /\ j.op = "UPDATE" => j.item \in Items /\ j.total > 0 /\ j.remaining <= j.total
                        /\ j.category \in Categories
  /\ j.op = "ASSIGN" => j.item \in Items /\ j.emp \in Employees /\ j.qty > 0
  /\ j.op \in {"REMOVE", "DEACTIVATE"} => ReadRows(j)
  /\ j.op = "MOVE" => ReadRow(j) /\ j.qty > 0 /\ (j.to # NoEmployee => j.qty <= j.rowQty)

\* A shared item has all its units in the pool, whoever has it.
PoolInv ==
  \A i \in Items \ stale :
    IF shared[i] THEN remaining[i] = total[i]
    ELSE remaining[i] + Assigned(i) >= total[i]

FormInv == TypeOK /\ RowsInv /\ \A w \in Workers : JobInv(job[w])
EquipmentInv == FormInv /\ PoolInv

-----------------------------------------------------------------------------
(* The units in the rows of an item. *)

\* Only the rows of the item count.
LEMMA UnitsOfSameRows ==
  ASSUME NEW R, IsFiniteSet(R), NEW Q, NEW i,
         {r \in R : r.item = i} = {r \in Q : r.item = i}
  PROVE  Units(R, i) = Units(Q, i)
<1> DEFINE S == {r \in R : r.item = i}
           f == [r \in R |-> r.qty]
           g == [r \in Q |-> r.qty]
<1>1. IsFiniteSet(S)
  BY FS_Subset
<1>2. \A r \in S : f[r] = g[r]
  OBVIOUS
<1>3. SumFunctionOnSet(f, S) = SumFunctionOnSet(g, S)
  <2> HIDE DEF S, f, g
  <2> QED BY <1>1, <1>2, SumOfEqual
<1> QED BY <1>3, Zenon DEF Units

LEMMA UnitsAreNat ==
  ASSUME NEW R, R \subseteq Row, IsFiniteSet(R), NEW i
  PROVE  Units(R, i) \in Nat
<1> DEFINE S == {r \in R : r.item = i}
           f == [r \in R |-> r.qty]
<1>1. IsFiniteSet(S)
  BY FS_Subset
<1>2. \A r \in S : f[r] \in Nat
  BY DEF Row
<1>3. SumFunctionOnSet(f, S) \in Nat
  <2> HIDE DEF S, f
  <2> QED BY <1>1, <1>2, SumIsNat
<1> QED BY <1>3 DEF Units

\* One row more.
LEMMA UnitsWithRow ==
  ASSUME NEW R, R \subseteq Row, IsFiniteSet(R), NEW x \in Row, x \notin R, NEW i
  PROVE  /\ R \cup {x} \subseteq Row /\ IsFiniteSet(R \cup {x})
         /\ Units(R \cup {x}, i) = Units(R, i) + IF x.item = i THEN x.qty ELSE 0
<1>1. R \cup {x} \subseteq Row /\ IsFiniteSet(R \cup {x})
  BY FS_AddElement
<1>2. CASE x.item # i
  <2>1. {r \in R : r.item = i} = {r \in R \cup {x} : r.item = i}
    BY <1>2
  <2>2. Units(R, i) = Units(R \cup {x}, i)
    BY <2>1, UnitsOfSameRows
  <2>3. Units(R, i) \in Int
    BY UnitsAreNat
  <2> QED BY <1>1, <1>2, <2>2, <2>3
<1>3. CASE x.item = i
  <2> DEFINE S == {r \in R : r.item = i}
             T == {r \in R \cup {x} : r.item = i}
             f == [r \in R |-> r.qty]
             g == [r \in R \cup {x} |-> r.qty]
  <2>1. /\ IsFiniteSet(S) /\ x \notin S /\ T = S \cup {x}
        /\ g[x] = x.qty /\ x.qty \in Int
        /\ \A r \in S : f[r] = g[r] /\ g[r] \in Int
    BY <1>3, FS_Subset DEF Row
  <2>2. Units(R, i) = SumFunctionOnSet(f, S) /\ Units(R \cup {x}, i) = SumFunctionOnSet(g, T)
    BY Zenon DEF Units
  <2> HIDE DEF S, T, f, g
  <2>3. SumFunctionOnSet(f, S) = SumFunctionOnSet(g, S)
    BY <2>1, SumOfEqual
  <2>4. SumFunctionOnSet(g, S \cup {x}) = SumFunctionOnSet(g, S) + g[x]
    BY <2>1, SumWith
  <2> QED BY <1>1, <1>3, <2>1, <2>2, <2>3, <2>4
<1> QED BY <1>2, <1>3

\* One row less.
LEMMA UnitsWithoutRow ==
  ASSUME NEW R, R \subseteq Row, IsFiniteSet(R), NEW x \in R, NEW i
  PROVE  /\ R \ {x} \subseteq Row /\ IsFiniteSet(R \ {x})
         /\ Units(R \ {x}, i) = Units(R, i) - IF x.item = i THEN x.qty ELSE 0
<1>1. R \ {x} \subseteq Row /\ IsFiniteSet(R \ {x}) /\ x \in Row /\ x \notin R \ {x}
      /\ (R \ {x}) \cup {x} = R
  BY FS_RemoveElement
<1>2. Units((R \ {x}) \cup {x}, i) = Units(R \ {x}, i) + IF x.item = i THEN x.qty ELSE 0
  BY <1>1, UnitsWithRow
<1>3. Units(R \ {x}, i) \in Int /\ x.qty \in Int
  BY <1>1, UnitsAreNat DEF Row
<1>4. Units(R, i) = Units(R \ {x}, i) + IF x.item = i THEN x.qty ELSE 0
  BY <1>1, <1>2, Zenon
<1> QED BY <1>1, <1>3, <1>4

\* One row changed.
LEMMA UnitsWithChangedRow ==
  ASSUME NEW R, R \subseteq Row, IsFiniteSet(R), NEW x \in R,
         NEW y \in Row, y.item = x.item, y \notin R \ {x}, NEW i
  PROVE  /\ (R \ {x}) \cup {y} \subseteq Row /\ IsFiniteSet((R \ {x}) \cup {y})
         /\ Units((R \ {x}) \cup {y}, i)
              = Units(R, i) + IF x.item = i THEN y.qty - x.qty ELSE 0
<1>1. /\ R \ {x} \subseteq Row /\ IsFiniteSet(R \ {x})
      /\ Units(R \ {x}, i) = Units(R, i) - IF x.item = i THEN x.qty ELSE 0
  BY UnitsWithoutRow
<1>2. /\ (R \ {x}) \cup {y} \subseteq Row /\ IsFiniteSet((R \ {x}) \cup {y})
      /\ Units((R \ {x}) \cup {y}, i) = Units(R \ {x}, i) + IF y.item = i THEN y.qty ELSE 0
  BY <1>1, UnitsWithRow
<1>3. Units(R, i) \in Int /\ x.qty \in Int /\ y.qty \in Int
  BY UnitsAreNat DEF Row
<1> QED BY <1>1, <1>2, <1>3

\* ORDER BY assigned_at DESC LIMIT 1 finds a row.
LEMMA LatestIsHeld ==
  ASSUME NEW held, held \subseteq Row, held # {}, \A r \in held : r.id < nextRow, nextRow \in Nat
  PROVE  Latest(held) \in held
<1> DEFINE ages == {nextRow - r.id : r \in held}
<1>1. ages \subseteq Nat /\ ages # {}
  BY DEF Row
<1>2. PICK n \in ages : \A m \in ages : n <= m
  <2> HIDE DEF ages
  <2> QED BY <1>1, LeastNumber
<1>3. PICK r \in held : n = nextRow - r.id
  OBVIOUS
<1>4. \A q \in held : q.id <= r.id
  <2> SUFFICES ASSUME NEW q \in held PROVE q.id <= r.id
    OBVIOUS
  <2>1. n <= nextRow - q.id
    BY <1>2
  <2>2. q.id \in Nat /\ r.id \in Nat
    BY DEF Row
  <2> QED BY <1>3, <2>1, <2>2
<1> QED BY <1>4 DEF Latest

-----------------------------------------------------------------------------
(* What a step does to the units of an item. *)

\* Units move between the pool and the rows; a shared item counts none.
Carried(i) ==
  /\ total'[i] = total[i] /\ shared'[i] = shared[i]
  /\ IF shared[i] THEN remaining'[i] = remaining[i]
     ELSE remaining'[i] + Assigned(i)' = remaining[i] + Assigned(i)

\* The item has a new total: it is updated, created or deleted.
Reset(i) ==
  Assigned(i)' = Assigned(i) /\ remaining'[i] = NewRemaining(i, total'[i], shared'[i])

Accounted ==
  stale \subseteq stale' /\ \A i \in Items : i \in stale' \/ Carried(i) \/ Reset(i)

LEMMA AssignedIsNat ==
  /\ FormInv => \A i \in Items : Assigned(i) \in Nat
  /\ FormInv' => \A i \in Items : Assigned(i)' \in Nat
BY UnitsAreNat DEF FormInv, TypeOK, RowsInv, Assigned

LEMMA NewRemainingFits ==
  ASSUME TypeOK, NEW i \in Items, NEW t \in Nat, NEW s \in BOOLEAN
  PROVE  NewRemaining(i, t, s) \in 0 .. t
<1>1. total[i] \in Nat /\ remaining[i] \in Nat /\ remaining[i] <= total[i]
  BY DEF TypeOK
<1> QED BY <1>1 DEF NewRemaining

LEMMA PoolOfTypes ==
  ASSUME TypeOK, NEW i \in Items
  PROVE  /\ total[i] \in Nat /\ remaining[i] \in Nat /\ remaining[i] <= total[i]
         /\ shared[i] \in BOOLEAN
BY DEF TypeOK

LEMMA AccountedKeepsPool == FormInv /\ FormInv' /\ PoolInv /\ Accounted => PoolInv'
<1> SUFFICES ASSUME FormInv, FormInv', PoolInv, Accounted, NEW i \in Items, i \notin stale'
             PROVE  IF shared'[i] THEN remaining'[i] = total'[i]
                    ELSE remaining'[i] + Assigned(i)' >= total'[i]
  BY DEF PoolInv
<1>1. /\ total[i] \in Nat /\ remaining[i] \in Nat /\ shared[i] \in BOOLEAN
      /\ total'[i] \in Nat /\ remaining'[i] \in Nat /\ shared'[i] \in BOOLEAN
  BY DEF FormInv, TypeOK
<1>2. Assigned(i) \in Nat /\ Assigned(i)' \in Nat
  BY AssignedIsNat
<1>3. IF shared[i] THEN remaining[i] = total[i]
      ELSE remaining[i] + Assigned(i) >= total[i]
  BY DEF PoolInv, Accounted
<1>4. CASE Carried(i)
  BY <1>1, <1>2, <1>3, <1>4 DEF Carried
<1>5. CASE Reset(i)
  BY <1>1, <1>2, <1>3, <1>5 DEF Reset, NewRemaining
<1> QED BY <1>4, <1>5 DEF Accounted

\* A balanced item stays balanced, or is set anew.
LEMMA AccountedKeepsBalance ==
  ASSUME FormInv, FormInv', Accounted, NEW i \in Items, Balanced(i)
  PROVE  Balanced(i)' \/ shared'[i] \/ total'[i] < Assigned(i) \/ i \in stale'
<1>1. /\ total[i] \in Nat /\ remaining[i] \in Nat /\ shared[i] \in BOOLEAN
      /\ total'[i] \in Nat /\ remaining'[i] \in Nat /\ shared'[i] \in BOOLEAN
  BY DEF FormInv, TypeOK
<1>2. Assigned(i) \in Nat /\ Assigned(i)' \in Nat
  BY AssignedIsNat
<1>3. CASE Carried(i)
  BY <1>1, <1>2, <1>3 DEF Carried, Balanced
<1>4. CASE Reset(i)
  BY <1>1, <1>2, <1>4 DEF Reset, NewRemaining, Balanced
<1> QED BY <1>3, <1>4 DEF Accounted

-----------------------------------------------------------------------------
(* The rows after a write. *)

\* Rows that are there already, changed in nothing but the holder and quantity.
Descend(R) ==
  /\ R \subseteq Row /\ IsFiniteSet(R)
  /\ \A r \in R, q \in R : r.id = q.id => r = q
  /\ \A r \in R : r.id < nextRow /\ \E q \in rows : q.id = r.id /\ q.item = r.item

\* What is written to the rows respects the serial numbers.
RowsGoOn ==
  /\ rows' \subseteq Row /\ RowsInv'
  /\ nextRow <= nextRow' /\ nextRow' \in 1 .. MaxRows + 1
  /\ \A r \in rows' : r.id < nextRow => \E q \in rows : q.id = r.id /\ q.item = r.item

LEMMA RowsDescend == FormInv => Descend(rows)
BY DEF FormInv, TypeOK, RowsInv, Descend

LEMMA FewerRowsDescend ==
  ASSUME FormInv, NEW R, R \subseteq rows
  PROVE  Descend(R)
<1>1. IsFiniteSet(R)
  BY FS_Subset DEF FormInv, RowsInv
<1> QED BY <1>1, RowsDescend DEF Descend

LEMMA ChangedRowsDescend ==
  ASSUME NEW R, Descend(R), NEW x \in R, NEW y \in Row, y.id = x.id, y.item = x.item
  PROVE  /\ Descend((R \ {x}) \cup {y})
         /\ \A i : Units((R \ {x}) \cup {y}, i)
                     = Units(R, i) + IF x.item = i THEN y.qty - x.qty ELSE 0
<1>1. R \subseteq Row /\ IsFiniteSet(R)
  BY DEF Descend
<1>2. y \notin R \ {x}
  BY DEF Descend
<1>3. /\ (R \ {x}) \cup {y} \subseteq Row /\ IsFiniteSet((R \ {x}) \cup {y})
      /\ \A i : Units((R \ {x}) \cup {y}, i)
                  = Units(R, i) + IF x.item = i THEN y.qty - x.qty ELSE 0
  BY <1>1, <1>2, UnitsWithChangedRow
<1> QED BY <1>3 DEF Descend

LEMMA DescendantsGoOn ==
  ASSUME FormInv, rows' = rows \/ Descend(rows'), nextRow' = nextRow
  PROVE  RowsGoOn
<1>1. Descend(rows')
  BY RowsDescend
<1> QED BY <1>1 DEF FormInv, TypeOK, Descend, RowsGoOn, RowsInv

LEMMA InsertedRow ==
  ASSUME FormInv, NEW R, Descend(R), NEW i \in Items, NEW e \in Employees,
         NEW q \in Nat \ {0}, Insert(R, i, e, q)
  PROVE  /\ RowsGoOn
         /\ \A k : Units(rows', k) = Units(R, k) + IF i = k THEN q ELSE 0
<1> DEFINE x == [id |-> nextRow, item |-> i, emp |-> e, qty |-> q]
<1>1. nextRow \in Nat /\ nextRow >= 1 /\ nextRow <= MaxRows /\ MaxRows \in Nat
  BY EquipmentAssumption DEF FormInv, TypeOK, Insert
<1>2. x \in Row /\ x.item = i /\ x.qty = q /\ x.id = nextRow
  BY <1>1 DEF Row
<1>3. rows' = R \cup {x} /\ nextRow' = nextRow + 1
  BY DEF Insert
<1> HIDE DEF x
<1>4. R \subseteq Row /\ IsFiniteSet(R) /\ \A r \in R : r.id < nextRow
  BY DEF Descend
<1>5. x \notin R
  BY <1>1, <1>2, <1>4
<1>6. /\ R \cup {x} \subseteq Row /\ IsFiniteSet(R \cup {x})
      /\ \A k : Units(R \cup {x}, k) = Units(R, k) + IF x.item = k THEN x.qty ELSE 0
  BY <1>2, <1>4, <1>5, UnitsWithRow
<1>7. RowsInv'
  <2>1. \A r \in rows' : r.id \in Nat /\ r.id < nextRow'
    BY <1>1, <1>2, <1>3, <1>4 DEF Row
  <2>2. \A r \in rows', s \in rows' : r.id = s.id => r = s
    BY <1>1, <1>2, <1>3, <1>4 DEF Descend, Row
  <2> QED BY <1>3, <1>6, <2>1, <2>2 DEF RowsInv
<1>8. \A r \in rows' : r.id < nextRow => \E s \in rows : s.id = r.id /\ s.item = r.item
  BY <1>1, <1>2, <1>3 DEF Descend
<1>9. \A k : Units(rows', k) = Units(R, k) + IF i = k THEN q ELSE 0
  BY <1>2, <1>3, <1>6, Zenon
<1>10. rows' \subseteq Row /\ nextRow <= nextRow' /\ nextRow' \in 1 .. MaxRows + 1
  BY <1>1, <1>3, <1>6
<1> QED BY <1>7, <1>8, <1>9, <1>10 DEF RowsGoOn

-----------------------------------------------------------------------------
(* The requests after a write. *)

LEMMA IdleIsFine == Idle \in Job /\ JobInv(Idle) /\ JobInv(Idle)'
BY DEF Idle, Job, JobInv

LEMMA JobGoesOn ==
  ASSUME FormInv, RowsGoOn, NEW j \in Job, JobInv(j)
  PROVE  JobInv(j)'
<1>1. nextRow \in Nat /\ nextRow' \in Nat /\ nextRow <= nextRow' /\ j.row \in Nat
  BY DEF FormInv, TypeOK, RowsGoOn, Job
<1>2. ReadRow(j) => ReadRow(j)'
  BY <1>1 DEF ReadRow, RowsGoOn
<1>3. ASSUME ReadRows(j) PROVE ReadRows(j)'
  <2>1. ASSUME NEW r \in j.held
        PROVE  /\ r.item \in j.items /\ r.id < nextRow'
               /\ \A q \in rows' : q.id = r.id => q.item = r.item
    <3>1. r.id \in Nat /\ r.id < nextRow /\ r.item \in j.items
      BY <1>3 DEF Job, Row, ReadRows
    <3>2. ASSUME NEW q \in rows', q.id = r.id PROVE q.item = r.item
      BY <1>3, <3>1, <3>2 DEF ReadRows, RowsGoOn
    <3> QED BY <1>1, <3>1, <3>2
  <2> QED BY <1>3, <2>1 DEF ReadRows
<1> QED BY <1>2, <1>3 DEF JobInv

\* The tables but for the rows.
TablesOK ==
  /\ total \in [Items -> Nat] /\ remaining \in [Items -> Nat]
  /\ \A i \in Items : remaining[i] \in 0 .. total[i]
  /\ shared \in [Items -> BOOLEAN]
  /\ category \in [Items -> Categories \cup {NoCategory}]
  /\ \A i \in Items : category[i] \in IF Exists(i) THEN categories ELSE {NoCategory}
  /\ categories \subseteq Categories
  /\ active \subseteq Employees
  /\ lock \in [Items -> Workers \cup {NoWorker}]
  /\ deleted \subseteq Items
  /\ stale \subseteq Items

LEMMA TablesAreOK == TypeOK => TablesOK
BY DEF TypeOK, TablesOK

LEMMA StepKeepsForm ==
  ASSUME FormInv, TablesOK', RowsGoOn,
         \/ job' = job
         \/ \E w \in Workers, j \in Job : JobInv(j)' /\ job' = [job EXCEPT ![w] = j]
  PROVE  FormInv'
<1>1. job \in [Workers -> Job] /\ \A v \in Workers : JobInv(job[v])
  BY DEF FormInv, TypeOK
<1>2. \A j \in Job : JobInv(j) => JobInv(j)'
  BY JobGoesOn
<1>3. \A v \in Workers : job'[v] = job[v] \/ (job'[v] \in Job /\ JobInv(job[v])')
  BY <1>1
<1>4. job' \in [Workers -> Job] /\ \A v \in Workers : JobInv(job[v])'
  BY <1>1, <1>2, <1>3
<1>5. TypeOK'
  BY <1>4 DEF TypeOK, TablesOK, RowsGoOn
<1> QED BY <1>4, <1>5 DEF FormInv, RowsGoOn

-----------------------------------------------------------------------------
(* The requests that write nothing yet. *)

StepOK == FormInv' /\ Accounted

LEMMA RowsStayPut ==
  ASSUME FormInv, rows' = rows, nextRow' = nextRow
  PROVE  RowsGoOn /\ \A i : Assigned(i)' = Assigned(i)
BY DescendantsGoOn DEF Assigned

LEMMA NothingCounted ==
  ASSUME FormInv, UNCHANGED <<total, remaining, shared, rows>>, stale \subseteq stale'
  PROVE  Accounted
<1>1. \A i : Assigned(i)' = Assigned(i)
  BY DEF Assigned
<1> QED BY <1>1 DEF Accounted, Carried

LEMMA StartKeeps ==
  ASSUME FormInv, NEW w \in Workers, NEW j \in Job, JobInv(j), Take(w, j),
         UNCHANGED <<itemVars, rows, nextRow, active, stale>>,
         lock' \in [Items -> Workers \cup {NoWorker}]
  PROVE  StepOK
<1>1. RowsGoOn
  BY RowsStayPut
<1>2. TablesOK'
  BY TablesAreOK DEF FormInv, TablesOK, itemVars, Exists
<1>3. JobInv(j)' /\ job' = [job EXCEPT ![w] = j]
  BY <1>1, JobGoesOn DEF Take
<1>4. FormInv'
  BY <1>1, <1>2, <1>3, StepKeepsForm
<1>5. Accounted
  BY NothingCounted DEF itemVars
<1> QED BY <1>4, <1>5 DEF StepOK

LEMMA LocksAreTyped == FormInv => lock \in [Items -> Workers \cup {NoWorker}]
BY DEF FormInv, TypeOK

LEMMA StartUpdateKeeps ==
  ASSUME FormInv, NEW w \in Workers, StartUpdate(w)
  PROVE  StepOK
<1>1. PICK i \in Items, t \in Totals, s \in Sharing, c \in Categories :
        /\ Take(w, [Idle EXCEPT !.op = "UPDATE", !.item = i, !.total = t, !.shared = s,
                                !.category = c, !.remaining = NewRemaining(i, t, s)])
        /\ UNCHANGED <<itemVars, rows, nextRow, active, lock, stale>>
  BY DEF StartUpdate
<1>2. t \in Nat /\ t > 0 /\ s \in BOOLEAN /\ NewRemaining(i, t, s) \in 0 .. t
  BY EquipmentAssumption, NewRemainingFits DEF FormInv
<1> DEFINE n == NewRemaining(i, t, s)
           j == [Idle EXCEPT !.op = "UPDATE", !.item = i, !.total = t, !.shared = s,
                             !.category = c, !.remaining = n]
<1>3. j \in Job /\ JobInv(j)
  <2>1. n \in Nat /\ n <= t
    BY <1>2
  <2> HIDE DEF n
  <2> QED BY <1>2, <2>1 DEF Idle, Job, JobInv
<1>4. Take(w, j)
  BY <1>1
<1> HIDE DEF j
<1> QED BY <1>1, <1>3, <1>4, StartKeeps, LocksAreTyped

LEMMA StartAssignKeeps ==
  ASSUME FormInv, NEW w \in Workers, StartAssign(w)
  PROVE  StepOK
<1>1. PICK i \in Items, e \in Employees, q \in Quantities :
        /\ lock' = [lock EXCEPT ![i] = w]
        /\ Take(w, [Idle EXCEPT !.op = "ASSIGN", !.item = i, !.emp = e, !.qty = q])
        /\ UNCHANGED <<itemVars, rows, nextRow, active, stale>>
  BY DEF StartAssign, LockedWithStock
<1> DEFINE j == [Idle EXCEPT !.op = "ASSIGN", !.item = i, !.emp = e, !.qty = q]
<1>2. q \in Nat /\ q > 0
  BY EquipmentAssumption
<1>3. j \in Job /\ JobInv(j)
  BY <1>2 DEF Idle, Job, JobInv
<1> HIDE DEF j
<1>4. Take(w, j)
  BY <1>1 DEF j
<1>5. lock' \in [Items -> Workers \cup {NoWorker}]
  BY <1>1, LocksAreTyped
<1> QED BY <1>1, <1>3, <1>4, <1>5, StartKeeps

\* The row found for an employee and an item.
LEMMA LatestIsRead ==
  ASSUME FormInv, NEW i \in Items, NEW e, Held(i, e) # {}
  PROVE  LET r == Latest(Held(i, e))
         IN  /\ r \in rows /\ r \in Row /\ r.item = i /\ r.emp = e
             /\ r.id \in Nat /\ r.id < nextRow /\ r.qty \in Nat /\ r.qty > 0
             /\ \A q \in rows : q.id = r.id => q.item = i
<1>1. Held(i, e) \subseteq Row /\ (\A r \in Held(i, e) : r.id < nextRow) /\ nextRow \in Nat
  BY DEF FormInv, TypeOK, RowsInv, Held
<1>2. Latest(Held(i, e)) \in Held(i, e)
  BY <1>1, LatestIsHeld
<1> DEFINE r == Latest(Held(i, e))
<1> HIDE DEF r
<1>3. r \in rows /\ r \in Row /\ r.item = i /\ r.emp = e /\ r.id < nextRow
  BY <1>1, <1>2 DEF Held, r
<1>4. r.id \in Nat /\ r.qty \in Nat /\ r.qty > 0
  BY <1>3 DEF Row
<1>5. \A q \in rows : q.id = r.id => q.item = i
  BY <1>3 DEF FormInv, RowsInv
<1> QED BY <1>3, <1>4, <1>5 DEF r

LEMMA StartRemoveKeeps ==
  ASSUME FormInv, NEW w \in Workers, StartRemove(w)
  PROVE  StepOK
<1>1. PICK i \in Items, e \in Employees :
        /\ Held(i, e) # {}
        /\ Take(w, [Idle EXCEPT !.op = "REMOVE", !.emp = e, !.items = {i},
                                !.held = {Latest(Held(i, e))}, !.sharing = SharedItems])
        /\ UNCHANGED <<itemVars, rows, nextRow, active, lock, stale>>
  BY DEF StartRemove
<1> DEFINE r == Latest(Held(i, e))
           j == [Idle EXCEPT !.op = "REMOVE", !.emp = e, !.items = {i},
                             !.held = {r}, !.sharing = SharedItems]
<1>2. /\ r \in Row /\ r.item = i /\ r.id < nextRow
      /\ \A q \in rows : q.id = r.id => q.item = i
  BY <1>1, LatestIsRead
<1>3. j \in Job /\ JobInv(j)
  <2> HIDE DEF r
  <2>1. SharedItems \subseteq Items
    BY DEF SharedItems
  <2> QED BY <1>2, <2>1 DEF Idle, Job, JobInv, ReadRows
<1>4. Take(w, j)
  BY <1>1
<1> HIDE DEF j
<1> QED BY <1>1, <1>3, <1>4, StartKeeps, LocksAreTyped

LEMMA StartMoveKeeps ==
  ASSUME FormInv, NEW w \in Workers, StartMove(w)
  PROVE  StepOK
<1>1. PICK i \in Items, e \in Employees, to \in Employees \cup {NoEmployee},
           q \in Quantities :
        /\ Held(i, e) # {}
        /\ LET r == Latest(Held(i, e)) IN
           /\ Movable(r, to, q)
           /\ Take(w, [Idle EXCEPT !.op = "MOVE", !.item = i, !.emp = e, !.to = to,
                                   !.qty = q, !.row = r.id, !.rowQty = r.qty])
        /\ UNCHANGED <<itemVars, rows, nextRow, active, lock, stale>>
  BY DEF StartMove
<1> DEFINE r == Latest(Held(i, e))
           j == [Idle EXCEPT !.op = "MOVE", !.item = i, !.emp = e, !.to = to,
                             !.qty = q, !.row = r.id, !.rowQty = r.qty]
<1>2. /\ r.id \in Nat /\ r.id < nextRow /\ r.qty \in Nat /\ r.qty > 0
      /\ \A s \in rows : s.id = r.id => s.item = i
  BY <1>1, LatestIsRead
<1>3. q \in Nat /\ q > 0 /\ Movable(r, to, q)
  BY <1>1, EquipmentAssumption
<1>4. j \in Job /\ JobInv(j)
  <2> HIDE DEF r
  <2> QED BY <1>2, <1>3 DEF Idle, Job, JobInv, ReadRow, Movable
<1>5. Take(w, j)
  BY <1>1
<1> HIDE DEF j
<1> QED BY <1>1, <1>4, <1>5, StartKeeps, LocksAreTyped

LEMMA StartDeactivateKeeps ==
  ASSUME FormInv, NEW w \in Workers, StartDeactivate(w)
  PROVE  StepOK
<1>1. PICK e \in active :
        /\ Take(w, [Idle EXCEPT !.op = "DEACTIVATE", !.emp = e,
                                !.items = {i \in Items : Held(i, e) # {}}])
        /\ UNCHANGED <<itemVars, rows, nextRow, active, lock, stale>>
  BY DEF StartDeactivate
<1> DEFINE j == [Idle EXCEPT !.op = "DEACTIVATE", !.emp = e,
                             !.items = {i \in Items : Held(i, e) # {}}]
<1>2. e \in Employees
  BY DEF FormInv, TypeOK
<1>3. j \in Job /\ JobInv(j)
  BY <1>2 DEF Idle, Job, JobInv, ReadRows
<1>4. Take(w, j)
  BY <1>1
<1> HIDE DEF j
<1> QED BY <1>1, <1>3, <1>4, StartKeeps, LocksAreTyped

LEMMA ReadHeldKeeps ==
  ASSUME FormInv, NEW w \in Workers, ReadHeld(w)
  PROVE  StepOK
<1>1. PICK j \in Job : j = job[w] /\ JobInv(j)
  BY DEF FormInv, TypeOK
<1>2. PICK i \in j.items \ {r.item : r \in j.held} :
        /\ Held(i, j.emp) # {}
        /\ job' = [job EXCEPT ![w].held = @ \cup {Latest(Held(i, j.emp))},
                              ![w].sharing = @ \cup ({i} \cap SharedItems)]
  BY <1>1 DEF ReadHeld
<1>3. /\ j.op = "DEACTIVATE" /\ ReadRows(j)
      /\ UNCHANGED <<itemVars, rows, nextRow, active, lock, stale>>
  BY <1>1 DEF ReadHeld, JobInv
<1> DEFINE x == Latest(Held(i, j.emp))
           next == [j EXCEPT !.held = @ \cup {x}, !.sharing = @ \cup ({i} \cap SharedItems)]
<1>4. i \in Items /\ i \in j.items /\ \A r \in j.held : r.item # i
  BY <1>2 DEF Job
<1>5. /\ x \in Row /\ x.item = i /\ x.id < nextRow
      /\ \A q \in rows : q.id = x.id => q.item = i
  BY <1>2, <1>4, LatestIsRead
<1>6. job \in [Workers -> Job]
  BY DEF FormInv, TypeOK
<1>7. job' = [job EXCEPT ![w] = next]
  BY <1>1, <1>2, <1>6
<1> HIDE DEF x
<1>8. next \in Job /\ next.op = "DEACTIVATE" /\ next.items = j.items /\ next.held = j.held \cup {x}
  BY <1>3, <1>4, <1>5 DEF Job, SharedItems
<1> HIDE DEF next
<1> PICK k \in Job : k = next
  BY <1>8
<1>9. JobInv(k)
  <2>1. ReadRows(k)
    BY <1>3, <1>4, <1>5, <1>8 DEF ReadRows
  <2> QED BY <1>8, <2>1 DEF JobInv
<1>10. RowsGoOn
  BY <1>3, RowsStayPut
<1>11. TablesOK'
  BY <1>3, TablesAreOK DEF FormInv, TablesOK, itemVars, Exists
<1>12. JobInv(k)'
  BY <1>8, <1>9, <1>10, JobGoesOn
<1>13. FormInv'
  BY <1>7, <1>8, <1>10, <1>11, <1>12, StepKeepsForm
<1>14. Accounted
  BY <1>3, NothingCounted DEF itemVars
<1> QED BY <1>13, <1>14 DEF StepOK

-----------------------------------------------------------------------------
(* The end of a request. *)

LEMMA FinishKeepsJobs ==
  ASSUME FormInv, NEW w \in Workers, Finish(w)
  PROVE  /\ \E v \in Workers, j \in Job : JobInv(j)' /\ job' = [job EXCEPT ![v] = j]
         /\ lock' \in [Items -> Workers \cup {NoWorker}]
<1>1. lock' \in [Items -> Workers \cup {NoWorker}]
  BY LocksAreTyped DEF Finish
<1>2. job' = [job EXCEPT ![w] = Idle]
  BY DEF Finish
<1> QED BY <1>1, <1>2, IdleIsFine

LEMMA WorkersHaveJobs ==
  ASSUME FormInv, NEW w \in Workers
  PROVE  job[w] \in Job /\ JobInv(job[w])
BY DEF FormInv, TypeOK

LEMMA AbortKeeps ==
  ASSUME FormInv, NEW w \in Workers, Abort(w)
  PROVE  StepOK
<1>1. /\ Finish(w) /\ UNCHANGED <<itemVars, rows, nextRow, active, stale>>
  BY DEF Abort
<1>2. RowsGoOn
  BY <1>1, RowsStayPut
<1>3. TablesOK'
  BY <1>1, TablesAreOK, FinishKeepsJobs DEF FormInv, TablesOK, itemVars, Exists
<1>4. FormInv'
  BY <1>1, <1>2, <1>3, FinishKeepsJobs, StepKeepsForm
<1>5. Accounted
  BY <1>1, NothingCounted DEF itemVars
<1> QED BY <1>4, <1>5 DEF StepOK

LEMMA CommitUpdateKeeps ==
  ASSUME FormInv, NEW w \in Workers, CommitUpdate(w)
  PROVE  StepOK
<1> DEFINE j == job[w]
<1>1. /\ j \in Job /\ j.op = "UPDATE" /\ j.category \in categories
      /\ category' = [category EXCEPT ![j.item] = j.category]
      /\ total' = [total EXCEPT ![j.item] = j.total]
      /\ remaining' = [remaining EXCEPT ![j.item] = j.remaining]
      /\ shared' = [shared EXCEPT ![j.item] = j.shared]
      /\ Mark({i \in {j.item} : j.remaining # NewRemaining(i, j.total, j.shared)})
      /\ Finish(w)
      /\ UNCHANGED <<categories, deleted, rows, nextRow, active>>
      /\ JobInv(j)
  BY WorkersHaveJobs DEF CommitUpdate
<1> HIDE DEF j
<1>2. /\ j.item \in Items /\ j.total \in Nat /\ j.total > 0 /\ j.remaining \in Nat
      /\ j.remaining <= j.total /\ j.shared \in BOOLEAN
  BY <1>1 DEF JobInv, Job
<1>3. RowsGoOn
  BY <1>1, RowsStayPut
<1>4. lock' \in [Items -> Workers \cup {NoWorker}]
      /\ \E v \in Workers, k \in Job : JobInv(k)' /\ job' = [job EXCEPT ![v] = k]
  BY <1>1, FinishKeepsJobs
<1>5. TablesOK
  BY TablesAreOK DEF FormInv
<1>6. TablesOK'
  <2>1. /\ total' \in [Items -> Nat] /\ remaining' \in [Items -> Nat]
        /\ \A i \in Items : remaining'[i] \in 0 .. total'[i]
        /\ shared' \in [Items -> BOOLEAN]
    BY <1>1, <1>2, <1>5 DEF TablesOK
  <2>2. /\ category' \in [Items -> Categories \cup {NoCategory}]
        /\ \A i \in Items : category'[i] \in IF total'[i] > 0 THEN categories' ELSE {NoCategory}
    BY <1>1, <1>2, <1>5 DEF TablesOK, Exists
  <2>3. stale' \subseteq Items
    BY <1>1, <1>2, <1>5 DEF TablesOK, Mark
  <2> QED BY <1>1, <1>4, <1>5, <2>1, <2>2, <2>3 DEF TablesOK, Exists
<1>7. FormInv'
  BY <1>3, <1>4, <1>6, StepKeepsForm
<1>8. Accounted
  <2>1. stale \subseteq stale'
    BY <1>1 DEF Mark
  <2>2. \A i : Assigned(i)' = Assigned(i)
    BY <1>1, RowsStayPut
  <2>3. ASSUME NEW i \in Items, i # j.item PROVE Carried(i)
    BY <1>1, <1>5, <2>2, <2>3 DEF Carried, TablesOK
  <2>4. ASSUME NEW i \in Items, i = j.item PROVE i \in stale' \/ Reset(i)
    <3>1. total'[i] = j.total /\ shared'[i] = j.shared /\ remaining'[i] = j.remaining
      BY <1>1, <1>2, <1>5, <2>4 DEF TablesOK
    <3>2. CASE j.remaining = NewRemaining(i, j.total, j.shared)
      <4>1. Assigned(i)' = Assigned(i)
        BY <2>2
      <4>2. remaining'[i] = NewRemaining(i, total'[i], shared'[i])
        BY <3>1, <3>2
      <4> QED BY <4>1, <4>2 DEF Reset
    <3>3. CASE j.remaining # NewRemaining(i, j.total, j.shared)
      BY <1>1, <2>4, <3>3 DEF Mark
    <3> QED BY <3>2, <3>3
  <2> QED BY <2>1, <2>3, <2>4 DEF Accounted
<1> QED BY <1>7, <1>8 DEF StepOK

-----------------------------------------------------------------------------
(* Categories, items and employees. *)

LEMMA CategoryKeeps ==
  ASSUME FormInv, NEW c \in Categories, CreateCategory(c) \/ DeleteCategory(c)
  PROVE  StepOK
<1>1. UNCHANGED <<total, remaining, shared, category, deleted, rows, nextRow, active, lock, job, stale>>
  BY DEF CreateCategory, DeleteCategory
<1>2. RowsGoOn
  BY <1>1, RowsStayPut
<1>3. TablesOK
  BY TablesAreOK DEF FormInv
<1>4. categories' \subseteq Categories
      /\ \A i \in Items : category[i] \in IF Exists(i) THEN categories' ELSE {NoCategory}
  BY <1>3 DEF CreateCategory, DeleteCategory, TablesOK
<1>5. TablesOK'
  BY <1>1, <1>3, <1>4 DEF TablesOK, Exists
<1>6. FormInv'
  BY <1>1, <1>2, <1>5, StepKeepsForm
<1>7. Accounted
  BY <1>1, NothingCounted
<1> QED BY <1>6, <1>7 DEF StepOK

LEMMA CreateEquipmentKeeps ==
  ASSUME FormInv, NEW i \in Items, CreateEquipment(i)
  PROVE  StepOK
<1>1. PICK t \in Totals, s \in Sharing, c \in categories :
        /\ ~Exists(i) /\ i \notin deleted
        /\ category' = [category EXCEPT ![i] = c]
        /\ total' = [total EXCEPT ![i] = t]
        /\ remaining' = [remaining EXCEPT ![i] = t]
        /\ shared' = [shared EXCEPT ![i] = s]
        /\ UNCHANGED <<categories, rows, nextRow, active, lock, deleted, job, stale>>
  BY DEF CreateEquipment
<1>2. t \in Nat /\ t > 0 /\ s \in BOOLEAN
  BY EquipmentAssumption
<1>3. RowsGoOn
  BY <1>1, RowsStayPut
<1>4. TablesOK
  BY TablesAreOK DEF FormInv
<1>5. TablesOK'
  <2>1. /\ total' \in [Items -> Nat] /\ remaining' \in [Items -> Nat]
        /\ \A k \in Items : remaining'[k] \in 0 .. total'[k]
        /\ shared' \in [Items -> BOOLEAN]
    BY <1>1, <1>2, <1>4 DEF TablesOK
  <2>2. /\ category' \in [Items -> Categories \cup {NoCategory}]
        /\ \A k \in Items : category'[k] \in IF total'[k] > 0 THEN categories' ELSE {NoCategory}
    BY <1>1, <1>2, <1>4 DEF TablesOK, Exists
  <2> QED BY <1>1, <1>4, <2>1, <2>2 DEF TablesOK, Exists
<1>6. FormInv'
  BY <1>1, <1>3, <1>5, StepKeepsForm
<1>7. Accounted
  <2>1. \A k : Assigned(k)' = Assigned(k)
    BY <1>1, RowsStayPut
  <2>2. ASSUME NEW k \in Items, k # i PROVE Carried(k)
    BY <1>1, <1>4, <2>1, <2>2 DEF Carried, TablesOK
  <2>3. total[i] = 0 /\ remaining[i] = 0
    BY <1>1, <1>4 DEF TablesOK, Exists
  <2>4. Reset(i)
    BY <1>1, <1>2, <1>4, <2>1, <2>3 DEF Reset, NewRemaining, TablesOK
  <2> QED BY <1>1, <2>2, <2>4 DEF Accounted
<1> QED BY <1>6, <1>7 DEF StepOK

LEMMA DeleteEquipmentKeeps ==
  ASSUME FormInv, NEW i \in Items, DeleteEquipment(i)
  PROVE  StepOK
<1>1. /\ Exists(i) /\ \A r \in rows : r.item # i
      /\ category' = [category EXCEPT ![i] = NoCategory]
      /\ total' = [total EXCEPT ![i] = 0]
      /\ remaining' = [remaining EXCEPT ![i] = 0]
      /\ shared' = [shared EXCEPT ![i] = FALSE]
      /\ deleted' = deleted \cup {i}
      /\ UNCHANGED <<categories, rows, nextRow, active, lock, job, stale>>
  BY DEF DeleteEquipment, Deletable
<1>2. RowsGoOn
  BY <1>1, RowsStayPut
<1>3. TablesOK
  BY TablesAreOK DEF FormInv
<1>4. TablesOK'
  <2>1. /\ total' \in [Items -> Nat] /\ remaining' \in [Items -> Nat]
        /\ \A k \in Items : remaining'[k] \in 0 .. total'[k]
        /\ shared' \in [Items -> BOOLEAN] /\ deleted' \subseteq Items
    BY <1>1, <1>3 DEF TablesOK
  <2>2. /\ category' \in [Items -> Categories \cup {NoCategory}]
        /\ \A k \in Items : category'[k] \in IF total'[k] > 0 THEN categories' ELSE {NoCategory}
    BY <1>1, <1>3 DEF TablesOK, Exists
  <2> QED BY <1>1, <1>3, <2>1, <2>2 DEF TablesOK, Exists
<1>5. FormInv'
  BY <1>1, <1>2, <1>4, StepKeepsForm
<1>6. Accounted
  <2>1. \A k : Assigned(k)' = Assigned(k)
    BY <1>1, RowsStayPut
  <2>2. ASSUME NEW k \in Items, k # i PROVE Carried(k)
    BY <1>1, <1>3, <2>1, <2>2 DEF Carried, TablesOK
  <2>3. total[i] \in Nat /\ remaining[i] \in Nat /\ remaining[i] <= total[i]
    BY <1>3 DEF TablesOK
  <2>4. Reset(i)
    BY <1>1, <1>3, <2>1, <2>3 DEF Reset, NewRemaining, TablesOK
  <2> QED BY <1>1, <2>2, <2>4 DEF Accounted
<1> QED BY <1>5, <1>6 DEF StepOK

LEMMA ReactivateKeeps ==
  ASSUME FormInv, NEW e \in Employees, Reactivate(e)
  PROVE  StepOK
<1>1. active' = active \cup {e} /\ UNCHANGED <<itemVars, rows, nextRow, lock, job, stale>>
  BY DEF Reactivate
<1>2. RowsGoOn
  BY <1>1, RowsStayPut
<1>3. TablesOK'
  BY <1>1, TablesAreOK DEF FormInv, TablesOK, itemVars, Exists
<1>4. FormInv'
  BY <1>1, <1>2, <1>3, StepKeepsForm
<1>5. Accounted
  BY <1>1, NothingCounted DEF itemVars
<1> QED BY <1>4, <1>5 DEF StepOK

-----------------------------------------------------------------------------
(* The requests that write rows. *)

\* A write that leaves all but the pool of its own item, the rows and the
\* requests alone.
LEMMA RowsWritten ==
  ASSUME FormInv, NEW w \in Workers, Finish(w), RowsGoOn,
         UNCHANGED <<total, shared, category, categories, deleted>>,
         active' \subseteq Employees,
         remaining' \in [Items -> Nat], \A i \in Items : remaining'[i] \in 0 .. total[i],
         stale \subseteq stale', stale' \subseteq Items,
         \A i \in Items : i \in stale' \/ Carried(i)
  PROVE  StepOK
<1>1. TablesOK
  BY TablesAreOK DEF FormInv
<1>2. lock' \in [Items -> Workers \cup {NoWorker}]
      /\ \E v \in Workers, k \in Job : JobInv(k)' /\ job' = [job EXCEPT ![v] = k]
  BY FinishKeepsJobs
<1>3. TablesOK'
  BY <1>1, <1>2 DEF TablesOK, Exists
<1>4. FormInv'
  BY <1>2, <1>3, StepKeepsForm
<1> QED BY <1>4 DEF StepOK, Accounted

LEMMA PoolChanges ==
  ASSUME FormInv, NEW i \in Items, NEW amount \in Int, NEW isShared, AddToPool(i, amount, isShared)
  PROVE  /\ remaining' \in [Items -> Nat] /\ \A k \in Items : remaining'[k] \in 0 .. total[k]
         /\ \A k \in Items : k # i => remaining'[k] = remaining[k]
         /\ remaining'[i] = remaining[i] + IF isShared THEN 0 ELSE amount
<1>1. /\ remaining \in [Items -> Nat] /\ \A k \in Items : remaining[k] \in 0 .. total[k]
      /\ \A k \in Items : total[k] \in Nat /\ remaining[k] \in Nat
  BY DEF FormInv, TypeOK
<1>2. CASE isShared
  BY <1>1, <1>2 DEF AddToPool
<1>3. CASE ~isShared
  <2>1. /\ remaining[i] + amount \in 0 .. total[i]
        /\ remaining' = [remaining EXCEPT ![i] = remaining[i] + amount]
    BY <1>3 DEF AddToPool
  <2> QED BY <1>1, <1>3, <2>1
<1> QED BY <1>2, <1>3

LEMMA CommitAssignKeeps ==
  ASSUME FormInv, NEW w \in Workers, CommitAssign(w)
  PROVE  StepOK
<1> DEFINE j == job[w]
<1>1. /\ j \in Job /\ JobInv(j) /\ j.op = "ASSIGN"
      /\ Insert(rows, j.item, j.emp, j.qty)
      /\ AddToPool(j.item, -j.qty, shared[j.item])
      /\ Finish(w)
      /\ UNCHANGED <<total, shared, category, categories, deleted, active, stale>>
  BY WorkersHaveJobs DEF CommitAssign
<1> HIDE DEF j
<1>2. j.item \in Items /\ j.emp \in Employees /\ j.qty \in Nat \ {0}
  BY <1>1 DEF JobInv, Job
<1>3. RowsGoOn /\ \A k : Units(rows', k) = Units(rows, k) + IF j.item = k THEN j.qty ELSE 0
  BY <1>1, <1>2, RowsDescend, InsertedRow
<1>4. /\ remaining' \in [Items -> Nat] /\ \A k \in Items : remaining'[k] \in 0 .. total[k]
      /\ \A k \in Items : k # j.item => remaining'[k] = remaining[k]
      /\ remaining'[j.item] = remaining[j.item] + IF shared[j.item] THEN 0 ELSE -j.qty
  BY <1>1, <1>2, PoolChanges
<1>5. /\ active' \subseteq Employees /\ stale' \subseteq Items
      /\ \A k \in Items : remaining[k] \in Nat /\ Assigned(k) \in Nat
  BY <1>1, AssignedIsNat DEF FormInv, TypeOK
<1>6. ASSUME NEW k \in Items PROVE Carried(k)
  <2>1. Assigned(k)' = Assigned(k) + IF j.item = k THEN j.qty ELSE 0
    BY <1>3 DEF Assigned
  <2> QED BY <1>1, <1>2, <1>4, <1>5, <2>1 DEF Carried
<1> QED BY <1>1, <1>3, <1>4, <1>5, <1>6, RowsWritten

\* The row that is there as it was read.
LEMMA FreshRow ==
  ASSUME FormInv, NEW j \in Job, ReadRow(j), NEW r \in rows, r.id = j.row
  PROVE  /\ r.item = j.item /\ r \in Row
         /\ {q \in rows : q.id # j.row} = rows \ {r}
         /\ Fresh(j) <=> r.qty = j.rowQty
<1>1. \A q \in rows : q.id = j.row <=> q = r
  BY DEF FormInv, RowsInv
<1>2. r.item = j.item /\ r \in Row
  BY DEF ReadRow, FormInv, TypeOK
<1> QED BY <1>1, <1>2 DEF Fresh

LEMMA CommitQuantityKeeps ==
  ASSUME FormInv, NEW w \in Workers, CommitQuantity(w)
  PROVE  StepOK
<1>1. PICK j \in Job : j = job[w]
  BY WorkersHaveJobs
<1>2. /\ JobInv(j) /\ j.op = "MOVE"
      /\ \E r \in rows : r.id = j.row
      /\ rows' = {IF r.id = j.row THEN [r EXCEPT !.qty = j.qty] ELSE r : r \in rows}
      /\ AddToPool(j.item, j.rowQty - j.qty, shared[j.item])
      /\ Mark({i \in {j.item} : ~Fresh(j)})
      /\ Finish(w)
      /\ UNCHANGED <<total, shared, category, categories, deleted, nextRow, active>>
  BY <1>1, WorkersHaveJobs DEF CommitQuantity
<1>3. ReadRow(j) /\ j.item \in Items /\ j.rowQty \in Nat /\ j.qty \in Nat /\ j.qty > 0
  BY <1>2 DEF JobInv, ReadRow, Job
<1>4. PICK r \in rows : r.id = j.row
  BY <1>2
<1> DEFINE y == [r EXCEPT !.qty = j.qty]
<1>5. r.item = j.item /\ r \in Row /\ (Fresh(j) <=> r.qty = j.rowQty)
  BY <1>3, <1>4, FreshRow
<1>6. y \in Row /\ y.id = r.id /\ y.item = r.item /\ y.qty = j.qty
  BY <1>3, <1>5 DEF Row
<1>7. rows' = (rows \ {r}) \cup {y}
  <2>1. \A q \in rows : q.id = j.row <=> q = r
    BY <1>4 DEF FormInv, RowsInv
  <2>2. rows' = {IF q.id = j.row THEN [q EXCEPT !.qty = j.qty] ELSE q : q \in rows}
    BY <1>2
  <2> QED BY <1>4, <2>1, <2>2
<1> HIDE DEF y
<1>8. /\ Descend(rows')
      /\ \A k : Units(rows', k) = Units(rows, k) + IF r.item = k THEN y.qty - r.qty ELSE 0
  BY <1>6, <1>7, RowsDescend, ChangedRowsDescend
<1>9. RowsGoOn
  BY <1>2, <1>8, DescendantsGoOn
<1>10. /\ remaining' \in [Items -> Nat] /\ \A k \in Items : remaining'[k] \in 0 .. total[k]
       /\ \A k \in Items : k # j.item => remaining'[k] = remaining[k]
       /\ remaining'[j.item]
            = remaining[j.item] + IF shared[j.item] THEN 0 ELSE j.rowQty - j.qty
  <2> DEFINE amount == j.rowQty - j.qty
             asShared == shared[j.item]
  <2>1. AddToPool(j.item, amount, asShared) /\ amount \in Int
    BY <1>2, <1>3
  <2> HIDE DEF amount, asShared
  <2>2. /\ remaining' \in [Items -> Nat] /\ \A k \in Items : remaining'[k] \in 0 .. total[k]
        /\ \A k \in Items : k # j.item => remaining'[k] = remaining[k]
        /\ remaining'[j.item] = remaining[j.item] + IF asShared THEN 0 ELSE amount
    BY <1>3, <2>1, PoolChanges
  <2> QED BY <2>2 DEF amount, asShared
<1>11. /\ active' \subseteq Employees /\ stale \subseteq stale' /\ stale' \subseteq Items
       /\ \A k \in Items : /\ remaining[k] \in Nat /\ Assigned(k) \in Nat
                           /\ shared[k] \in BOOLEAN
  BY <1>2, <1>3, AssignedIsNat DEF FormInv, TypeOK, Mark
<1>12. ASSUME NEW k \in Items, k \notin stale' PROVE Carried(k)
  <2>1. Assigned(k)' = Assigned(k) + IF j.item = k THEN j.qty - r.qty ELSE 0
    BY <1>5, <1>6, <1>8 DEF Assigned
  <2>2. CASE k # j.item
    BY <1>2, <1>10, <1>11, <2>1, <2>2 DEF Carried
  <2>3. CASE k = j.item
    <3>1. r.qty = j.rowQty
      BY <1>2, <1>5, <1>12, <2>3 DEF Mark
    <3> QED BY <1>2, <1>3, <1>10, <1>11, <2>1, <2>3, <3>1 DEF Carried
  <2> QED BY <2>2, <2>3
<1> QED BY <1>2, <1>9, <1>10, <1>11, <1>12, RowsWritten

-----------------------------------------------------------------------------
(* A reassignment. *)

\* Units are taken off the row as read, or, if it has changed, off its item.
LEMMA TakenOffDescends ==
  ASSUME FormInv, NEW j \in Job, ReadRow(j), j.qty > 0, \A r \in TakenOff(j) : r.qty > 0
  PROVE  /\ Descend(TakenOff(j))
         /\ \A i : i # j.item => Units(TakenOff(j), i) = Units(rows, i)
         /\ Fresh(j) => Units(TakenOff(j), j.item) = Units(rows, j.item) - j.qty
<1>1. j.qty \in Nat /\ j.row \in Nat /\ j.rowQty \in Nat
  BY DEF Job
<1>2. rows \subseteq Row /\ IsFiniteSet(rows) /\ Descend(rows)
      /\ \A i : Units(rows, i) \in Nat
  BY RowsDescend, UnitsAreNat DEF Descend
<1>3. CASE ~\E r \in rows : r.id = j.row
  <2>1. TakenOff(j) = rows
    <3>1. {r \in rows : r.id # j.row} = rows
      BY <1>3
    <3>2. {IF r.id = j.row THEN [r EXCEPT !.qty = @ - j.qty] ELSE r : r \in rows} = rows
      BY <1>3
    <3> QED BY <3>1, <3>2, Zenon DEF TakenOff
  <2>2. ~Fresh(j)
    BY <1>3 DEF Fresh
  <2> QED BY <1>2, <2>1, <2>2, Zenon
<1>4. ASSUME NEW r \in rows, r.id = j.row
      PROVE  /\ Descend(TakenOff(j))
             /\ \A i : i # j.item => Units(TakenOff(j), i) = Units(rows, i)
             /\ Fresh(j) => Units(TakenOff(j), j.item) = Units(rows, j.item) - j.qty
  <2>1. /\ r.item = j.item /\ r \in Row /\ r.qty \in Nat
        /\ {q \in rows : q.id # j.row} = rows \ {r}
        /\ Fresh(j) <=> r.qty = j.rowQty
    BY <1>4, FreshRow DEF Row
  <2>2. CASE j.qty = j.rowQty
    <3>1. TakenOff(j) = rows \ {r}
      BY <2>1, <2>2 DEF TakenOff
    <3>2. Descend(rows \ {r})
      BY FewerRowsDescend
    <3>3. \A i : Units(rows \ {r}, i) = Units(rows, i) - IF r.item = i THEN r.qty ELSE 0
      BY <1>2, UnitsWithoutRow
    <3>4. ASSUME NEW i, i # j.item PROVE Units(rows \ {r}, i) = Units(rows, i)
      <4>1. Units(rows \ {r}, i) = Units(rows, i) - 0
        BY <2>1, <3>3, <3>4
      <4>2. Units(rows, i) \in Nat
        BY <1>2
      <4> QED BY <4>1, <4>2
    <3>5. Fresh(j) => Units(rows \ {r}, j.item) = Units(rows, j.item) - j.qty
      BY <2>1, <2>2, <3>3
    <3> QED BY <3>1, <3>2, <3>4, <3>5, Zenon
  <2>3. CASE j.qty # j.rowQty
    <3> DEFINE y == [r EXCEPT !.qty = r.qty - j.qty]
    <3>1. TakenOff(j) = (rows \ {r}) \cup {y}
      <4>1. \A q \in rows : q.id = j.row <=> q = r
        BY <1>4 DEF FormInv, RowsInv
      <4>2. TakenOff(j)
              = {IF q.id = j.row THEN [q EXCEPT !.qty = @ - j.qty] ELSE q : q \in rows}
        BY <2>3 DEF TakenOff
      <4> QED BY <1>4, <4>1, <4>2
    <3>2. y.qty = r.qty - j.qty /\ y.qty > 0
      BY <2>1, <3>1 DEF Row
    <3>3. y \in Row /\ y.id = r.id /\ y.item = r.item
      BY <1>1, <2>1, <3>2 DEF Row
    <3> HIDE DEF y
    <3>4. /\ Descend((rows \ {r}) \cup {y})
          /\ \A i : Units((rows \ {r}) \cup {y}, i)
                      = Units(rows, i) + IF r.item = i THEN y.qty - r.qty ELSE 0
      BY <1>2, <3>3, ChangedRowsDescend
    <3>5. ASSUME NEW i, i # j.item PROVE Units((rows \ {r}) \cup {y}, i) = Units(rows, i)
      <4>1. Units((rows \ {r}) \cup {y}, i) = Units(rows, i) + 0
        BY <2>1, <3>4, <3>5
      <4>2. Units(rows, i) \in Nat
        BY <1>2
      <4> QED BY <4>1, <4>2
    <3>6. Units((rows \ {r}) \cup {y}, j.item) = Units(rows, j.item) - j.qty
      <4>1. Units((rows \ {r}) \cup {y}, j.item) = Units(rows, j.item) + (y.qty - r.qty)
        BY <2>1, <3>4
      <4>2. y.qty - r.qty = 0 - j.qty
        BY <1>1, <2>1, <3>2
      <4> QED BY <1>1, <1>2, <4>1, <4>2
    <3> QED BY <3>1, <3>4, <3>5, <3>6, Zenon
  <2> QED BY <2>2, <2>3
<1> QED BY <1>3, <1>4

\* The units are merged into the row held last, or inserted.
LEMMA MergedRows ==
  ASSUME FormInv, NEW R, Descend(R), NEW i \in Items, NEW q \in Nat,
         NEW held, held \subseteq R, held # {}, \A r \in held : r.item = i
  PROVE  /\ Descend(AddTo(held, R, q))
         /\ \A k : Units(AddTo(held, R, q), k) = Units(R, k) + IF i = k THEN q ELSE 0
<1> DEFINE x == Latest(held)
           y == [x EXCEPT !.qty = x.qty + q]
<1>1. held \subseteq Row /\ held # {} /\ (\A r \in held : r.id < nextRow) /\ nextRow \in Nat
  BY DEF Descend, FormInv, TypeOK
<1>2. x \in held
  BY <1>1, LatestIsHeld
<1>3. AddTo(held, R, q) = (R \ {x}) \cup {y}
  BY DEF AddTo
<1>4. x \in R /\ x.item = i /\ x \in Row
  BY <1>1, <1>2
<1> HIDE DEF x
<1>5. y \in Row /\ y.id = x.id /\ y.item = x.item /\ y.qty = x.qty + q /\ x.qty \in Nat
  BY <1>4 DEF Row
<1> HIDE DEF y
<1>6. /\ Descend((R \ {x}) \cup {y})
      /\ \A k : Units((R \ {x}) \cup {y}, k) = Units(R, k) + IF x.item = k THEN y.qty - x.qty ELSE 0
  BY <1>4, <1>5, ChangedRowsDescend
<1>7. y.qty - x.qty = q
  BY <1>5
<1>8. \A k : Units((R \ {x}) \cup {y}, k) = Units(R, k) + IF i = k THEN q ELSE 0
  BY <1>4, <1>6, <1>7
<1> QED BY <1>3, <1>6, <1>8, Zenon

LEMMA CommitMoveKeeps ==
  ASSUME FormInv, NEW w \in Workers, CommitMove(w)
  PROVE  StepOK
<1>1. PICK j \in Job : j = job[w]
  BY WorkersHaveJobs
<1> DEFINE kept == TakenOff(j)
           held == {r \in kept : r.item = j.item /\ r.emp = j.to}
<1>2. /\ JobInv(j) /\ j.op = "MOVE" /\ j.to # NoEmployee
      /\ \A r \in kept : r.qty > 0
      /\ IF held # {}
         THEN rows' = AddTo(held, kept, j.qty) /\ nextRow' = nextRow
         ELSE Insert(kept, j.item, j.to, j.qty)
      /\ Mark({i \in {j.item} : ~Fresh(j)})
      /\ Finish(w)
      /\ UNCHANGED <<itemVars, active>>
  BY <1>1, WorkersHaveJobs DEF CommitMove
<1>3. /\ ReadRow(j) /\ j.item \in Items /\ j.rowQty \in Nat /\ j.qty \in Nat \ {0}
      /\ j.qty > 0 /\ j.to \in Employees
  BY <1>2 DEF JobInv, ReadRow, Job
<1>4. /\ Descend(kept)
      /\ \A i : i # j.item => Units(kept, i) = Units(rows, i)
      /\ Fresh(j) => Units(kept, j.item) = Units(rows, j.item) - j.qty
  BY <1>2, <1>3, TakenOffDescends
<1> HIDE DEF kept
<1>5. RowsGoOn /\ \A i : Units(rows', i) = Units(kept, i) + IF j.item = i THEN j.qty ELSE 0
  <2>1. CASE held # {}
    <3>1. /\ Descend(AddTo(held, kept, j.qty))
          /\ \A i : Units(AddTo(held, kept, j.qty), i)
                      = Units(kept, i) + IF j.item = i THEN j.qty ELSE 0
      <4>1. /\ j.qty \in Nat /\ j.item \in Items
            /\ held \subseteq kept /\ \A r \in held : r.item = j.item
        BY <1>3
      <4> HIDE DEF held
      <4> QED BY <1>4, <2>1, <4>1, MergedRows
    <3>2. rows' = AddTo(held, kept, j.qty) /\ nextRow' = nextRow
      BY <1>2, <2>1
    <3> HIDE DEF held
    <3>3. Descend(rows')
      BY <3>1, <3>2, Zenon
    <3>4. \A i : Units(rows', i) = Units(kept, i) + IF j.item = i THEN j.qty ELSE 0
      BY <3>1, <3>2, Zenon
    <3> QED BY <3>2, <3>3, <3>4, DescendantsGoOn
  <2>2. CASE held = {}
    <3>1. Insert(kept, j.item, j.to, j.qty)
      BY <1>2, <2>2
    <3> QED BY <1>3, <1>4, <3>1, InsertedRow
  <2> QED BY <2>1, <2>2
<1>6. /\ remaining' \in [Items -> Nat] /\ \A k \in Items : remaining'[k] \in 0 .. total[k]
      /\ active' \subseteq Employees /\ stale \subseteq stale' /\ stale' \subseteq Items
      /\ \A k \in Items : /\ remaining[k] \in Nat /\ Assigned(k) \in Nat
                          /\ shared[k] \in BOOLEAN
  BY <1>2, <1>3, AssignedIsNat DEF FormInv, TypeOK, Mark, itemVars
<1>7. UNCHANGED <<total, remaining, shared, category, categories, deleted>>
  BY <1>2 DEF itemVars
<1>8. \A i \in Items : Units(kept, i) \in Nat
  BY <1>4, UnitsAreNat DEF Descend
<1>9. ASSUME NEW k \in Items, k \notin stale' PROVE Carried(k)
  <2>1. Assigned(k)' = Units(kept, k) + IF j.item = k THEN j.qty ELSE 0
    BY <1>5 DEF Assigned
  <2>2. CASE k # j.item
    <3>1. Assigned(k)' = Assigned(k)
      BY <1>4, <1>8, <2>1, <2>2 DEF Assigned
    <3> QED BY <1>7, <3>1 DEF Carried
  <2>3. CASE k = j.item
    <3>1. Fresh(j)
      BY <1>2, <1>9, <2>3 DEF Mark
    <3>2. Units(kept, k) = Assigned(k) - j.qty
      BY <1>4, <2>3, <3>1 DEF Assigned
    <3>3. Assigned(k)' = Assigned(k)
      BY <1>3, <1>6, <2>1, <2>3, <3>2
    <3> QED BY <1>7, <3>3 DEF Carried
  <2> QED BY <2>2, <2>3
<1> QED BY <1>2, <1>5, <1>6, <1>7, <1>9, RowsWritten

-----------------------------------------------------------------------------
(* Returned assignments, of one item or of all that an employee has. *)

\* Where there is at most one row of an item, it has all the item's units.
LEMMA UnitsOfOneRow ==
  ASSUME NEW R, R \subseteq Row, \A r \in R, q \in R : r.item = q.item => r = q, NEW k
  PROVE  /\ \A r \in R : r.item = k => Units(R, k) = r.qty
         /\ (\A r \in R : r.item # k) => Units(R, k) = 0
<1>1. Units({}, k) = 0
  <2>1. {r \in {} : r.item = k} = {}
    OBVIOUS
  <2> QED BY <2>1, SumOfNothing DEF Units
<1>2. IsFiniteSet({}) /\ {} \subseteq Row
  BY FS_EmptySet
<1>3. ASSUME NEW r \in R, r.item = k PROVE Units(R, k) = r.qty
  <2>1. /\ {} \cup {r} \subseteq Row /\ IsFiniteSet({} \cup {r})
        /\ Units({} \cup {r}, k) = Units({}, k) + IF r.item = k THEN r.qty ELSE 0
    BY <1>2, UnitsWithRow
  <2>2. {q \in {} \cup {r} : q.item = k} = {q \in R : q.item = k}
    BY <1>3
  <2>3. Units({} \cup {r}, k) = Units(R, k)
    BY <2>1, <2>2, UnitsOfSameRows
  <2>4. r.qty \in Int
    BY DEF Row
  <2> QED BY <1>1, <1>3, <2>1, <2>3, <2>4
<1>4. ASSUME \A r \in R : r.item # k PROVE Units(R, k) = 0
  <2>1. {r \in {} : r.item = k} = {r \in R : r.item = k}
    BY <1>4
  <2>2. Units({}, k) = Units(R, k)
    BY <1>2, <2>1, UnitsOfSameRows
  <2> QED BY <1>1, <2>2
<1> QED BY <1>3, <1>4

LEMMA ReturnHeldKeeps ==
  ASSUME FormInv, NEW w \in Workers, ReturnHeld(w), ReadRows(job[w]), active' \subseteq Employees
  PROVE  StepOK
<1>1. PICK j \in Job : j = job[w]
  BY WorkersHaveJobs
<1> DEFINE back(i, s) == IF i \in s THEN 0 ELSE Units(j.held, i)
<1>2. /\ StillThere(j) /\ ReadRows(j)
      /\ rows' = {q \in rows : \A r \in j.held : q.id # r.id}
      /\ Finish(w)
      /\ UNCHANGED <<total, shared, category, categories, deleted, nextRow>>
  BY <1>1 DEF ReturnHeld
<1>3. PICK sharing \in SUBSET Items :
        /\ \A i \in j.items \ sharing : remaining[i] + back(i, sharing) <= total[i]
        /\ remaining' = [i \in Items |-> remaining[i] + back(i, sharing)]
        /\ Mark({i \in j.items : \/ (i \in sharing) # shared[i]
                                 \/ \E r \in j.held : r.item = i /\ Outdated(r)})
  BY <1>1 DEF ReturnHeld
<1>4. /\ j.items \subseteq Items /\ j.held \subseteq Row
      /\ \A r \in j.held : r.item \in j.items /\ r.qty \in Nat
      /\ \A r \in j.held, q \in j.held : r.item = q.item => r = q
  BY <1>2 DEF Job, Row, ReadRows
<1>5. \A k : /\ \A r \in j.held : r.item = k => Units(j.held, k) = r.qty
             /\ (\A r \in j.held : r.item # k) => Units(j.held, k) = 0
  BY <1>4, UnitsOfOneRow
<1>6. \A k : Units(j.held, k) \in Nat
  BY <1>4, <1>5
<1>7. RowsGoOn
  <2>1. Descend(rows')
    BY <1>2, FewerRowsDescend
  <2> QED BY <1>2, <2>1, DescendantsGoOn
<1>8. /\ stale \subseteq stale' /\ stale' \subseteq Items
      /\ \A k \in Items : /\ remaining[k] \in Nat /\ Assigned(k) \in Nat /\ total[k] \in Nat
                          /\ shared[k] \in BOOLEAN /\ remaining[k] <= total[k]
  BY <1>3, <1>4, AssignedIsNat DEF FormInv, TypeOK, Mark
<1>9. /\ remaining' \in [Items -> Nat] /\ \A k \in Items : remaining'[k] \in 0 .. total[k]
  <2>1. \A k \in Items : back(k, sharing) \in Nat /\ remaining[k] + back(k, sharing) <= total[k]
    BY <1>3, <1>4, <1>5, <1>6, <1>8
  <2> HIDE DEF back
  <2> QED BY <1>3, <1>8, <2>1
<1>10. ASSUME NEW k \in Items, k \notin stale' PROVE Carried(k)
  <2>1. remaining'[k] = remaining[k] + back(k, sharing)
    BY <1>3
  <2>2. IsFiniteSet(rows) /\ IsFiniteSet(rows') /\ rows \subseteq Row
    BY <1>7 DEF RowsGoOn, FormInv, TypeOK, RowsInv
  <2>3. CASE \A r \in j.held : r.item # k
    <3>1. {q \in rows' : q.item = k} = {q \in rows : q.item = k}
      BY <1>2, <2>3 DEF ReadRows
    <3>2. Assigned(k)' = Assigned(k)
      BY <2>2, <3>1, UnitsOfSameRows DEF Assigned
    <3>3. back(k, sharing) = 0
      BY <1>5, <2>3
    <3> QED BY <1>2, <1>8, <2>1, <3>2, <3>3 DEF Carried
  <2>4. ASSUME NEW r \in j.held, r.item = k PROVE Carried(k)
    <3>1. (k \in sharing) = shared[k] /\ ~Outdated(r)
      BY <1>3, <1>4, <1>10, <2>4 DEF Mark
    <3>2. r \in rows
      BY <1>2, <3>1 DEF StillThere, Outdated
    <3>3. {q \in rows' : q.item = k} = {q \in rows \ {r} : q.item = k}
      <4>1. ASSUME NEW q \in rows, q.item = k, q # r, NEW h \in j.held
            PROVE  q.id # h.id
        BY <1>2, <2>4, <3>2, <4>1 DEF ReadRows, FormInv, RowsInv
      <4> QED BY <1>2, <4>1
    <3>4. Units(rows', k) = Units(rows \ {r}, k)
      BY <2>2, <3>3, UnitsOfSameRows
    <3>5. Units(rows \ {r}, k) = Units(rows, k) - IF r.item = k THEN r.qty ELSE 0
      BY <2>2, <3>2, UnitsWithoutRow
    <3>6. Assigned(k)' = Assigned(k) - r.qty /\ r.qty \in Nat
      BY <1>4, <2>4, <3>4, <3>5 DEF Assigned
    <3>7. remaining'[k] = remaining[k] + IF shared[k] THEN 0 ELSE r.qty
      BY <1>5, <1>8, <2>1, <2>4, <3>1
    <3> QED BY <1>2, <1>8, <3>6, <3>7 DEF Carried
  <2> QED BY <2>3, <2>4
<1> QED BY <1>2, <1>7, <1>8, <1>9, <1>10, RowsWritten

LEMMA CommitRemoveKeeps ==
  ASSUME FormInv, NEW w \in Workers, CommitRemove(w)
  PROVE  StepOK
<1>1. ReadRows(job[w])
  BY WorkersHaveJobs DEF CommitRemove, JobInv
<1>2. active' \subseteq Employees
  BY DEF CommitRemove, FormInv, TypeOK
<1> QED BY <1>1, <1>2, ReturnHeldKeeps DEF CommitRemove

LEMMA CommitDeactivateKeeps ==
  ASSUME FormInv, NEW w \in Workers, CommitDeactivate(w)
  PROVE  StepOK
<1>1. ReadRows(job[w])
  BY WorkersHaveJobs DEF CommitDeactivate, JobInv
<1>2. active' \subseteq Employees
  BY DEF CommitDeactivate, FormInv, TypeOK
<1> QED BY <1>1, <1>2, ReturnHeldKeeps DEF CommitDeactivate

-----------------------------------------------------------------------------
(* The steps together, and what holds of every behaviour. *)

LEMMA InitHolds == Init => EquipmentInv
<1> SUFFICES ASSUME Init PROVE EquipmentInv
  OBVIOUS
<1>1. TypeOK
  BY EquipmentAssumption, IdleIsFine DEF Init, TypeOK, Exists
<1>2. RowsInv
  BY FS_EmptySet DEF Init, RowsInv
<1>3. \A w \in Workers : JobInv(job[w])
  BY IdleIsFine DEF Init
<1>4. PoolInv
  <2>1. \A i \in Items : Assigned(i) \in Nat
    BY <1>1, <1>2, <1>3, AssignedIsNat DEF FormInv
  <2> QED BY <2>1 DEF Init, PoolInv
<1> QED BY <1>1, <1>2, <1>3, <1>4 DEF EquipmentInv, FormInv

LEMMA StepIsOK == FormInv /\ [Next]_vars => StepOK
<1> SUFFICES ASSUME FormInv, [Next]_vars PROVE StepOK
  OBVIOUS
<1>1. ASSUME NEW c \in Categories, CreateCategory(c) \/ DeleteCategory(c) PROVE StepOK
  BY <1>1, CategoryKeeps
<1>2. ASSUME NEW i \in Items, CreateEquipment(i) \/ DeleteEquipment(i) PROVE StepOK
  BY <1>2, CreateEquipmentKeeps, DeleteEquipmentKeeps
<1>3. ASSUME NEW e \in Employees, Reactivate(e) PROVE StepOK
  BY <1>3, ReactivateKeeps
<1>4. ASSUME NEW w \in Workers, StartUpdate(w) \/ CommitUpdate(w) PROVE StepOK
  BY <1>4, StartUpdateKeeps, CommitUpdateKeeps
<1>5. ASSUME NEW w \in Workers, StartAssign(w) \/ CommitAssign(w) PROVE StepOK
  BY <1>5, StartAssignKeeps, CommitAssignKeeps
<1>6. ASSUME NEW w \in Workers, StartRemove(w) \/ CommitRemove(w) PROVE StepOK
  BY <1>6, StartRemoveKeeps, CommitRemoveKeeps
<1>7. ASSUME NEW w \in Workers, StartMove(w) \/ CommitMove(w) \/ CommitQuantity(w)
      PROVE  StepOK
  BY <1>7, StartMoveKeeps, CommitMoveKeeps, CommitQuantityKeeps
<1>8. ASSUME NEW w \in Workers, StartDeactivate(w) \/ ReadHeld(w) \/ CommitDeactivate(w)
      PROVE  StepOK
  BY <1>8, StartDeactivateKeeps, ReadHeldKeeps, CommitDeactivateKeeps
<1>9. ASSUME NEW w \in Workers, Abort(w) PROVE StepOK
  BY <1>9, AbortKeeps
<1>10. CASE UNCHANGED vars
  <2>1. UNCHANGED <<itemVars, rows, nextRow, active, lock, job, stale>>
    BY <1>10 DEF vars
  <2>2. RowsGoOn
    BY <2>1, RowsStayPut
  <2>3. TablesOK'
    BY <2>1, TablesAreOK DEF FormInv, TablesOK, itemVars, Exists
  <2>4. FormInv'
    BY <2>1, <2>2, <2>3, StepKeepsForm
  <2>5. Accounted
    BY <2>1, NothingCounted DEF itemVars
  <2> QED BY <2>4, <2>5 DEF StepOK
<1> QED
  BY <1>1, <1>2, <1>3, <1>4, <1>5, <1>6, <1>7, <1>8, <1>9, <1>10 DEF Next

LEMMA StepKeepsInv == EquipmentInv /\ [Next]_vars => EquipmentInv'
BY StepIsOK, AccountedKeepsPool DEF EquipmentInv, StepOK

LEMMA EquipmentInvHolds == Spec => []EquipmentInv
BY InitHolds, StepKeepsInv, PTL DEF Spec

(***************************************************************************)
(* The tables keep their types and the CHECK constraints of the schema: a  *)
(* pool never goes below 0 or above the total, an item is in a category    *)
(* that is there, whatever requests run at the same time, are refused or   *)
(* crash.                                                                  *)
(***************************************************************************)
THEOREM EquipmentTyped == Spec => []TypeOK
<1>1. EquipmentInv => TypeOK
  BY DEF EquipmentInv, FormInv
<1> QED BY <1>1, EquipmentInvHolds, PTL

(***************************************************************************)
(* No unit is lost: an item that was not written from outdated reads has   *)
(* its total in the pool and in somebody's hands, for any number of items, *)
(* employees, requests and rows.                                           *)
(***************************************************************************)
THEOREM UnitsAreNotLost == Spec => []NoUnitIsLost
<1>1. EquipmentInv => NoUnitIsLost
  BY DEF EquipmentInv, PoolInv, NoUnitIsLost
<1> QED BY <1>1, EquipmentInvHolds, PTL

(***************************************************************************)
(* Only an update of the item, or a write from outdated reads, ends that   *)
(* the units of an item are all accounted for.                             *)
(***************************************************************************)
THEOREM BalancedStaysBalanced == Spec => OnlyUpdatesUnbalance
<1>1. ASSUME EquipmentInv, [Next]_vars
      PROVE  \A i \in Items :
               Balanced(i) => \/ Balanced(i)'
                              \/ shared'[i] \/ total'[i] < Assigned(i)
                              \/ i \in stale'
  BY <1>1, StepIsOK, AccountedKeepsBalance DEF EquipmentInv, StepOK
<1>2. EquipmentInv /\ [Next]_vars =>
        [\A i \in Items :
           Balanced(i) => \/ Balanced(i)'
                          \/ shared'[i] \/ total'[i] < Assigned(i)
                          \/ i \in stale']_vars
  BY <1>1
<1> QED BY <1>2, EquipmentInvHolds, PTL DEF Spec, OnlyUpdatesUnbalance
-----------------------------------------------------------------------------
(* The inventory: a step is one of Inventory, item by item. *)

LEMMA StockInit == Init => Stock!Init
<1> SUFFICES ASSUME Init PROVE Stock!Init
  OBVIOUS
<1>1. ASSUME NEW i \in Items PROVE Assigned(i) = 0
  <2>1. {r \in rows : r.item = i} = {}
    BY DEF Init
  <2> QED BY <2>1, SumOfNothing DEF Assigned, Units
<1> QED BY <1>1 DEF Init, Stock!Init

\* Units that are carried are lent, returned or stay where they are.
LEMMA CarriedIsAStep ==
  ASSUME FormInv, FormInv', NEW i \in Items, Carried(i)
  PROVE  Stock!Step(i)
<1>1. /\ remaining[i] \in Nat /\ shared[i] \in BOOLEAN
      /\ remaining'[i] \in Nat /\ Assigned(i) \in Nat /\ Assigned(i)' \in Nat
  BY AssignedIsNat DEF FormInv, TypeOK
<1>2. ~Stock!Revised(i)
  BY DEF Carried, Stock!Revised
<1>3. CASE shared[i] \/ remaining'[i] = remaining[i]
  BY <1>1, <1>2, <1>3 DEF Carried, Stock!Step, Stock!Keep
<1>4. CASE ~shared[i] /\ remaining'[i] < remaining[i]
  <2> DEFINE q == remaining[i] - remaining'[i]
  <2>1. /\ q \in 1 .. remaining[i]
        /\ remaining'[i] = remaining[i] - q /\ Assigned(i)' = Assigned(i) + q
    BY <1>1, <1>4 DEF Carried
  <2> HIDE DEF q
  <2> QED BY <1>2, <1>4, <2>1 DEF Stock!Step, Stock!Lend
<1>5. CASE ~shared[i] /\ remaining'[i] > remaining[i]
  <2> DEFINE q == remaining'[i] - remaining[i]
  <2>1. /\ q \in 1 .. Assigned(i)
        /\ remaining'[i] = remaining[i] + q /\ Assigned(i)' = Assigned(i) - q
    BY <1>1, <1>5 DEF Carried
  <2> HIDE DEF q
  <2> QED BY <1>2, <1>5, <2>1 DEF Stock!Step, Stock!Return
<1> QED BY <1>1, <1>3, <1>4, <1>5

LEMMA StockStep == EquipmentInv /\ [Next]_vars => Stock!Next
<1> SUFFICES ASSUME EquipmentInv, [Next]_vars PROVE Stock!Next
  OBVIOUS
<1>1. FormInv /\ FormInv' /\ Accounted
  BY StepIsOK DEF EquipmentInv, StepOK
<1>2. ASSUME NEW i \in Items PROVE remaining'[i] \in 0 .. total'[i]
  BY <1>1 DEF FormInv, TypeOK
<1>3. ASSUME NEW i \in Items, Reset(i) PROVE Stock!Step(i)
  BY <1>3 DEF Reset, NewRemaining, Stock!Step, Stock!Revise
<1>4. \A i \in Items : i \in stale' \/ Stock!Step(i)
  BY <1>1, <1>3, CarriedIsAStep DEF Accounted
<1> QED BY <1>1, <1>2, <1>4 DEF Stock!Next, Accounted

(***************************************************************************)
(* Equipment implements Inventory, for any number of items, rows, employees*)
(* and requests: assignments, returns, reassignments, changed quantities   *)
(* and deactivations move units between the pool and somebody's hands, one *)
(* for one, whatever they overlap with; only a revision of the item, or a  *)
(* write from outdated reads, does anything else.                          *)
(***************************************************************************)
THEOREM EquipmentIsAnInventory == Spec => ImplementsInventory
<1>1. EquipmentInv /\ [Next]_vars => [Stock!Next]_Stock!vars
  BY StockStep
<1> QED
  BY <1>1, StockInit, EquipmentInvHolds, PTL DEF Spec, ImplementsInventory, Stock!Spec
=============================================================================
