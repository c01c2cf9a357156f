------------------------------ MODULE Inventory ------------------------------
(***************************************************************************)
(* What the inventory promises about the units of its items, without rows, *)
(* locks, requests or employees: units are in the pool or in somebody's    *)
(* hands, and only a revision of the item changes how many there are.      *)
(*                                                                         *)
(* A step is a transaction and may concern several items.  Of a shared     *)
(* item no units are counted, and of an item that went astray only that    *)
(* its pool stays between 0 and the total.                                 *)
(***************************************************************************)
EXTENDS Integers

CONSTANT Items

VARIABLES
  total,   \* units the item should have, 0 if there is no such item
  pool,    \* units to be had
  out,     \* units in somebody's hands
  shared,  \* items of which no units are counted
  astray   \* items of which the count was lost

vars == <<total, pool, out, shared, astray>>

Init ==
  /\ total = [i \in Items |-> 0]
  /\ pool = [i \in Items |-> 0]
  /\ out = [i \in Items |-> 0]
  /\ shared = [i \in Items |-> FALSE]
  /\ astray = {}

Revised(i) == total'[i] # total[i] \/ shared'[i] # shared[i]

\* Units change hands, or nothing happens.
Keep(i) == pool'[i] = pool[i] /\ (shared[i] \/ out'[i] = out[i])

Lend(i) ==
  \E q \in 1 .. pool[i] :
    /\ ~shared[i]
    /\ pool'[i] = pool[i] - q
    /\ out'[i] = out[i] + q

Return(i) ==
  \E q \in 1 .. out[i] :
    /\ ~shared[i]
    /\ pool'[i] = pool[i] + q
    /\ out'[i] = out[i] - q

\* The pool grows or shrinks with the total, as far as there are units left in
\* it; one that is shared is full.  Also the first step of an item, and its last.
Revise(i) ==
  LET left == pool[i] + (total'[i] - total[i]) IN
  /\ out'[i] = out[i]
  /\ pool'[i] = IF shared'[i] THEN total'[i] ELSE IF left < 0 THEN 0 ELSE left

Step(i) ==
  \/ ~Revised(i) /\ (Keep(i) \/ Lend(i) \/ Return(i))
  \/ Revise(i)

Next ==
  /\ astray \subseteq astray'
  /\ \A i \in Items :
       /\ pool'[i] \in 0 .. total'[i]
       /\ i \in astray' \/ Step(i)

Spec == Init /\ [][Next]_vars
=============================================================================
