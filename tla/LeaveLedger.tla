----------------------------- MODULE LeaveLedger -----------------------------
(***************************************************************************)
(* What the leave system promises about the balances of an employee,       *)
(* without approval logs, validation or requests: a leave is taken off one *)
(* balance once, when it is granted, and what is given back is what was    *)
(* taken, to the balance it was taken from.                                *)
(*                                                                         *)
(* A granted leave ends released (the days were given back) or forfeited   *)
(* (it is no longer granted, but its days stay off the balance).  The      *)
(* second ending is what rejecting or cancelling a leave during its        *)
(* withdrawal does.                                                        *)
(***************************************************************************)
EXTENDS Integers

CONSTANTS
  Leaves,
  Buckets,   \* the balances
  Opening,   \* opening balances
  Amounts    \* days a leave may take (0: it has no balance bucket)

VARIABLES
  phase,     \* where the leave stands
  taken,     \* days the leave has taken off each balance
  balance

vars == <<phase, taken, balance>>

Phases == {"none", "booked", "granted", "released", "forfeited"}

Init ==
  /\ phase = [l \in Leaves |-> "none"]
  /\ taken = [l \in Leaves |-> [b \in Buckets |-> 0]]
  /\ balance = Opening

Move(l, from, to) ==
  /\ phase[l] = from
  /\ phase' = [phase EXCEPT ![l] = to]

Book(l) == Move(l, "none", "booked") /\ UNCHANGED <<taken, balance>>

Drop(l) == Move(l, "booked", "released") /\ UNCHANGED <<taken, balance>>

Grant(l) ==
  \E b \in Buckets, d \in Amounts :
    /\ Move(l, "booked", "granted")
    /\ taken' = [taken EXCEPT ![l][b] = d]
    /\ balance' = [balance EXCEPT ![b] = @ - d]

GiveBack(l) ==
  /\ Move(l, "granted", "released")
  /\ taken' = [taken EXCEPT ![l] = [b \in Buckets |-> 0]]
  /\ balance' = [b \in Buckets |-> balance[b] + taken[l][b]]

Forfeit(l) == Move(l, "granted", "forfeited") /\ UNCHANGED <<taken, balance>>

Next ==
  \E l \in Leaves :
    Book(l) \/ Drop(l) \/ Grant(l) \/ GiveBack(l) \/ Forfeit(l)

Spec == Init /\ [][Next]_vars
=============================================================================
