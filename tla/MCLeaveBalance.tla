--------------------------- MODULE MCLeaveBalance ---------------------------
EXTENDS LeaveBalance, TLC

\* Interns get less, or the same as everybody, so that every change is one for them
\* too; and the type may become an early-leave type, of which nobody has a row.
MCPolicies ==
  {[def |-> 12, intern |-> 3, early |-> FALSE, paid |-> TRUE],
   [def |-> 6, intern |-> Unset, early |-> FALSE, paid |-> TRUE],
   [def |-> 6, intern |-> Unset, early |-> TRUE, paid |-> FALSE]}

\* How many requests and accruals are under way.
Busy ==
  Cardinality({w \in Workers : job[w] # Idle})
    + Cardinality({a \in Accruals : accrual[a] # IdleAccrual})

\* Any two until days are accrued or the year ends, then one.
TwoAtATime ==
  LET fresh == year = 1 /\ \A p \in Pairs, m \in Months : accrualLog[p][m] = 0
  IN  Busy <= IF fresh THEN 2 ELSE 1

BalanceSymmetry == Permutations(Workers)
=============================================================================
