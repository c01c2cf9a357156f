------------------------------ MODULE MCPayroll ------------------------------
EXTENDS LeaveReport

CONSTANTS e1, e2

\* Two months, of two and three days.
MCMonthOf == <<1, 1, 2, 2, 2>>

\* The second employee joined in the second month.
MCJoined == (e1 :> 1) @@ (e2 :> 2)

\* A leave without pay that spans both months, and half a day with pay.
MCRequests ==
  {[owner |-> e1, first |-> 2, last |-> 5, half |-> FALSE, kind |-> "UNPAID"],
   [owner |-> e2, first |-> 5, last |-> 5, half |-> TRUE, kind |-> "PAID"]}

\* ... and an early leave.
MCAllRequests ==
  MCRequests \cup
  {[owner |-> e1, first |-> 1, last |-> 1, half |-> TRUE, kind |-> "EARLY"]}

PayrollSymmetry == Permutations(Workers) \cup Permutations(Runs)
=============================================================================
