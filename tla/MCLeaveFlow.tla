----------------------------- MODULE MCLeaveFlow -----------------------------
(***************************************************************************)
(* Instances of LeaveFlow for TLC.                                         *)
(***************************************************************************)
EXTENDS LeaveFlow, TLC

\* Two siblings of which one suffices, and a final approver: the built-in flow
\* of the migrations without its third sibling, ADMIN.
MCStage == ("MANAGER" :> 1) @@ ("HR" :> 1) @@ ("SUPERADMIN" :> 2)

\* A chain of two approvers: the first stages of the built-in flow
\* of schema.sql.
MCChain == ("MANAGER" :> 1) @@ ("ADMIN" :> 2)

\* Two paid days and one unpaid; one paid day.
MCOpening == [REGULAR |-> 2, UNPAID |-> 1]

MCOneDay == [REGULAR |-> 1, UNPAID |-> 0]

LeaveSymmetry == Permutations(Leaves)
=============================================================================
