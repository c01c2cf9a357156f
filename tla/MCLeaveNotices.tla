--------------------------- MODULE MCLeaveNotices ---------------------------
(***************************************************************************)
(* An instance of LeaveNotices for TLC.                                    *)
(***************************************************************************)
EXTENDS LeaveNotices, TLC

\* Two siblings of which one suffices, and a final approver: the built-in flow
\* of the migrations without its third sibling, ADMIN.
MCStage == ("MANAGER" :> 1) @@ ("HR" :> 1) @@ ("SUPERADMIN" :> 2)

MCOpening == [REGULAR |-> 2, UNPAID |-> 0]

WorkerSymmetry == Permutations(Workers)
=============================================================================
