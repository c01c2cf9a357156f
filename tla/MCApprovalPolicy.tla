-------------------------- MODULE MCApprovalPolicy --------------------------
(***************************************************************************)
(* Instances of ApprovalPolicy for TLC.                                    *)
(***************************************************************************)
EXTENDS ApprovalPolicy, TLC

\* The built-in flow of schema.sql, which UpdateFlow would refuse: ADMIN is asked
\* before HR.
MCSystemStages == ("MANAGER" :> 1) @@ ("ADMIN" :> 2) @@ ("HR" :> 3) @@ ("SUPERADMIN" :> 4)

\* A valid flow, and one whose order is refused.
MCRequested ==
  {("MANAGER" :> 1) @@ ("HR" :> 1),
   ("HR" :> 1) @@ ("MANAGER" :> 2)}

PolicySymmetry == Permutations(Types) \cup Permutations(Workers)
=============================================================================
