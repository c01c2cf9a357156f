---------------------------- MODULE ApprovalFlow ----------------------------
(***************************************************************************)
(* Approval flows: which roles decide on a leave, and in which stages.  A  *)
(* flow is a function from the roles it names to their stage numbers.      *)
(***************************************************************************)
EXTENDS Integers

ApproverRoles == {"MANAGER", "HR", "ADMIN", "SUPERADMIN"}

Roles == {"INTERN", "EMPLOYEE"} \cup ApproverRoles

RoleLevel ==
  [r \in Roles |-> CASE r = "INTERN"     -> 1
                     [] r = "EMPLOYEE"   -> 2
                     [] r = "MANAGER"    -> 3
                     [] r = "HR"         -> 4
                     [] r = "ADMIN"      -> 5
                     [] r = "SUPERADMIN" -> 6]

\* Known roles, each once, and positive stage numbers.
WellFormed(flow) ==
  /\ DOMAIN flow \subseteq ApproverRoles
  /\ flow \in [DOMAIN flow -> Nat \ {0}]

(***************************************************************************)
(* What AllowToCreateLeaveApprovelFlow lets through: well-formed, not      *)
(* empty, and a stage order that follows MANAGER -> HR -> ADMIN ->         *)
(* SUPERADMIN (equal stages are allowed).  The built-in flow of the        *)
(* migrations passes; that of schema.sql asks ADMIN before HR and is only  *)
(* well-formed.                                                            *)
(***************************************************************************)
ValidFlow(flow) ==
  /\ WellFormed(flow)
  /\ DOMAIN flow # {}
  /\ \A r, q \in DOMAIN flow : RoleLevel[r] < RoleLevel[q] => flow[r] <= flow[q]

\* generateApprovalLog leaves out the stages of roles not above the applicant.
RoleAbove(r, applicant) == RoleLevel[r] > RoleLevel[applicant]
=============================================================================
