------------------------------ MODULE MCServer ------------------------------
(***************************************************************************)
(* An instance of Server for TLC: a withdrawal, and the creation of an     *)
(* employee, which reads inside its transaction.                           *)
(***************************************************************************)
EXTENDS Server, TLC

CONSTANTS withdraw, create

\* A withdrawal mails its one recipient twice, a new employee is mailed once.
MCKind == (withdraw :> "LEAVE_WITHDRAWN") @@ (create :> "EMPLOYEE_CREATED")

MCRecipients == (withdraw :> 1) @@ (create :> 0)
=============================================================================
