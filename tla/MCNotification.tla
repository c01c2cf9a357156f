--------------------------- MODULE MCNotification ---------------------------
(***************************************************************************)
(* An instance of Notification for TLC: one approval, with one recipient.  *)
(***************************************************************************)
EXTENDS Notification, TLC

CONSTANT approval

MCKind == approval :> "LEAVE_APPROVED"

MCRecipients == approval :> 1
=============================================================================
