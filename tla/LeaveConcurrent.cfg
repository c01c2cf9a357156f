\* Two requests at the same time on one leave, and their announcements.
SPECIFICATION NoticesSpec
CONSTANTS
  Stage <- MCStage
  Leaves = {l1}
  NoLeave = NoLeave
  Workers = {w1, w2}
  ApplicantRoles = {"EMPLOYEE", "SUPERADMIN"}
  Kinds = {"REGULAR"}
  Days = {1}
  EditDays = {2}
  Slots = {1}
  Opening <- MCOpening
  MaxCharge = 2
SYMMETRY WorkerSymmetry
CHECK_DEADLOCK FALSE
INVARIANTS
  NoticesTypeOK
  OnlyApprovedIsWithdrawn
  UnroutedIsNeverDecided
  WaitingApproversAreTold
