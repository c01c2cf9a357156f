\* One request at a time: two leaves of one manager; two sibling stages below
\* the final one, one of which only an edit adds to the log.
SPECIFICATION Spec
CONSTANTS
  Stage <- MCStage
  Leaves = {l1, l2}
  NoLeave = NoLeave
  Workers = {w1}
  ApplicantRoles = {"MANAGER"}
  Kinds = {"EARLY", "REGULAR", "UNPAID"}
  Days = {1}
  EditDays = {2}
  Slots = {1, 2}
  Opening <- MCOpening
  MaxCharge = 2
SYMMETRY LeaveSymmetry
CHECK_DEADLOCK FALSE
INVARIANTS
  ChargedWhileGranted
  NoOverlap
  LogAgreesWithStatus
  OnlyHigherStagesWait
PROPERTIES
  RejectionIsFinal
  OnlyEditsOverbook
  ImplementsLedger
