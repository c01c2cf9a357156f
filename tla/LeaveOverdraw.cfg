\* One request at a time, one leave: applied for, edited, approved.
SPECIFICATION Spec
CONSTANTS
  Stage <- MCChain
  Leaves = {l1}
  NoLeave = NoLeave
  Workers = {w1}
  ApplicantRoles = {"EMPLOYEE"}
  Kinds = {"REGULAR"}
  Days = {1}
  EditDays = {2}
  Slots = {1}
  Opening <- MCOneDay
  MaxCharge = 2
CHECK_DEADLOCK FALSE
INVARIANTS
  NeverOverdrawn
