\* The cron job and the manual trigger at the same time.
SPECIFICATION Spec
CONSTANTS
  Employees = {e1}
  Types = {annual}
  NoRow = NoRow
  Unset = Unset
  Policies <- MCPolicies
  JoinMonths = {7}
  Months = {1}
  Workers = {w1}
  NoWorker = NoWorker
  Accruals = {cron, manual}
  Quantities = {1}
  Days = {1}
  MaxAdjusted = 1
  MaxUsed = 1
  MaxYear = 1
INVARIANTS CreditedOnce
