\* One employee, one leave type, which may become an early-leave type and cease to be
\* one; two requests, or one and an accrual, at a time, two years.
SPECIFICATION Spec
CONSTANTS
  Employees = {e1}
  Types = {annual}
  NoRow = NoRow
  Unset = Unset
  Policies <- MCPolicies
  JoinMonths = {7}
  Months = {1}
  Workers = {w1, w2}
  NoWorker = NoWorker
  Accruals = {cron}
  Quantities = {1}
  Days = {1}
  MaxAdjusted = 1
  MaxUsed = 1
  MaxYear = 2
SYMMETRY BalanceSymmetry
CONSTRAINT TwoAtATime
INVARIANTS TypeOK BooksBalance NoAdjustmentIsLost CreditedOnce OpeningIsEntitlement
