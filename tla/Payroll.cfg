\* Two requests at the same time, on two runs.
SPECIFICATION Spec
CONSTANTS
  e1 = e1
  e2 = e2
  Employees = {e1, e2}
  Steady = {e1}
  Joined <- MCJoined
  MonthOf <- MCMonthOf
  Weekend = {4}
  HolidayDates = {3}
  Requests <- MCRequests
  NoLeave = NoLeave
  Runs = {r1, r2}
  NoRun = NoRun
  Workers = {w1, w2}
  MaxMonth = 3
  ReadsFail = TRUE
  SuperAdmins = {}
SYMMETRY PayrollSymmetry
INVARIANTS
  TypeOK
  EveryoneIsPaid
  CountsAgree
PROPERTIES
  IssuedSlipIsFinal
