\* One request at a time: two previews of one month, both finalized.
SPECIFICATION Spec
CONSTANTS
  e1 = e1
  e2 = e2
  Employees = {e1, e2}
  Steady = {e1}
  Joined <- MCJoined
  MonthOf <- MCMonthOf
  Weekend = {4}
  HolidayDates = {3}
  Requests <- MCAllRequests
  NoLeave = NoLeave
  Runs = {r1, r2}
  NoRun = NoRun
  Workers = {w1}
  MaxMonth = 3
  ReadsFail = FALSE
  SuperAdmins = {}
INVARIANTS OneFinalizedRun
