\* The built-in flow and one other, two leave types, one leave, two requests
\* at the same time.
SPECIFICATION Spec
CONSTANTS
  Flows = {builtin, custom}
  System = builtin
  SystemStages <- MCSystemStages
  Requested <- MCRequested
  NoFlow = NoFlow
  Types = {t1, t2}
  Leaves = {l1}
  Nothing = Nothing
  Applicants = {"EMPLOYEE"}
  Workers = {w1, w2}
SYMMETRY PolicySymmetry
INVARIANTS EmployeesAreRouted RoutesFollowHierarchy ReferencesResolve
