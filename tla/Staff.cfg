\* Two employees, two addresses, a designation, two requests at a time, any two of
\* which may overlap.  What another role than these may do, a SUPERADMIN may.
SPECIFICATION Spec
CONSTANTS
  Employees = {e1, e2}
  Founder = e1
  Emails = {m1, m2}
  FounderEmail = m1
  Designations = {d1}
  Roles = {"SUPERADMIN", "MANAGER"}
  None = None
  Workers = {w1, w2}
SYMMETRY StaffSymmetry
INVARIANTS TypeOK ManagersAreManagers LookupsAreBackedByKeys
