\* One item, one category, two employees.  Two workers: all requests interleave.
SPECIFICATION Spec
CONSTANTS
  Items = {i1}
  NoItem = NoItem
  Categories = {c1}
  NoCategory = NoCategory
  Employees = {e1, e2}
  NoEmployee = NoEmployee
  Workers = {w1, w2}
  NoWorker = NoWorker
  Quantities = {1, 2}
  Totals = {1, 2}
  Sharing = {TRUE, FALSE}
  MaxRows = 2
  MaxQuantity = 3
SYMMETRY EquipmentSymmetry
INVARIANTS TypeOK NoUnitIsLost
PROPERTIES OnlyUpdatesUnbalance ImplementsInventory
