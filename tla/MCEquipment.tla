---------------------------- MODULE MCEquipment ----------------------------
EXTENDS Equipment, TLC

EquipmentSymmetry ==
  Permutations(Employees) \cup Permutations(Workers)
=============================================================================
