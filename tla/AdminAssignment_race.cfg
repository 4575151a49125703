\* One task, two admins, two concurrent transactions, three rows.
SPECIFICATION Spec
CONSTANTS
  a1 = a1
  a2 = a2
  r1 = r1
  r2 = r2
  c1 = c1
  c2 = c2
  Nobody = Nobody
  Requests = {r1}
  Stages = {"levi"}
  Admins = {a1, a2}
  Bots <- EveryBot
  Weight <- EqualWeight
  Preferred = {a1, a2}
  Linked = {}
  Claimed = {}
  Callers = {c1, c2}
  MaxRows = 3
SYMMETRY StaffSymmetry
INVARIANTS
  TypeOK
  UpdatesAreCurrent
PROPERTIES
  ClosedRowsFrozen
  ImplementsSlots
CHECK_DEADLOCK FALSE
