SPECIFICATION Spec
CONSTANTS
  Clients = {ann, bob}
  NumKeys = 2
  Home = home
  Moves = {m1, m2}
  Budgets <- Everything
  None = None
  Unmoved = Unmoved
  Gone = Gone
  Absent = Absent
  Blurred = Blurred
  Nobody = Nobody
SYMMETRY Symmetry
CHECK_DEADLOCK FALSE
INVARIANTS
  TypeOK
  AgreedIsTheTable
  Converges
PROPERTIES
  HoldersKeepTheirLocks
  KeepsPromise
