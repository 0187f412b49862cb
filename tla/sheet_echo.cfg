SPECIFICATION Spec
CONSTANTS
  Clients = {ann, bob}
  NumKeys = 1
  Home = home
  Moves = {m1, m2}
  Budgets <- TwoDrags
  None = None
  Unmoved = Unmoved
  Gone = Gone
  Absent = Absent
  Blurred = Blurred
  Nobody = Nobody
SYMMETRY Symmetry
CHECK_DEADLOCK FALSE
INVARIANTS
  NoEcho
