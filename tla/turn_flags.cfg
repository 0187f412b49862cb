SPECIFICATION Spec
CONSTANTS
  NoSend = NoSend
  Sends = {s1, s2}
  MaxOpen = 2
  Registered = TRUE
  Ops <- EveryOp
  Outcomes <- EveryOutcome
SYMMETRY Symmetry
INVARIANTS
  TypeOK
PROPERTIES
  CutIsKnownAsReleased
