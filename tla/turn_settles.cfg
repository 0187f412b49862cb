SPECIFICATION FairSpec
CONSTANTS
  NoSend = NoSend
  Sends = {s1, s2}
  MaxOpen = 2
  Registered = TRUE
  Ops <- NoExternalTurns
  Outcomes = {"answer", "rejected"}
PROPERTIES
  LostResponseSettles
  BusyRowIsCorrected
