SPECIFICATION Spec
CONSTANTS
  chat1 = chat1
  chat2 = chat2
  op1 = op1
  hello = hello
  bye = bye
  Ids <- TwoChats
  KindOf <- TwoChatsKinds
  TextOf <- TwoTexts
  Probers = {q1, q2}
  Gens = {g1, g2, g3}
  SlashTexts = {bye}
  MaxQueue = 2
  Ops <- OverlapOps
  Outcomes <- EveryOutcome
SYMMETRY Symmetry
INVARIANTS
  SingleDispatch
PROPERTIES
  NoDispatchWhileHeld
  WaitingSendIsLicensed
