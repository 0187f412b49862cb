SPECIFICATION Spec
CONSTANTS
  chat1 = chat1
  chat2 = chat2
  op1 = op1
  hello = hello
  bye = bye
  Ids <- ChatAndOp
  KindOf <- ChatAndOpKinds
  TextOf <- ChatAndOpTexts
  Probers = {q1}
  Gens = {g1, g2}
  SlashTexts = {}
  MaxQueue = 2
  Ops <- AllButPause
  Outcomes <- EveryOutcome
SYMMETRY Symmetry
INVARIANTS
  TypeOK
  OutcomeFindsItsItem
  AbortReachesSend
PROPERTIES
  CancelledStaysCancelled
