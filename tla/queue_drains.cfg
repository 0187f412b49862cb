SPECIFICATION FairSpec
CONSTANTS
  chat1 = chat1
  chat2 = chat2
  op1 = op1
  hello = hello
  bye = bye
  Ids <- TwoChatsAndOp
  KindOf <- SameTextKinds
  TextOf <- SameText
  Probers = {q1}
  Gens = {g1, g2}
  SlashTexts = {}
  MaxQueue = 2
  Ops <- InsertOps
  Outcomes <- NoTransient
INVARIANTS
  QueueHoldsItsItems
PROPERTIES
  QueueDrains
