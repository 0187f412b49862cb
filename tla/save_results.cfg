SPECIFICATION FairSpec
CONSTANTS
  MaxRequests = 3
  Attempts = 2
  Orders <- AnyOrder
  NoEpoch = noEpoch
  Decks = {deckA}
  Epochs = {epoch1, epoch2}
  Ops <- EveryOp
CHECK_DEADLOCK FALSE
INVARIANTS
  TypeOK
  SavedIsStored
  FailedCopyIsNewer
PROPERTIES
  DiskNeverGoesBack
  EveryRequestIsAnswered
