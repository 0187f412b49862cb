SPECIFICATION FairSpec
CONSTANTS
  a1 = a1
  workspace = workspace
  repo1 = repo1
  repo2 = repo2
  NoDir = noDir
  Asks <- OneAsk
  Dirs <- WorkspaceAndRepo
  Repos <- TwoRepos
  First = workspace
  DirOf <- InRepository
  InPhase = TRUE
  Mapped <- ToNone
  Resolved <- ToRepository
  StatusRows <- ToNone
  Global = global
  Changing = {repo2}
PROPERTIES
  EveryCoveredAskIsAnswered
CHECK_DEADLOCK FALSE
