SPECIFICATION Spec
CONSTANTS
  o = o
  g = g
  e1 = e1
  p1 = p1
  u1 = u1
  v1 = v1
  x1 = x1
  Edits = {e1}
  Parts = {p1}
  Puts = {u1}
  Posts = {v1}
  Exts = {x1}
  Savers = {o, g}
  ForFlush = flushsave
  Scenes <- MCScenes
  NoFile = nofile
INVARIANTS
  TypeOK
  ChainHoldsCalls
  NoCircularWait
  
PROPERTIES
  NoUpdateIsOverwritten
  ExternalSurvives
CHECK_DEADLOCK FALSE
