SPECIFICATION FairSpec
CONSTANTS
  Marks = {none, m1}
  NoMarks = none
  Accounts = {a1, g1}
  Everybody = Everybody
  Group = {g1}
  NoId = NoId
  Ids = {d1, d2, d3, d4, d5}
  Retain = 2
  Configs = {1, 2}
  Workers = {w1}
  Sweepers = {}
  MaxVersion = 3
  MaxChanges = 2
  MaxFailures = 1
  MaxRollbacks = 0
  MayRestore = FALSE
INVARIANTS
  GoneIsHidden
  AclMatchesRegistry
PROPERTY
  Mirrors
