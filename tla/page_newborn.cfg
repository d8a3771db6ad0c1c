SPECIFICATION FairSpec
CONSTANTS
  Marks = {none}
  NoMarks = none
  Accounts = {}
  Everybody = Everybody
  Group = {}
  NoId = NoId
  Ids = {d1, d2}
  Retain = 2
  Configs = {1, 2}
  Workers = {w1}
  Sweepers = {t1}
  MaxVersion = 3
  MaxChanges = 0
  MaxFailures = 0
  MaxRollbacks = 0
  MayRestore = FALSE
PROPERTY
  Mirrors
