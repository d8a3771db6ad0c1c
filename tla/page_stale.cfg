SPECIFICATION Spec
CONSTANTS
  Marks = {none}
  NoMarks = none
  Accounts = {}
  Everybody = Everybody
  Group = {}
  NoId = NoId
  Ids = {d1, d2, d3, d4}
  Retain = 2
  Configs = {1, 2}
  Workers = {w1, w2}
  Sweepers = {}
  MaxVersion = 3
  MaxChanges = 2
  MaxFailures = 0
  MaxRollbacks = 0
  MayRestore = FALSE
PROPERTY
  NeverOlder
