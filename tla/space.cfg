SPECIFICATION FairSpec
CONSTANTS
  None = None
  Pages <- MCPages
  Before <- MCBefore
  Parents <- MCParents
  LabelSets <- MCLabels
  General = "general"
  Recognized = {"general", "red", "blue"}
  Roots = {"r"}
  RootPage <- MCRootPage
  RootTags <- MCRootTags
  Versionless = {"page_updated"}
  MaxVersion = 3
  MaxChanges = 2
INVARIANT
  AcceptedEditIsCovered
PROPERTIES
  
  OutOfScopeIsHidden
CHECK_DEADLOCK FALSE
