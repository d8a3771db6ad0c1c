SPECIFICATION FairSpec
CONSTANTS
  None = None
  General = "general"
  Scopes <- MCScopes
  Issuers = {"widget"}
  AlgsOf <- MCAlgs
  LifetimeOf <- MCLifetimes
  Integrations = {"red", "blue"}
  SlugsOf <- MCSlugs
  LimitKeys = {"ann", "bob", "ip"}
  MaxHits = 2
  Window = 1
  MaxTracked = 1
  Slots = {1, 2}
  Requests <- AnswerRequests
  KindOf <- MCKind
  Pages = {"p"}
  PageTags <- MCTags
  ApiKeys = {"key"}
  MaxTurns = 2
  Clarifies = TRUE
  MaxRetries = 1
  TopK = 1
  AnswerTtl = 1
  AnswerEntries = 1
  IdemTtl = 1
  IdemEntries = 1
  Marks = {1}
  Threshold = 1
  MaxTime = 0
  MaxCalls = 2
  MaxChanges = 1
  MaxFailures = 1
CHECK_DEADLOCK FALSE
INVARIANTS
  TraceMatchesReply
PROPERTY
  CitedWasPermitted
  EveryRequestSettles
