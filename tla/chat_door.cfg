SPECIFICATION Spec
CONSTANTS
  None = None
  General = "general"
  Scopes <- MCScopes
  Issuers = {"widget"}
  AlgsOf <- MCAlgs
  LifetimeOf <- MCLifetimes
  Integrations = {"red", "blue"}
  SlugsOf <- MCSlugs
  LimitKeys = {"ann", "ip"}
  MaxHits = 2
  Window = 1
  MaxTracked = 1
  Slots = {1, 2}
  Requests <- DoorRequests
  KindOf <- MCKind
  Pages = {}
  PageTags <- MCTags
  ApiKeys = {"key"}
  MaxTurns = 2
  Clarifies = FALSE
  MaxRetries = 1
  TopK = 1
  AnswerTtl = 1
  AnswerEntries = 1
  IdemTtl = 1
  IdemEntries = 1
  Marks = {1}
  Threshold = 1
  MaxTime = 3
  MaxCalls = 3
  MaxChanges = 0
  MaxFailures = 0
CHECK_DEADLOCK FALSE
INVARIANTS
  TypeOK
  AnswersAreOwn
  NotOlderThanBothTtls
  AdmissionBounded
