SPECIFICATION Spec
CONSTANTS
  src = src
  api = api
  db = db
  v1 = v1
  auth = auth
  mod = mod
  Mod = Mod
  the = the
  w1 = w1
  w2 = w2
  Generic <- GenericNames
  Folded <- Fold
  DirRoutes = 2
  Paths <- AllPaths
  Questions <- SomeQuestions
  ExactRows = 2
  MinRows = 1
  MaxRows = 3
  MinCandidates = 1
  MaxCandidates = 4
  Stores <- SomeStores
  Links <- SomeLinks
  Scoped <- SomeScoped
  KeyLists <- SomeKeyLists
  MaxLimit = 5
  Corpora <- SomeCorpora
  Queries <- SomeQueries
  StopWords = {the}
  MaxFound = 3
  MaxNear = 2
  MaxBytes = 16384
  NoticeBytes = 30
  ExplainBytes = 2048
  GlobalBytes = 2560
  MetaBytes = 1536
CHECK_DEADLOCK FALSE
INVARIANT NoMatchLost
INVARIANT ClosestMemoryShown
INVARIANT EveryClassHasItsSlot
INVARIANT ShortOnlyByArchived
INVARIANT InnerRelationsFirst
INVARIANT TextNeverCut
INVARIANT NoStoreStarves
INVARIANT FusionKeepsBothRankings
