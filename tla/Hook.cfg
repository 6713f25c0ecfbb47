SPECIFICATION HookSpec
CONSTANTS
  t1 = t1
  t2 = t2
  x1 = x1
  h1 = h1
  h2 = h2
  s = s
  f = f
  k1 = k1
  NoCommit = NoCommit
  NoKind = NoKind
  NoScope = NoScope
  NoKey = NoKey
  NoEntity = NoEntity
  Keys <- TwoKeys
  Texts <- SomeTexts
  Files = {f}
  UserReasons = {outdated}
  RelTypes = {"supersedes"}
  Summaries <- SessionTexts
  NoMemory = NoMemory
  NoReason = NoReason
  FileDeleted = FileDeleted
  NoRel = NoRel
  NoSession = NoSession
  Batches <- OneBatch
  Commits <- AllCaptures
  ImportFiles = {}
  Routed <- RoutedAll
  RevCap = 0
  SessCap = 3
  MaxGen = 3
  GitCommits <- SixCommits
  Hooks <- TwoHooks
  MaxHeads = 1
  MaxRuns = 2
SYMMETRY SameHooks
CHECK_DEADLOCK FALSE
INVARIANT OneSessionPerCommit
INVARIANT StatedContentIsKept
PROPERTY AutomaticCapturesOnlyAdd
