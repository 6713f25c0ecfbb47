SPECIFICATION Spec
CONSTANTS
  a = a
  b = b
  c = c
  t1 = t1
  t2 = t2
  f1 = f1
  f2 = f2
  Keys <- TwoKeys
  Texts = {t1, t2}
  Files = {f1, f2}
  UserReasons = {}
  RelTypes = {"supersedes", "uses"}
  Summaries = {}
  NoMemory = NoMemory
  NoReason = NoReason
  FileDeleted = FileDeleted
  NoRel = NoRel
  NoSession = NoSession
  Batches <- StoreBatches
  Commits <- StoreCommits
  ImportFiles <- StoreFiles
  Routed <- RoutedFirst
  RevCap = 0
  SessCap = 0
  MaxGen = 5
CHECK_DEADLOCK FALSE
INVARIANT TypeOK
INVARIANT TablesMirrorMemories
INVARIANT RoutesReachAnchors
INVARIANT ImportsStayQuarantined
PROPERTY ContentBumpsGeneration
PROPERTY DirtyCoversCorpus
PROPERTY PromotionIsExplicit
