SPECIFICATION Spec
CONSTANTS
  a = a
  b = b
  c = c
  t1 = t1
  t2 = t2
  f1 = f1
  f2 = f2
  Keys <- ThreeKeys
  Texts = {t1}
  Files = {}
  UserReasons = {}
  RelTypes = {"supersedes", "uses"}
  Summaries = {}
  NoMemory = NoMemory
  NoReason = NoReason
  FileDeleted = FileDeleted
  NoRel = NoRel
  NoSession = NoSession
  Batches <- GraphBatches
  Commits <- GraphCommits
  ImportFiles <- GraphFiles
  Routed <- RoutedAll
  RevCap = 0
  SessCap = 0
  MaxGen = 5
CHECK_DEADLOCK FALSE
INVARIANT SupersedesAcyclic
INVARIANT SupersedesEndpointsExist
