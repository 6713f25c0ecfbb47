SPECIFICATION Spec
CONSTANTS
  a = a
  b = b
  c = c
  t1 = t1
  t2 = t2
  f1 = f1
  f2 = f2
  Keys <- OneKey
  Texts = {t1, t2}
  Files = {f1, f2}
  UserReasons = {r1}
  RelTypes = {"uses"}
  Summaries = {s1}
  NoMemory = NoMemory
  NoReason = NoReason
  FileDeleted = FileDeleted
  NoRel = NoRel
  NoSession = NoSession
  Batches <- HistoryBatches
  Commits <- NoCommits
  ImportFiles <- HistoryFiles
  Routed <- RoutedAll
  RevCap = 2
  SessCap = 1
  MaxGen = 5
CHECK_DEADLOCK FALSE
PROPERTY HistoryComplete
