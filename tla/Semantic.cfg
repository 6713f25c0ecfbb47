SPECIFICATION FairSpec
CONSTANTS
  p1 = p1
  p2 = p2
  Procs <- TwoProcs
  Keys <- TwoKeys
  Texts = {t1, t2}
  NoText = NoText
  NoState = NoState
  NoProc = NoProc
  MaxWrites = 2
  MaxCommands = 3
  MaxCrashes = 1
CHECK_DEADLOCK FALSE
INVARIANT TypeOK
INVARIANT IndexMatchesRecords
INVARIANT AnswerIsTheHit
INVARIANT AnswersAreFresh
INVARIANT NoStrayIndexes
PROPERTY OnlyBuildEnables
PROPERTY KeepsPromise
PROPERTY CommandsEnd
