SPECIFICATION FairSpec
CONSTANTS
  a = a
  b = b
  t1 = t1
  t2 = t2
  Procs = {p1}
  Keys <- Keys_
  Texts = {t1, t2}
  Links <- Links_
  NoRule = NoRule
  NoFile = NoFile
  NoState = NoState
  GitFiles <- GitFiles_
  MaxGen = 2
  MaxEdits = 2
  MaxCrashes = 1
INVARIANT NoOpIsSound
INVARIANT SharedInRealTime
PROPERTY Converges
PROPERTY SharesInOneInstant
