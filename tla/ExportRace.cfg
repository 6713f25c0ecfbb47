SPECIFICATION Spec
CONSTANTS
  a = a
  b = b
  t1 = t1
  t2 = t2
  Procs = {p1, p2}
  Keys <- Keys_
  Texts = {t1, t2}
  Links <- Links_
  NoRule = NoRule
  NoFile = NoFile
  NoState = NoState
  GitFiles <- GitFiles_
  MaxGen = 3
  MaxEdits = 0
  MaxCrashes = 0
INVARIANT NoOpIsSound
