SPECIFICATION Spec
CONSTANTS
  t1 = t1
  t2 = t2
  m1 = m1
  m2 = m2
  Tasks = {t1, t2}
  Stoppers = {s1}
  Models = {m1}
  Limits = {2}
  SequenceLimit = 4
  Chunks = 1
  Layers = 1
  NoOne = NoOne
  NoModel = NoModel
  Word = Word
  EndTurn = EndTurn
INVARIANTS
  StopNotQueued
