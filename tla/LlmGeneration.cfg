SPECIFICATION Spec
CONSTANTS
  t1 = t1
  t2 = t2
  m1 = m1
  m2 = m2
  Tasks = {t1, t2}
  Stoppers = {s1}
  Models = {m1, m2}
  Limits = {0, 2}
  SequenceLimit = 6
  Chunks = 2
  Layers = 1
  NoOne = NoOne
  NoModel = NoModel
  Word = Word
  EndTurn = EndTurn
SYMMETRY Symmetry
INVARIANTS
  SessionIsSound
PROPERTIES
  NoLostTurn
  OnlyWhole
