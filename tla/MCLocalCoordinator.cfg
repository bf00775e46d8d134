SPECIFICATION Spec
CONSTANTS
  Topics = {t1, t2}
  Keys = {k1, k2}
  NoHeader = NoHeader
  MaxRefs = 3
INVARIANTS
  TypeOK
  NoResidue
  ReleaseUndoesAcquire
  AcquireUndoesRelease
PROPERTY
  ImplementsCounters
