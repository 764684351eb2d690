SPECIFICATION Spec
CONSTANTS
  Threads = {t1, t2}
  MaxPages = 3
  NumFrames = 2
  MaxVersion = 2
  NoPage = NoPage
  NoFrame = NoFrame
SYMMETRY Symmetry
INVARIANT TypeOK
INVARIANT TableConsistent
INVARIANT PinExact
INVARIANT HeldStays
INVARIANT NoLostUpdate
INVARIANT SweepAgrees
PROPERTY SecondChance
