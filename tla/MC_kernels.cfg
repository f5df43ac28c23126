CONSTANTS
  None = None
  b1 = b1
  b2 = b2

SPECIFICATION Spec
INVARIANT TypeOK
INVARIANT PopsMatchTests
INVARIANT NoLostUpdate
INVARIANT NoSharedBuffer
INVARIANT ProcessedInOrder
PROPERTY Drained
PROPERTY ReachesTarget
PROPERTY BothFinish

\* each program ends when its threads have joined
CHECK_DEADLOCK FALSE
