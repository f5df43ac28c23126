CONSTANTS
  NoThread = NoThread
  Threads <- MCThreads
  Ops = 4

SPECIFICATION Spec
INVARIANT TypeOK
PROPERTY StackRefinement

\* the program ends when every worker has joined
CHECK_DEADLOCK FALSE
