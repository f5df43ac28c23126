CONSTANTS
  a1 = a1
  a2 = a2
  a3 = a3
  Null = Null
  Threads <- MCThreads
  Addrs <- MCAddrs
  Ops = 4

SPECIFICATION Spec
INVARIANT ReachableLive

\* the program ends when every worker has joined
CHECK_DEADLOCK FALSE
