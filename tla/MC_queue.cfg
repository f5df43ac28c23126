CONSTANTS
  None = None
  Messages = 10

SPECIFICATION Spec
INVARIANT TypeOK
INVARIANT FifoDelivery
PROPERTY DrainsAfterProducer

\* the program ends when both threads have joined
CHECK_DEADLOCK FALSE
