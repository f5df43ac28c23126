CONSTANTS
  None = None
  Messages = 10

SPECIFICATION Spec
PROPERTY Termination

\* the program ends when both threads have joined
CHECK_DEADLOCK FALSE
