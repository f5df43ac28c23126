CONSTANT N = 3
SPECIFICATION Spec
PROPERTY SlowpathContinues
\* the program ends after cleanup, or runs astray
CHECK_DEADLOCK FALSE
