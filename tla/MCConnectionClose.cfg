CONSTANT
  Messages = {m1, m2}
SPECIFICATION Spec
PROPERTY GracefulCloseEnds
CHECK_DEADLOCK FALSE
