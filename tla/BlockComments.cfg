SPECIFICATION Spec
CONSTANT Sources <- Commented
PROPERTY LaidOutIsParsed
CHECK_DEADLOCK FALSE
