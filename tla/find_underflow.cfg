SPECIFICATION Spec
CONSTANTS
  Single <- MCSingle
  Double <- MCDouble
  Loads <- MCLoads
  Fcsrs <- MCFcsrs
  MaxInstructions = 1
PROPERTY UnderflowAsInTheManual
CHECK_DEADLOCK FALSE
