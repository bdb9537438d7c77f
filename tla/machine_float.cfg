SPECIFICATION Spec
CONSTANTS
  Single <- MCSingle
  Double <- MCDouble
  Loads <- MCLoads
  Fcsrs <- MCFcsrs
  MaxInstructions = 1
PROPERTIES CorrectlyRounded IntegersSaturate
CHECK_DEADLOCK FALSE
