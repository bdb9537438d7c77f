SPECIFICATION Spec
CONSTANTS
  Pool <- MCPool
  MaxLines = 4
  Files <- MCFiles
  Options <- MCOptions
  Holes <- MCHoles
  LocalNames = {".L"}
  MaxDefinitions = 1
  MaxBody = 2
  MaxParameters = 1
  MaxMacroDepth = 2
  MaxExpanded = 27
  MaxConditional = 2
  MaxIncludeDepth = 2
  MaxIncludeBytes = 200
  MaxIncludeFiles = 2
INVARIANTS LabelsAreReached
CHECK_DEADLOCK FALSE
