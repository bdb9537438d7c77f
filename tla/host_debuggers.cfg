SPECIFICATION DebugSpec
CONSTANTS
  Words = 8
  Programs <- MCPrograms
  Lines <- MCLines
  MaxRunSteps = 5
  MaxHistory = 4
  MaxUndo = 2
  Commands <- MCCommands
  Budget <- MCBudget
  Class <- MCClass
  MaxCommands = 5
  Opening = {"load"}
  Earlier = "leaf"
  TrapVector = 0
INVARIANTS HistoryIsPath FramesAreCalls SameDebugger IdsAreFresh
PROPERTIES BreakpointsStop StepsReturn
CHECK_DEADLOCK FALSE
