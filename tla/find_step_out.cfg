\* A recursion, left by step-out.
SPECIFICATION DebugSpec
CONSTANTS
  Words = 16
  Programs <- MCRecursive
  Lines <- MCLines
  MaxRunSteps = 20
  MaxHistory = 4
  MaxUndo = 2
  Commands <- MCDeepCommands
  Budget <- MCDeepBudget
  Class <- MCOneClass
  MaxCommands = 5
  Opening = {"any"}
  Earlier = "recursive"
  TrapVector = 0
CHECK_DEADLOCK FALSE
PROPERTY StepOutLeaves
