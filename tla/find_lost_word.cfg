\* A word of the program under the EBREAK of a step that a service has cut short.
CONSTANTS
  RamWords = 4
  Workspace = {1, 2, 3}
  Data = {}
  Entry = 0
  BasicEntry = 1
  BasicAsmEntry = 1
  ProgramLengths = {}
  Word <- MCWord
  EBREAK = "ebreak"
  Zero = "zero"
  Kind <- MCKind
  Regs <- CoreRegs
  ResetRegs = 1
  Succ <- MCSucc
  Effective <- MCEffective
  Stored = {}
  Services = {"io", "exit", "unknown"}
  Slots = {1, 2}
  WatchSlots = {}
  Budgets = {1, 2}
  Images <- CoreImages
  BasicImage <- NoPayload
  RetireCap = 3
SPECIFICATION Spec
CHECK_DEADLOCK FALSE
INVARIANT TextRecoverable
