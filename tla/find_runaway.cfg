\* A program whose store lands on the temporary EBREAK of a bounded run.
CONSTANTS
  RamWords = 3
  Workspace = {}
  Data = {}
  Entry = 0
  BasicEntry = 1
  BasicAsmEntry = 1
  ProgramLengths = {}
  Word <- MCWord
  EBREAK = "ebreak"
  Zero = "zero"
  Kind <- MCKind
  Regs <- WatchRegs
  ResetRegs = 2
  Succ <- MCSucc
  Effective <- MCEffective
  Stored = {"beq0"}
  Services = {}
  Slots = {1}
  WatchSlots = {1}
  Budgets = {2}
  Images <- WatchImages
  BasicImage <- NoPayload
  RetireCap = 3
SPECIFICATION FairSpec
CHECK_DEADLOCK FALSE
PROPERTY RunReturnsToPrompt
