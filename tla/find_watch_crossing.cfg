\* A watched access on the word of a permanent breakpoint.
CONSTANTS
  RamWords = 3
  Workspace = {}
  Data = {}
  Entry = 0
  BasicEntry = 1
  BasicAsmEntry = 1
  ProgramLengths = {}
  Word <- MCWord
  EBREAK = "ebreak"
  Zero = "zero"
  Kind <- MCKind
  Regs <- WatchRegs
  ResetRegs = 2
  Succ <- MCSucc
  Effective <- MCEffective
  Stored = {"beq0"}
  Services = {}
  Slots = {1}
  WatchSlots = {1}
  Budgets = {2}
  Images <- WatchImages
  BasicImage <- NoPayload
  RetireCap = 3
SPECIFICATION Spec
CHECK_DEADLOCK FALSE
PROPERTY WatchedAccessStops
