\* Every command on memory, breakpoints and watchpoints, and programs that store.
CONSTANTS
  RamWords = 3
  Workspace = {1}
  Data = {2}
  Entry = 0
  BasicEntry = 1
  BasicAsmEntry = 1
  ProgramLengths = {1}
  Word <- MCWord
  EBREAK = "ebreak"
  Zero = "zero"
  Kind <- MCKind
  Regs <- EditRegs
  ResetRegs = 1
  Succ <- MCSucc
  Effective <- MCEffective
  Stored = {"add", "ebreak"}
  Services = {}
  Slots = {1}
  WatchSlots = {}
  Budgets = {1}
  Images <- EditImages
  BasicImage <- EditPayload
  RetireCap = 2
SPECIFICATION Spec
CHECK_DEADLOCK FALSE
INVARIANTS
  Inv
PROPERTY ImplementsContract
