\* Saving, patching and restoring between every command of the debugger.
CONSTANTS
  RamWords = 3
  Workspace = {1}
  Data = {}
  Entry = 0
  BasicEntry = 1
  BasicAsmEntry = 1
  ProgramLengths = {}
  Word <- MCWord
  EBREAK = "ebreak"
  Zero = "zero"
  Kind <- MCKind
  Regs <- WatchRegs
  ResetRegs = 2
  Succ <- MCSucc
  Effective <- MCEffective
  Stored = {"add"}
  Services = {}
  Slots = {1}
  WatchSlots = {}
  Budgets = {1}
  Images <- SnapImages
  BasicImage <- NoPayload
  RetireCap = 0
  Patches = {"zero"}
  Contexts <- SnapContexts
SPECIFICATION SnapSpec
CONSTRAINT Unbroken
CHECK_DEADLOCK FALSE
INVARIANTS
  SnapInv
PROPERTY ImplementsSnapshotContract
