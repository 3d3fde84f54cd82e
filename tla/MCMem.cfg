SPECIFICATION Spec
CONSTANTS
  Procs = {1, 2}
  Slots = {1, 2, 3}
  Requests = {50, 1000}
  BootCache = 1
  Boot = 58
  MaxOwned = 3
INVARIANTS MemoryAccounted ReadsBack AreasMatch ExecOk AllocatorsOk RbTreeOk
CHECK_DEADLOCK FALSE
