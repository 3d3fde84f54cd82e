SPECIFICATION Spec
INVARIANTS NoFreedInode LinkCounts LookupAssert NoLockCycle
CHECK_DEADLOCK FALSE
