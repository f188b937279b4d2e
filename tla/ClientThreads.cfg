SPECIFICATION Spec
CONSTANT MaxEvents = 2
INVARIANTS TypeOK IInv LocksSucceed LeavesOnlyMisled NoDeadlock
PROPERTY KeepsWorking
CHECK_DEADLOCK FALSE
