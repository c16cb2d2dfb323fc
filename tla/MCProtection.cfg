\* The three families, with assertions: a failing driver call stops the boot.
CONSTANTS
  Families = {512, 1024, 2048}
  Asserts = {TRUE}
  MaxResets = 1
SPECIFICATION Spec
CHECK_DEADLOCK FALSE
INVARIANTS TypeOK MemoryConfined BootloaderServed Cm4Served StartsOnlyLocked DfuReachesSecondaryOnly
PROPERTIES LockHolds
