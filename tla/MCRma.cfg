\* The wait of the source: sixty rounds of one second.
CONSTANT IPC_STATUS_WAIT_TIME_S = 60
SPECIFICATION Spec
CHECK_DEADLOCK FALSE
INVARIANTS TypeOK NoFalseSuccess WaitsFullTime
PROPERTIES AlwaysReturns
