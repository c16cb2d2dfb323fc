CONSTANT IPC_STATUS_WAIT_TIME_S = 60
SPECIFICATION Spec
CHECK_DEADLOCK FALSE
INVARIANTS ResultTellsOutcome
