------------------------------ MODULE RmaTransition ------------------------------
(***************************************************************************)
(* TransitionToRMA() of the CM4 application: a system call over an IPC       *)
(* structure, a wait of at most one minute for its lock, and a status read   *)
(* from the argument of the call.  The SROM code that serves the call is not *)
(* part of the repository: it answers when it likes, or never.              *)
(***************************************************************************)
EXTENDS Naturals

CONSTANT IPC_STATUS_WAIT_TIME_S     \* 60

ASSUME WaitAssumption == IPC_STATUS_WAIT_TIME_S \in Nat \ {0}

VARIABLES
  at,            \* where TransitionToRMA is
  elapsedTime,
  lock,          \* who holds the IPC structure: "free", "other" or "rma"
  opcode,        \* of the argument: "request", then the status of the SROM
  lifecycle,     \* of the device
  printed,       \* what was printed about the transition
  result         \* what was returned

cm4 == <<at, elapsedTime, printed, result>>
vars == <<cm4, lock, opcode, lifecycle>>

\* The lock is taken, or somebody else's call is still being served.
SendMsgPtr ==
  /\ at = "send"
  /\ IF lock = "free" THEN lock' = "rma" /\ at' = "poll" /\ UNCHANGED result
                      ELSE at' = "done" /\ result' = "CY_IPC_DRV_ERROR" /\ UNCHANGED lock
  /\ UNCHANGED <<elapsedTime, opcode, lifecycle, printed>>

\* Fault: the wait ends as soon as the call has been looked at once.
Poll_Once ==
  /\ at = "poll"
  /\ at' = IF elapsedTime = 0 /\ lock # "free" THEN "delay" ELSE "read"
  /\ UNCHANGED <<elapsedTime, lock, opcode, lifecycle, printed, result>>

\* Fault: the wait has no limit.
Poll_ForEver ==
  /\ at = "poll"
  /\ at' = IF lock # "free" THEN "poll" ELSE "read"
  /\ UNCHANGED <<elapsedTime, lock, opcode, lifecycle, printed, result>>

\* Fault: one round too many.
Poll_OneMore ==
  /\ at = "poll"
  /\ at' = IF elapsedTime <= IPC_STATUS_WAIT_TIME_S /\ lock # "free" THEN "delay" ELSE "read"
  /\ UNCHANGED <<elapsedTime, lock, opcode, lifecycle, printed, result>>

Poll ==
  /\ at = "poll"
  /\ at' = IF elapsedTime < IPC_STATUS_WAIT_TIME_S /\ lock # "free" THEN "delay" ELSE "read"
  /\ UNCHANGED <<elapsedTime, lock, opcode, lifecycle, printed, result>>

Delay ==
  /\ at = "delay"
  /\ at' = "poll" /\ elapsedTime' = elapsedTime + 1
  /\ UNCHANGED <<lock, opcode, lifecycle, printed, result>>

\* Fault: everything but an error status counts as success.
ReadStatus_NoError ==
  /\ at = "read"
  /\ printed' = IF opcode = "error" THEN "failed" ELSE "successful"
  /\ result' = "CY_IPC_DRV_SUCCESS" /\ at' = "done"
  /\ UNCHANGED <<elapsedTime, lock, opcode, lifecycle>>

\* The status is read, and CY_IPC_DRV_SUCCESS returned, however the wait ended.
ReadStatus ==
  /\ at = "read"
  /\ printed' = IF opcode = "success" THEN "successful" ELSE "failed"
  /\ result' = "CY_IPC_DRV_SUCCESS" /\ at' = "done"
  /\ UNCHANGED <<elapsedTime, lock, opcode, lifecycle>>

TransitionToRMA == SendMsgPtr \/ Poll \/ Delay \/ ReadStatus

\* The SROM writes the status first and frees the structure afterwards.
Serve ==
  /\ lock = "rma" /\ opcode = "request"
  /\ \/ opcode' = "success" /\ lifecycle' = "RMA"
     \/ opcode' = "error" /\ UNCHANGED lifecycle
  /\ UNCHANGED <<cm4, lock>>

Release ==
  /\ lock = "other" \/ (lock = "rma" /\ opcode # "request")
  /\ lock' = "free"
  /\ UNCHANGED <<cm4, opcode, lifecycle>>

Init ==
  /\ at = "send" /\ elapsedTime = 0
  /\ lock \in {"free", "other"} /\ opcode = "request"
  /\ lifecycle = "SECURE"
  /\ printed = "nothing" /\ result = "FAILED"

Next == TransitionToRMA \/ Serve \/ Release

SafetySpec == Init /\ [][Next]_vars
\* The CM4 goes on; of the SROM nothing is assumed.
Spec == SafetySpec /\ WF_vars(TransitionToRMA)

----------------------------------------------------------------------------------
TypeOK ==
  /\ at \in {"send", "poll", "delay", "read", "done"}
  /\ elapsedTime \in 0..IPC_STATUS_WAIT_TIME_S
  /\ lock \in {"free", "other", "rma"}
  /\ opcode \in {"request", "success", "error"}
  /\ lifecycle \in {"SECURE", "RMA"}
  /\ printed \in {"nothing", "successful", "failed"}
  /\ result \in {"FAILED", "CY_IPC_DRV_SUCCESS", "CY_IPC_DRV_ERROR"}

\* Success is never announced for a device that is not in RMA, although the status
\* is also read when the wait ran out and the SROM is still at work.
NoFalseSuccess == printed = "successful" => lifecycle = "RMA"

\* Without an answer the call waits the full minute before it reports a failure.
WaitsFullTime ==
  printed = "failed" => opcode = "error" \/ elapsedTime = IPC_STATUS_WAIT_TIME_S

\* The call returns even if the SROM never frees the structure.
AlwaysReturns == <>(at = "done")

\* main.c:136 - "CY_IPC_DRV_SUCCESS on success", "CY_IPC_DRV_ERROR on failure".
ResultTellsOutcome == result = "CY_IPC_DRV_SUCCESS" => lifecycle = "RMA"
==================================================================================
