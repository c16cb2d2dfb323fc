-------------------------- MODULE RmaTransition_proofs --------------------------
(***************************************************************************)
(* Proofs about RmaTransition: for any length of the wait and whatever the  *)
(* SROM does, no false success and no early failure.                       *)
(***************************************************************************)
EXTENDS RmaTransition, TLAPS

\* Each step keeps the types of the variables.
LEMMA TypeStep ==
  TypeOK /\ (at = "delay" => elapsedTime < IPC_STATUS_WAIT_TIME_S) /\ [Next]_vars
    => TypeOK'
<1> SUFFICES ASSUME TypeOK, at = "delay" => elapsedTime < IPC_STATUS_WAIT_TIME_S,
                    [Next]_vars
             PROVE  TypeOK'
  OBVIOUS
<1> USE WaitAssumption DEF TypeOK, cm4
<1>1. CASE SendMsgPtr BY <1>1 DEF SendMsgPtr
<1>2. CASE Poll BY <1>2 DEF Poll
<1>3. CASE Delay BY <1>3 DEF Delay
<1>4. CASE ReadStatus BY <1>4 DEF ReadStatus
<1>5. CASE Serve BY <1>5 DEF Serve
<1>6. CASE Release BY <1>6 DEF Release
<1>7. CASE UNCHANGED vars BY <1>7 DEF vars
<1> QED
  BY <1>1, <1>2, <1>3, <1>4, <1>5, <1>6, <1>7 DEF Next, TransitionToRMA

\* Who can hold the structure and what its argument can say, by the place of the call.
CallPath ==
  /\ at = "send" => lock # "rma"
  /\ at \in {"poll", "delay", "read"} => lock # "other"
  /\ at \in {"poll", "delay", "read"} /\ lock = "free" => opcode # "request"
  /\ at = "delay" => elapsedTime < IPC_STATUS_WAIT_TIME_S
  /\ at = "read" => elapsedTime = IPC_STATUS_WAIT_TIME_S \/ lock = "free"

\* What is printed is printed at the end, and a success of the SROM is one.
Outcome ==
  /\ printed # "nothing" => at = "done"
  /\ opcode = "success" => lifecycle = "RMA"

\* Neither NoFalseSuccess nor WaitsFullTime is inductive: the status that is read when
\* the wait ends depends on who released the structure, and after what.
RmaInv == TypeOK /\ CallPath /\ Outcome /\ NoFalseSuccess /\ WaitsFullTime

\* A step keeps the call on its path.
LEMMA CallStep == RmaInv /\ [Next]_vars => CallPath'
<1> SUFFICES ASSUME RmaInv, [Next]_vars PROVE CallPath'
  OBVIOUS
<1> USE WaitAssumption DEF RmaInv, TypeOK, CallPath, cm4
<1>1. CASE SendMsgPtr BY <1>1 DEF SendMsgPtr
<1>2. CASE Poll BY <1>2 DEF Poll
<1>3. CASE Delay BY <1>3 DEF Delay
<1>4. CASE ReadStatus BY <1>4 DEF ReadStatus
<1>5. CASE Serve BY <1>5 DEF Serve
<1>6. CASE Release BY <1>6 DEF Release
<1>7. CASE UNCHANGED vars BY <1>7 DEF vars
<1> QED
  BY <1>1, <1>2, <1>3, <1>4, <1>5, <1>6, <1>7 DEF Next, TransitionToRMA

\* A step keeps what is printed true.
LEMMA OutcomeStep ==
  RmaInv /\ [Next]_vars => Outcome' /\ NoFalseSuccess' /\ WaitsFullTime'
<1> SUFFICES ASSUME RmaInv, [Next]_vars
             PROVE  Outcome' /\ NoFalseSuccess' /\ WaitsFullTime'
  OBVIOUS
<1> USE DEF RmaInv, TypeOK, CallPath, Outcome, NoFalseSuccess, WaitsFullTime, cm4
<1>1. CASE SendMsgPtr BY <1>1 DEF SendMsgPtr
<1>2. CASE Poll BY <1>2 DEF Poll
<1>3. CASE Delay BY <1>3 DEF Delay
<1>4. CASE ReadStatus BY <1>4 DEF ReadStatus
<1>5. CASE Serve BY <1>5 DEF Serve
<1>6. CASE Release BY <1>6 DEF Release
<1>7. CASE UNCHANGED vars BY <1>7 DEF vars
<1> QED
  BY <1>1, <1>2, <1>3, <1>4, <1>5, <1>6, <1>7 DEF Next, TransitionToRMA

\* The strengthened invariant holds whatever the SROM does.
LEMMA RmaInvariant == SafetySpec => []RmaInv
<1>1. Init => RmaInv
  BY WaitAssumption
  DEF Init, RmaInv, TypeOK, CallPath, Outcome, NoFalseSuccess, WaitsFullTime
<1>2. RmaInv /\ [Next]_vars => TypeOK'
  BY TypeStep DEF RmaInv, CallPath
<1>3. RmaInv /\ [Next]_vars => RmaInv'
  BY <1>2, CallStep, OutcomeStep DEF RmaInv
<1> QED BY <1>1, <1>3, PTL DEF SafetySpec

\* The variables keep their types, the counter its bound.
THEOREM TypeCorrect == SafetySpec => []TypeOK
<1>1. RmaInv => TypeOK BY DEF RmaInv
<1> QED BY <1>1, RmaInvariant, PTL

\* TransitionToRMA announces no transition that did not happen, however the SROM's
\* answer and the end of the wait fall together.
THEOREM SuccessIsTrue == SafetySpec => []NoFalseSuccess
<1>1. RmaInv => NoFalseSuccess BY DEF RmaInv
<1> QED BY <1>1, RmaInvariant, PTL

\* And it reports no failure before the SROM did or the full time has passed.
THEOREM FailureIsLate == SafetySpec => []WaitsFullTime
<1>1. RmaInv => WaitsFullTime BY DEF RmaInv
<1> QED BY <1>1, RmaInvariant, PTL
=================================================================================
