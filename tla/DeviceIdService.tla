---------------------------- MODULE DeviceIdService ----------------------------
(***************************************************************************)
(* What the two applications promise each other about the unique device    *)
(* ID, without cores, interrupts or IPC channels: the CM4 asks at most     *)
(* once per start, the CM0+ answers at most once and only when asked, the  *)
(* answer that is shown is the device ID, and the firmware update starts   *)
(* after it has been shown.  A request may stay unanswered (the code can   *)
(* lose it), an answer may not stay unused.                                *)
(***************************************************************************)
EXTENDS Naturals

CONSTANTS DeviceId,     \* the word kept in the protected storage
          NoWord        \* nothing has been shown yet

VARIABLES phase, shown

vars == <<phase, shown>>

Phases == {"off", "asked", "answered", "shown", "updating"}

Init == phase = "off" /\ shown = NoWord

Move(from, to) == phase = from /\ phase' = to

Ask    == Move("off", "asked") /\ UNCHANGED shown
Answer == Move("asked", "answered") /\ UNCHANGED shown
Show   == Move("answered", "shown") /\ shown' = DeviceId
Begin  == Move("shown", "updating") /\ UNCHANGED shown

\* A system reset forgets the exchange at any point of it.
Reset  == phase # "off" /\ phase' = "off" /\ shown' = NoWord

Next == Ask \/ Answer \/ Show \/ Begin \/ Reset

Safety == Init /\ [][Next]_vars
Liveness == WF_vars(Show) /\ WF_vars(Begin)
Spec == Safety /\ Liveness
================================================================================
