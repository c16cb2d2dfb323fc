--------------------------------- MODULE DfuTask ---------------------------------
(***************************************************************************)
(* The loop of dfu_task from the moment it may talk to the host: one        *)
(* Cy_DFU_Continue per round, what the loop does with each outcome, and the *)
(* host at the other end of a UART that may lose or garble packets.        *)
(*                                                                         *)
(* Cy_DFU_Continue and the host tool are not part of the repository; they   *)
(* are modelled from how dfu_task uses them.  The host sends one command at *)
(* a time and waits for its response: Enter, one command per row, Exit.     *)
(***************************************************************************)
EXTENDS Naturals, Sequences

CONSTANTS Rows,        \* rows of an image
          Images,      \* images a host may send
          Signed,      \* those that the key of the bootloader validates
          Factory,     \* the image the device runs at first
          Blank,       \* content of an erased row
          Limit,       \* rounds of silence that end a session: 5000 / paramsTimeout
          CountMod,    \* count is a uint32_t: 2^32
          MaxFaults,   \* bound on lost or garbled packets and power cycles
          HostPaces    \* may the host, while it is there, be silent for 5 seconds?

ASSUME RowsAssumption == Rows \in Nat \ {0}
ASSUME ImagesAssumption == Signed \subseteq Images /\ Blank \notin Images \cup {Factory}
ASSUME LimitAssumption == Limit \in Nat \ {0} /\ CountMod \in Nat /\ Limit < CountMod
ASSUME FaultsAssumption == MaxFaults \in Nat /\ HostPaces \subseteq {"prompt", "slow"}

VARIABLES
  at,          \* where dfu_task is
  state,       \* state, status and count of dfu_task
  status,
  count,
  slot,        \* the rows of the secondary slot
  running,     \* the image in the primary slot
  rx,          \* packets in the receive buffer of the UART
  tx,          \* the response on its way to the host
  image,       \* the image the host sends
  next,        \* its next command: 0 is Enter, Rows + 1 is Exit
  host,        \* "send", "wait" for a response, "done" or "left"
  pace,        \* see HostPaces
  quiet,       \* rounds since the device last read a packet, up to Limit
  faults

task == <<at, state, status, count>>
link == <<rx, tx>>
peer == <<image, next, host, pace>>
vars == <<task, slot, running, link, peer, quiet, faults>>

Enter == 0
Exit == Rows + 1
Garbled == Rows + 2

Holds(img) == \A r \in 1..Rows : slot[r] = img
\* Cy_DFU_ValidateApp, and MCUboot's own validation of the secondary slot.
Valid == \E img \in Signed : Holds(img)
\* The request for an upgrade is in the last row, as in SecureBoot.
Pending == slot[Rows] # Blank
Erased == [r \in 1..Rows |-> Blank]

----------------------------------------------------------------------------------
(* dfu_task().                                                             *)

\* All that has arrived is read as one packet, whose end is a pause.
Packet == IF Len(rx) = 1 THEN rx[1] ELSE Garbled

\* Fault: a row that was not written is acknowledged.
Accept_Unwritten(command) ==
  \/ /\ command \in {Enter} \cup 1..Rows
     /\ command = Enter \/ state = "UPDATING"
     /\ state' = "UPDATING" /\ status' = "SUCCESS" /\ tx' = "ok"
     /\ UNCHANGED slot
  \/ /\ command = Exit /\ state = "UPDATING"
     /\ state' = "FINISHED" /\ status' = "SUCCESS"
     /\ UNCHANGED <<slot, tx>>

\* What Cy_DFU_Continue makes of a packet: the new state, its status and the
\* response.  Exit is not answered.
Accept(command) ==
  \/ /\ command = Enter
     /\ state' = "UPDATING" /\ status' = "SUCCESS" /\ tx' = "ok"
     /\ UNCHANGED slot
  \/ /\ command \in 1..Rows /\ state = "UPDATING"
     /\ slot' = [slot EXCEPT ![command] = image]
     /\ status' = "SUCCESS" /\ tx' = "ok"
     /\ UNCHANGED state
  \/ /\ command = Exit /\ state = "UPDATING"
     /\ state' = "FINISHED" /\ status' = "SUCCESS"
     /\ UNCHANGED <<slot, tx>>
Refuse(command) ==
  /\ command = Garbled \/ (command # Enter /\ state = "NONE")
  /\ state' \in {state, "FAILED"}
  /\ status' = "ERROR" /\ tx' = "error"
  /\ UNCHANGED slot

\* The host is at the point of sending, or has a response to act on.
HostBusy == host = "send" \/ (host = "wait" /\ tx # "none")

\* Fault: a wider counter than the constants allow for.
CountRound_Wider == count' = count + 1

\* count is a uint32_t.
CountRound == count' = (count + 1) % CountMod

Continue ==
  /\ at = "continue"
  /\ \/ /\ rx # <<>>
        /\ Accept(Packet) \/ Refuse(Packet)
        /\ rx' = <<>> /\ quiet' = 0
     \/ /\ rx = <<>>
        /\ pace = "prompt" => ~(HostBusy /\ quiet + 1 >= Limit)
        /\ status' = "TIMEOUT"
        /\ quiet' = IF quiet < Limit THEN quiet + 1 ELSE Limit
        /\ UNCHANGED <<state, slot, rx, tx>>
  /\ CountRound
  /\ at' = "handle"
  /\ UNCHANGED <<running, peer, faults>>

TransportReset == rx' = <<>> /\ tx' = "none"
RestartLoading == state' = "NONE" /\ TransportReset

\* Fault: rounds are compared with milliseconds.
passed5seconds_Units == count >= Limit * CountMod

passed5seconds == count >= Limit

HandleFinished ==
  /\ at = "handle" /\ state = "FINISHED"
  /\ at' = "validate"
  /\ UNCHANGED <<state, status, count, slot, running, link, peer, quiet, faults>>

HandleFailed ==
  /\ at = "handle" /\ state = "FAILED"
  /\ RestartLoading
  /\ at' = "continue"
  /\ UNCHANGED <<status, count, slot, running, peer, quiet, faults>>

\* Fault: a command does not restart the five seconds.
HandleCommand_CountKept ==
  /\ at = "handle" /\ state = "UPDATING" /\ status = "SUCCESS"
  /\ at' = "continue"
  /\ UNCHANGED <<state, status, count, slot, running, link, peer, quiet, faults>>

HandleCommand ==
  /\ at = "handle" /\ state = "UPDATING" /\ status = "SUCCESS"
  /\ count' = 0
  /\ at' = "continue"
  /\ UNCHANGED <<state, status, slot, running, link, peer, quiet, faults>>

HandleTimeout ==
  /\ at = "handle" /\ state = "UPDATING" /\ status = "TIMEOUT"
  /\ IF passed5seconds THEN RestartLoading /\ count' = 0
                       ELSE UNCHANGED <<state, count, link>>
  /\ at' = "continue"
  /\ UNCHANGED <<status, slot, running, peer, quiet, faults>>

\* The delay leaves time for the error response.
HandleError ==
  /\ at = "handle" /\ state = "UPDATING" /\ status = "ERROR"
  /\ count' = 0
  /\ at' = "drain"
  /\ UNCHANGED <<state, status, slot, running, link, peer, quiet, faults>>

Drain ==
  /\ at = "drain"
  /\ RestartLoading
  /\ at' = "continue"
  /\ UNCHANGED <<status, count, slot, running, peer, quiet, faults>>

HandleNone ==
  /\ at = "handle" /\ state = "NONE"
  /\ at' = "continue"
  /\ UNCHANGED <<state, status, count, slot, running, link, peer, quiet, faults>>

\* Fault: Cy_DFU_ExecuteApp is left out, so that loading only starts over.
Validate_NoReset ==
  /\ at = "validate"
  /\ status' = "SUCCESS" /\ RestartLoading
  /\ at' = "continue"
  /\ UNCHANGED <<count, slot, running, peer, quiet, faults>>

\* A valid image: the UART is stopped.  Otherwise loading is set up afresh, but
\* Cy_DFU_ExecuteApp is called all the same.
Validate ==
  /\ at = "validate"
  /\ IF Valid THEN status' = "SUCCESS" /\ UNCHANGED <<state, link>>
              ELSE status' = "ERROR_VERIFY" /\ RestartLoading
  /\ at' = "execute"
  /\ UNCHANGED <<count, slot, running, peer, quiet, faults>>

\* Fault: whatever is in the slot is installed.
Reboot_Unvalidated ==
  /\ at' = "off" /\ state' = "NONE" /\ status' = "SUCCESS" /\ count' = 0
  /\ TransportReset
  /\ running' = slot[1] /\ slot' = [slot EXCEPT ![Rows] = Blank]
  /\ quiet' = 0
  /\ UNCHANGED peer

\* The reset and boot_go(): a valid image is copied to the primary slot and its request
\* withdrawn, a pending upgrade that does not validate is erased.
Reboot ==
  /\ at' = "off" /\ state' = "NONE" /\ status' = "SUCCESS" /\ count' = 0
  /\ TransportReset
  /\ IF Valid THEN running' = slot[1] /\ slot' = [slot EXCEPT ![Rows] = Blank]
              ELSE slot' = (IF Pending THEN Erased ELSE slot) /\ UNCHANGED running
  /\ quiet' = 0
  /\ UNCHANGED peer

ExecuteApp == at = "execute" /\ Reboot /\ UNCHANGED faults

\* The application is up again and the UART started: the wait for the device ID
\* before the loop is DeviceIdExchange's, and is taken to have ended.
TransportStart ==
  /\ at = "off"
  /\ at' = "continue"
  /\ UNCHANGED <<state, status, count, slot, running, link, peer, quiet, faults>>

Task == Continue \/ HandleFinished \/ HandleFailed \/ HandleCommand \/ HandleTimeout
          \/ HandleError \/ Drain \/ HandleNone \/ Validate \/ ExecuteApp \/ TransportStart

----------------------------------------------------------------------------------
(* The host and the line.                                                  *)

UartOn == at # "off" /\ ~(at = "execute" /\ status = "SUCCESS")

HostSend ==
  /\ host = "send"
  /\ rx' = IF UartOn THEN Append(rx, next) ELSE rx
  /\ host' = IF next = Exit THEN "done" ELSE "wait"
  /\ UNCHANGED <<task, slot, running, tx, image, next, pace, quiet, faults>>

\* An error sends the host back to the start.
HostReceive ==
  /\ host = "wait" /\ tx # "none"
  /\ next' = IF tx = "ok" THEN next + 1 ELSE Enter
  /\ host' = "send" /\ tx' = "none"
  /\ UNCHANGED <<task, slot, running, rx, image, pace, quiet, faults>>

\* No response is coming any more.
HostTimeout ==
  /\ host = "wait" /\ tx = "none" /\ rx = <<>>
  /\ next' = Enter /\ host' = "send"
  /\ UNCHANGED <<task, slot, running, link, image, pace, quiet, faults>>

\* The transfer is over and the device still runs another image.
HostRepeat ==
  /\ host = "done" /\ running # image
  /\ rx = <<>> /\ state = "NONE"
  /\ next' = Enter /\ host' = "send"
  /\ UNCHANGED <<task, slot, running, link, image, pace, quiet, faults>>

HostLeaves ==
  /\ host \in {"send", "wait"}
  /\ host' = "left"
  /\ UNCHANGED <<task, slot, running, link, image, next, pace, quiet, faults>>

Fault == faults < MaxFaults /\ faults' = faults + 1

PacketGarbled ==
  /\ Fault /\ rx # <<>>
  /\ rx' = <<Garbled>>
  /\ UNCHANGED <<task, slot, running, tx, peer, quiet>>
PacketLost ==
  /\ Fault /\ rx # <<>>
  /\ rx' = <<>>
  /\ UNCHANGED <<task, slot, running, tx, peer, quiet>>
ResponseLost ==
  /\ Fault /\ tx # "none"
  /\ tx' = "none"
  /\ UNCHANGED <<task, slot, running, rx, peer, quiet>>
PowerCycle == Fault /\ Reboot

Host == HostSend \/ HostReceive \/ HostTimeout \/ HostRepeat
Faults == PacketGarbled \/ PacketLost \/ ResponseLost \/ PowerCycle

Init ==
  /\ at = "continue" /\ state = "NONE" /\ status = "SUCCESS" /\ count = 0
  /\ slot \in [1..Rows -> {Blank} \cup Images]   \* what earlier sessions left
  /\ ~Valid
  /\ running = Factory
  /\ rx = <<>> /\ tx = "none"
  /\ image \in Images \ {Factory} /\ next = Enter /\ host = "send"
  /\ pace \in HostPaces
  /\ quiet = 0 /\ faults = 0

Next == Task \/ Host \/ HostLeaves \/ Faults

\* The task runs; the host goes on unless it leaves for good.
Fairness == WF_vars(Task) /\ WF_vars(Host)

SafetySpec == Init /\ [][Next]_vars
Spec == SafetySpec /\ Fairness

----------------------------------------------------------------------------------
TypeOK ==
  /\ at \in {"continue", "handle", "drain", "validate", "execute", "off"}
  /\ state \in {"NONE", "UPDATING", "FINISHED", "FAILED"}
  /\ status \in {"SUCCESS", "TIMEOUT", "ERROR", "ERROR_VERIFY"}
  /\ count \in 0..(CountMod - 1)
  /\ slot \in [1..Rows -> {Blank} \cup Images]
  /\ running \in Images \cup {Factory}
  /\ rx \in Seq(0..Garbled) /\ Len(rx) <= 2
  /\ tx \in {"none", "ok", "error"}
  /\ image \in Images /\ next \in 0..Exit
  /\ host \in {"send", "wait", "done", "left"} /\ pace \in HostPaces
  /\ quiet \in 0..Limit /\ faults \in 0..MaxFaults

\* What the host of a signed image has been told is stored is stored.  In a session the
\* rows below its next command are in the slot, although responses may be lost, sessions
\* start over and a boot in between may have erased the slot or withdrawn the request in
\* its last row (dfu_task.c:211, btldr main.c:287).  Once all rows are acknowledged no
\* reset takes them any more: they are in the slot or already installed.
\*
\* Not so for an image that does not validate: after the boot has erased it the host
\* repeats the transfer, may take the late error response to its Exit for the one to its
\* new Enter, and is then one response ahead, for responses carry no numbers.
AcknowledgedRowsStored ==
  image \in Signed =>
    /\ state \in {"UPDATING", "FINISHED"} => \A r \in 1..(next - 1) : slot[r] = image
    /\ next = Exit => Holds(image) \/ running = image

\* What the next start runs and what runs, as BootService sees it.
boots == IF Valid THEN slot[1] ELSE running
up == IF at = "off" THEN Blank ELSE running
Service == INSTANCE BootService WITH Signed <- Signed \cup {Factory}, NoImage <- Blank

\* The update task and the bootloader as it sees it, in one step, keep the promise that
\* SecureBoot keeps step by step: whatever rows arrive and whatever the validation says
\* before Cy_DFU_ExecuteApp (dfu_task.c:253), a reset starts the image that the slot
\* determines, signed and whole, or the one that ran before.
ImplementsServiceSafety == Service!SafetySpec

\* Loading restarts for silence only after five seconds of it ("if no command has
\* been received during 5 seconds when the loading has started then restart
\* loading", dfu_task.c:274): what count holds when the session begins, or after
\* a session that failed, does not matter.
NotDroppedEarly ==
  [][at = "handle" /\ status = "TIMEOUT" /\ state = "UPDATING" /\ state' = "NONE"
       /\ at' = "continue" => quiet = Limit]_vars

\* A host that leaves in the middle of a transfer does not keep the device in it.
AbandonedSessionEnds == host = "left" ~> (state = "NONE" \/ running = image)

\* A host that stays, and acts within five seconds while it does, gets a signed image
\* installed in spite of lost and garbled packets, power cycles and what earlier
\* sessions left in the slot.
UpgradeEventually == (pace = "prompt" /\ image \in Signed) ~> (running = image \/ host = "left")
==================================================================================
