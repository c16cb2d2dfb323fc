------------------------------ MODULE DfuTask_proofs ------------------------------
(***************************************************************************)
(* Proofs about DfuTask: for images of any size, any number of faults and   *)
(* any counter wider than the limit, no session is dropped early, only the   *)
(* images that the boot service allows are started, and of a signed image   *)
(* what the host was told is stored is stored.                              *)
(***************************************************************************)
EXTENDS DfuTask, TLAPS

\* How many packets can be in the receive buffer: a host sends one at a time, and a
\* second one only if a response to an earlier session made it go on too early.
OneAhead ==
  /\ host = "send" => Len(rx) <= 1
  /\ host = "send" /\ tx # "none" => rx = <<>>
  /\ host = "wait" => next # Exit
  /\ host = "wait" /\ tx # "none" => Len(rx) <= 1
  /\ host = "done" => next = Exit

\* A restart keeps the types, except of what it leaves alone.
LEMMA RebootTypes ==
  ASSUME TypeOK, Reboot, faults' \in 0..MaxFaults
  PROVE  TypeOK'
<1> USE RowsAssumption, ImagesAssumption, LimitAssumption, FaultsAssumption
<1> USE DEF TypeOK, peer
<1>1. running' \in Images \cup {Factory}
  BY DEF Reboot, Valid, Holds
<1>2. slot' \in [1..Rows -> {Blank} \cup Images]
  BY DEF Reboot, Erased
<1> QED BY <1>1, <1>2 DEF Reboot, TransportReset, Garbled

\* A step keeps the types of the variables.
LEMMA TypeStep == TypeOK /\ OneAhead /\ [Next]_vars => TypeOK'
<1> SUFFICES ASSUME TypeOK, OneAhead, [Next]_vars PROVE TypeOK'
  OBVIOUS
<1> USE RowsAssumption, ImagesAssumption, LimitAssumption, FaultsAssumption
<1> USE DEF TypeOK, OneAhead, task, link, peer, Enter, Exit, Garbled
<1>1. CASE Continue
  <2>1. count' \in 0..(CountMod - 1) BY <1>1 DEF Continue, CountRound
  <2>2. rx' \in Seq(0..Garbled) /\ Len(rx') <= 2
    <3>1. CASE rx' = rx BY <3>1
    <3>2. CASE rx' = <<>> BY <3>2
    <3> QED BY <1>1, <3>1, <3>2 DEF Continue
  <2>3. quiet' \in 0..Limit BY <1>1 DEF Continue
  <2>4. state' \in {"NONE", "UPDATING", "FINISHED", "FAILED"}
    BY <1>1 DEF Continue, Accept, Refuse
  <2>5. status' \in {"SUCCESS", "TIMEOUT", "ERROR", "ERROR_VERIFY"}
    BY <1>1 DEF Continue, Accept, Refuse
  <2>6. tx' \in {"none", "ok", "error"} BY <1>1 DEF Continue, Accept, Refuse
  <2>7. slot' \in [1..Rows -> {Blank} \cup Images] BY <1>1 DEF Continue, Accept, Refuse
  <2> QED BY <1>1, <2>1, <2>2, <2>3, <2>4, <2>5, <2>6, <2>7 DEF Continue
<1>2. CASE HandleFinished BY <1>2 DEF HandleFinished
<1>3. CASE HandleFailed BY <1>3 DEF HandleFailed, RestartLoading, TransportReset
<1>4. CASE HandleCommand BY <1>4 DEF HandleCommand
<1>5. CASE HandleTimeout
  <2>1. CASE passed5seconds BY <1>5, <2>1 DEF HandleTimeout, RestartLoading, TransportReset
  <2>2. CASE ~passed5seconds BY <1>5, <2>2 DEF HandleTimeout
  <2> QED BY <2>1, <2>2
<1>6. CASE HandleError BY <1>6 DEF HandleError
<1>7. CASE Drain BY <1>7 DEF Drain, RestartLoading, TransportReset
<1>8. CASE HandleNone BY <1>8 DEF HandleNone
<1>9. CASE Validate
  <2>1. CASE Valid BY <1>9, <2>1 DEF Validate
  <2>2. CASE ~Valid BY <1>9, <2>2 DEF Validate, RestartLoading, TransportReset
  <2> QED BY <2>1, <2>2
<1>10. CASE ExecuteApp
  <2>1. at' = "off" /\ UNCHANGED faults BY <1>10 DEF ExecuteApp, Reboot
  <2> QED BY <1>10, <2>1, RebootTypes DEF ExecuteApp
<1>11. CASE TransportStart BY <1>11 DEF TransportStart
<1>12. CASE HostSend
  <2>1. Append(rx, next) \in Seq(0..Garbled) /\ Len(Append(rx, next)) = Len(rx) + 1
    OBVIOUS
  <2>2. rx' \in Seq(0..Garbled) /\ Len(rx') <= 2
    <3>1. Len(rx) <= 1 BY <1>12 DEF HostSend
    <3>2. rx' = rx \/ rx' = Append(rx, next) BY <1>12 DEF HostSend
    <3> QED BY <2>1, <3>1, <3>2
  <2> QED BY <1>12, <2>2 DEF HostSend
<1>13. CASE HostReceive BY <1>13 DEF HostReceive
<1>14. CASE HostTimeout BY <1>14 DEF HostTimeout
<1>15. CASE HostRepeat BY <1>15 DEF HostRepeat
<1>16. CASE HostLeaves BY <1>16 DEF HostLeaves
<1>17. CASE PacketGarbled BY <1>17 DEF PacketGarbled, Fault
<1>18. CASE PacketLost BY <1>18 DEF PacketLost, Fault
<1>19. CASE ResponseLost BY <1>19 DEF ResponseLost, Fault
<1>20. CASE PowerCycle
  <2>1. faults' \in 0..MaxFaults BY <1>20 DEF PowerCycle, Fault
  <2> QED BY <1>20, <2>1, RebootTypes DEF PowerCycle
<1>21. CASE UNCHANGED vars BY <1>21 DEF vars
<1> QED
  BY <1>1, <1>2, <1>3, <1>4, <1>5, <1>6, <1>7, <1>8, <1>9, <1>10, <1>11,
     <1>12, <1>13, <1>14, <1>15, <1>16, <1>17, <1>18, <1>19, <1>20, <1>21
  DEF Next, Task, Host, Faults

\* A step keeps the number of packets.
LEMMA OneAheadStep == TypeOK /\ OneAhead /\ [Next]_vars => OneAhead'
<1> SUFFICES ASSUME TypeOK, OneAhead, [Next]_vars PROVE OneAhead'
  OBVIOUS
<1> USE RowsAssumption DEF TypeOK, OneAhead, task, link, peer, Enter, Exit, Garbled
<1>1. CASE Continue BY <1>1 DEF Continue, CountRound, Accept, Refuse
<1>2. CASE HandleFinished BY <1>2 DEF HandleFinished
<1>3. CASE HandleFailed BY <1>3 DEF HandleFailed, RestartLoading, TransportReset
<1>4. CASE HandleCommand BY <1>4 DEF HandleCommand
<1>5. CASE HandleTimeout BY <1>5 DEF HandleTimeout, RestartLoading, TransportReset
<1>6. CASE HandleError BY <1>6 DEF HandleError
<1>7. CASE Drain BY <1>7 DEF Drain, RestartLoading, TransportReset
<1>8. CASE HandleNone BY <1>8 DEF HandleNone
<1>9. CASE Validate BY <1>9 DEF Validate, RestartLoading, TransportReset
<1>10. CASE ExecuteApp BY <1>10 DEF ExecuteApp, Reboot, TransportReset
<1>11. CASE TransportStart BY <1>11 DEF TransportStart
<1>12. CASE HostSend BY <1>12 DEF HostSend
<1>13. CASE HostReceive BY <1>13 DEF HostReceive
<1>14. CASE HostTimeout BY <1>14 DEF HostTimeout
<1>15. CASE HostRepeat BY <1>15 DEF HostRepeat
<1>16. CASE HostLeaves BY <1>16 DEF HostLeaves
<1>17. CASE PacketGarbled BY <1>17 DEF PacketGarbled, Fault
<1>18. CASE PacketLost BY <1>18 DEF PacketLost, Fault
<1>19. CASE ResponseLost BY <1>19 DEF ResponseLost, Fault
<1>20. CASE PowerCycle BY <1>20 DEF PowerCycle, Reboot, TransportReset, Fault
<1>21. CASE UNCHANGED vars BY <1>21 DEF vars
<1> QED
  BY <1>1, <1>2, <1>3, <1>4, <1>5, <1>6, <1>7, <1>8, <1>9, <1>10, <1>11,
     <1>12, <1>13, <1>14, <1>15, <1>16, <1>17, <1>18, <1>19, <1>20, <1>21
  DEF Next, Task, Host, Faults

\* The types, with what they need.
LEMMA TypeInvariant == SafetySpec => [](TypeOK /\ OneAhead)
<1>1. Init => TypeOK /\ OneAhead
  BY RowsAssumption, ImagesAssumption, LimitAssumption, FaultsAssumption
  DEF Init, TypeOK, OneAhead, Enter, Exit, Garbled
<1> QED BY <1>1, TypeStep, OneAheadStep, PTL DEF SafetySpec

\* The variables keep their types, whatever is lost, garbled or repeated.
THEOREM TypeCorrect == SafetySpec => []TypeOK
BY TypeInvariant, PTL

----------------------------------------------------------------------------------
(* Sessions.                                                               *)

\* In a session the counter has not run ahead of the silence, unless the silence is
\* long enough anyway: what it held before the session was cleared by its first command.
CountFollowsSilence ==
  /\ at = "off" => state = "NONE"
  /\ state = "UPDATING" /\ (at = "continue" \/ (at = "handle" /\ status = "TIMEOUT"))
       => count <= quiet \/ quiet = Limit

\* A step keeps the counter behind the silence.
LEMMA CountStep == TypeOK /\ CountFollowsSilence /\ [Next]_vars => CountFollowsSilence'
<1> SUFFICES ASSUME TypeOK, CountFollowsSilence, [Next]_vars PROVE CountFollowsSilence'
  OBVIOUS
<1> USE LimitAssumption DEF TypeOK, CountFollowsSilence, task, link, peer
<1>1. CASE Continue BY <1>1 DEF Continue, CountRound, Accept, Refuse
<1>2. CASE HandleFinished BY <1>2 DEF HandleFinished
<1>3. CASE HandleFailed BY <1>3 DEF HandleFailed, RestartLoading, TransportReset
<1>4. CASE HandleCommand BY <1>4 DEF HandleCommand
<1>5. CASE HandleTimeout BY <1>5 DEF HandleTimeout, RestartLoading, TransportReset
<1>6. CASE HandleError BY <1>6 DEF HandleError
<1>7. CASE Drain BY <1>7 DEF Drain, RestartLoading, TransportReset
<1>8. CASE HandleNone BY <1>8 DEF HandleNone
<1>9. CASE Validate BY <1>9 DEF Validate, RestartLoading, TransportReset
<1>10. CASE ExecuteApp BY <1>10 DEF ExecuteApp, Reboot, TransportReset
<1>11. CASE TransportStart BY <1>11 DEF TransportStart
<1>12. CASE HostSend BY <1>12 DEF HostSend
<1>13. CASE HostReceive BY <1>13 DEF HostReceive
<1>14. CASE HostTimeout BY <1>14 DEF HostTimeout
<1>15. CASE HostRepeat BY <1>15 DEF HostRepeat
<1>16. CASE HostLeaves BY <1>16 DEF HostLeaves
<1>17. CASE PacketGarbled BY <1>17 DEF PacketGarbled, Fault
<1>18. CASE PacketLost BY <1>18 DEF PacketLost, Fault
<1>19. CASE ResponseLost BY <1>19 DEF ResponseLost, Fault
<1>20. CASE PowerCycle BY <1>20 DEF PowerCycle, Reboot, TransportReset, Fault
<1>21. CASE UNCHANGED vars BY <1>21 DEF vars
<1> QED
  BY <1>1, <1>2, <1>3, <1>4, <1>5, <1>6, <1>7, <1>8, <1>9, <1>10, <1>11,
     <1>12, <1>13, <1>14, <1>15, <1>16, <1>17, <1>18, <1>19, <1>20, <1>21
  DEF Next, Task, Host, Faults

\* dfu_task restarts loading for silence only after five seconds of it, at the full
\* width of its counter and whatever that held when the session began.
THEOREM SessionsNotDroppedEarly == SafetySpec => NotDroppedEarly
<1> DEFINE Dropped == at = "handle" /\ status = "TIMEOUT" /\ state = "UPDATING"
                        /\ state' = "NONE" /\ at' = "continue"
<1>1. Init => CountFollowsSilence BY DEF Init, CountFollowsSilence
<1>2. TypeOK /\ CountFollowsSilence /\ [Next]_vars => [Dropped => quiet = Limit]_vars
  <2> SUFFICES ASSUME TypeOK, CountFollowsSilence, Next, Dropped PROVE quiet = Limit
    BY DEF Dropped
  <2>1. HandleTimeout
    BY DEF Next, Task, Host, Faults, Continue, HandleFinished, HandleFailed, HandleCommand,
           HandleTimeout, HandleError, Drain, HandleNone, Validate, ExecuteApp,
           TransportStart, HostSend, HostReceive, HostTimeout, HostRepeat, HostLeaves,
           PacketGarbled, PacketLost, ResponseLost, PowerCycle, Reboot, task
  <2>2. count >= Limit BY <2>1 DEF HandleTimeout, passed5seconds
  <2> QED BY <2>2, LimitAssumption DEF CountFollowsSilence, TypeOK
<1> QED
  BY <1>1, <1>2, CountStep, TypeCorrect, PTL DEF SafetySpec, NotDroppedEarly

----------------------------------------------------------------------------------
(* What is installed.                                                      *)

\* Only the image that the host sends can become valid: what earlier sessions left is
\* not, and a row is written over, never taken away.
Installs ==
  /\ \A img \in Signed : Holds(img) => img = image
  /\ at = "off" => ~Valid
  /\ running \in Signed \cup {Factory}

\* Rows are written by Continue and installed by a restart; nothing else touches them.
LEMMA SlotSteps ==
  ASSUME [Next]_vars
  PROVE  \/ Continue \/ Reboot \/ TransportStart
         \/ UNCHANGED <<slot, running, image>> /\ (at' = "off" <=> at = "off")
<1> USE DEF task, peer
<1>1. CASE Continue BY <1>1
<1>2. CASE HandleFinished BY <1>2 DEF HandleFinished
<1>3. CASE HandleFailed BY <1>3 DEF HandleFailed, RestartLoading, TransportReset
<1>4. CASE HandleCommand BY <1>4 DEF HandleCommand
<1>5. CASE HandleTimeout BY <1>5 DEF HandleTimeout, RestartLoading, TransportReset
<1>6. CASE HandleError BY <1>6 DEF HandleError
<1>7. CASE Drain BY <1>7 DEF Drain, RestartLoading, TransportReset
<1>8. CASE HandleNone BY <1>8 DEF HandleNone
<1>9. CASE Validate BY <1>9 DEF Validate, RestartLoading, TransportReset
<1>10. CASE ExecuteApp BY <1>10 DEF ExecuteApp
<1>11. CASE TransportStart BY <1>11
<1>12. CASE HostSend BY <1>12 DEF HostSend
<1>13. CASE HostReceive BY <1>13 DEF HostReceive
<1>14. CASE HostTimeout BY <1>14 DEF HostTimeout
<1>15. CASE HostRepeat BY <1>15 DEF HostRepeat
<1>16. CASE HostLeaves BY <1>16 DEF HostLeaves
<1>17. CASE PacketGarbled BY <1>17 DEF PacketGarbled, Fault
<1>18. CASE PacketLost BY <1>18 DEF PacketLost, Fault
<1>19. CASE ResponseLost BY <1>19 DEF ResponseLost, Fault
<1>20. CASE PowerCycle BY <1>20 DEF PowerCycle
<1>21. CASE UNCHANGED vars BY <1>21 DEF vars
<1> QED
  BY <1>1, <1>2, <1>3, <1>4, <1>5, <1>6, <1>7, <1>8, <1>9, <1>10, <1>11,
     <1>12, <1>13, <1>14, <1>15, <1>16, <1>17, <1>18, <1>19, <1>20, <1>21
  DEF Next, Task, Host, Faults

\* What a read packet does to the slot, if anything.
LEMMA ContinueWrites ==
  ASSUME TypeOK, Continue
  PROVE  /\ UNCHANGED <<running, image>> /\ at = "continue" /\ at' = "handle"
         /\ \/ UNCHANGED slot
            \/ \E r \in 1..Rows : slot' = [slot EXCEPT ![r] = image]
<1>1. UNCHANGED <<running, image>> /\ at = "continue" /\ at' = "handle"
  BY DEF Continue, peer
<1>2. CASE rx = <<>> BY <1>1, <1>2 DEF Continue
<1>3. CASE rx # <<>> /\ Accept(Packet) BY <1>1, <1>3 DEF Accept
<1>4. CASE rx # <<>> /\ Refuse(Packet) BY <1>1, <1>4 DEF Refuse
<1> QED BY <1>2, <1>3, <1>4 DEF Continue

\* A restart installs the image of the host and withdraws its request, or it installs
\* nothing and may erase the slot; it starts what it installed.
LEMMA RebootInstalls ==
  ASSUME TypeOK, Installs, Reboot
  PROVE  /\ Installs' /\ at' = "off" /\ UNCHANGED <<image, boots>>
         /\ \/ Valid /\ Holds(image) /\ running' = image
            \/ ~Valid /\ UNCHANGED running
<1>1. at' = "off" /\ UNCHANGED image BY DEF Reboot, peer
<1>2. CASE Valid
  <2>1. PICK img \in Signed : Holds(img) BY <1>2 DEF Valid
  <2>2. img = image BY <2>1 DEF Installs
  <2>3. slot[1] = image BY <2>1, <2>2, RowsAssumption DEF Holds
  <2>4. running' = image /\ slot' = [slot EXCEPT ![Rows] = Blank]
    BY <1>2, <2>3 DEF Reboot
  <2>5. slot'[Rows] = Blank BY <2>4, RowsAssumption DEF TypeOK
  <2>6. \A i \in Signed : ~Holds(i)'
    BY <2>5, RowsAssumption, ImagesAssumption DEF Holds
  <2>7. ~Valid' BY <2>6 DEF Valid, Holds
  <2>8. boots = image /\ boots' = image BY <1>2, <2>3, <2>4, <2>7 DEF boots
  <2> QED BY <1>1, <1>2, <2>1, <2>2, <2>4, <2>6, <2>7, <2>8 DEF Installs
<1>3. CASE ~Valid
  <2>1. UNCHANGED running BY <1>3 DEF Reboot
  <2>2. \A i \in Signed : ~Holds(i)'
    <3>1. CASE slot' = slot BY <1>3, <3>1 DEF Valid, Holds
    <3>2. CASE slot' = Erased
      <4>1. slot'[Rows] = Blank BY <3>2, RowsAssumption DEF Erased
      <4> QED BY <4>1, RowsAssumption, ImagesAssumption DEF Holds
    <3> QED BY <1>3, <3>1, <3>2 DEF Reboot
  <2>3. ~Valid' BY <2>2 DEF Valid, Holds
  <2>4. UNCHANGED boots BY <1>3, <2>1, <2>3 DEF boots
  <2> QED BY <1>1, <1>3, <2>1, <2>2, <2>3, <2>4 DEF Installs
<1> QED BY <1>2, <1>3

\* A step keeps every other image from becoming valid.
LEMMA InstallStep == TypeOK /\ Installs /\ [Next]_vars => Installs'
<1> SUFFICES ASSUME TypeOK, Installs, [Next]_vars PROVE Installs'
  OBVIOUS
<1>1. CASE Continue
  <2>1. ASSUME NEW img \in Signed, Holds(img)' PROVE img = image
    BY <1>1, <2>1, ContinueWrites DEF Installs, Holds, TypeOK
  <2> QED BY <1>1, <2>1, ContinueWrites DEF Installs
<1>2. CASE Reboot BY <1>2, RebootInstalls
<1>3. CASE TransportStart BY <1>3 DEF TransportStart, Installs, Holds, peer
<1>4. CASE UNCHANGED <<slot, running, image>> /\ (at' = "off" <=> at = "off")
  BY <1>4 DEF Installs, Valid, Holds
<1> QED BY <1>1, <1>2, <1>3, <1>4, SlotSteps

\* No other image than the host's is ever installed.
LEMMA InstallInvariant == SafetySpec => [](TypeOK /\ Installs)
<1>1. Init => Installs BY DEF Init, Installs, Valid, Holds
<1> QED BY <1>1, InstallStep, TypeCorrect, PTL DEF SafetySpec

\* Each step is a start, a transfer or a reset of the service, or nothing to it.
LEMMA ServiceStep == TypeOK /\ Installs /\ [Next]_vars => [Service!Next]_<<boots, up>>
<1> SUFFICES ASSUME TypeOK, Installs, [Next]_vars
             PROVE  [Service!Next]_<<boots, up>>
  OBVIOUS
<1>0. running # Blank BY ImagesAssumption DEF Installs
<1>1. CASE Continue
  <2>1. at # "off" /\ UNCHANGED <<running, up>> BY <1>1, ContinueWrites DEF up
  <2>2. boots' \in Signed \cup {Factory}
    BY <1>1, ContinueWrites, RowsAssumption DEF boots, Valid, Holds, Installs
  <2> QED BY <1>0, <2>1, <2>2 DEF up, Service!Next, Service!Transfer
<1>2. CASE Reboot
  <2>1. UNCHANGED boots /\ up' = Blank BY <1>2, RebootInstalls DEF up
  <2> QED BY <2>1 DEF Service!Next, Service!Reset
<1>3. CASE TransportStart
  <2>1. UNCHANGED boots BY <1>3 DEF TransportStart, boots, Valid, Holds
  <2>2. boots = running /\ up = Blank /\ up' = running
    BY <1>3 DEF TransportStart, Installs, boots, up
  <2> QED BY <1>0, <2>1, <2>2 DEF Service!Next, Service!Start
<1>4. CASE UNCHANGED <<slot, running, image>> /\ (at' = "off" <=> at = "off")
  BY <1>4 DEF boots, up, Valid, Holds
<1> QED BY <1>1, <1>2, <1>3, <1>4, SlotSteps

\* The update task implements the boot service: whatever arrives, whatever the
\* validation says and whenever the power fails, a reset starts the image of the host,
\* signed and whole, or the one that ran before.
THEOREM ImplementsService == SafetySpec => ImplementsServiceSafety
<1>1. Init => Service!Init
  BY DEF Init, Service!Init, boots, up
<1> QED
  BY <1>1, ServiceStep, InstallInvariant, PTL
  DEF SafetySpec, ImplementsServiceSafety, Service!SafetySpec, Service!vars

----------------------------------------------------------------------------------
(* What is acknowledged.                                                   *)

\* Host and device agree on where the transfer is: what is under way is the command the
\* host is at, or garbled, and a response is to that command and not overtaken by it.
InStep ==
  /\ host = "send" => rx = <<>> /\ tx = "none"
  /\ tx # "none" => rx = <<>>
  /\ rx # <<>> => rx = <<next>> \/ rx = <<Garbled>>
  /\ tx = "ok" => state = "UPDATING" /\ next \in 0..Rows /\ (next # 0 => slot[next] = image)
  /\ state \in {"UPDATING", "FINISHED"} => \A r \in 1..(next - 1) : slot[r] = image
  /\ next = Exit => Holds(image) \/ running = image

\* AcknowledgedRowsStored is not inductive: that a response belongs to the row the host
\* waits for holds only until a host whose rows were all stored repeats its transfer.
\* From then on all rows of the image are there, until a restart installs them, and with
\* that clears the line as well.
Transferred == image \in Signed => InStep \/ Holds(image)

\* A command that is read keeps host and device in step.
LEMMA ContinueInStep ==
  ASSUME TypeOK, OneAhead, InStep, Continue
  PROVE  InStep'
<1> USE RowsAssumption DEF InStep, TypeOK, OneAhead, peer, Enter, Exit, Garbled
<1>1. CASE rx = <<>> BY <1>1 DEF Continue, Holds
<1>2. CASE rx # <<>>
  <2>1. host # "send" /\ tx = "none" /\ next \in 0..Exit BY <1>2
  <2>2. Packet = next \/ Packet = Garbled BY <1>2 DEF Packet
  <2>3. rx' = <<>> /\ UNCHANGED <<running, image, next, host>> BY <1>2 DEF Continue
  <2>4. CASE Accept(Packet)
    <3>1. Packet = next BY <2>1, <2>2, <2>4 DEF Accept
    <3>2. CASE next = Enter
      <4>1. UNCHANGED slot /\ state' = "UPDATING" /\ tx' = "ok" BY <2>4, <3>1, <3>2 DEF Accept
      <4> QED BY <2>1, <2>3, <3>2, <4>1
    <3>3. CASE next \in 1..Rows
      <4>1. slot' = [slot EXCEPT ![next] = image] /\ tx' = "ok"
            /\ state' = "UPDATING" /\ state = "UPDATING"
        BY <2>4, <3>1, <3>3 DEF Accept
      <4>2. \A r \in 1..(next - 1) : slot'[r] = image BY <3>3, <4>1
      <4>3. slot'[next] = image BY <3>3, <4>1
      <4> QED BY <2>1, <2>3, <3>3, <4>1, <4>2, <4>3
    <3>4. CASE next = Exit
      <4>1. UNCHANGED <<slot, tx>> /\ state = "UPDATING" BY <2>4, <3>1, <3>4 DEF Accept
      <4> QED BY <2>1, <2>3, <3>4, <4>1 DEF Holds
    <3> QED BY <2>1, <3>2, <3>3, <3>4
  <2>5. CASE Refuse(Packet)
    <3>1. UNCHANGED slot /\ tx' = "error" /\ state' \in {state, "FAILED"}
      BY <2>5 DEF Refuse
    <3> QED BY <2>1, <2>3, <3>1 DEF Holds
  <2> QED BY <1>2, <2>4, <2>5 DEF Continue
<1> QED BY <1>1, <1>2

\* A restart in which the image is installed, or nothing, brings host and device in step:
\* nothing is under way, no session is open.
LEMMA RebootInStep ==
  ASSUME TypeOK, Installs, Transferred, Reboot
  PROVE  Transferred'
<1> SUFFICES ASSUME image \in Signed PROVE InStep'
  BY DEF Transferred, Reboot, peer
<1>1. /\ rx' = <<>> /\ tx' = "none" /\ state' = "NONE" /\ UNCHANGED <<next, image>>
  BY DEF Reboot, TransportReset, peer
<1>2. next = Exit => running' = image
  <2>1. CASE Valid BY <2>1, RebootInstalls
  <2>2. CASE ~Valid
    <3>1. ~Holds(image) BY <2>2 DEF Valid
    <3>2. InStep BY <3>1 DEF Transferred
    <3>3. running' = running BY <2>2, RebootInstalls
    <3> QED BY <3>1, <3>2, <3>3 DEF InStep
  <2> QED BY <2>1, <2>2
<1>3. (next = Exit => Holds(image) \/ running = image)' BY <1>1, <1>2 DEF Exit
<1> QED BY <1>1, <1>3 DEF InStep

\* What is stored stays stored until the next restart.
LEMMA StoredStep ==
  ASSUME TypeOK, Installs, Transferred, Holds(image), [Next]_vars
  PROVE  Transferred'
<1>1. CASE Continue BY <1>1, ContinueWrites DEF Holds, TypeOK, Transferred
<1>2. CASE Reboot BY <1>2, RebootInStep
<1>3. CASE TransportStart BY <1>3 DEF TransportStart, peer, Holds, Transferred
<1>4. CASE UNCHANGED <<slot, running, image>> BY <1>4 DEF Holds, Transferred
<1> QED BY <1>1, <1>2, <1>3, <1>4, SlotSteps

\* A step keeps host and device in step, or all rows are stored.
LEMMA InStepStep ==
  ASSUME TypeOK, OneAhead, Installs, image \in Signed, InStep, [Next]_vars
  PROVE  Transferred'
<1> USE RowsAssumption DEF TypeOK, OneAhead, task, link, peer, Enter, Exit, Garbled
<1> USE DEF Holds
<1>0. InStep' \/ Holds(image)' => Transferred' BY DEF Transferred
<1>1. CASE Continue BY <1>0, <1>1, ContinueInStep
<1>2. CASE HandleFinished BY <1>0, <1>2 DEF HandleFinished, InStep
<1>3. CASE HandleFailed BY <1>0, <1>3 DEF HandleFailed, RestartLoading, TransportReset, InStep
<1>4. CASE HandleCommand BY <1>0, <1>4 DEF HandleCommand, InStep
<1>5. CASE HandleTimeout BY <1>0, <1>5 DEF HandleTimeout, RestartLoading, TransportReset, InStep
<1>6. CASE HandleError BY <1>0, <1>6 DEF HandleError, InStep
<1>7. CASE Drain BY <1>0, <1>7 DEF Drain, RestartLoading, TransportReset, InStep
<1>8. CASE HandleNone BY <1>0, <1>8 DEF HandleNone, InStep
<1>9. CASE Validate BY <1>0, <1>9 DEF Validate, RestartLoading, TransportReset, InStep
<1>10. CASE Reboot BY <1>10, RebootInStep DEF Transferred
<1>11. CASE TransportStart BY <1>0, <1>11 DEF TransportStart, InStep
<1>12. CASE HostSend
  <2>1. rx' = <<next>> \/ rx' = <<>> BY <1>12 DEF HostSend, InStep
  <2> QED BY <1>0, <1>12, <2>1 DEF HostSend, InStep
<1>13. CASE HostReceive
  <2>1. rx = <<>> /\ rx' = <<>> /\ tx' = "none" /\ UNCHANGED <<slot, state, running, image>>
    BY <1>13 DEF HostReceive, InStep
  <2>2. CASE tx = "ok"
    <3>1. next' = next + 1 /\ next \in 0..Rows /\ \A r \in 1..next : slot[r] = image
      BY <1>13, <2>2 DEF HostReceive, InStep
    <3> QED BY <1>0, <2>1, <3>1 DEF InStep
  <2>3. CASE tx # "ok"
    <3>1. next' = 0 BY <1>13, <2>3 DEF HostReceive
    <3> QED BY <1>0, <2>1, <3>1 DEF InStep
  <2> QED BY <2>2, <2>3
<1>14. CASE HostTimeout BY <1>0, <1>14 DEF HostTimeout, InStep
<1>15. CASE HostRepeat BY <1>0, <1>15 DEF HostRepeat, InStep
<1>16. CASE HostLeaves BY <1>0, <1>16 DEF HostLeaves, InStep
<1>17. CASE PacketGarbled BY <1>0, <1>17 DEF PacketGarbled, Fault, InStep
<1>18. CASE PacketLost BY <1>0, <1>18 DEF PacketLost, Fault, InStep
<1>19. CASE ResponseLost BY <1>0, <1>19 DEF ResponseLost, Fault, InStep
<1>20. CASE UNCHANGED vars BY <1>0, <1>20 DEF vars, InStep
<1> QED
  BY <1>1, <1>2, <1>3, <1>4, <1>5, <1>6, <1>7, <1>8, <1>9, <1>10, <1>11,
     <1>12, <1>13, <1>14, <1>15, <1>16, <1>17, <1>18, <1>19, <1>20
  DEF Next, Task, Host, Faults, ExecuteApp, PowerCycle

\* A step keeps what was transferred.
LEMMA TransferredStep ==
  TypeOK /\ OneAhead /\ Installs /\ Transferred /\ [Next]_vars => Transferred'
<1> SUFFICES ASSUME TypeOK, OneAhead, Installs, Transferred, [Next]_vars PROVE Transferred'
  OBVIOUS
<1>1. CASE image \notin Signed
  <2>1. UNCHANGED image
    BY SlotSteps, ContinueWrites, RebootInstalls DEF TransportStart, peer
  <2> QED BY <1>1, <2>1 DEF Transferred
<1>2. CASE image \in Signed
  BY <1>2, StoredStep, InStepStep DEF Transferred
<1> QED BY <1>1, <1>2

\* Of a signed image, in a session every row the host was told is stored is stored, and
\* after the last one the image stays, in the slot or installed: through lost and garbled
\* packets, lost responses, repeated transfers, and power cycles in which the boot erased
\* the slot.
THEOREM AcknowledgedStored == SafetySpec => []AcknowledgedRowsStored
<1>1. Init => Transferred
  BY RowsAssumption DEF Init, Transferred, InStep, Enter, Exit
<1>2. TypeOK /\ Transferred => AcknowledgedRowsStored
  BY RowsAssumption DEF TypeOK, Transferred, InStep, Holds, AcknowledgedRowsStored, Exit
<1> QED
  BY <1>1, <1>2, TransferredStep, InstallInvariant, TypeInvariant, PTL DEF SafetySpec
===================================================================================
