--------------------------- MODULE DeviceIdExchange ---------------------------
(***************************************************************************)
(* The exchange of the unique device ID between the CM4 application        *)
(* (dfu_task) and the CM0+ application over IPC channels 8 and 9, down to   *)
(* the steps at which an interrupt or the other core can come in between.  *)
(*                                                                         *)
(* Each core is a thread and an interrupt handler.  The handler preempts   *)
(* the thread between any two of its steps, and the thread does not run    *)
(* while the handler does.  The two cores run in parallel.                 *)
(***************************************************************************)
EXTENDS Naturals

CONSTANTS DeviceId,     \* device_id, in the protected storage of the CM0+
          Builds,       \* what the compiler made of the loop of dfu_task
          MaxResets,    \* bound on the system resets of a behaviour
          NoWord        \* nothing has been printed yet

IPC_CMD_READ_DATA == 1
CM0P == 8     \* CM0P_IPC_INT_STRUCT_NUM: the channel the CM0+ receives on
CM4 == 9      \* CM4_IPC_INT_STRUCT_NUM: the channel the CM4 receives on
Channels == {CM0P, CM4}

ASSUME DeviceIdAssumption == DeviceId \in Nat
ASSUME BuildsAssumption == Builds \subseteq {"reread", "hoisted"} /\ Builds # {}
ASSUME MaxResetsAssumption == MaxResets \in Nat
ASSUME NoWordAssumption == NoWord \notin Nat

VARIABLES
  locked,           \* channels whose lock is held
  word,             \* the data register of each channel
  notified,         \* channels whose notify interrupt is latched
  armed,            \* channels whose notify interrupt is unmasked in its core
  cm0_pc,           \* next step of main() of the CM0+ application
  cm0_isr,          \* next step of cm0p_msg_callback(), "none" when not in it
  msg_cmd,          \* global of the CM0+ application
  cm4_pc,           \* next step of the CM4: main(), then dfu_task()
  cm4_isr,          \* next step of cm4_msg_callback()
  msg_flag,         \* globals of dfu_task.c
  msg_value,
  dfu_start_flag,
  printed,          \* the word dfu_task printed as the device ID
  build,            \* see Builds
  resets

cm0_vars == <<cm0_pc, cm0_isr, msg_cmd>>
cm4_data == <<msg_flag, msg_value, dfu_start_flag, printed>>
cm4_vars == <<cm4_pc, cm4_isr, cm4_data>>
ipc == <<locked, word, notified>>
vars == <<ipc, armed, cm0_vars, cm4_vars, build, resets>>

-------------------------------------------------------------------------------
(* The IPC driver, as the code uses it.  Sending takes the channel's lock   *)
(* and latches a notify; receiving needs the lock held and leaves it held.  *)
(* No function of the program releases a channel.                           *)

\* Cy_IPC_Drv_SendMsgWord changes nothing when the channel is held.
CanSend(ch) == ch \notin locked
SendMsgWord(ch, w) ==
  IF CanSend(ch)
  THEN /\ locked' = locked \cup {ch}
       /\ word' = [word EXCEPT ![ch] = w]
       /\ notified' = notified \cup {ch}
  ELSE UNCHANGED ipc

\* Cy_IPC_Drv_ReadMsgWord succeeds only on a channel that is held.
CanRead(ch) == ch \in locked

\* Cy_IPC_Drv_ClearInterrupt, on both the release and the notify cause.
ClearInterrupt(ch) == notified' = notified \ {ch} /\ UNCHANGED <<locked, word>>

\* An interrupt is taken when it is latched, unmasked and enabled.  The latch
\* is set by a send even before the receiving core has unmasked it.
Interrupted(ch) == ch \in armed \cap notified

-------------------------------------------------------------------------------
(* CM0+ application: main() and cm0p_msg_callback().                        *)

\* The thread runs only outside the handler.
Cm0Step(from, to) == cm0_isr = "none" /\ cm0_pc = from /\ cm0_pc' = to

\* Cy_SysEnableCM4 comes before the CM0+ has set up its end of the channels.
EnableCM4 ==
  /\ Cm0Step("enable_cm4", "setup_ipc")
  /\ cm4_pc' = "start"
  /\ UNCHANGED <<ipc, armed, cm0_isr, msg_cmd, cm4_isr, cm4_data, build, resets>>

SetupIpcCm0p ==
  /\ Cm0Step("setup_ipc", "delay")
  /\ armed' = armed \cup {CM0P}
  /\ UNCHANGED <<ipc, cm0_isr, msg_cmd, cm4_vars, build, resets>>

\* The delay and the toggling of the LED, then the switch reads msg_cmd.
Delay ==
  /\ Cm0Step("delay", "switch")
  /\ UNCHANGED <<ipc, armed, cm0_isr, msg_cmd, cm4_vars, build, resets>>

\* Fault: the test of msg_cmd is inverted.
SwitchCommand_Inverted ==
  /\ Cm0Step("switch", IF msg_cmd # IPC_CMD_READ_DATA THEN "send" ELSE "clear")
  /\ UNCHANGED <<ipc, armed, cm0_isr, msg_cmd, cm4_vars, build, resets>>

SwitchCommand ==
  /\ Cm0Step("switch", IF msg_cmd = IPC_CMD_READ_DATA THEN "send" ELSE "clear")
  /\ UNCHANGED <<ipc, armed, cm0_isr, msg_cmd, cm4_vars, build, resets>>

\* Fault: the word sent is not the one stored.
SendDeviceId_WrongWord ==
  /\ Cm0Step("send", IF CanSend(CM4) THEN "clear" ELSE "halted")
  /\ SendMsgWord(CM4, DeviceId + 1)
  /\ UNCHANGED <<armed, cm0_isr, msg_cmd, cm4_vars, build, resets>>

\* Fault: the case of the switch sends nothing.
SendDeviceId_Nothing ==
  /\ Cm0Step("send", "clear")
  /\ UNCHANGED <<ipc, armed, cm0_isr, msg_cmd, cm4_vars, build, resets>>

\* ipc_send_msg_to_cm4: a channel that is still locked ends in CY_ASSERT.
SendDeviceId ==
  /\ Cm0Step("send", IF CanSend(CM4) THEN "clear" ELSE "halted")
  /\ SendMsgWord(CM4, DeviceId)
  /\ UNCHANGED <<armed, cm0_isr, msg_cmd, cm4_vars, build, resets>>

\* Fault: msg_cmd is not cleared after the switch.
ClearCommand_Forgotten ==
  /\ Cm0Step("clear", "delay")
  /\ UNCHANGED <<ipc, armed, cm0_isr, msg_cmd, cm4_vars, build, resets>>

\* A store of its own: whatever the handler wrote since the switch is lost.
ClearCommand ==
  /\ Cm0Step("clear", "delay")
  /\ msg_cmd' = 0
  /\ UNCHANGED <<ipc, armed, cm0_isr, cm4_vars, build, resets>>

Cm0IsrEnter ==
  /\ cm0_isr = "none" /\ cm0_pc # "halted"
  /\ Interrupted(CM0P)
  /\ cm0_isr' = "receive"
  /\ UNCHANGED <<ipc, armed, cm0_pc, msg_cmd, cm4_vars, build, resets>>

Cm0IsrReceive ==
  /\ cm0_isr = "receive"
  /\ IF CanRead(CM0P)
     THEN cm0_isr' = "clear" /\ msg_cmd' = word[CM0P]
     ELSE cm0_isr' = "halted" /\ UNCHANGED msg_cmd
  /\ UNCHANGED <<ipc, armed, cm0_pc, cm4_vars, build, resets>>

Cm0IsrClear ==
  /\ cm0_isr = "clear"
  /\ ClearInterrupt(CM0P)
  /\ cm0_isr' = "none"
  /\ UNCHANGED <<armed, cm0_pc, msg_cmd, cm4_vars, build, resets>>

Cm0Main == EnableCM4 \/ SetupIpcCm0p \/ Delay \/ SwitchCommand \/ SendDeviceId
             \/ ClearCommand
Cm0Isr == Cm0IsrEnter \/ Cm0IsrReceive \/ Cm0IsrClear

-------------------------------------------------------------------------------
(* CM4 application: main(), dfu_task() and cm4_msg_callback().              *)

Cm4Step(from, to) == cm4_isr = "none" /\ cm4_pc = from /\ cm4_pc' = to

\* main() up to the scheduler, then dfu_task up to the set-up of the channels.
SetupIpcCm4 ==
  /\ Cm4Step("start", "request")
  /\ armed' = armed \cup {CM4}
  /\ UNCHANGED <<ipc, cm0_vars, cm4_isr, cm4_data, build, resets>>

\* ipc_send_msg_to_cm0p: the only request of a start, then the banner and 1 s.
SendRequest ==
  /\ Cm4Step("request", IF CanSend(CM0P) THEN "banner" ELSE "halted")
  /\ SendMsgWord(CM0P, IPC_CMD_READ_DATA)
  /\ UNCHANGED <<armed, cm0_vars, cm4_isr, cm4_data, build, resets>>

Banner ==
  /\ Cm4Step("banner", "poll")
  /\ UNCHANGED <<ipc, armed, cm0_vars, cm4_isr, cm4_data, build, resets>>

\* One look at msg_flag and dfu_start_flag.  Both are plain globals and nothing
\* is called while both are FALSE, so an optimising build may look once and
\* then loop for ever.
Poll ==
  /\ \/ msg_flag /\ Cm4Step("poll", "take")
     \/ ~msg_flag /\ dfu_start_flag /\ Cm4Step("poll", "dfu")
     \/ /\ ~msg_flag /\ ~dfu_start_flag /\ build = "hoisted"
        /\ Cm4Step("poll", "spin")
  /\ UNCHANGED <<ipc, armed, cm0_vars, cm4_isr, cm4_data, build, resets>>

\* Fault: the update starts before the device ID is printed.
TakeFlag_SkipsPrint ==
  /\ Cm4Step("take", "begin")
  /\ msg_flag' = FALSE
  /\ UNCHANGED <<ipc, armed, cm0_vars, cm4_isr, msg_value, dfu_start_flag, printed,
                 build, resets>>

TakeFlag ==
  /\ Cm4Step("take", "print")
  /\ msg_flag' = FALSE
  /\ UNCHANGED <<ipc, armed, cm0_vars, cm4_isr, msg_value, dfu_start_flag, printed,
                 build, resets>>

PrintDeviceId ==
  /\ Cm4Step("print", "begin")
  /\ printed' = msg_value
  /\ UNCHANGED <<ipc, armed, cm0_vars, cm4_isr, msg_flag, msg_value, dfu_start_flag,
                 build, resets>>

BeginDfu ==
  /\ Cm4Step("begin", "dfu")
  /\ dfu_start_flag' = TRUE
  /\ UNCHANGED <<ipc, armed, cm0_vars, cm4_isr, msg_flag, msg_value, printed,
                 build, resets>>

\* One round of Cy_DFU_Continue and of what the loop does with its result.
DfuRound ==
  /\ Cm4Step("dfu", "poll")
  /\ UNCHANGED <<ipc, armed, cm0_vars, cm4_isr, cm4_data, build, resets>>

Cm4IsrEnter ==
  /\ cm4_isr = "none" /\ cm4_pc # "halted"
  /\ Interrupted(CM4)
  /\ cm4_isr' = "receive"
  /\ UNCHANGED <<ipc, armed, cm0_vars, cm4_pc, cm4_data, build, resets>>

\* Fault: the handler announces a word it has not stored.
Cm4IsrReceive_NotStored ==
  /\ cm4_isr = "receive"
  /\ cm4_isr' = IF CanRead(CM4) THEN "flag" ELSE "halted"
  /\ msg_value' = IPC_CMD_READ_DATA
  /\ UNCHANGED <<ipc, armed, cm0_vars, cm4_pc, msg_flag, dfu_start_flag, printed,
                 build, resets>>

Cm4IsrReceive ==
  /\ cm4_isr = "receive"
  /\ IF CanRead(CM4)
     THEN cm4_isr' = "flag" /\ msg_value' = word[CM4]
     ELSE cm4_isr' = "halted" /\ UNCHANGED msg_value
  /\ UNCHANGED <<ipc, armed, cm0_vars, cm4_pc, msg_flag, dfu_start_flag, printed,
                 build, resets>>

\* Fault: the test for a zero word is inverted.
Cm4IsrFlag_Inverted ==
  /\ cm4_isr = "flag"
  /\ msg_flag' = (msg_value = 0 \/ msg_flag)
  /\ cm4_isr' = "clear"
  /\ UNCHANGED <<ipc, armed, cm0_vars, cm4_pc, msg_value, dfu_start_flag, printed,
                 build, resets>>

\* A zero word is not announced to the task.
Cm4IsrFlag ==
  /\ cm4_isr = "flag"
  /\ msg_flag' = (msg_value # 0 \/ msg_flag)
  /\ cm4_isr' = "clear"
  /\ UNCHANGED <<ipc, armed, cm0_vars, cm4_pc, msg_value, dfu_start_flag, printed,
                 build, resets>>

Cm4IsrClear ==
  /\ cm4_isr = "clear"
  /\ ClearInterrupt(CM4)
  /\ cm4_isr' = "none"
  /\ UNCHANGED <<armed, cm0_vars, cm4_pc, cm4_data, build, resets>>

Cm4Main == SetupIpcCm4 \/ SendRequest \/ Banner \/ Poll \/ TakeFlag \/ PrintDeviceId
             \/ BeginDfu \/ DfuRound
Cm4Isr == Cm4IsrEnter \/ Cm4IsrReceive \/ Cm4IsrFlag \/ Cm4IsrClear

-------------------------------------------------------------------------------
\* C's initial values of the globals; the CM4 is held in reset.
Init ==
  /\ locked = {} /\ word = [ch \in Channels |-> 0] /\ notified = {}
  /\ armed = {}
  /\ cm0_pc = "enable_cm4" /\ cm0_isr = "none" /\ msg_cmd = 0
  /\ cm4_pc = "reset" /\ cm4_isr = "none"
  /\ msg_flag = FALSE /\ msg_value = 0 /\ dfu_start_flag = FALSE
  /\ printed = NoWord
  /\ build \in Builds
  /\ resets = 0

\* A power cycle, the reset pin, or the reset that Cy_DFU_ExecuteApp asks for:
\* both cores and the IPC structures start over.
Reset ==
  /\ resets < MaxResets
  /\ locked' = {} /\ word' = [ch \in Channels |-> 0] /\ notified' = {}
  /\ armed' = {}
  /\ cm0_pc' = "enable_cm4" /\ cm0_isr' = "none" /\ msg_cmd' = 0
  /\ cm4_pc' = "reset" /\ cm4_isr' = "none"
  /\ msg_flag' = FALSE /\ msg_value' = 0 /\ dfu_start_flag' = FALSE
  /\ printed' = NoWord
  /\ resets' = resets + 1
  /\ UNCHANGED build

Next == Cm0Main \/ Cm0Isr \/ Cm4Main \/ Cm4Isr \/ Reset

\* Each core keeps executing, and takes an interrupt that stays pending.
Fairness == WF_vars(Cm0Main) /\ WF_vars(Cm0Isr) /\ WF_vars(Cm4Main) /\ WF_vars(Cm4Isr)

SafetySpec == Init /\ [][Next]_vars
Spec == SafetySpec /\ Fairness
-------------------------------------------------------------------------------
Words == {0, IPC_CMD_READ_DATA, DeviceId}

FlagsOK == msg_flag \in BOOLEAN /\ dfu_start_flag \in BOOLEAN
StateOK ==
  /\ locked \subseteq Channels /\ notified \subseteq Channels /\ armed \subseteq Channels
  /\ word \in [Channels -> Words]
  /\ cm0_pc \in {"enable_cm4", "setup_ipc", "delay", "switch", "send", "clear", "halted"}
  /\ cm0_isr \in {"none", "receive", "clear", "halted"}
  /\ msg_cmd \in Words
  /\ cm4_pc \in {"reset", "start", "request", "banner", "poll", "spin", "take", "print",
                 "begin", "dfu", "halted"}
  /\ cm4_isr \in {"none", "receive", "flag", "clear", "halted"}
  /\ msg_value \in Words
  /\ printed \in Words \cup {NoWord}
  /\ build \in Builds
  /\ resets \in 0..MaxResets
TypeOK == StateOK /\ FlagsOK

\* No CY_ASSERT of the IPC code ever fires on either core, although no channel
\* is ever released: each channel carries at most one word between two resets
\* (ipc_communication.c of both applications).
NoIpcAssert ==
  /\ "halted" \notin {cm0_pc, cm0_isr}
  /\ "halted" \notin {cm4_pc, cm4_isr}

\* The CM0+ discloses the device ID only to a CM4 that asked for it
\* (switch on msg_cmd in main() of the CM0+ application).
AnsweredOnlyIfAsked ==
  CM4 \in locked =>
    /\ CM0P \in locked
    /\ word[CM0P] = IPC_CMD_READ_DATA

\* dfu_task begins to talk to the host only after it has printed the device ID
\* it was sent, and never a stale or torn value of msg_value.
DfuNeedsDeviceId ==
  dfu_start_flag => printed = DeviceId /\ CM4 \in locked /\ word[CM4] = DeviceId

\* Why the invariants above hold: where a message can be on its way through each
\* channel.  A request has been received for good before the switch can see it
\* (the handler has returned), so nothing can put it back after the answer; the
\* same holds of the answer and the task's look at msg_flag.
RequestPath ==
  /\ cm0_pc = "enable_cm4" => cm4_pc = "reset"
  /\ CM0P \in locked => word[CM0P] = IPC_CMD_READ_DATA
  /\ CM0P \in notified => CM0P \in locked /\ (msg_cmd = 0 \/ cm0_isr = "clear")
  /\ cm4_pc \in {"reset", "start", "request"} => CM0P \notin locked
  /\ cm0_isr # "none" => CM0P \in notified
  /\ msg_cmd # 0 => CM0P \in locked /\ (CM0P \notin notified \/ cm0_isr = "clear")
  /\ cm0_pc = "send" => /\ CM0P \in locked \ notified
                        /\ CM4 \notin locked
                        /\ msg_cmd # 0
  /\ CM4 \in locked => /\ CM0P \in locked \ notified
                       /\ msg_cmd = 0 \/ cm0_pc = "clear"
AnswerPath ==
  /\ CM4 \in locked => word[CM4] = DeviceId
  /\ CM4 \in notified => CM4 \in locked /\ printed = NoWord
  /\ cm4_isr # "none" => CM4 \in notified
  /\ cm4_isr = "flag" => msg_value = DeviceId
  /\ msg_flag => /\ CM4 \in locked
                 /\ CM4 \notin notified \/ cm4_isr = "clear"
                 /\ msg_value = DeviceId
                 /\ printed = NoWord
  /\ cm4_pc = "take" => msg_flag /\ CM4 \notin notified
  /\ cm4_pc = "print" => /\ CM4 \in locked \ notified
                         /\ ~msg_flag
                         /\ msg_value = DeviceId
                         /\ printed = NoWord
  /\ printed # NoWord => printed = DeviceId /\ CM4 \in locked
  /\ printed # NoWord <=> (dfu_start_flag \/ cm4_pc = "begin")
MessagePaths == NoIpcAssert /\ RequestPath /\ AnswerPath

\* README.md:917 - "The device ID sent on channel 9 by CM0+ is received by CM4 which
\* is then printed on the serial terminal", and the update begins, unless a reset
\* comes first.
AnswerStartsDfu ==
  \A r \in 0..MaxResets :
    (resets = r /\ CM4 \in locked) ~> (dfu_start_flag \/ resets > r)

\* A command that the switch has seen is answered, unless a reset comes first.
SeenCommandAnswered ==
  \A r \in 0..MaxResets :
    (resets = r /\ cm0_pc = "send")
      ~> (CM4 \in locked \/ resets > r)

\* README.md:811 - "When a message is received on channel 8 from CM4, the
\* interrupt callback is triggered and the device ID data stored in the
\* protected storage is sent to CM4 on channel 9."
RequestAnswered ==
  \A r \in 0..MaxResets :
    (resets = r /\ CM0P \in locked)
      ~> (CM4 \in locked \/ resets > r)

-------------------------------------------------------------------------------
\* The exchange implements the abstract service.
phaseOf ==
  CASE dfu_start_flag -> "updating"
    [] ~dfu_start_flag /\ printed # NoWord -> "shown"
    [] printed = NoWord /\ CM4 \in locked -> "answered"
    [] CM4 \notin locked /\ CM0P \in locked -> "asked"
    [] OTHER -> "off"

Service == INSTANCE DeviceIdService WITH phase <- phaseOf, shown <- printed

\* Whatever the interleaving of the two cores and their handlers, and whatever the
\* compiler made of the loop: one request, at most one answer and only to a request,
\* shown before the update begins.
ImplementsServiceSafety == Service!Safety

\* An answer that was sent is shown and the update begins, unless a reset comes
\* first, provided that the loop looks at the flags in every round.
ImplementsServiceLiveness == build = "reread" => Service!Liveness
===============================================================================
