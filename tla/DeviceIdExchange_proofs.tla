------------------------ MODULE DeviceIdExchange_proofs ------------------------
(***************************************************************************)
(* Proofs about DeviceIdExchange, for every device ID, every build and any  *)
(* number of resets.                                                       *)
(*                                                                         *)
(* TypeOK is inductive.  NoIpcAssert, AnsweredOnlyIfAsked and              *)
(* DfuNeedsDeviceId are not: they follow from MessagePaths, which says     *)
(* where a message can be on its way through each channel and is inductive *)
(* together with TypeOK.                                                   *)
(***************************************************************************)
EXTENDS DeviceIdExchange, TLAPS


\* A step leaves the flags Boolean.  Stated apart from the other variables: the
\* provers treat Boolean-valued variables best on their own.
LEMMA FlagsStep == FlagsOK /\ [Next]_vars => FlagsOK'
<1> SUFFICES ASSUME FlagsOK, [Next]_vars PROVE FlagsOK'
  OBVIOUS
<1> USE DEF FlagsOK
<1>1. CASE Cm0Main
  BY <1>1 DEF Cm0Main, EnableCM4, SetupIpcCm0p, Delay, SwitchCommand, SendDeviceId,
              ClearCommand, cm4_vars, cm4_data
<1>2. CASE Cm0Isr
  BY <1>2 DEF Cm0Isr, Cm0IsrEnter, Cm0IsrReceive, Cm0IsrClear, cm4_vars, cm4_data
<1>3. CASE Cm4Main
  BY <1>3 DEF Cm4Main, SetupIpcCm4, SendRequest, Banner, Poll, TakeFlag,
              PrintDeviceId, BeginDfu, DfuRound, cm4_data
<1>4. CASE Cm4Isr
  BY <1>4 DEF Cm4Isr, Cm4IsrEnter, Cm4IsrReceive, Cm4IsrFlag, Cm4IsrClear, cm4_data
<1>5. CASE Reset
  BY <1>5 DEF Reset
<1>6. CASE UNCHANGED vars
  BY <1>6 DEF vars, cm4_vars, cm4_data
<1>7. QED
  BY <1>1, <1>2, <1>3, <1>4, <1>5, <1>6 DEF Next

\* A step keeps the types of the other variables.
LEMMA StateStep == StateOK /\ [Next]_vars => StateOK'
<1> SUFFICES ASSUME StateOK, [Next]_vars PROVE StateOK'
  OBVIOUS
<1> USE DEF StateOK, Words, ipc, cm0_vars, cm4_vars, cm4_data
<1>1. CASE EnableCM4
  BY <1>1 DEF EnableCM4, Cm0Step
<1>2. CASE SetupIpcCm0p
  BY <1>2 DEF SetupIpcCm0p, Cm0Step, Channels
<1>3. CASE Delay
  BY <1>3 DEF Delay, Cm0Step
<1>4. CASE SwitchCommand
  BY <1>4 DEF SwitchCommand, Cm0Step
<1>5. CASE SendDeviceId
  BY <1>5 DEF SendDeviceId, Cm0Step, SendMsgWord, CanSend, Channels
<1>6. CASE ClearCommand
  BY <1>6 DEF ClearCommand, Cm0Step
<1>7. CASE Cm0IsrEnter
  BY <1>7 DEF Cm0IsrEnter, Interrupted
<1>8. CASE Cm0IsrReceive
  BY <1>8 DEF Cm0IsrReceive, CanRead, Channels
<1>9. CASE Cm0IsrClear
  BY <1>9 DEF Cm0IsrClear, ClearInterrupt
<1>10. CASE SetupIpcCm4
  BY <1>10 DEF SetupIpcCm4, Cm4Step, Channels
<1>11. CASE SendRequest
  BY <1>11 DEF SendRequest, Cm4Step, SendMsgWord, CanSend, Channels
<1>12. CASE Banner
  BY <1>12 DEF Banner, Cm4Step
<1>13. CASE Poll
  BY <1>13 DEF Poll, Cm4Step
<1>14. CASE TakeFlag
  BY <1>14 DEF TakeFlag, Cm4Step
<1>15. CASE PrintDeviceId
  BY <1>15 DEF PrintDeviceId, Cm4Step
<1>16. CASE BeginDfu
  BY <1>16 DEF BeginDfu, Cm4Step
<1>17. CASE DfuRound
  BY <1>17 DEF DfuRound, Cm4Step
<1>18. CASE Cm4IsrEnter
  BY <1>18 DEF Cm4IsrEnter, Interrupted
<1>19. CASE Cm4IsrReceive
  BY <1>19 DEF Cm4IsrReceive, CanRead, Channels
<1>20. CASE Cm4IsrFlag
  BY <1>20 DEF Cm4IsrFlag
<1>21. CASE Cm4IsrClear
  BY <1>21 DEF Cm4IsrClear, ClearInterrupt
<1>22. CASE Reset
  BY <1>22, MaxResetsAssumption DEF Reset
<1>23. CASE UNCHANGED vars
  BY <1>23 DEF vars
<1>24. QED
  BY <1>1, <1>2, <1>3, <1>4, <1>5, <1>6, <1>7, <1>8, <1>9, <1>10, <1>11,
     <1>12, <1>13, <1>14, <1>15, <1>16, <1>17, <1>18, <1>19, <1>20, <1>21,
     <1>22, <1>23
  DEF Next, Cm0Main, Cm0Isr, Cm4Main, Cm4Isr

\* Every variable keeps to its set of values.
THEOREM TypeCorrect == SafetySpec => []TypeOK
<1>1. Init => StateOK
  BY MaxResetsAssumption DEF Init, StateOK, Words
<1>2. Init => FlagsOK
  BY DEF Init, FlagsOK
<1>3. TypeOK /\ [Next]_vars => TypeOK'
  BY StateStep, FlagsStep DEF TypeOK
<1>4. QED
  BY <1>1, <1>2, <1>3, PTL DEF SafetySpec, TypeOK
\* A step keeps every message on its path: no assertion fires.
LEMMA NoAssertStep == StateOK /\ FlagsOK /\ MessagePaths /\ [Next]_vars => NoIpcAssert'
<1> SUFFICES ASSUME StateOK, FlagsOK, MessagePaths, [Next]_vars PROVE NoIpcAssert'
  OBVIOUS
<1> USE DEF StateOK, MessagePaths, NoIpcAssert, RequestPath, AnswerPath, ipc, cm0_vars,
            cm4_vars, cm4_data, Channels, CM0P, CM4, IPC_CMD_READ_DATA, Words
<1>1. CASE EnableCM4
  BY <1>1 DEF EnableCM4, Cm0Step
<1>2. CASE SetupIpcCm0p
  BY <1>2 DEF SetupIpcCm0p, Cm0Step
<1>3. CASE Delay
  BY <1>3 DEF Delay, Cm0Step
<1>4. CASE SwitchCommand
  BY <1>4 DEF SwitchCommand, Cm0Step
<1>5. CASE SendDeviceId
  BY <1>5 DEF SendDeviceId, Cm0Step, SendMsgWord, CanSend
<1>6. CASE ClearCommand
  BY <1>6 DEF ClearCommand, Cm0Step
<1>7. CASE Cm0IsrEnter
  BY <1>7 DEF Cm0IsrEnter, Interrupted
<1>8. CASE Cm0IsrReceive
  BY <1>8 DEF Cm0IsrReceive, CanRead
<1>9. CASE Cm0IsrClear
  BY <1>9 DEF Cm0IsrClear, ClearInterrupt
<1>10. CASE SetupIpcCm4
  BY <1>10 DEF SetupIpcCm4, Cm4Step
<1>11. CASE SendRequest
  BY <1>11 DEF SendRequest, Cm4Step, SendMsgWord, CanSend
<1>12. CASE Banner
  BY <1>12 DEF Banner, Cm4Step
<1>13. CASE Poll
  BY <1>13 DEF Poll, Cm4Step
<1>14. CASE TakeFlag
  BY <1>14 DEF TakeFlag, Cm4Step
<1>15. CASE PrintDeviceId
  BY <1>15 DEF PrintDeviceId, Cm4Step
<1>16. CASE BeginDfu
  BY <1>16 DEF BeginDfu, Cm4Step
<1>17. CASE DfuRound
  BY <1>17 DEF DfuRound, Cm4Step
<1>18. CASE Cm4IsrEnter
  BY <1>18 DEF Cm4IsrEnter, Interrupted
<1>19. CASE Cm4IsrReceive
  BY <1>19 DEF Cm4IsrReceive, CanRead
<1>20. CASE Cm4IsrFlag
  BY <1>20 DEF Cm4IsrFlag
<1>21. CASE Cm4IsrClear
  BY <1>21 DEF Cm4IsrClear, ClearInterrupt
<1>22. CASE Reset
  BY <1>22 DEF Reset
<1>23. CASE UNCHANGED vars
  BY <1>23 DEF vars
<1>24. QED
  BY <1>1, <1>2, <1>3, <1>4, <1>5, <1>6, <1>7, <1>8, <1>9, <1>10, <1>11,
     <1>12, <1>13, <1>14, <1>15, <1>16, <1>17, <1>18, <1>19, <1>20, <1>21,
     <1>22, <1>23
  DEF Next, Cm0Main, Cm0Isr, Cm4Main, Cm4Isr

\* A step moves the request along its channel, from the CM4 to the switch.
LEMMA RequestPathStep == StateOK /\ FlagsOK /\ MessagePaths /\ [Next]_vars => RequestPath'
<1> SUFFICES ASSUME StateOK, FlagsOK, MessagePaths, [Next]_vars PROVE RequestPath'
  OBVIOUS
<1> USE DEF StateOK, MessagePaths, NoIpcAssert, RequestPath, AnswerPath, ipc, cm0_vars,
            cm4_vars, cm4_data, Channels, CM0P, CM4, IPC_CMD_READ_DATA, Words
<1>1. CASE EnableCM4
  BY <1>1 DEF EnableCM4, Cm0Step
<1>2. CASE SetupIpcCm0p
  BY <1>2 DEF SetupIpcCm0p, Cm0Step
<1>3. CASE Delay
  BY <1>3 DEF Delay, Cm0Step
<1>4. CASE SwitchCommand
  BY <1>4 DEF SwitchCommand, Cm0Step
<1>5. CASE SendDeviceId
  BY <1>5 DEF SendDeviceId, Cm0Step, SendMsgWord, CanSend
<1>6. CASE ClearCommand
  BY <1>6 DEF ClearCommand, Cm0Step
<1>7. CASE Cm0IsrEnter
  BY <1>7 DEF Cm0IsrEnter, Interrupted
<1>8. CASE Cm0IsrReceive
  BY <1>8 DEF Cm0IsrReceive, CanRead
<1>9. CASE Cm0IsrClear
  BY <1>9 DEF Cm0IsrClear, ClearInterrupt
<1>10. CASE SetupIpcCm4
  BY <1>10 DEF SetupIpcCm4, Cm4Step
<1>11. CASE SendRequest
  BY <1>11 DEF SendRequest, Cm4Step, SendMsgWord, CanSend
<1>12. CASE Banner
  BY <1>12 DEF Banner, Cm4Step
<1>13. CASE Poll
  BY <1>13 DEF Poll, Cm4Step
<1>14. CASE TakeFlag
  BY <1>14 DEF TakeFlag, Cm4Step
<1>15. CASE PrintDeviceId
  BY <1>15 DEF PrintDeviceId, Cm4Step
<1>16. CASE BeginDfu
  BY <1>16 DEF BeginDfu, Cm4Step
<1>17. CASE DfuRound
  BY <1>17 DEF DfuRound, Cm4Step
<1>18. CASE Cm4IsrEnter
  BY <1>18 DEF Cm4IsrEnter, Interrupted
<1>19. CASE Cm4IsrReceive
  BY <1>19 DEF Cm4IsrReceive, CanRead
<1>20. CASE Cm4IsrFlag
  BY <1>20 DEF Cm4IsrFlag
<1>21. CASE Cm4IsrClear
  BY <1>21 DEF Cm4IsrClear, ClearInterrupt
<1>22. CASE Reset
  BY <1>22 DEF Reset
<1>23. CASE UNCHANGED vars
  BY <1>23 DEF vars
<1>24. QED
  BY <1>1, <1>2, <1>3, <1>4, <1>5, <1>6, <1>7, <1>8, <1>9, <1>10, <1>11,
     <1>12, <1>13, <1>14, <1>15, <1>16, <1>17, <1>18, <1>19, <1>20, <1>21,
     <1>22, <1>23
  DEF Next, Cm0Main, Cm0Isr, Cm4Main, Cm4Isr

\* A step moves the answer along its channel, from the switch to dfu_task.
LEMMA AnswerPathStep == StateOK /\ FlagsOK /\ MessagePaths /\ [Next]_vars => AnswerPath'
<1> SUFFICES ASSUME StateOK, FlagsOK, MessagePaths, [Next]_vars PROVE AnswerPath'
  OBVIOUS
<1> USE DEF StateOK, MessagePaths, NoIpcAssert, RequestPath, AnswerPath, ipc, cm0_vars,
            cm4_vars, cm4_data, Channels, CM0P, CM4, IPC_CMD_READ_DATA, Words
<1>1. CASE EnableCM4
  BY <1>1 DEF EnableCM4, Cm0Step
<1>2. CASE SetupIpcCm0p
  BY <1>2 DEF SetupIpcCm0p, Cm0Step
<1>3. CASE Delay
  BY <1>3 DEF Delay, Cm0Step
<1>4. CASE SwitchCommand
  BY <1>4 DEF SwitchCommand, Cm0Step
<1>5. CASE SendDeviceId
  BY <1>5 DEF SendDeviceId, Cm0Step, SendMsgWord, CanSend
<1>6. CASE ClearCommand
  BY <1>6 DEF ClearCommand, Cm0Step
<1>7. CASE Cm0IsrEnter
  BY <1>7 DEF Cm0IsrEnter, Interrupted
<1>8. CASE Cm0IsrReceive
  BY <1>8 DEF Cm0IsrReceive, CanRead
<1>9. CASE Cm0IsrClear
  BY <1>9 DEF Cm0IsrClear, ClearInterrupt
<1>10. CASE SetupIpcCm4
  BY <1>10 DEF SetupIpcCm4, Cm4Step
<1>11. CASE SendRequest
  BY <1>11 DEF SendRequest, Cm4Step, SendMsgWord, CanSend
<1>12. CASE Banner
  BY <1>12 DEF Banner, Cm4Step
<1>13. CASE Poll
  BY <1>13 DEF Poll, Cm4Step
<1>14. CASE TakeFlag
  BY <1>14 DEF TakeFlag, Cm4Step
<1>15. CASE PrintDeviceId
  BY <1>15, DeviceIdAssumption, NoWordAssumption DEF PrintDeviceId, Cm4Step
<1>16. CASE BeginDfu
  BY <1>16 DEF BeginDfu, Cm4Step
<1>17. CASE DfuRound
  BY <1>17 DEF DfuRound, Cm4Step
<1>18. CASE Cm4IsrEnter
  BY <1>18 DEF Cm4IsrEnter, Interrupted
<1>19. CASE Cm4IsrReceive
  BY <1>19 DEF Cm4IsrReceive, CanRead
<1>20. CASE Cm4IsrFlag
  BY <1>20 DEF Cm4IsrFlag
<1>21. CASE Cm4IsrClear
  BY <1>21 DEF Cm4IsrClear, ClearInterrupt
<1>22. CASE Reset
  BY <1>22 DEF Reset
<1>23. CASE UNCHANGED vars
  BY <1>23 DEF vars
<1>24. QED
  BY <1>1, <1>2, <1>3, <1>4, <1>5, <1>6, <1>7, <1>8, <1>9, <1>10, <1>11,
     <1>12, <1>13, <1>14, <1>15, <1>16, <1>17, <1>18, <1>19, <1>20, <1>21,
     <1>22, <1>23
  DEF Next, Cm0Main, Cm0Isr, Cm4Main, Cm4Isr

\* The inductive invariant: messages travel each channel along one path, once
\* (ipc_communication.c of both applications and the two callbacks).
THEOREM PathsCorrect == SafetySpec => []MessagePaths
<1>1. Init => MessagePaths
  BY DEF Init, MessagePaths, NoIpcAssert, RequestPath, AnswerPath
<1>2. StateOK /\ FlagsOK /\ MessagePaths /\ [Next]_vars => MessagePaths'
  BY NoAssertStep, RequestPathStep, AnswerPathStep DEF MessagePaths
<1>3. QED
  BY <1>1, <1>2, TypeCorrect, PTL DEF SafetySpec, TypeOK

\* No CY_ASSERT of the IPC code fires, whatever the interleaving of the two
\* cores and their interrupts.
THEOREM NoAssertFires == SafetySpec => []NoIpcAssert
BY PathsCorrect, PTL DEF MessagePaths

\* The device ID leaves the CM0+ only after a request.
THEOREM AnswerNeedsRequest == SafetySpec => []AnsweredOnlyIfAsked
<1>1. MessagePaths => AnsweredOnlyIfAsked
  BY DEF MessagePaths, RequestPath, AnsweredOnlyIfAsked
<1>2. QED
  BY <1>1, PathsCorrect, PTL

\* The update begins only after the device ID has been received and printed.
THEOREM DfuAfterDeviceId == SafetySpec => []DfuNeedsDeviceId
<1>1. MessagePaths => DfuNeedsDeviceId
  BY DEF MessagePaths, AnswerPath, DfuNeedsDeviceId
<1>2. QED
  BY <1>1, PathsCorrect, PTL

\* Every step is a step of the abstract service or leaves it unchanged.
LEMMA ServiceStep ==
  StateOK /\ MessagePaths /\ [Next]_vars
    => [Service!Next]_<<phaseOf, printed>>
<1> SUFFICES ASSUME StateOK, MessagePaths, [Next]_vars
             PROVE  [Service!Next]_<<phaseOf, printed>>
  OBVIOUS
<1> USE DeviceIdAssumption, NoWordAssumption
    DEF StateOK, MessagePaths, NoIpcAssert, RequestPath, AnswerPath, ipc, cm0_vars,
        cm4_vars, cm4_data, Channels, CM0P, CM4, IPC_CMD_READ_DATA, Words, phaseOf,
        Service!Next, Service!Ask, Service!Answer, Service!Show, Service!Begin,
        Service!Reset, Service!Move
<1>1. CASE EnableCM4
  BY <1>1 DEF EnableCM4, Cm0Step
<1>2. CASE SetupIpcCm0p
  BY <1>2 DEF SetupIpcCm0p, Cm0Step
<1>3. CASE Delay
  BY <1>3 DEF Delay, Cm0Step
<1>4. CASE SwitchCommand
  BY <1>4 DEF SwitchCommand, Cm0Step
<1>5. CASE SendDeviceId
  BY <1>5 DEF SendDeviceId, Cm0Step, SendMsgWord, CanSend
<1>6. CASE ClearCommand
  BY <1>6 DEF ClearCommand, Cm0Step
<1>7. CASE Cm0IsrEnter
  BY <1>7 DEF Cm0IsrEnter, Interrupted
<1>8. CASE Cm0IsrReceive
  BY <1>8 DEF Cm0IsrReceive, CanRead
<1>9. CASE Cm0IsrClear
  BY <1>9 DEF Cm0IsrClear, ClearInterrupt
<1>10. CASE SetupIpcCm4
  BY <1>10 DEF SetupIpcCm4, Cm4Step
<1>11. CASE SendRequest
  BY <1>11 DEF SendRequest, Cm4Step, SendMsgWord, CanSend
<1>12. CASE Banner
  BY <1>12 DEF Banner, Cm4Step
<1>13. CASE Poll
  BY <1>13 DEF Poll, Cm4Step
<1>14. CASE TakeFlag
  BY <1>14 DEF TakeFlag, Cm4Step
<1>15. CASE PrintDeviceId
  BY <1>15 DEF PrintDeviceId, Cm4Step
<1>16. CASE BeginDfu
  BY <1>16 DEF BeginDfu, Cm4Step
<1>17. CASE DfuRound
  BY <1>17 DEF DfuRound, Cm4Step
<1>18. CASE Cm4IsrEnter
  BY <1>18 DEF Cm4IsrEnter, Interrupted
<1>19. CASE Cm4IsrReceive
  BY <1>19 DEF Cm4IsrReceive, CanRead
<1>20. CASE Cm4IsrFlag
  BY <1>20 DEF Cm4IsrFlag
<1>21. CASE Cm4IsrClear
  BY <1>21 DEF Cm4IsrClear, ClearInterrupt
<1>22. CASE Reset
  BY <1>22 DEF Reset
<1>23. CASE UNCHANGED vars
  BY <1>23 DEF vars
<1>24. QED
  BY <1>1, <1>2, <1>3, <1>4, <1>5, <1>6, <1>7, <1>8, <1>9, <1>10, <1>11,
     <1>12, <1>13, <1>14, <1>15, <1>16, <1>17, <1>18, <1>19, <1>20, <1>21,
     <1>22, <1>23
  DEF Next, Cm0Main, Cm0Isr, Cm4Main, Cm4Isr

\* The exchange does what the abstract service allows: one request, at most one
\* answer, shown before the update begins.
THEOREM RefinesService == SafetySpec => ImplementsServiceSafety
<1>1. Init => Service!Init
  BY DEF Init, Service!Init, phaseOf, CM0P, CM4
<1>2. QED
  BY <1>1, ServiceStep, PathsCorrect, TypeCorrect, PTL
  DEF SafetySpec, ImplementsServiceSafety, Service!Safety, Service!vars, TypeOK
================================================================================
