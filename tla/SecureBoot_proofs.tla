---------------------------- MODULE SecureBoot_proofs ----------------------------
(***************************************************************************)
(* Proofs about SecureBoot: for any number of rows and any images, no power *)
(* cut leaves a device without a whole image, and only whole images run.    *)
(***************************************************************************)
EXTENDS SecureBoot, TLAPS

\* Each step keeps the types of the variables, and so does stuttering.
LEMMA TypeStep == TypeOK /\ [Next]_vars => TypeOK'
<1> SUFFICES ASSUME TypeOK, [Next]_vars PROVE TypeOK'
  OBVIOUS
<1> USE RowsAssumption, ImagesAssumption, MaxPowerCutsAssumption
<1> USE DEF TypeOK, Contents, slots, RowNumbers
<1>1. CASE DisableCM4 BY <1>1 DEF DisableCM4
<1>2. CASE RejectUpgrade BY <1>2 DEF RejectUpgrade
<1>3. CASE StartUpgrade BY <1>3 DEF StartUpgrade
<1>4. CASE CopyRow BY <1>4 DEF CopyRow
<1>5. CASE FinishUpgrade BY <1>5 DEF FinishUpgrade
<1>6. CASE StartWatchdog BY <1>6 DEF StartWatchdog
<1>7. CASE Sleep BY <1>7 DEF Sleep
<1>8. CASE DoBoot BY <1>8 DEF DoBoot
<1>9. CASE FreeWatchdog BY <1>9 DEF FreeWatchdog
<1>10. CASE DfuWrite BY <1>10 DEF DfuWrite, WriteData
<1>11. CASE ExecuteApp BY <1>11 DEF ExecuteApp, SystemReset
<1>12. CASE WatchdogReset BY <1>12 DEF WatchdogReset, SystemReset
<1>13. CASE PowerCut BY <1>13 DEF PowerCut, SystemReset
<1>14. CASE UNCHANGED vars BY <1>14 DEF vars
<1> QED
  BY <1>1, <1>2, <1>3, <1>4, <1>5, <1>6, <1>7, <1>8, <1>9, <1>10, <1>11, <1>12, <1>13,
     <1>14 DEF Next, Bootloader

\* The variables keep their types, whatever is uploaded and whenever the power fails.
THEOREM TypeCorrect == SafetySpec => []TypeOK
<1>1. Init => TypeOK
  BY RowsAssumption, ImagesAssumption, MaxPowerCutsAssumption
  DEF Init, TypeOK, Contents, RowNumbers
<1> QED BY <1>1, TypeStep, PTL DEF SafetySpec

\* A step keeps the CM4 and the watchdog where they may be.
LEMMA CM4PathStep == TypeOK /\ CM4Path /\ [Next]_vars => CM4Path'
<1> SUFFICES ASSUME TypeOK, CM4Path, [Next]_vars PROVE CM4Path'
  OBVIOUS
<1> USE DEF CM4Path, TypeOK
<1>1. CASE DisableCM4 BY <1>1 DEF DisableCM4
<1>2. CASE RejectUpgrade BY <1>2 DEF RejectUpgrade
<1>3. CASE StartUpgrade BY <1>3 DEF StartUpgrade
<1>4. CASE CopyRow BY <1>4 DEF CopyRow
<1>5. CASE FinishUpgrade BY <1>5 DEF FinishUpgrade
<1>6. CASE StartWatchdog BY <1>6 DEF StartWatchdog
<1>7. CASE Sleep BY <1>7 DEF Sleep
<1>8. CASE DoBoot BY <1>8 DEF DoBoot
<1>9. CASE FreeWatchdog BY <1>9 DEF FreeWatchdog
<1>10. CASE DfuWrite BY <1>10 DEF DfuWrite
<1>11. CASE ExecuteApp BY <1>11 DEF ExecuteApp, SystemReset
<1>12. CASE WatchdogReset BY <1>12 DEF WatchdogReset, SystemReset
<1>13. CASE PowerCut BY <1>13 DEF PowerCut, SystemReset
<1>14. CASE UNCHANGED vars BY <1>14 DEF vars
<1> QED
  BY <1>1, <1>2, <1>3, <1>4, <1>5, <1>6, <1>7, <1>8, <1>9, <1>10, <1>11, <1>12, <1>13,
     <1>14 DEF Next, Bootloader

\* The flash is written by one core at a time and never under a running watchdog.
THEOREM WritesUndisturbed == SafetySpec => []FlashWritesUndisturbed
<1>1. Init => CM4Path
  <2>1. Init => at = "main" /\ wdt = "off" /\ cm4 \in {"off", "stray"}
    BY DEF Init
  <2> QED BY <2>1 DEF CM4Path
<1>2. TypeOK /\ CM4Path => FlashWritesUndisturbed
  BY DEF TypeOK, CM4Path, FlashWritesUndisturbed
<1> QED BY <1>1, <1>2, CM4PathStep, TypeCorrect, PTL DEF SafetySpec

\* NeverBricked and OnlyWholeImagesRun are not inductive: that the copy ends with a
\* whole image needs what CopyKeepsSource says of the rows copied so far, and that
\* nothing changes the primary slot under an application needs CM4Path.
BootInv == TypeOK /\ CM4Path /\ CopyKeepsSource /\ OnlyWholeImagesRun

\* A step keeps the upgrade whole while it is copied.
LEMMA CopyStep == BootInv /\ [Next]_vars => CopyKeepsSource'
<1> SUFFICES ASSUME BootInv, [Next]_vars PROVE CopyKeepsSource'
  OBVIOUS
<1> USE RowsAssumption
<1> USE DEF BootInv, CopyKeepsSource
<1>1. CASE DisableCM4 BY <1>1 DEF DisableCM4
<1>2. CASE RejectUpgrade BY <1>2 DEF RejectUpgrade
<1>3. CASE StartUpgrade BY <1>3 DEF StartUpgrade, slots, Whole
<1>4. CASE CopyRow
  BY <1>4 DEF CopyRow, TypeOK, Contents, RowNumbers, Whole
<1>5. CASE FinishUpgrade BY <1>5 DEF FinishUpgrade
<1>6. CASE StartWatchdog BY <1>6 DEF StartWatchdog
<1>7. CASE Sleep BY <1>7 DEF Sleep
<1>8. CASE DoBoot BY <1>8 DEF DoBoot
<1>9. CASE FreeWatchdog BY <1>9 DEF FreeWatchdog, CM4Path
<1>10. CASE DfuWrite BY <1>10 DEF DfuWrite, CM4Path
<1>11. CASE ExecuteApp BY <1>11 DEF ExecuteApp, SystemReset
<1>12. CASE WatchdogReset BY <1>12 DEF WatchdogReset, SystemReset
<1>13. CASE PowerCut BY <1>13 DEF PowerCut, SystemReset
<1>14. CASE UNCHANGED vars BY <1>14 DEF vars, slots, Whole
<1> QED
  BY <1>1, <1>2, <1>3, <1>4, <1>5, <1>6, <1>7, <1>8, <1>9, <1>10, <1>11, <1>12, <1>13,
     <1>14 DEF Next, Bootloader

\* A step starts only what is whole, and leaves alone what runs.
LEMMA RunStep == BootInv /\ [Next]_vars => OnlyWholeImagesRun'
<1> SUFFICES ASSUME BootInv, [Next]_vars PROVE OnlyWholeImagesRun'
  OBVIOUS
<1> USE DEF BootInv, OnlyWholeImagesRun, Whole
<1>1. CASE DisableCM4 BY <1>1 DEF DisableCM4
<1>2. CASE RejectUpgrade BY <1>2 DEF RejectUpgrade
<1>3. CASE StartUpgrade BY <1>3 DEF StartUpgrade
<1>4. CASE CopyRow BY <1>4 DEF CopyRow
<1>5. CASE FinishUpgrade BY <1>5 DEF FinishUpgrade
<1>6. CASE StartWatchdog BY <1>6 DEF StartWatchdog, slots
<1>7. CASE Sleep BY <1>7 DEF Sleep
<1>8. CASE DoBoot BY <1>8 DEF DoBoot, slots
<1>9. CASE FreeWatchdog BY <1>9 DEF FreeWatchdog, slots
<1>10. CASE DfuWrite BY <1>10 DEF DfuWrite, WriteData, slots
<1>11. CASE ExecuteApp BY <1>11 DEF ExecuteApp, SystemReset
<1>12. CASE WatchdogReset BY <1>12 DEF WatchdogReset, SystemReset
<1>13. CASE PowerCut BY <1>13 DEF PowerCut, SystemReset
<1>14. CASE UNCHANGED vars BY <1>14 DEF vars, slots
<1> QED
  BY <1>1, <1>2, <1>3, <1>4, <1>5, <1>6, <1>7, <1>8, <1>9, <1>10, <1>11, <1>12, <1>13,
     <1>14 DEF Next, Bootloader

\* The strengthened invariant: types, the CM4, the copy and what runs.
LEMMA BootInvariant == SafetySpec => []BootInv
<1>1. Init => BootInv
  BY RowsAssumption, ImagesAssumption, MaxPowerCutsAssumption
  DEF Init, BootInv, TypeOK, Contents, RowNumbers, CM4Path, CopyKeepsSource,
      OnlyWholeImagesRun
<1>2. BootInv /\ [Next]_vars => BootInv'
  BY TypeStep, CM4PathStep, CopyStep, RunStep DEF BootInv
<1> QED BY <1>1, <1>2, PTL DEF SafetySpec

\* Whatever runs was validated as a whole and has not changed since.
THEOREM WholeImagesRun == SafetySpec => []OnlyWholeImagesRun
<1>1. BootInv => OnlyWholeImagesRun BY DEF BootInv
<1> QED BY <1>1, BootInvariant, PTL

\* While rows are copied the secondary slot stays a whole signed image, and what was
\* copied so far is the beginning of it: the reason why no power cut is fatal.
THEOREM CopySafe == SafetySpec => []CopyKeepsSource
<1>1. BootInv => CopyKeepsSource BY DEF BootInv
<1> QED BY <1>1, BootInvariant, PTL

\* A step keeps a whole image in the device.
LEMMA BootableStep == BootInv /\ Bootable /\ [Next]_vars => Bootable'
<1> SUFFICES ASSUME BootInv, Bootable, [Next]_vars PROVE Bootable'
  OBVIOUS
<1>1. CASE DisableCM4 BY <1>1 DEF DisableCM4, slots, Bootable, Pending, Whole
<1>2. CASE RejectUpgrade BY <1>2 DEF RejectUpgrade, Bootable, Pending, Whole
<1>3. CASE StartUpgrade BY <1>3 DEF StartUpgrade, slots, Bootable, Pending, Whole
<1>4. CASE CopyRow
  <2>1. at = "copy" /\ Whole(secondary) BY <1>4 DEF CopyRow, BootInv, CopyKeepsSource
  <2>2. Pending
    BY <2>1, RowsAssumption, ImagesAssumption DEF Whole, Pending, RowNumbers
  <2> QED BY <1>4, <2>1, <2>2 DEF CopyRow, Bootable, Pending, Whole
<1>5. CASE FinishUpgrade
  <2>1. Whole(secondary) BY <1>5 DEF FinishUpgrade, BootInv, CopyKeepsSource
  <2>2. row = Rows + 1
    BY <1>5, RowsAssumption DEF FinishUpgrade, BootInv, CopyKeepsSource
  <2>3. \A r \in RowNumbers : primary[r] = secondary[r]
    BY <1>5, <2>2, RowsAssumption DEF FinishUpgrade, BootInv, CopyKeepsSource, RowNumbers
  <2>4. Whole(primary) BY <2>1, <2>3 DEF Whole
  <2> QED BY <1>5, <2>4 DEF FinishUpgrade, Bootable, Whole
<1>6. CASE StartWatchdog BY <1>6 DEF StartWatchdog, slots, Bootable, Pending, Whole
<1>7. CASE Sleep BY <1>7 DEF Sleep, slots, Bootable, Pending, Whole
<1>8. CASE DoBoot BY <1>8 DEF DoBoot, slots, Bootable, Pending, Whole
<1>9. CASE FreeWatchdog BY <1>9 DEF FreeWatchdog, slots, Bootable, Pending, Whole
<1>10. CASE DfuWrite
  <2>1. Whole(primary) BY <1>10 DEF DfuWrite, BootInv, CM4Path, OnlyWholeImagesRun
  <2>2. UNCHANGED primary BY <1>10 DEF DfuWrite, WriteData, slots
  <2> QED BY <2>1, <2>2 DEF Bootable, Whole
<1>11. CASE ExecuteApp BY <1>11 DEF ExecuteApp, SystemReset, slots, Bootable, Pending, Whole
<1>12. CASE WatchdogReset
  BY <1>12 DEF WatchdogReset, SystemReset, slots, Bootable, Pending, Whole
<1>13. CASE PowerCut BY <1>13 DEF PowerCut, SystemReset, slots, Bootable, Pending, Whole
<1>14. CASE UNCHANGED vars BY <1>14 DEF vars, slots, Bootable, Pending, Whole
<1> QED
  BY <1>1, <1>2, <1>3, <1>4, <1>5, <1>6, <1>7, <1>8, <1>9, <1>10, <1>11, <1>12, <1>13,
     <1>14 DEF Next, Bootloader

\* No step and no power cut takes a device its last whole image.
THEOREM PowerCutsHarmless == SafetySpec => NeverBricked
<1>1. BootInv /\ [Next]_vars => [Bootable => Bootable']_vars
  BY BootableStep
<1> QED BY <1>1, BootInvariant, PTL DEF SafetySpec, NeverBricked

\* The bootloader starts an application only when no upgrade is waiting.
StartsInstalled == at = "do_boot" => ~Pending

\* A step keeps an upgrade from waiting behind a bootloader that has decided.
LEMMA StartsInstalledStep ==
  BootInv /\ StartsInstalled /\ [Next]_vars => StartsInstalled'
<1> SUFFICES ASSUME BootInv, StartsInstalled, [Next]_vars, at' = "do_boot"
             PROVE  ~Pending'
  BY DEF StartsInstalled
<1> USE DEF StartsInstalled, Pending
<1>1. CASE DisableCM4 BY <1>1 DEF DisableCM4
<1>2. CASE RejectUpgrade BY <1>2 DEF RejectUpgrade
<1>3. CASE StartUpgrade BY <1>3 DEF StartUpgrade
<1>4. CASE CopyRow BY <1>4 DEF CopyRow
<1>5. CASE FinishUpgrade BY <1>5 DEF FinishUpgrade
<1>6. CASE StartWatchdog BY <1>6 DEF StartWatchdog, slots
<1>7. CASE Sleep BY <1>7 DEF Sleep
<1>8. CASE DoBoot BY <1>8 DEF DoBoot
<1>9. CASE FreeWatchdog BY <1>9 DEF FreeWatchdog, slots
<1>10. CASE DfuWrite BY <1>10 DEF DfuWrite, BootInv, CM4Path
<1>11. CASE ExecuteApp BY <1>11 DEF ExecuteApp, SystemReset
<1>12. CASE WatchdogReset BY <1>12 DEF WatchdogReset, SystemReset
<1>13. CASE PowerCut BY <1>13 DEF PowerCut, SystemReset
<1>14. CASE UNCHANGED vars BY <1>14 DEF vars, slots
<1> QED
  BY <1>1, <1>2, <1>3, <1>4, <1>5, <1>6, <1>7, <1>8, <1>9, <1>10, <1>11, <1>12, <1>13,
     <1>14 DEF Next, Bootloader

\* A whole slot holds one signed image, whose rows are not blank.
LEMMA WholeSlot ==
  ASSUME NEW slot, Whole(slot)
  PROVE  slot[1] \in Signed /\ slot[1] # Blank /\ slot[Rows] # Blank
<1>1. 1 \in RowNumbers /\ Rows \in RowNumbers
  BY RowsAssumption DEF RowNumbers
<1> QED BY <1>1, ImagesAssumption DEF Whole

\* A step that leaves the slots alone leaves the next start alone.
LEMMA SlotsDecide == UNCHANGED slots => UNCHANGED boots
  BY DEF slots, boots, Pending, Whole

\* Each step is a start, a transfer or a reset of the service, or nothing to it.
LEMMA ServiceStep ==
  BootInv /\ StartsInstalled /\ [Next]_vars => [Service!Next]_<<boots, up>>
<1> SUFFICES ASSUME BootInv, StartsInstalled, [Next]_vars
             PROVE  [Service!Next]_<<boots, up>>
  OBVIOUS
<1>0. at = "app" => Whole(primary) /\ up = primary[1] /\ up \in Signed /\ up # Blank
  BY WholeSlot DEF BootInv, OnlyWholeImagesRun, up
<1>00. at # "app" => up = Blank
  BY DEF up
<1>1. CASE DisableCM4 BY <1>1, SlotsDecide DEF DisableCM4, up
<1>2. CASE RejectUpgrade
  <2>1. ~Pending' BY <1>2, RowsAssumption DEF RejectUpgrade, Pending, RowNumbers
  <2>2. UNCHANGED boots BY <1>2, <2>1 DEF RejectUpgrade, boots, Whole
  <2> QED BY <1>2, <2>2 DEF RejectUpgrade, up
<1>3. CASE StartUpgrade BY <1>3, SlotsDecide DEF StartUpgrade, up
<1>4. CASE CopyRow
  <2>1. Whole(secondary) BY <1>4 DEF CopyRow, BootInv, CopyKeepsSource
  <2>2. Pending BY <2>1, WholeSlot DEF Pending
  <2>3. UNCHANGED boots BY <1>4, <2>1, <2>2 DEF CopyRow, boots, Pending, Whole
  <2> QED BY <1>4, <2>3 DEF CopyRow, up
<1>5. CASE FinishUpgrade
  <2>1. Whole(secondary) BY <1>5 DEF FinishUpgrade, BootInv, CopyKeepsSource
  <2>2. row = Rows + 1
    BY <1>5, RowsAssumption DEF FinishUpgrade, BootInv, CopyKeepsSource
  <2>3. \A r \in RowNumbers : primary[r] = secondary[r]
    BY <1>5, <2>2, RowsAssumption DEF FinishUpgrade, BootInv, CopyKeepsSource, RowNumbers
  <2>4. Whole(primary) /\ primary[1] = secondary[1]
    BY <2>1, <2>3, RowsAssumption DEF Whole, RowNumbers
  <2>5. boots = secondary[1] BY <2>1, WholeSlot DEF boots, Pending
  <2>6. ~Pending'
    BY <1>5, RowsAssumption DEF FinishUpgrade, Pending, BootInv, TypeOK, Contents, RowNumbers
  <2>7. boots' = primary[1] BY <1>5, <2>4, <2>6 DEF FinishUpgrade, boots, Whole
  <2> QED BY <1>5, <2>4, <2>5, <2>7 DEF FinishUpgrade, up
<1>6. CASE StartWatchdog BY <1>6, SlotsDecide DEF StartWatchdog, up
<1>7. CASE Sleep BY <1>7, SlotsDecide DEF Sleep, up
<1>8. CASE DoBoot
  <2>1. Whole(primary) /\ ~Pending
    BY <1>8 DEF DoBoot, BootInv, OnlyWholeImagesRun, StartsInstalled
  <2>2. boots = primary[1] /\ boots # Blank BY <2>1, WholeSlot DEF boots
  <2>3. up = Blank /\ up' = boots BY <1>8, <2>2 DEF DoBoot, slots, up
  <2>4. UNCHANGED boots BY <1>8, SlotsDecide DEF DoBoot
  <2> QED BY <2>2, <2>3, <2>4 DEF Service!Next, Service!Start
<1>9. CASE FreeWatchdog BY <1>9, SlotsDecide DEF FreeWatchdog, slots, up
<1>10. CASE DfuWrite
  <2>1. at = "app" BY <1>10 DEF DfuWrite, BootInv, CM4Path
  <2>2. UNCHANGED <<at, primary>> BY <1>10 DEF DfuWrite, WriteData, slots
  <2>3. UNCHANGED up BY <2>2 DEF up
  <2>4. Whole(primary)' BY <1>0, <2>1, <2>2 DEF Whole
  <2>5. boots' \in Signed
    <3>1. CASE Pending' /\ Whole(secondary)'
      BY <3>1, RowsAssumption DEF boots, Whole, RowNumbers
    <3>2. CASE ~(Pending' /\ Whole(secondary)')
      BY <3>2, <2>4, RowsAssumption DEF boots, Whole, RowNumbers
    <3> QED BY <3>1, <3>2
  <2> QED BY <1>0, <2>1, <2>3, <2>5 DEF Service!Next, Service!Transfer
<1>11. CASE SystemReset
  <2>1. UNCHANGED boots BY <1>11, SlotsDecide DEF SystemReset
  <2>2. up' = Blank BY <1>11 DEF SystemReset, up
  <2> QED BY <1>0, <1>00, <2>1, <2>2 DEF Service!Next, Service!Reset
<1>12. CASE UNCHANGED vars BY <1>12, SlotsDecide DEF vars, slots, up
<1> QED
  BY <1>1, <1>2, <1>3, <1>4, <1>5, <1>6, <1>7, <1>8, <1>9, <1>10, <1>11, <1>12
  DEF Next, Bootloader, ExecuteApp, WatchdogReset, PowerCut

\* The bootloader, the upgrade and the transfers implement the abstract service: the
\* image the rows determine is the one that comes up, through every reset and power
\* cut, for slots of any size and any images.
THEOREM ImplementsService == SafetySpec => ImplementsServiceSafety
<1>1. Init => Service!Init
  BY RowsAssumption, ImagesAssumption, WholeSlot
  DEF Init, Service!Init, boots, up, Pending, RowNumbers
<1>2. Init => StartsInstalled BY DEF Init, StartsInstalled
<1> QED
  BY <1>1, <1>2, StartsInstalledStep, ServiceStep, BootInvariant, PTL
  DEF SafetySpec, ImplementsServiceSafety, Service!SafetySpec, Service!vars
==================================================================================
