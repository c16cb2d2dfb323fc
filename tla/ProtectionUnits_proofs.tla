-------------------------- MODULE ProtectionUnits_proofs --------------------------
(***************************************************************************)
(* Proofs about ProtectionUnits: for any number of resets, a build that     *)
(* keeps its assertions starts nothing before the whole lock is in place,   *)
(* nothing that runs then can change it, and what is locked gives each core *)
(* the sections of the memory map that are its own.                        *)
(***************************************************************************)
EXTENDS ProtectionUnits, MemoryLayout_proofs, FiniteSetTheorems, TLAPS

\* The group of calls that is being made, and how many calls it has.
IndexInGroup ==
  /\ at = "bus_masters" => i \in 0..2
  /\ at = "contexts" => i \in 0..1
  /\ at = "smpu" => i \in 0..(Len(SmpuOrder(device)) - 1)
  /\ at = "masters" => i \in 0..15
  /\ at \notin {"bus_masters", "contexts", "smpu", "masters"} => i = 0

\* The lengths of the groups.
LEMMA GroupLengths ==
  /\ Len(BusMasters) = 3 /\ Len(NonSecureMasters) = 2 /\ Cardinality(SmpuStructs) = 16
  /\ \A n \in 1..3 : BusMasters[n] \in Masters
  /\ \A n \in 1..2 : NonSecureMasters[n] \in {CM4, TC}
<1>1. Cardinality(SmpuStructs) = 16
  <2>1. 0 \in Int /\ 15 \in Int OBVIOUS
  <2>2. Cardinality(0..15) = IF 0 > 15 THEN 0 ELSE 15 - 0 + 1 BY <2>1, FS_Interval
  <2> QED BY <2>2 DEF SmpuStructs
<1> QED BY <1>1 DEF BusMasters, NonSecureMasters, Masters

\* What is known of the order of the regions.
LEMMA OrderLength ==
  ASSUME NEW d
  PROVE  /\ Len(SmpuOrder(d)) \in 1..9
         /\ \A n \in 1..Len(SmpuOrder(d)) : SmpuOrder(d)[n] \in SmpuStructs
<1>1. CASE d = 2048 BY <1>1 DEF SmpuOrder, SmpuStructs
<1>2. CASE d # 2048 BY <1>2 DEF SmpuOrder, SmpuStructs
<1> QED BY <1>1, <1>2

\* The masks leave out context 0 and hold the contexts that are switched to.
LEMMA Masks ==
  /\ MasterMask \in [Masters -> SUBSET (PCs \ {0})]
  /\ MasterMask[CM0] = {1, 2} /\ MasterMask[CM4] = {4} /\ MasterMask[TC] = {5}
BY DEF MasterMask, Masters, PCs, CM0, CM4, TC

\* The registers have their types; of TypeOK this is what prot_units_init changes.
Registers ==
  /\ pc_mask \in [Masters -> SUBSET (PCs \ {0})]
  /\ active_pc \in [Masters -> PCs]
  /\ smpu \subseteq SmpuStructs /\ sealed \subseteq SmpuStructs
  /\ ms_ctl \in BOOLEAN

\* The contents of the registers after a reset.
LEMMA EmptyTypes ==
  /\ [m \in Masters |-> {}] \in [Masters -> SUBSET (PCs \ {0})]
  /\ [m \in Masters |-> 0] \in [Masters -> PCs]
  /\ {} \subseteq SmpuStructs /\ FALSE \in BOOLEAN
<1>1. {} \in SUBSET (PCs \ {0}) OBVIOUS
<1>2. 0 \in PCs BY DEF PCs
<1>3. [m \in Masters |-> {}] \in [Masters -> SUBSET (PCs \ {0})] BY <1>1
<1>4. [m \in Masters |-> 0] \in [Masters -> PCs] BY <1>2
<1> QED BY <1>3, <1>4

\* A change of context, allowed or ignored, keeps the type of the contexts.
LEMMA SwitchTypes ==
  ASSUME Registers, NEW m \in Masters, NEW pc \in PCs, SetActivePC(m, pc)
  PROVE  active_pc' \in [Masters -> PCs]
BY DEF Registers, SetActivePC

\* A step keeps the index in its group.
LEMMA IndexStep == IndexInGroup /\ [Next]_vars => IndexInGroup'
<1> SUFFICES ASSUME IndexInGroup, [Next]_vars PROVE IndexInGroup'
  OBVIOUS
<1> USE GroupLengths, OrderLength DEF IndexInGroup, Call
<1>1. CASE ConfigBusMaster BY <1>1 DEF ConfigBusMaster
<1>2. CASE LeaveContextZero
  <2>1. UNCHANGED device BY <1>2 DEF LeaveContextZero
  <2>3. Len(SmpuOrder(device)) \in 1..9 OBVIOUS
  <2>2. \/ at' = "contexts" /\ i' \in 0..1
        \/ at' = "smpu" /\ i' = 0
    BY <1>2 DEF LeaveContextZero
  <2>4. \A n \in 1..9 : 0 \in 0..(n - 1) OBVIOUS
  <2>5. 0 \in 0..(Len(SmpuOrder(device')) - 1) BY <2>1, <2>3, <2>4
  <2> QED BY <2>2, <2>5
<1>3. CASE ProtectRegion BY <1>3 DEF ProtectRegion
<1>4. CASE CloseMsCtl BY <1>4 DEF CloseMsCtl
<1>5. CASE SealStruct BY <1>5 DEF SealStruct
<1>6. CASE Lock BY <1>6 DEF Lock
<1>7. CASE CallFails BY <1>7 DEF CallFails
<1>8. CASE BootGo BY <1>8 DEF BootGo
<1>9. CASE SwitchToApplication BY <1>9 DEF SwitchToApplication
<1>10. CASE Jump BY <1>10 DEF Jump
<1>11. CASE Applications
  BY <1>11 DEF Applications, EnableCM4, SwitchContext, RewriteMask, DisableRegion
<1>12. CASE Reset BY <1>12 DEF Reset
<1>13. CASE UNCHANGED vars BY <1>13 DEF vars
<1> QED
  BY <1>1, <1>2, <1>3, <1>4, <1>5, <1>6, <1>7, <1>8, <1>9, <1>10, <1>11, <1>12, <1>13
  DEF Next, ProtUnitsInit

\* A step keeps the types of the registers.
LEMMA RegistersStep == Registers /\ IndexInGroup /\ [Next]_vars => Registers'
<1> SUFFICES ASSUME Registers, IndexInGroup, [Next]_vars PROVE Registers'
  OBVIOUS
<1> USE DEF Registers, units
<1>1. CASE ConfigBusMaster
  <2>1. BusMasters[i + 1] \in Masters
    BY <1>1, GroupLengths DEF ConfigBusMaster, Call, IndexInGroup
  <2> QED BY <1>1, <2>1, Masks DEF ConfigBusMaster
<1>2. CASE LeaveContextZero
  <2>1. NonSecureMasters[i + 1] \in Masters
    BY <1>2, GroupLengths DEF LeaveContextZero, Call, IndexInGroup, Masters
  <2>2. active_pc' \in [Masters -> PCs]
    BY <1>2, <2>1, SwitchTypes DEF LeaveContextZero, PCs
  <2> QED BY <1>2, <2>2 DEF LeaveContextZero
<1>3. CASE ProtectRegion
  BY <1>3, OrderLength DEF ProtectRegion, Call, IndexInGroup
<1>4. CASE CloseMsCtl BY <1>4 DEF CloseMsCtl
<1>5. CASE SealStruct BY <1>5 DEF SealStruct, Call, IndexInGroup, SmpuStructs
<1>6. CASE Lock BY <1>6, SwitchTypes DEF Lock, PCs, Masters
<1>7. CASE CallFails BY <1>7 DEF CallFails
<1>8. CASE BootGo BY <1>8 DEF BootGo
<1>9. CASE SwitchToApplication BY <1>9, SwitchTypes DEF SwitchToApplication, PCs, Masters
<1>10. CASE Jump BY <1>10 DEF Jump
<1>11. CASE EnableCM4 BY <1>11 DEF EnableCM4
<1>12. CASE SwitchContext BY <1>12, SwitchTypes DEF SwitchContext, Masters
<1>13. CASE RewriteMask BY <1>13 DEF RewriteMask
<1>14. CASE DisableRegion BY <1>14 DEF DisableRegion
<1>15. CASE Reset
  <2>1. pc_mask' = [m \in Masters |-> {}] /\ active_pc' = [m \in Masters |-> 0]
    BY <1>15 DEF Reset
  <2>2. smpu' = {} /\ sealed' = {} /\ ms_ctl' = FALSE BY <1>15 DEF Reset
  <2> QED BY <2>1, <2>2, EmptyTypes
<1>16. CASE UNCHANGED vars BY <1>16 DEF vars
<1> QED
  BY <1>1, <1>2, <1>3, <1>4, <1>5, <1>6, <1>7, <1>8, <1>9, <1>10, <1>11, <1>12, <1>13,
     <1>14, <1>15, <1>16
  DEF Next, ProtUnitsInit, Applications

\* What else TypeOK says.
Control ==
  /\ device \in Families /\ assert \in Asserts
  /\ at \in {"bus_masters", "contexts", "smpu", "ms_ctl", "masters", "lock", "boot_go",
             "do_boot", "jump", "app", "asleep", "halted"}
  /\ cm4_on \in BOOLEAN
  /\ resets \in 0..MaxResets

\* A step keeps the rest of the types.
LEMMA ControlStep == Control /\ [Next]_vars => Control'
<1> SUFFICES ASSUME Control, [Next]_vars PROVE Control'
  OBVIOUS
<1> USE MaxResetsAssumption DEF Control, Call
<1>1. CASE ConfigBusMaster BY <1>1 DEF ConfigBusMaster
<1>2. CASE LeaveContextZero BY <1>2 DEF LeaveContextZero
<1>3. CASE ProtectRegion BY <1>3 DEF ProtectRegion
<1>4. CASE CloseMsCtl BY <1>4 DEF CloseMsCtl
<1>5. CASE SealStruct BY <1>5 DEF SealStruct
<1>6. CASE Lock BY <1>6 DEF Lock
<1>7. CASE CallFails BY <1>7 DEF CallFails
<1>8. CASE BootGo BY <1>8 DEF BootGo
<1>9. CASE SwitchToApplication BY <1>9 DEF SwitchToApplication
<1>10. CASE Jump BY <1>10 DEF Jump
<1>11. CASE Applications
  BY <1>11 DEF Applications, EnableCM4, SwitchContext, RewriteMask, DisableRegion
<1>12. CASE Reset
  <2>1. resets' \in 0..MaxResets BY <1>12 DEF Reset
  <2>2. at' = "bus_masters" /\ cm4_on' = FALSE /\ UNCHANGED <<device, assert>>
    BY <1>12 DEF Reset
  <2> QED BY <2>1, <2>2
<1>13. CASE UNCHANGED vars BY <1>13 DEF vars
<1> QED
  BY <1>1, <1>2, <1>3, <1>4, <1>5, <1>6, <1>7, <1>8, <1>9, <1>10, <1>11, <1>12, <1>13
  DEF Next, ProtUnitsInit

\* Types and index together are inductive.
LEMMA TypeInvariant == Spec => [](Registers /\ Control /\ IndexInGroup)
<1>1. Init => Registers /\ Control /\ IndexInGroup
  <2>1. Init => Registers BY EmptyTypes DEF Init, Unprotected, Registers
  <2>2. 0 \in 0..MaxResets BY MaxResetsAssumption
  <2>4. Init => Control BY <2>2 DEF Init, Control
  <2>3. Init => IndexInGroup BY DEF Init, IndexInGroup
  <2> QED BY <2>1, <2>3, <2>4
<1> QED BY <1>1, RegistersStep, ControlStep, IndexStep, PTL DEF Spec

\* The registers and the position of prot_units_init keep their types, whichever call
\* fails and whatever the applications try.
THEOREM TypeCorrect == Spec => []TypeOK
<1>1. Registers /\ Control /\ IndexInGroup => TypeOK
  <2>1. Len(SmpuOrder(device)) \in 1..9 BY OrderLength
  <2>2. IndexInGroup => i \in 0..16
    <3>1. 0..2 \subseteq 0..16 /\ 0..1 \subseteq 0..16 /\ 0..15 \subseteq 0..16 /\ 0 \in 0..16
      OBVIOUS
    <3>2. \A n \in 1..9 : 0..(n - 1) \subseteq 0..16 OBVIOUS
    <3>3. 0..(Len(SmpuOrder(device)) - 1) \subseteq 0..16 BY <2>1, <3>2
    <3> QED BY <3>1, <3>3 DEF IndexInGroup
  <2> QED BY <2>2 DEF Registers, Control, TypeOK
<1> QED BY <1>1, TypeInvariant, PTL

-----------------------------------------------------------------------------------
(* The lock, in a build that keeps its assertions: what each group of      *)
(* calls leaves behind is there for as long as the program is past it.     *)

\* Where the calls of prot_units_init are made, and where their failure leads.
Locking == {"bus_masters", "contexts", "smpu", "ms_ctl", "masters", "lock"}
Stopped == {"halted"}

MasksSet ==
  /\ at = "bus_masters" =>
       \A n \in 1..i : pc_mask[BusMasters[n]] = MasterMask[BusMasters[n]]
  /\ at \notin {"bus_masters"} \cup Stopped => pc_mask = MasterMask

ContextsLeft ==
  /\ at = "contexts" /\ i = 1 => active_pc[CM4] = 4
  /\ at \notin {"bus_masters", "contexts"} \cup Stopped =>
       active_pc[CM4] = 4 /\ active_pc[TC] = 5

\* The first n regions that prot_units_init enables.
FirstRegions(d, n) == {SmpuOrder(d)[k] : k \in 1..n}

RegionsOn ==
  /\ at \in {"bus_masters", "contexts"} => smpu = {}
  /\ at = "smpu" => smpu = FirstRegions(device, i)
  /\ at \notin {"bus_masters", "contexts", "smpu"} \cup Stopped =>
       smpu = FirstRegions(device, Len(SmpuOrder(device)))

Sealed ==
  /\ at \in {"masters", "lock"} \/ at \notin Locking \cup Stopped => ms_ctl
  /\ at = "masters" => 0..(i - 1) \subseteq sealed
  /\ at = "lock" \/ at \notin Locking \cup Stopped => sealed = SmpuStructs

\* The bootloader keeps context 0 until the lock is complete, and nobody has it after:
\* MCUboot runs in context 1, the application may choose between 1 and 2.
ContextOfBoot ==
  /\ at \in Locking \cup Stopped => active_pc[CM0] = 0
  /\ at \in {"boot_go", "do_boot", "asleep"} => active_pc[CM0] = 1
  /\ at = "jump" => active_pc[CM0] = 2
  /\ at \notin Locking \cup Stopped => active_pc[CM0] \in {1, 2}

Started == assert = TRUE /\ (cm4_on => at = "app")

LockInv == /\ Registers /\ Control /\ IndexInGroup
           /\ MasksSet /\ ContextsLeft /\ RegionsOn /\ Sealed /\ ContextOfBoot /\ Started

\* Past the calls of prot_units_init the invariant is the lock itself.
LEMMA InvLocked == LockInv /\ at \notin Locking \cup Stopped => Locked
<1> SUFFICES ASSUME LockInv, at \notin Locking \cup Stopped PROVE Locked
  OBVIOUS
<1>1. pc_mask = MasterMask BY DEF LockInv, MasksSet, Locking, Stopped
<1>2. active_pc[CM0] \in MasterMask[CM0]
  BY Masks DEF LockInv, ContextOfBoot
<1>3. active_pc[CM4] \in MasterMask[CM4] /\ active_pc[TC] \in MasterMask[TC]
  BY Masks DEF LockInv, ContextsLeft, Locking, Stopped
<1>4. smpu = {SmpuOrder(device)[n] : n \in 1..Len(SmpuOrder(device))}
  BY DEF LockInv, RegionsOn, Locking, Stopped, FirstRegions
<1>5. sealed = SmpuStructs /\ ms_ctl BY DEF LockInv, Sealed, Locking, Stopped
<1> QED BY <1>1, <1>2, <1>3, <1>4, <1>5 DEF Locked, Masters

\* Where the system is locked no register of the applications' moves changes.
LEMMA LockedStays ==
  ASSUME LockInv, at = "app", Applications
  PROVE  UNCHANGED <<at, i, pc_mask, smpu, sealed, ms_ctl, device>>
<1>1. Locked BY InvLocked DEF Locking, Stopped
<1>2. \A m \in Masters : active_pc[m] # 0
  BY <1>1, Masks DEF Locked, Masters
<1>3. CASE EnableCM4 BY <1>3 DEF EnableCM4, units
<1>4. CASE SwitchContext BY <1>4 DEF SwitchContext
<1>5. CASE RewriteMask BY <1>1, <1>2, <1>5 DEF RewriteMask, Locked, Masters
<1>6. CASE DisableRegion
  <2>1. smpu \subseteq sealed BY <1>1 DEF LockInv, Registers, Locked
  <2> QED BY <1>2, <1>6, <2>1 DEF DisableRegion, Masters
<1> QED BY <1>3, <1>4, <1>5, <1>6 DEF Applications

\* An application moves only when it runs, and it runs only behind do_boot.
LEMMA AppsRun ==
  ASSUME LockInv, Applications
  PROVE  at = "app"
BY DEF LockInv, Started, Applications, EnableCM4, SwitchContext, RewriteMask, DisableRegion,
       Running

\* The masks: each call of the first group sets one, no later step changes one.
LEMMA MasksStep == LockInv /\ [Next]_vars => MasksSet'
<1> SUFFICES ASSUME LockInv, [Next]_vars PROVE MasksSet'
  OBVIOUS
<1> USE DEF MasksSet, Call, Stopped, units
<1>0. MasksSet /\ Registers /\ IndexInGroup /\ assert = TRUE BY DEF LockInv, Started
<1>1. CASE ConfigBusMaster
  <2>1. at = "bus_masters" /\ i \in 0..2 BY <1>0, <1>1 DEF ConfigBusMaster, IndexInGroup
  <2>2. \A n \in 1..(i + 1) : pc_mask'[BusMasters[n]] = MasterMask[BusMasters[n]]
    <3> SUFFICES ASSUME NEW n \in 1..(i + 1)
                 PROVE  pc_mask'[BusMasters[n]] = MasterMask[BusMasters[n]]
      OBVIOUS
    <3>1. BusMasters[n] \in Masters BY <2>1, GroupLengths
    <3>2. pc_mask' = [pc_mask EXCEPT ![BusMasters[i + 1]] = MasterMask[BusMasters[i + 1]]]
      BY <1>1 DEF ConfigBusMaster
    <3>3. CASE n = i + 1 BY <1>0, <3>1, <3>2, <3>3 DEF Registers
    <3>4. CASE n # i + 1
      <4>1. n \in 1..i BY <2>1, <3>4
      <4>2. pc_mask[BusMasters[n]] = MasterMask[BusMasters[n]] BY <1>0, <2>1, <4>1
      <4> QED BY <1>0, <3>1, <3>2, <4>2 DEF Registers
    <3> QED BY <3>3, <3>4
  <2>3. CASE i + 1 < 3
    <3>1. at' = "bus_masters" /\ i' = i + 1
      BY <1>1, <2>3, GroupLengths DEF ConfigBusMaster
    <3> QED BY <2>2, <3>1
  <2>4. CASE ~(i + 1 < 3)
    <3>1. i = 2 /\ at' = "contexts" BY <1>1, <2>1, <2>4, GroupLengths DEF ConfigBusMaster
    <3>2. \A m \in Masters : pc_mask'[m] = MasterMask[m]
      <4>1. BusMasters[1] = CM0 /\ BusMasters[2] = CM4 /\ BusMasters[3] = TC
        BY DEF BusMasters
      <4> QED BY <2>2, <3>1, <4>1 DEF Masters
    <3>3. pc_mask' \in [Masters -> SUBSET (PCs \ {0})] BY <1>0, RegistersStep DEF Registers
    <3>4. pc_mask' = MasterMask BY <3>2, <3>3, Masks
    <3> QED BY <3>1, <3>4
  <2> QED BY <2>3, <2>4
<1>2. CASE LeaveContextZero BY <1>0, <1>2 DEF LeaveContextZero
<1>3. CASE ProtectRegion BY <1>0, <1>3 DEF ProtectRegion
<1>4. CASE CloseMsCtl BY <1>0, <1>4 DEF CloseMsCtl
<1>5. CASE SealStruct BY <1>0, <1>5 DEF SealStruct
<1>6. CASE Lock BY <1>0, <1>6 DEF Lock
<1>7. CASE CallFails BY <1>0, <1>7 DEF CallFails
<1>8. CASE BootGo BY <1>0, <1>8 DEF BootGo
<1>9. CASE SwitchToApplication BY <1>0, <1>9 DEF SwitchToApplication
<1>10. CASE Jump BY <1>0, <1>10 DEF Jump
<1>11. CASE Applications BY <1>0, <1>11, AppsRun, LockedStays
<1>12. CASE Reset
  <2>1. at' = "bus_masters" /\ i' = 0 BY <1>12 DEF Reset
  <2>2. 1..0 = {} OBVIOUS
  <2> QED BY <2>1, <2>2
<1>13. CASE UNCHANGED vars BY <1>0, <1>13 DEF vars
<1> QED
  BY <1>1, <1>2, <1>3, <1>4, <1>5, <1>6, <1>7, <1>8, <1>9, <1>10, <1>11, <1>12, <1>13
  DEF Next, ProtUnitsInit

\* The contexts of the other masters: set with the masks in place, kept by the masks.
LEMMA ContextsStep == LockInv /\ [Next]_vars => ContextsLeft'
<1> SUFFICES ASSUME LockInv, [Next]_vars PROVE ContextsLeft'
  OBVIOUS
<1> USE DEF ContextsLeft, Call, Locking, Stopped, units
<1>0. ContextsLeft /\ Registers /\ IndexInGroup /\ assert = TRUE BY DEF LockInv, Started
<1>1. CASE ConfigBusMaster BY <1>0, <1>1 DEF ConfigBusMaster
<1>2. CASE LeaveContextZero
  <2>1. at = "contexts" /\ i \in 0..1 BY <1>0, <1>2 DEF LeaveContextZero, IndexInGroup
  <2>2. pc_mask[CM4] = {4} /\ pc_mask[TC] = {5}
    BY <2>1, Masks DEF LockInv, MasksSet
  <2>3. NonSecureMasters[1] = CM4 /\ NonSecureMasters[2] = TC BY DEF NonSecureMasters
  <2>4. active_pc \in [Masters -> PCs] /\ CM4 \in Masters /\ TC \in Masters
    BY <1>0 DEF Registers, Masters
  <2>5. CM4 # TC BY DEF CM4, TC
  <2>6. CASE i = 0
    <3>1. SetActivePC(CM4, 4) BY <1>2, <2>3, <2>6 DEF LeaveContextZero
    <3>2. active_pc'[CM4] = 4 BY <2>2, <2>4, <3>1 DEF SetActivePC
    <3>3. at' = "contexts" BY <1>2, <2>6, GroupLengths DEF LeaveContextZero
    <3> QED BY <3>2, <3>3
  <2>7. CASE i = 1
    <3>1. SetActivePC(TC, 5) BY <1>2, <2>3, <2>5, <2>7 DEF LeaveContextZero
    <3>2. active_pc' = [active_pc EXCEPT ![TC] = 5] BY <2>2, <3>1 DEF SetActivePC
    <3>3. active_pc'[CM4] = 4 /\ active_pc'[TC] = 5
      BY <1>0, <2>1, <2>4, <2>5, <2>7, <3>2
    <3>4. at' = "smpu" BY <1>2, <2>7, GroupLengths DEF LeaveContextZero
    <3> QED BY <3>3, <3>4
  <2> QED BY <2>1, <2>6, <2>7
<1>3. CASE ProtectRegion BY <1>0, <1>3 DEF ProtectRegion
<1>4. CASE CloseMsCtl BY <1>0, <1>4 DEF CloseMsCtl
<1>5. CASE SealStruct BY <1>0, <1>5 DEF SealStruct
<1>6. CASE Lock
  <2>1. active_pc'[CM4] = active_pc[CM4] /\ active_pc'[TC] = active_pc[TC]
    BY <1>0, <1>6 DEF Lock, SetActivePC, Registers, Masters, CM0, CM4, TC
  <2> QED BY <1>0, <1>6, <2>1 DEF Lock
<1>7. CASE CallFails BY <1>0, <1>7 DEF CallFails
<1>8. CASE BootGo BY <1>0, <1>8 DEF BootGo
<1>9. CASE SwitchToApplication
  <2>1. active_pc'[CM4] = active_pc[CM4] /\ active_pc'[TC] = active_pc[TC]
    BY <1>0, <1>9 DEF SwitchToApplication, SetActivePC, Registers, Masters, CM0, CM4, TC
  <2> QED BY <1>0, <1>9, <2>1 DEF SwitchToApplication
<1>10. CASE Jump BY <1>0, <1>10 DEF Jump
<1>11. CASE Applications
  <2>1. at = "app" /\ at' = "app" BY <1>11, AppsRun, LockedStays
  <2>2. pc_mask[CM4] = {4} BY <2>1, Masks DEF LockInv, MasksSet
  <2>3. active_pc[CM4] = 4 /\ active_pc[TC] = 5 BY <1>0, <2>1
  <2>4. CASE SwitchContext
    <3>1. PICK m \in {CM0, CM4}, pc \in PCs : SetActivePC(m, pc)
      BY <2>4 DEF SwitchContext
    <3>2. TC # m BY <3>1 DEF CM0, CM4, TC
    <3>3. active_pc'[TC] = 5
      BY <1>0, <2>3, <3>1, <3>2 DEF SetActivePC, Registers, Masters
    <3>4. active_pc'[CM4] = 4
      <4>1. CASE m = CM0
        BY <1>0, <2>3, <3>1, <4>1 DEF SetActivePC, Registers, Masters, CM0, CM4
      <4>2. CASE m = CM4
        BY <1>0, <2>2, <2>3, <3>1, <4>2 DEF SetActivePC, Registers, Masters
      <4> QED BY <3>1, <4>1, <4>2
    <3> QED BY <2>1, <3>3, <3>4
  <2>5. CASE ~SwitchContext
    <3>1. UNCHANGED active_pc
      BY <1>11, <2>5 DEF Applications, EnableCM4, RewriteMask, DisableRegion
    <3> QED BY <2>1, <2>3, <3>1
  <2> QED BY <2>4, <2>5
<1>12. CASE Reset BY <1>12 DEF Reset
<1>13. CASE UNCHANGED vars BY <1>0, <1>13 DEF vars
<1> QED
  BY <1>1, <1>2, <1>3, <1>4, <1>5, <1>6, <1>7, <1>8, <1>9, <1>10, <1>11, <1>12, <1>13
  DEF Next, ProtUnitsInit

\* The regions: each call of the group enables the next of the order.
LEMMA RegionsStep == LockInv /\ [Next]_vars => RegionsOn'
<1> SUFFICES ASSUME LockInv, [Next]_vars PROVE RegionsOn'
  OBVIOUS
<1> USE DEF RegionsOn, Call, Locking, Stopped, units
<1>0. RegionsOn /\ Registers /\ IndexInGroup /\ assert = TRUE BY DEF LockInv, Started
<1>1. CASE ConfigBusMaster BY <1>0, <1>1 DEF ConfigBusMaster
<1>2. CASE LeaveContextZero
  <2>1. smpu' = {} /\ device' = device BY <1>0, <1>2 DEF LeaveContextZero
  <2>2. at' \in {"contexts", "smpu"} /\ (at' = "smpu" => i' = 0)
    BY <1>2 DEF LeaveContextZero
  <2>3. FirstRegions(device', 0) = {} BY DEF FirstRegions
  <2> QED BY <2>1, <2>2, <2>3
<1>3. CASE ProtectRegion
  <2>1. at = "smpu" /\ i \in 0..(Len(SmpuOrder(device)) - 1)
    BY <1>0, <1>3 DEF ProtectRegion, IndexInGroup
  <2>2. Len(SmpuOrder(device)) \in 1..9 BY OrderLength
  <2>3. i \in Nat BY <2>1, <2>2
  <2>4. 1..(i + 1) = (1..i) \cup {i + 1} BY <2>3
  <2>5. smpu' = FirstRegions(device, i + 1)
    BY <1>0, <1>3, <2>1, <2>4 DEF ProtectRegion, FirstRegions
  <2>6. device' = device BY <1>3 DEF ProtectRegion
  <2>7. CASE i + 1 < Len(SmpuOrder(device))
    BY <1>3, <2>5, <2>6, <2>7 DEF ProtectRegion
  <2>8. CASE ~(i + 1 < Len(SmpuOrder(device)))
    <3>1. i + 1 = Len(SmpuOrder(device)) BY <2>1, <2>2, <2>8
    <3>2. at' = "ms_ctl" BY <1>3, <2>8 DEF ProtectRegion
    <3> QED BY <2>5, <2>6, <3>1, <3>2
  <2> QED BY <2>7, <2>8
<1>4. CASE CloseMsCtl BY <1>0, <1>4 DEF CloseMsCtl
<1>5. CASE SealStruct BY <1>0, <1>5 DEF SealStruct
<1>6. CASE Lock BY <1>0, <1>6 DEF Lock
<1>7. CASE CallFails BY <1>0, <1>7 DEF CallFails
<1>8. CASE BootGo BY <1>0, <1>8 DEF BootGo
<1>9. CASE SwitchToApplication BY <1>0, <1>9 DEF SwitchToApplication
<1>10. CASE Jump BY <1>0, <1>10 DEF Jump
<1>11. CASE Applications BY <1>0, <1>11, AppsRun, LockedStays
<1>12. CASE Reset BY <1>12 DEF Reset
<1>13. CASE UNCHANGED vars BY <1>0, <1>13 DEF vars
<1> QED
  BY <1>1, <1>2, <1>3, <1>4, <1>5, <1>6, <1>7, <1>8, <1>9, <1>10, <1>11, <1>12, <1>13
  DEF Next, ProtUnitsInit

\* The seals: one structure more with every call, none taken off.
LEMMA SealedStep == LockInv /\ [Next]_vars => Sealed'
<1> SUFFICES ASSUME LockInv, [Next]_vars PROVE Sealed'
  OBVIOUS
<1> USE DEF Sealed, Call, Locking, Stopped, units
<1>0. Sealed /\ Registers /\ IndexInGroup /\ assert = TRUE BY DEF LockInv, Started
<1>1. CASE ConfigBusMaster BY <1>0, <1>1 DEF ConfigBusMaster
<1>2. CASE LeaveContextZero BY <1>0, <1>2 DEF LeaveContextZero
<1>3. CASE ProtectRegion BY <1>0, <1>3 DEF ProtectRegion
<1>4. CASE CloseMsCtl
  <2>1. ms_ctl' /\ at' = "masters" /\ i' = 0 BY <1>0, <1>4 DEF CloseMsCtl, IndexInGroup
  <2>2. 0..(0 - 1) = {} OBVIOUS
  <2> QED BY <2>1, <2>2
<1>5. CASE SealStruct
  <2>1. at = "masters" /\ i \in 0..15 BY <1>0, <1>5 DEF SealStruct, IndexInGroup
  <2>2. 0..i = 0..(i - 1) \cup {i} BY <2>1
  <2>3. 0..i \subseteq sealed' BY <1>0, <1>5, <2>1, <2>2 DEF SealStruct
  <2>4. ms_ctl' BY <1>0, <1>5 DEF SealStruct
  <2>5. CASE i + 1 < 16
    <3>1. at' = "masters" /\ i' = i + 1 BY <1>5, <2>5, GroupLengths DEF SealStruct
    <3>2. i' - 1 = i BY <2>1, <3>1
    <3> QED BY <2>3, <2>4, <3>1, <3>2
  <2>6. CASE ~(i + 1 < 16)
    <3>1. i = 15 /\ at' = "lock" BY <1>5, <2>1, <2>6, GroupLengths DEF SealStruct
    <3>2. sealed' \subseteq SmpuStructs BY RegistersStep DEF LockInv, Registers
    <3>3. sealed' = SmpuStructs BY <2>3, <3>1, <3>2 DEF SmpuStructs
    <3> QED BY <2>4, <3>1, <3>3
  <2> QED BY <2>5, <2>6
<1>6. CASE Lock BY <1>0, <1>6 DEF Lock
<1>7. CASE CallFails BY <1>0, <1>7 DEF CallFails
<1>8. CASE BootGo BY <1>0, <1>8 DEF BootGo
<1>9. CASE SwitchToApplication BY <1>0, <1>9 DEF SwitchToApplication
<1>10. CASE Jump BY <1>0, <1>10 DEF Jump
<1>11. CASE Applications BY <1>0, <1>11, AppsRun, LockedStays
<1>12. CASE Reset BY <1>12 DEF Reset
<1>13. CASE UNCHANGED vars BY <1>0, <1>13 DEF vars
<1> QED
  BY <1>1, <1>2, <1>3, <1>4, <1>5, <1>6, <1>7, <1>8, <1>9, <1>10, <1>11, <1>12, <1>13
  DEF Next, ProtUnitsInit

\* The context of the CM0+: 0 until the last call, never 0 again after it.
LEMMA BootContextStep == LockInv /\ [Next]_vars => ContextOfBoot'
<1> SUFFICES ASSUME LockInv, [Next]_vars PROVE ContextOfBoot'
  OBVIOUS
<1> USE DEF ContextOfBoot, Call, Locking, Stopped, units
<1>0. ContextOfBoot /\ Registers /\ IndexInGroup /\ assert = TRUE BY DEF LockInv, Started
<1>1. CASE ConfigBusMaster BY <1>0, <1>1 DEF ConfigBusMaster
<1>2. CASE LeaveContextZero
  <2>1. active_pc'[CM0] = active_pc[CM0]
    <3>1. NonSecureMasters[i + 1] # CM0 /\ NonSecureMasters[i + 1] \in Masters
      BY <1>0, <1>2, GroupLengths
      DEF LeaveContextZero, IndexInGroup, CM0, CM4, TC, Masters
    <3> QED BY <1>0, <1>2, <3>1 DEF LeaveContextZero, SetActivePC, Registers
  <2> QED BY <1>0, <1>2, <2>1 DEF LeaveContextZero
<1>3. CASE ProtectRegion BY <1>0, <1>3 DEF ProtectRegion
<1>4. CASE CloseMsCtl BY <1>0, <1>4 DEF CloseMsCtl
<1>5. CASE SealStruct BY <1>0, <1>5 DEF SealStruct
<1>6. CASE Lock
  <2>1. pc_mask[CM0] = {1, 2} BY <1>6, Masks DEF Lock, LockInv, MasksSet
  <2>2. active_pc'[CM0] = 1
    BY <1>0, <1>6, <2>1 DEF Lock, SetActivePC, Registers, Masters
  <2>3. at' = "boot_go" BY <1>0, <1>6 DEF Lock, IndexInGroup
  <2> QED BY <2>2, <2>3
<1>7. CASE CallFails BY <1>0, <1>7 DEF CallFails
<1>8. CASE BootGo BY <1>0, <1>8 DEF BootGo
<1>9. CASE SwitchToApplication
  <2>1. pc_mask[CM0] = {1, 2}
    BY <1>9, Masks DEF SwitchToApplication, LockInv, MasksSet
  <2>2. active_pc'[CM0] = 2
    BY <1>0, <1>9, <2>1 DEF SwitchToApplication, SetActivePC, Registers, Masters
  <2>3. at' = "jump" BY <1>9 DEF SwitchToApplication
  <2> QED BY <2>2, <2>3
<1>10. CASE Jump BY <1>0, <1>10 DEF Jump
<1>11. CASE Applications
  <2>1. at = "app" /\ at' = "app" BY <1>11, AppsRun, LockedStays
  <2>2. pc_mask[CM0] = {1, 2} BY <2>1, Masks DEF LockInv, MasksSet
  <2>3. active_pc[CM0] \in {1, 2} BY <1>0, <2>1
  <2>4. CASE SwitchContext
    <3>1. PICK m \in {CM0, CM4}, pc \in PCs : SetActivePC(m, pc)
      BY <2>4 DEF SwitchContext
    <3>2. CASE m = CM0
      BY <1>0, <2>1, <2>2, <2>3, <3>1, <3>2 DEF SetActivePC, Registers, Masters
    <3>3. CASE m = CM4
      BY <1>0, <2>1, <2>3, <3>1, <3>3 DEF SetActivePC, Registers, Masters, CM0, CM4
    <3> QED BY <3>1, <3>2, <3>3
  <2>5. CASE ~SwitchContext
    <3>1. UNCHANGED active_pc
      BY <1>11, <2>5 DEF Applications, EnableCM4, RewriteMask, DisableRegion
    <3> QED BY <2>1, <2>3, <3>1
  <2> QED BY <2>4, <2>5
<1>12. CASE Reset
  <2>1. at' = "bus_masters" /\ active_pc' = [m \in Masters |-> 0] BY <1>12 DEF Reset
  <2>2. active_pc'[CM0] = 0 BY <2>1 DEF Masters
  <2> QED BY <2>1, <2>2
<1>13. CASE UNCHANGED vars BY <1>0, <1>13 DEF vars
<1> QED
  BY <1>1, <1>2, <1>3, <1>4, <1>5, <1>6, <1>7, <1>8, <1>9, <1>10, <1>11, <1>12, <1>13
  DEF Next, ProtUnitsInit

\* The build does not change, and the CM4 is released by the CM0+ application only.
LEMMA StartedStep == LockInv /\ [Next]_vars => Started'
<1> SUFFICES ASSUME LockInv, [Next]_vars PROVE Started'
  OBVIOUS
<1> USE DEF Started, Call, Locking, Stopped, units
<1>0. Started BY DEF LockInv, Started
<1>1. CASE ConfigBusMaster BY <1>0, <1>1 DEF ConfigBusMaster
<1>2. CASE LeaveContextZero BY <1>0, <1>2 DEF LeaveContextZero
<1>3. CASE ProtectRegion BY <1>0, <1>3 DEF ProtectRegion
<1>4. CASE CloseMsCtl BY <1>0, <1>4 DEF CloseMsCtl
<1>5. CASE SealStruct BY <1>0, <1>5 DEF SealStruct
<1>6. CASE Lock BY <1>0, <1>6 DEF Lock
<1>7. CASE CallFails BY <1>0, <1>7 DEF CallFails
<1>8. CASE BootGo BY <1>0, <1>8 DEF BootGo
<1>9. CASE SwitchToApplication BY <1>0, <1>9 DEF SwitchToApplication
<1>10. CASE Jump BY <1>0, <1>10 DEF Jump
<1>11. CASE Applications
  BY <1>0, <1>11, AppsRun
  DEF Applications, EnableCM4, SwitchContext, RewriteMask, DisableRegion
<1>12. CASE Reset BY <1>0, <1>12 DEF Reset
<1>13. CASE UNCHANGED vars BY <1>0, <1>13 DEF vars
<1> QED
  BY <1>1, <1>2, <1>3, <1>4, <1>5, <1>6, <1>7, <1>8, <1>9, <1>10, <1>11, <1>12, <1>13
  DEF Next, ProtUnitsInit

\* The inductive invariant of a build that keeps its assertions.
LEMMA LockInvariant == ASSUME Asserts = {TRUE} PROVE Spec => []LockInv
<1>1. Init => LockInv
  <2> SUFFICES ASSUME Init PROVE LockInv
    OBVIOUS
  <2>1. Registers BY EmptyTypes DEF Init, Unprotected, Registers
  <2>2. 0 \in 0..MaxResets BY MaxResetsAssumption
  <2>3. Control BY <2>2 DEF Init, Control
  <2>4. IndexInGroup BY DEF Init, IndexInGroup
  <2>5. at = "bus_masters" /\ i = 0 /\ smpu = {} BY DEF Init, Unprotected
  <2>6. 1..0 = {} OBVIOUS
  <2>7. MasksSet BY <2>5, <2>6 DEF MasksSet
  <2>8. ContextsLeft /\ RegionsOn /\ Sealed
    BY <2>5 DEF ContextsLeft, RegionsOn, Sealed, Locking, Stopped
  <2>9. active_pc[CM0] = 0 BY DEF Init, Unprotected, Masters
  <2>10. ContextOfBoot BY <2>5, <2>9 DEF ContextOfBoot, Locking, Stopped
  <2>11. Started BY DEF Init, Started
  <2> QED BY <2>1, <2>3, <2>4, <2>7, <2>8, <2>10, <2>11 DEF LockInv
<1>2. LockInv /\ [Next]_vars => LockInv'
  <2> SUFFICES ASSUME LockInv, [Next]_vars PROVE LockInv'
    OBVIOUS
  <2>1. Registers' /\ Control' /\ IndexInGroup'
    BY RegistersStep, ControlStep, IndexStep DEF LockInv
  <2>2. MasksSet' /\ ContextsLeft' /\ RegionsOn' /\ Sealed' /\ ContextOfBoot' /\ Started'
    BY MasksStep, ContextsStep, RegionsStep, SealedStep, BootContextStep, StartedStep
  <2> QED BY <2>1, <2>2 DEF LockInv
<1> QED BY <1>1, <1>2, PTL DEF Spec

\* A build that keeps its assertions starts no application, nor the search for one,
\* before every call of prot_units_init has succeeded and the whole lock is in place.
THEOREM StartsLocked == ASSUME Asserts = {TRUE} PROVE Spec => []StartsOnlyLocked
<1>1. LockInv => StartsOnlyLocked
  <2> SUFFICES ASSUME LockInv, at \in {"boot_go", "do_boot", "jump", "app"} PROVE Locked
    BY DEF StartsOnlyLocked
  <2> QED BY InvLocked DEF Locking, Stopped
<1> QED BY <1>1, LockInvariant, PTL

\* Once the CM0+ has left context 0, no step short of a reset changes the masks, the
\* regions, the seals or the register that holds the masks.
THEOREM LockKept == ASSUME Asserts = {TRUE} PROVE Spec => LockHolds
<1>1. LockInv /\ [Next]_vars =>
        (active_pc[CM0] # 0 /\ resets' = resets => UNCHANGED <<pc_mask, smpu, sealed, ms_ctl>>)
  <2> SUFFICES ASSUME LockInv, [Next]_vars, active_pc[CM0] # 0, resets' = resets
               PROVE  UNCHANGED <<pc_mask, smpu, sealed, ms_ctl>>
    OBVIOUS
  <2>1. at \notin Locking \cup Stopped BY DEF LockInv, ContextOfBoot
  <2>2. CASE ProtUnitsInit
    BY <2>1, <2>2
    DEF ProtUnitsInit, ConfigBusMaster, LeaveContextZero, ProtectRegion, CloseMsCtl,
        SealStruct, Lock, CallFails, Call, Locking
  <2>3. CASE BootGo \/ Jump BY <2>3 DEF BootGo, Jump, units
  <2>4. CASE SwitchToApplication BY <2>4 DEF SwitchToApplication
  <2>5. CASE Applications BY <2>5, AppsRun, LockedStays
  <2>6. CASE Reset
    <3>1. resets' = resets + 1 /\ resets \in Nat
      BY <2>6, MaxResetsAssumption DEF Reset, LockInv, Control
    <3> QED BY <3>1
  <2>7. CASE UNCHANGED vars BY <2>7 DEF vars, units
  <2> QED BY <2>2, <2>3, <2>4, <2>5, <2>6, <2>7 DEF Next
<1> QED BY <1>1, LockInvariant, PTL DEF Spec, LockHolds
-----------------------------------------------------------------------------------
(* What the lock leaves to each core: the verdict of the regions in force, *)
(* section by section, for the contexts that the invariant allows.         *)

\* The calls of prot_units_init enable every structure of the configuration.
LEMMA OrderComplete ==
  ASSUME NEW d \in Devices
  PROVE  FirstRegions(d, Len(SmpuOrder(d))) = DOMAIN SmpuConfig(d)
<1>1. FirstRegions(512, Len(SmpuOrder(512))) = DOMAIN SmpuConfig(512)
  BY Structures DEF FirstRegions, SmpuOrder
<1>2. FirstRegions(1024, Len(SmpuOrder(1024))) = DOMAIN SmpuConfig(1024)
  BY Structures DEF FirstRegions, SmpuOrder
<1>3. FirstRegions(2048, Len(SmpuOrder(2048))) = DOMAIN SmpuConfig(2048)
  BY Structures DEF FirstRegions, SmpuOrder
<1> QED BY <1>1, <1>2, <1>3 DEF Devices

\* Past the lock the regions in force are the whole configuration of the family.
LEMMA RegionsInForce ==
  ASSUME LockInv, at \notin Locking \cup Stopped
  PROVE  device \in Devices /\ regions = SmpuConfig(device)
<1>1. device \in Devices BY FamiliesAssumption DEF LockInv, Control
<1>2. smpu = DOMAIN SmpuConfig(device)
  BY <1>1, OrderComplete DEF LockInv, RegionsOn, Locking, Stopped
<1>3. SmpuConfig(device) = [s \in DOMAIN SmpuConfig(device) |-> SmpuConfig(device)[s]]
  BY DEF SmpuConfig
<1> QED BY <1>1, <1>2, <1>3 DEF regions

\* The verdict on an access to a section that a structure guards.
LEMMA Verdict ==
  ASSUME LockInv, at \notin Locking \cup Stopped,
         NEW s, NEW section, NEW permission, NEW masters, NEW pcMask,
         Guards(device, s, section, permission, masters, pcMask),
         NEW addr \in Addresses(section), NEW m \in Masters, active_pc[m] # 0, NEW kind
  PROVE  May(m, kind, section.mem, addr)
           <=> /\ active_pc[m] \in pcMask /\ kind \in permission
               /\ masters = "secure" => m = CM0
<1>1. device \in Devices /\ regions = SmpuConfig(device) BY RegionsInForce
<1>2. s \in DOMAIN regions /\ addr \in Int BY <1>1 DEF Guards
<1>3. Matches(regions[s], section.mem, addr) BY <1>1, <1>2 DEF Guards
<1>4. \A t \in DOMAIN regions : Matches(regions[t], section.mem, addr) => t = s
  BY <1>1, <1>2, <1>3, RegionsDisjoint DEF OneRegion
<1>5. DOMAIN regions \subseteq Int BY <1>1, Structures
<1>6. /\ regions[s].permission = permission /\ regions[s].pcMask = pcMask
      /\ regions[s].secure <=> masters = "secure"
  BY <1>1 DEF Guards
<1> DEFINE matching == {t \in DOMAIN regions : Matches(regions[t], section.mem, addr)}
           deciding == CHOOSE t \in matching : \A u \in matching : u <= t
<1>7. matching = {s} BY <1>2, <1>3, <1>4
<1>8. \A t \in matching : t <= s BY <1>2, <1>5, <1>7
<1>9. deciding \in matching BY <1>7, <1>8
<1>10. deciding = s BY <1>7, <1>9
<1> HIDE DEF deciding
<1>11. matching # {} BY <1>7
<1>12. May(m, kind, section.mem, addr)
         <=> \/ active_pc[m] = 0
             \/ /\ active_pc[m] \in regions[deciding].pcMask
                /\ regions[deciding].secure => m = CM0
                /\ kind \in regions[deciding].permission
  BY <1>11 DEF May, Allowed, deciding
<1> QED BY <1>6, <1>10, <1>12
\* A section is closed to a core in another context, and to a core that is not secure
\* where its structure asks for that.
LEMMA Closed ==
  ASSUME LockInv, at \notin Locking \cup Stopped,
         NEW s, NEW section, NEW permission, NEW masters, NEW pcMask,
         Guards(device, s, section, permission, masters, pcMask),
         NEW m \in Masters, active_pc[m] # 0, NEW kinds,
         active_pc[m] \notin pcMask \/ (masters = "secure" /\ m # CM0)
  PROVE  MayNone(m, kinds, section)
<1> SUFFICES ASSUME NEW kind \in kinds, NEW addr \in Addresses(section)
             PROVE  ~May(m, kind, section.mem, addr)
  BY DEF MayNone
<1> QED BY Verdict

\* A section is open to a core in a context that its structure names.
LEMMA Open ==
  ASSUME LockInv, at \notin Locking \cup Stopped,
         NEW s, NEW section, NEW permission, NEW masters, NEW pcMask,
         Guards(device, s, section, permission, masters, pcMask),
         NEW m \in Masters, active_pc[m] # 0, NEW kinds,
         active_pc[m] \in pcMask, kinds \subseteq permission, masters = "secure" => m = CM0
  PROVE  MayAll(m, kinds, section)
<1> SUFFICES ASSUME NEW kind \in kinds, NEW addr \in Addresses(section)
             PROVE  May(m, kind, section.mem, addr)
  BY DEF MayAll
<1>1. kind \in permission OBVIOUS
<1> QED BY <1>1, Verdict

\* What is open is open in every part.
LEMMA OpenPart ==
  ASSUME NEW m, NEW kinds, NEW whole, NEW part, MayAll(m, kinds, whole),
         part.mem = whole.mem, Addresses(part) \subseteq Addresses(whole)
  PROVE  MayAll(m, kinds, part)
BY DEF MayAll

\* The context of the CM4 once it has been released.
LEMMA ContextOfCm4 ==
  ASSUME LockInv, cm4_on
  PROVE  /\ at = "app" /\ at \notin Locking \cup Stopped
         /\ CM4 \in Masters /\ CM4 # CM0 /\ active_pc[CM4] # 0 /\ device \in Devices
         /\ active_pc[CM4] \notin PCMASK1_2 /\ active_pc[CM4] \notin PCMASK2
         /\ active_pc[CM4] \notin PCMASK1 /\ active_pc[CM4] \in PCMASK4
         /\ active_pc[CM4] \in PCMASK1_4 /\ active_pc[CM4] \in PCMASK1_2_4
<1>1. at = "app" BY DEF LockInv, Started
<1>2. at \notin Locking \cup Stopped BY <1>1 DEF Locking, Stopped
<1>3. active_pc[CM4] = 4 BY <1>1 DEF LockInv, ContextsLeft, Stopped
<1>4. device \in Devices BY FamiliesAssumption DEF LockInv, Control
<1> QED
  BY <1>1, <1>2, <1>3, <1>4
  DEF Masters, CM4, CM0, PCMASK1, PCMASK2, PCMASK4, PCMASK1_2, PCMASK1_4, PCMASK1_2_4

\* The contexts of the CM0+ once the lock is in place.
LEMMA ContextOfCm0 ==
  ASSUME LockInv, at \notin Locking \cup Stopped
  PROVE  /\ CM0 \in Masters /\ active_pc[CM0] \in {1, 2} /\ device \in Devices
         /\ at \in {"boot_go", "do_boot", "asleep"} => active_pc[CM0] = 1
         /\ at = "jump" => active_pc[CM0] = 2
BY FamiliesAssumption DEF LockInv, ContextOfBoot, Control, Masters

-----------------------------------------------------------------------------------
\* In a build that keeps its assertions, on every family and after any number of
\* resets, the CM4 never reaches the sections of the CM0+ and the protected storage is
\* open to no context of the CM0+ but 2.
THEOREM Confined == ASSUME Asserts = {TRUE} PROVE Spec => []MemoryConfined
<1>1. LockInv => Cm4Confined
  <2> SUFFICES ASSUME LockInv, cm4_on
               PROVE  /\ MayNone(CM4, RWX, Bootloader(device))
                      /\ MayNone(CM4, RWX, ProtectedStorage(device))
                      /\ MayNone(CM4, RWX, Cm0App(device))
                      /\ MayNone(CM4, RWX, Cm0Sram(device))
    BY DEF Cm4Confined
  <2>1. Coverage(device) BY ContextOfCm4, EveryFamilyCovered
  <2>2. MayNone(CM4, RWX, Bootloader(device))
    <3>1. Guards(device, 13, Bootloader(device), RX, "secure", PCMASK1_2)
      BY <2>1 DEF Coverage
    <3> QED BY <3>1, ContextOfCm4, Closed
  <2>3. MayNone(CM4, RWX, ProtectedStorage(device))
    <3>1. Guards(device, 7, ProtectedStorage(device), RWX, "secure", PCMASK2)
      BY <2>1 DEF Coverage
    <3> QED BY <3>1, ContextOfCm4, Closed
  <2>4. MayNone(CM4, RWX, Cm0App(device))
    <3>1. Guards(device, 11, Cm0App(device), RWX, "secure", PCMASK1_2)
      BY <2>1 DEF Coverage
    <3> QED BY <3>1, ContextOfCm4, Closed
  <2>5. MayNone(CM4, RWX, Cm0Sram(device))
    <3>1. Guards(device, 12, Cm0Sram(device), RWX, "secure", PCMASK1_2)
      BY <2>1 DEF Coverage
    <3> QED BY <3>1, ContextOfCm4, Closed
  <2> QED BY <2>2, <2>3, <2>4, <2>5
<1>2. LockInv => StorageOnlyInContext2
  <2> SUFFICES ASSUME LockInv, at \in {"boot_go", "do_boot", "app", "asleep"},
                      active_pc[CM0] # 2
               PROVE  MayNone(CM0, RWX, ProtectedStorage(device))
    BY DEF StorageOnlyInContext2
  <2>1. at \notin Locking \cup Stopped BY DEF Locking, Stopped
  <2>2. /\ CM0 \in Masters /\ active_pc[CM0] # 0 /\ active_pc[CM0] \notin PCMASK2
        /\ device \in Devices
    BY <2>1, ContextOfCm0 DEF PCMASK2
  <2>3. Guards(device, 7, ProtectedStorage(device), RWX, "secure", PCMASK2)
    BY <2>2, EveryFamilyCovered DEF Coverage
  <2> QED BY <2>1, <2>2, <2>3, Closed
<1> QED BY <1>1, <1>2, LockInvariant, PTL DEF MemoryConfined

\* In such a build the lock leaves the bootloader its own sections, both slots and the
\* scratch area: MCUboot can copy an image over the old one, and do_boot can read the
\* vector table behind the change of context.
THEOREM Served == ASSUME Asserts = {TRUE} PROVE Spec => []BootloaderServed
<1>1. ASSUME LockInv, at \in {"boot_go", "do_boot"}
      PROVE  /\ MayAll(CM0, {"execute", "read"}, Bootloader(device))
             /\ MayAll(CM0, RW, Cm0Sram(device))
             /\ MayAll(CM0, RW, PrimarySlot(device))
             /\ MayAll(CM0, RW, SecondarySlot(device))
             /\ MayAll(CM0, RW, Scratch(device))
  <2>1. at \notin Locking \cup Stopped BY <1>1 DEF Locking, Stopped
  <2>2. /\ CM0 \in Masters /\ active_pc[CM0] # 0 /\ device \in Devices
        /\ active_pc[CM0] \in PCMASK1 /\ active_pc[CM0] \in PCMASK1_2
        /\ active_pc[CM0] \in PCMASK1_4
    BY <1>1, <2>1, ContextOfCm0 DEF PCMASK1, PCMASK1_2, PCMASK1_4
  <2>3. Coverage(device) /\ Parts(device) BY <2>2, EveryFamilyCovered, EveryMap
  <2>4. RX \subseteq RX /\ RW \subseteq RWX /\ RW \subseteq RW BY DEF RW, RWX
  <2>5. MayAll(CM0, {"execute", "read"}, Bootloader(device))
    <3>1. Guards(device, 13, Bootloader(device), RX, "secure", PCMASK1_2)
      BY <2>3 DEF Coverage
    <3>2. MayAll(CM0, RX, Bootloader(device)) BY <1>1, <2>1, <2>2, <2>4, <3>1, Open
    <3> QED BY <3>2 DEF MayAll, RX
  <2>6. MayAll(CM0, RW, Cm0Sram(device))
    <3>1. Guards(device, 12, Cm0Sram(device), RWX, "secure", PCMASK1_2)
      BY <2>3 DEF Coverage
    <3> QED BY <1>1, <2>1, <2>2, <2>4, <3>1, Open
  <2>7. MayAll(CM0, RW, Cm4Flash(device))
    <3>1. Guards(device, 9, Cm4Flash(device), RWX, "all", PCMASK1_4)
      BY <2>3 DEF Coverage
    <3> QED BY <1>1, <2>1, <2>2, <2>4, <3>1, Open
  <2>8. MayAll(CM0, RW, PrimarySlot(device))
    <3>1. MayAll(CM0, RW, Cm0App(device))
      <4>1. Guards(device, 11, Cm0App(device), RWX, "secure", PCMASK1_2)
        BY <2>3 DEF Coverage
      <4> QED BY <1>1, <2>1, <2>2, <2>4, <4>1, Open
    <3>2. MayAll(CM0, RW, Cm4App(device)) BY <2>3, <2>7, OpenPart, Memories DEF Parts
    <3>3. Addresses(PrimarySlot(device)) = Addresses(Cm0App(device)) \cup Addresses(Cm4App(device))
      BY <2>3 DEF Parts
    <3> QED BY <3>1, <3>2, <3>3, Memories DEF MayAll
  <2>9. MayAll(CM0, RW, SecondarySlot(device))
    <3>1. CASE device = 2048
      <4>1. Guards(device, 8, SecondarySlot(device), RWX, "all", PCMASK1_4)
        BY <2>3, <3>1 DEF Coverage
      <4> QED BY <1>1, <2>1, <2>2, <2>4, <4>1, Open
    <3>2. CASE device # 2048 BY <2>3, <2>7, <3>2, OpenPart, Memories DEF Parts
    <3> QED BY <3>1, <3>2
  <2>10. MayAll(CM0, RW, Scratch(device))
    <3>1. CASE device = 2048
      <4>1. Guards(device, 6, Scratch(device), RW, "secure", PCMASK1)
        BY <2>3, <3>1 DEF Coverage
      <4> QED BY <1>1, <2>1, <2>2, <2>4, <4>1, Open
    <3>2. CASE device # 2048 BY <2>3, <3>2 DEF Parts, MayAll
    <3> QED BY <3>1, <3>2
  <2> QED BY <2>5, <2>6, <2>8, <2>9, <2>10
<1>2. ASSUME LockInv, at = "jump"
      PROVE  /\ MayAll(CM0, {"execute", "read"}, Bootloader(device))
             /\ MayAll(CM0, {"execute", "read"}, Cm0App(device))
  <2>1. at \notin Locking \cup Stopped BY <1>2 DEF Locking, Stopped
  <2>2. /\ CM0 \in Masters /\ active_pc[CM0] # 0 /\ device \in Devices
        /\ active_pc[CM0] \in PCMASK1_2
    BY <1>2, <2>1, ContextOfCm0 DEF PCMASK1_2
  <2>3. Coverage(device) BY <2>2, EveryFamilyCovered
  <2>4. RX \subseteq RX /\ RX \subseteq RWX BY DEF RX, RWX
  <2>5. MayAll(CM0, RX, Bootloader(device))
    <3>1. Guards(device, 13, Bootloader(device), RX, "secure", PCMASK1_2)
      BY <2>3 DEF Coverage
    <3> QED BY <1>2, <2>1, <2>2, <2>4, <3>1, Open
  <2>6. MayAll(CM0, RX, Cm0App(device))
    <3>1. Guards(device, 11, Cm0App(device), RWX, "secure", PCMASK1_2)
      BY <2>3 DEF Coverage
    <3> QED BY <1>2, <2>1, <2>2, <2>4, <3>1, Open
  <2> QED BY <2>5, <2>6 DEF MayAll, RX
<1>3. LockInv => BootloaderServed BY <1>1, <1>2 DEF BootloaderServed
<1> QED BY <1>3, LockInvariant, PTL

\* What the lock leaves to the CM4 once it has been released.
LEMMA Cm4Reaches ==
  ASSUME LockInv, cm4_on
  PROVE  /\ MayAll(CM4, {"execute", "read"}, Cm4App(device))
         /\ MayAll(CM4, RW, Cm4Sram(device))
         /\ MayAll(CM4, RW, SharedSram(device))
         /\ MayAll(CM4, RW, SecondarySlot(device))
<1>1. Coverage(device) /\ Parts(device)
  BY ContextOfCm4, EveryFamilyCovered, EveryMap
<1>2. RWX \subseteq RWX /\ RW \subseteq RWX /\ RW \subseteq RW BY DEF RW, RWX
<1>3. MayAll(CM4, RWX, Cm4Flash(device))
  <2>1. Guards(device, 9, Cm4Flash(device), RWX, "all", PCMASK1_4)
    BY <1>1 DEF Coverage
  <2> QED BY <1>2, <2>1, ContextOfCm4, Open
<1>4. MayAll(CM4, RWX, Cm4App(device)) BY <1>1, <1>3, OpenPart, Memories DEF Parts
<1>5. MayAll(CM4, RW, Cm4Sram(device))
  <2>1. Guards(device, 5, Cm4OpenSram(device), RWX, "all", PCMASK4)
    BY <1>1 DEF Coverage
  <2>2. MayAll(CM4, RW, Cm4OpenSram(device)) BY <1>2, <2>1, ContextOfCm4, Open
  <2> QED BY <1>1, <2>2, OpenPart, Memories DEF Parts
<1>6. MayAll(CM4, RW, SharedSram(device))
  <2>1. Guards(device, 10, SharedSram(device), RW, "all", PCMASK1_2_4)
    BY <1>1 DEF Coverage
  <2> QED BY <1>2, <2>1, ContextOfCm4, Open
<1>7. MayAll(CM4, RW, SecondarySlot(device))
  <2>1. CASE device = 2048
    <3>1. Guards(device, 8, SecondarySlot(device), RWX, "all", PCMASK1_4)
      BY <1>1, <2>1 DEF Coverage
    <3> QED BY <1>2, <3>1, ContextOfCm4, Open
  <2>2. CASE device # 2048
    <3>1. MayAll(CM4, RWX, SecondarySlot(device))
      BY <1>1, <1>3, <2>2, OpenPart, Memories DEF Parts
    <3> QED BY <3>1, <1>2 DEF MayAll
  <2> QED BY <2>1, <2>2
<1>8. MayAll(CM4, {"execute", "read"}, Cm4App(device)) BY <1>4 DEF MayAll, RWX
<1> QED BY <1>5, <1>6, <1>7, <1>8

\* In such a build the CM4 application, once released, runs, reaches its SRAM and the
\* shared part, and can store an upgrade in the secondary slot.
THEOREM Cm4HasItsOwn == ASSUME Asserts = {TRUE} PROVE Spec => []Cm4Served
<1>1. LockInv => Cm4Served BY Cm4Reaches DEF Cm4Served
<1> QED BY <1>1, LockInvariant, PTL

\* A unit of the flash at which a row of the secondary slot starts.
RowOfSlot(address) ==
  /\ address \div Unit(1) \in Addresses(SecondarySlot(device))
  /\ address % CY_FLASH_SIZEOF_ROW = 0

\* Whichever unit of the flash is asked for and with whatever length: what the CM4 can
\* write, and can then verify.
WritesSecondaryOnly ==
  \A address \in 0..(Unit(device) - 1) :
    /\ \A length : \A erase \in BOOLEAN :
         DfuWrites(address, length, erase)
           <=> RowOfSlot(address) /\ (length = CY_FLASH_SIZEOF_ROW \/ erase)
    /\ RowOfSlot(address) =>
         /\ ReadData(device, address, CY_FLASH_SIZEOF_ROW, TRUE, TRUE) = "SUCCESS"
         /\ May(CM4, "read", "flash", address \div Unit(1))

\* What the regions leave to the CM4 of a KB that Cy_DFU_WriteData lets pass.
LEMMA OpenFlash ==
  ASSUME LockInv, cm4_on, NEW kb \in 0..(device - 1),
         kb \notin Addresses(Bootloader(device)), kb \notin Addresses(PrimarySlot(device))
  PROVE  /\ May(CM4, "write", "flash", kb) <=> kb \in Addresses(SecondarySlot(device))
         /\ kb \in Addresses(SecondarySlot(device)) => May(CM4, "read", "flash", kb)
<1>1. Coverage(device) /\ Parts(device) BY ContextOfCm4, EveryFamilyCovered, EveryMap
<1>2. kb \in Addresses(SecondarySlot(device)) =>
        May(CM4, "write", "flash", kb) /\ May(CM4, "read", "flash", kb)
  BY Cm4Reaches, Memories DEF MayAll, RW
<1>3. kb \in Addresses(ProtectedStorage(device)) => ~May(CM4, "write", "flash", kb)
  <2>1. Guards(device, 7, ProtectedStorage(device), RWX, "secure", PCMASK2)
    BY <1>1 DEF Coverage
  <2>2. MayNone(CM4, RW, ProtectedStorage(device)) BY <2>1, ContextOfCm4, Closed
  <2> QED BY <2>2, Memories DEF MayNone, RW
<1>4. kb \in Addresses(Scratch(device)) => ~May(CM4, "write", "flash", kb)
  <2>1. CASE device = 2048
    <3>1. Guards(device, 6, Scratch(device), RW, "secure", PCMASK1)
      BY <1>1, <2>1 DEF Coverage
    <3>2. MayNone(CM4, RW, Scratch(device)) BY <3>1, ContextOfCm4, Closed
    <3> QED BY <3>2, Memories DEF MayNone, RW
  <2>2. CASE device # 2048 BY <1>1, <2>2 DEF Parts
  <2> QED BY <2>1, <2>2
<1>5. \/ kb \in Addresses(ProtectedStorage(device))
      \/ kb \in Addresses(SecondarySlot(device))
      \/ kb \in Addresses(Scratch(device))
  BY <1>1 DEF Parts
<1> QED BY <1>2, <1>3, <1>4, <1>5

\* In such a build no upload of the CM4 writes anything of the flash but rows of the
\* secondary slot, at any unit of the flash and with any length, and each of those can
\* be written and verified.
THEOREM UploadsConfined ==
  ASSUME Asserts = {TRUE} PROVE Spec => [](cm4_on => WritesSecondaryOnly)
<1>1. ASSUME LockInv, cm4_on, NEW address \in 0..(Unit(device) - 1)
      PROVE  /\ \A length : \A erase \in BOOLEAN :
                  DfuWrites(address, length, erase)
                    <=> RowOfSlot(address) /\ (length = CY_FLASH_SIZEOF_ROW \/ erase)
             /\ RowOfSlot(address) =>
                  /\ ReadData(device, address, CY_FLASH_SIZEOF_ROW, TRUE, TRUE) = "SUCCESS"
                  /\ May(CM4, "read", "flash", address \div Unit(1))
  <2> DEFINE kb == address \div Unit(1)
  <2>1. device \in Devices BY <1>1, ContextOfCm4
  <2>2. kb \in 0..(device - 1) BY <1>1, <2>1, KbOfUnit
  <2>3. InRange(device, address) <=> kb \notin Addresses(Bootloader(device))
    BY <1>1, <2>1, RangeOfUnit
  <2>4. InPrimarySlot(device, address) <=> kb \in Addresses(PrimarySlot(device))
    BY <1>1, <2>1, PrimaryOfUnit
  <2>5. kb \in Addresses(SecondarySlot(device)) =>
          /\ kb \notin Addresses(Bootloader(device))
          /\ kb \notin Addresses(PrimarySlot(device))
    BY <2>1, EveryMap DEF Parts
  <2>6. ASSUME NEW length, NEW erase \in BOOLEAN
        PROVE  DfuWrites(address, length, erase)
                 <=> /\ InRange(device, address) /\ ~InPrimarySlot(device, address)
                     /\ address % CY_FLASH_SIZEOF_ROW = 0
                     /\ length = CY_FLASH_SIZEOF_ROW \/ erase
                     /\ May(CM4, "write", "flash", kb)
    BY DEF DfuWrites, WriteData, WriteCheck, IsMultipleOf
  <2>7. InRange(device, address) =>
          ReadData(device, address, CY_FLASH_SIZEOF_ROW, TRUE, TRUE) = "SUCCESS"
    BY ReadChecks
  <2>8. kb \notin Addresses(Bootloader(device)) /\ kb \notin Addresses(PrimarySlot(device)) =>
          /\ May(CM4, "write", "flash", kb) <=> kb \in Addresses(SecondarySlot(device))
          /\ kb \in Addresses(SecondarySlot(device)) => May(CM4, "read", "flash", kb)
    BY <1>1, <2>2, OpenFlash
  <2>9. RowOfSlot(address) <=> /\ kb \in Addresses(SecondarySlot(device))
                               /\ address % CY_FLASH_SIZEOF_ROW = 0
    BY DEF RowOfSlot
  <2> HIDE DEF kb
  <2>10. ASSUME NEW length, NEW erase \in BOOLEAN
         PROVE  DfuWrites(address, length, erase)
                  <=> RowOfSlot(address) /\ (length = CY_FLASH_SIZEOF_ROW \/ erase)
    BY <2>3, <2>4, <2>5, <2>6, <2>8, <2>9
  <2>11. RowOfSlot(address) =>
           /\ ReadData(device, address, CY_FLASH_SIZEOF_ROW, TRUE, TRUE) = "SUCCESS"
           /\ May(CM4, "read", "flash", kb)
    BY <2>3, <2>5, <2>7, <2>8, <2>9
  <2> QED BY <2>10, <2>11 DEF kb
<1>2. LockInv /\ cm4_on => WritesSecondaryOnly BY <1>1 DEF WritesSecondaryOnly
<1> QED BY <1>2, LockInvariant, PTL

\* So for the addresses and lengths that the runs of the model checker sample.
THEOREM UploadsSampled == ASSUME Asserts = {TRUE} PROVE Spec => []DfuReachesSecondaryOnly
<1>1. ASSUME device \in Devices, cm4_on => WritesSecondaryOnly
      PROVE  DfuReachesSecondaryOnly
  <2> SUFFICES ASSUME cm4_on, NEW address \in FlashSamples, NEW erase \in BOOLEAN
               PROVE  /\ DfuWrites(address, CY_FLASH_SIZEOF_ROW, erase) <=> RowOfSlot(address)
                      /\ DfuWrites(address, 0, erase) <=> RowOfSlot(address) /\ erase
                      /\ RowOfSlot(address) =>
                           /\ ReadData(device, address, CY_FLASH_SIZEOF_ROW, TRUE, TRUE)
                                = "SUCCESS"
                           /\ May(CM4, "read", "flash", address \div Unit(1))
    BY DEF DfuReachesSecondaryOnly, RowOfSlot
  <2>1. address \in 0..(Unit(device) - 1) BY <1>1 DEF FlashSamples, Unit, Devices
  <2>2. /\ \A length : \A e \in BOOLEAN :
             DfuWrites(address, length, e)
               <=> RowOfSlot(address) /\ (length = CY_FLASH_SIZEOF_ROW \/ e)
        /\ RowOfSlot(address) =>
             /\ ReadData(device, address, CY_FLASH_SIZEOF_ROW, TRUE, TRUE) = "SUCCESS"
             /\ May(CM4, "read", "flash", address \div Unit(1))
    BY <1>1, <2>1 DEF WritesSecondaryOnly
  <2>3. DfuWrites(address, 0, erase)
          <=> RowOfSlot(address) /\ (0 = CY_FLASH_SIZEOF_ROW \/ erase)
    BY <2>2, Zenon
  <2>4. DfuWrites(address, CY_FLASH_SIZEOF_ROW, erase) <=> RowOfSlot(address)
    BY <2>2, Zenon
  <2>5. 0 # CY_FLASH_SIZEOF_ROW BY DEF CY_FLASH_SIZEOF_ROW
  <2> QED BY <2>2, <2>3, <2>4, <2>5, Zenon
<1>2. TypeOK => device \in Devices BY FamiliesAssumption DEF TypeOK
<1> QED BY <1>1, <1>2, TypeCorrect, UploadsConfined, PTL
================================================================================
