----------------------------- MODULE ProtectionUnits -----------------------------
(***************************************************************************)
(* How the bootloader locks the memory map before it starts an             *)
(* application: prot_units_init() call by call, what main() makes of its   *)
(* status, the change of context in do_boot(), and the two applications    *)
(* that then run, each free to try to undo the protection.                 *)
(***************************************************************************)
EXTENDS DfuFlash, Sequences, FiniteSets

CONSTANTS Families,    \* the device families considered
          Asserts,     \* the builds: does CY_ASSERT(0) stop the program?
          MaxResets    \* bound on the resets of a behaviour

ASSUME FamiliesAssumption == Families \subseteq Devices /\ Families # {}
ASSUME AssertsAssumption == Asserts \subseteq BOOLEAN /\ Asserts # {}
ASSUME MaxResetsAssumption == MaxResets \in Nat

VARIABLES
  device,       \* the family this firmware was built for
  assert,       \* the build it was compiled with
  at,           \* where the CM0+ is: bootloader or application
  i,            \* how many calls of the current group have been made
  pc_mask,      \* contexts each bus master may switch to
  active_pc,    \* context each bus master runs in
  smpu,         \* SMPU structures enabled so far
  sealed,       \* SMPU structures whose master structure is read-only
  ms_ctl,       \* is the register that holds pc_mask closed to contexts # 0?
  cm4_on,       \* has the CM4 been released from reset?
  resets

units == <<pc_mask, active_pc, smpu, sealed, ms_ctl>>
vars == <<device, assert, at, i, units, cm4_on, resets>>

PCs == 0..7
CM0 == "CM0"
CM4 == "CM4"
TC == "TC"
Masters == {CM0, CM4, TC}

\* Fault: the CM0+ may go back to context 0.
MasterMask_Zero == [m \in Masters |->
                      CASE m = CM0 -> {0, 1, 2} [] m = CM4 -> {4} [] m = TC -> {5}]

\* Context 0 is left for good: no mask holds it.
MasterMask == [m \in Masters |->
                 CASE m = CM0 -> {1, 2} [] m = CM4 -> {4} [] m = TC -> {5}]

\* The order in which prot_units_init() makes its calls of one kind.
BusMasters == <<CM0, CM4, TC>>
NonSecureMasters == <<CM4, TC>>

\* Fault: the protected storage is left out.
SmpuOrder_NoStorage(d) == IF d = 2048 THEN <<13, 12, 11, 10, 9, 8, 6, 5>>
                                      ELSE <<13, 12, 11, 10, 9, 5>>

SmpuOrder(d) == IF d = 2048 THEN <<13, 12, 11, 10, 9, 8, 6, 7, 5>>
                            ELSE <<13, 12, 11, 10, 9, 7, 5>>
SmpuStructs == 0..15

\* The regions in force.
regions == [s \in smpu |-> SmpuConfig(device)[s]]

\* The accesses that the CM0+ and the CM4 can make now; both applications are
\* privileged, only the CM0+ is a secure master.
May(m, kind, mem, addr) == Allowed(regions, active_pc[m], m = CM0, kind, mem, addr)
MayAll(m, kinds, section) ==
  \A kind \in kinds, addr \in Addresses(section) : May(m, kind, section.mem, addr)
MayNone(m, kinds, section) ==
  \A kind \in kinds, addr \in Addresses(section) : ~May(m, kind, section.mem, addr)

-----------------------------------------------------------------------------------
(* prot_units_init().                                                      *)

\* One call of a group of n calls, then the next group.
Call(group, n, next) ==
  /\ at = group
  /\ IF i + 1 < n THEN at' = group /\ i' = i + 1 ELSE at' = next /\ i' = 0
  /\ UNCHANGED <<device, assert, cm4_on, resets>>

ConfigBusMaster ==
  /\ Call("bus_masters", Len(BusMasters), "contexts")
  /\ pc_mask' = [pc_mask EXCEPT ![BusMasters[i + 1]] = MasterMask[BusMasters[i + 1]]]
  /\ UNCHANGED <<active_pc, smpu, sealed, ms_ctl>>

\* The hardware ignores a context that is not in the mask.
SetActivePC(m, pc) ==
  active_pc' = IF pc \in pc_mask[m] THEN [active_pc EXCEPT ![m] = pc] ELSE active_pc

LeaveContextZero ==
  /\ Call("contexts", Len(NonSecureMasters), "smpu")
  /\ LET m == NonSecureMasters[i + 1] IN SetActivePC(m, IF m = CM4 THEN 4 ELSE 5)
  /\ UNCHANGED <<pc_mask, smpu, sealed, ms_ctl>>

\* Configuring and enabling a structure; it protects nothing until enabled.
ProtectRegion ==
  /\ Call("smpu", Len(SmpuOrder(device)), "ms_ctl")
  /\ smpu' = smpu \cup {SmpuOrder(device)[i + 1]}
  /\ UNCHANGED <<pc_mask, active_pc, sealed, ms_ctl>>

\* Fault: the peripheral protection is configured but not enabled.
CloseMsCtl_NotEnabled ==
  /\ Call("ms_ctl", 1, "masters")
  /\ UNCHANGED <<pc_mask, active_pc, smpu, sealed, ms_ctl>>

CloseMsCtl ==
  /\ Call("ms_ctl", 1, "masters")
  /\ ms_ctl' = TRUE
  /\ UNCHANGED <<pc_mask, active_pc, smpu, sealed>>

SealStruct ==
  /\ Call("masters", Cardinality(SmpuStructs), "lock")
  /\ sealed' = sealed \cup {i}
  /\ UNCHANGED <<pc_mask, active_pc, smpu, ms_ctl>>

\* Fault: the bootloader takes the context of the application.
Lock_Context2 ==
  /\ Call("lock", 1, "boot_go")
  /\ SetActivePC(CM0, 2)
  /\ UNCHANGED <<pc_mask, smpu, sealed, ms_ctl>>

Lock ==
  /\ Call("lock", 1, "boot_go")
  /\ SetActivePC(CM0, 1)
  /\ UNCHANGED <<pc_mask, smpu, sealed, ms_ctl>>

\* Fault: main() does not look at the status.
CallFails_Ignored ==
  /\ at \in {"bus_masters", "contexts", "smpu", "ms_ctl", "masters", "lock"}
  /\ at' = "boot_go" /\ i' = 0
  /\ UNCHANGED <<device, assert, units, cm4_on, resets>>

\* A driver call may fail.  The status sticks: the calls that follow are skipped,
\* and main() stops, provided that the build keeps its assertions.
CallFails ==
  /\ at \in {"bus_masters", "contexts", "smpu", "ms_ctl", "masters", "lock"}
  /\ at' = IF assert THEN "halted" ELSE "boot_go"
  /\ i' = 0
  /\ UNCHANGED <<device, assert, units, cm4_on, resets>>

ProtUnitsInit == ConfigBusMaster \/ LeaveContextZero \/ ProtectRegion \/ CloseMsCtl
                   \/ SealStruct \/ Lock \/ CallFails

-----------------------------------------------------------------------------------
(* main() of the bootloader from boot_go() on, and what it starts.         *)

\* boot_go() finds a bootable image, or the CM0+ goes to sleep.
BootGo ==
  /\ at = "boot_go"
  /\ at' \in {"do_boot", "asleep"}
  /\ UNCHANGED <<device, assert, i, units, cm4_on, resets>>

\* do_boot(): the result of Cy_Prot_SetActivePC is not looked at.
SwitchToApplication ==
  /\ at = "do_boot"
  /\ SetActivePC(CM0, 2)
  /\ at' = "jump"
  /\ UNCHANGED <<device, assert, i, pc_mask, smpu, sealed, ms_ctl, cm4_on, resets>>

Jump ==
  /\ at = "jump"
  /\ at' = "app"
  /\ UNCHANGED <<device, assert, i, units, cm4_on, resets>>

EnableCM4 ==
  /\ at = "app" /\ ~cm4_on
  /\ cm4_on' = TRUE
  /\ UNCHANGED <<device, assert, at, i, units, resets>>

Running(m) == (m = CM0 /\ at = "app") \/ (m = CM4 /\ cm4_on)

\* The registers of the protection units, as the hardware guards them: a write
\* from a context # 0 takes effect only where nothing was sealed.
SwitchContext ==
  /\ \E m \in {CM0, CM4}, pc \in PCs : Running(m) /\ SetActivePC(m, pc)
  /\ UNCHANGED <<device, assert, at, i, pc_mask, smpu, sealed, ms_ctl, cm4_on, resets>>

RewriteMask ==
  /\ \E m \in {CM0, CM4}, n \in Masters :
       /\ Running(m)
       /\ pc_mask' = IF active_pc[m] = 0 \/ ~ms_ctl
                     THEN [pc_mask EXCEPT ![n] = PCs \ {0}] ELSE pc_mask
  /\ UNCHANGED <<device, assert, at, i, active_pc, smpu, sealed, ms_ctl, cm4_on, resets>>

DisableRegion ==
  /\ \E m \in {CM0, CM4}, s \in smpu :
       /\ Running(m)
       /\ smpu' = IF active_pc[m] = 0 \/ s \notin sealed THEN smpu \ {s} ELSE smpu
  /\ UNCHANGED <<device, assert, at, i, pc_mask, active_pc, sealed, ms_ctl, cm4_on, resets>>

Applications == EnableCM4 \/ SwitchContext \/ RewriteMask \/ DisableRegion

-----------------------------------------------------------------------------------
Unprotected ==
  /\ pc_mask = [m \in Masters |-> {}] /\ active_pc = [m \in Masters |-> 0]
  /\ smpu = {} /\ sealed = {} /\ ms_ctl = FALSE

Init ==
  /\ device \in Families /\ assert \in Asserts
  /\ at = "bus_masters" /\ i = 0
  /\ Unprotected
  /\ cm4_on = FALSE
  /\ resets = 0

\* A power cycle, the watchdog or Cy_DFU_ExecuteApp.
Reset ==
  /\ resets < MaxResets
  /\ at' = "bus_masters" /\ i' = 0
  /\ pc_mask' = [m \in Masters |-> {}] /\ active_pc' = [m \in Masters |-> 0]
  /\ smpu' = {} /\ sealed' = {} /\ ms_ctl' = FALSE
  /\ cm4_on' = FALSE
  /\ resets' = resets + 1
  /\ UNCHANGED <<device, assert>>

Next == ProtUnitsInit \/ BootGo \/ SwitchToApplication \/ Jump \/ Applications \/ Reset
Spec == Init /\ [][Next]_vars

-----------------------------------------------------------------------------------
TypeOK ==
  /\ device \in Families /\ assert \in Asserts
  /\ at \in {"bus_masters", "contexts", "smpu", "ms_ctl", "masters", "lock", "boot_go",
             "do_boot", "jump", "app", "asleep", "halted"}
  /\ i \in 0..16
  /\ pc_mask \in [Masters -> SUBSET (PCs \ {0})]
  /\ active_pc \in [Masters -> PCs]
  /\ smpu \subseteq SmpuStructs /\ sealed \subseteq SmpuStructs
  /\ ms_ctl \in BOOLEAN /\ cm4_on \in BOOLEAN
  /\ resets \in 0..MaxResets

\* The CM4 cannot touch what belongs to the CM0+: the bootloader, the protected
\* storage, the CM0+ application and its SRAM, whatever the applications do: the ranges
\* of structures 5 and 9, which are open to it, leave out those of 7, 11, 12 and 13.
Cm4Confined ==
  cm4_on => \A section \in {Bootloader(device), ProtectedStorage(device),
                            Cm0App(device), Cm0Sram(device)} :
              MayNone(CM4, RWX, section)

\* The protected storage is open to no application of the CM0+ outside context 2,
\* so not to the bootloader once it has locked the protection (structure 7).
StorageOnlyInContext2 ==
  at \in {"boot_go", "do_boot", "app", "asleep"} /\ active_pc[CM0] # 2
    => MayNone(CM0, RWX, ProtectedStorage(device))

\* What belongs to the CM0+ and what belongs to its application alone.
MemoryConfined == Cm4Confined /\ StorageOnlyInContext2

\* Nor does the lock shut out its owners.  In context 1 MCUboot can read the new
\* image and write it over the old one, and do_boot reads the vector table.
BootloaderServed ==
  /\ at \in {"boot_go", "do_boot"} =>
       /\ MayAll(CM0, {"execute", "read"}, Bootloader(device))
       /\ MayAll(CM0, RW, Cm0Sram(device))
       /\ MayAll(CM0, RW, PrimarySlot(device))
       /\ MayAll(CM0, RW, SecondarySlot(device))
       /\ MayAll(CM0, RW, Scratch(device))
  \* The instruction after the change of context is still the bootloader's.
  /\ at = "jump" => /\ MayAll(CM0, {"execute", "read"}, Bootloader(device))
                    /\ MayAll(CM0, {"execute", "read"}, Cm0App(device))

\* The CM4 application runs, reaches the shared SRAM and can store an upgrade in
\* the secondary slot (structures 5, 8, 9 and 10, on every family).
Cm4Served ==
  cm4_on =>
    /\ MayAll(CM4, {"execute", "read"}, Cm4App(device))
    /\ MayAll(CM4, RW, Cm4Sram(device))
    /\ MayAll(CM4, RW, SharedSram(device))
    /\ MayAll(CM4, RW, SecondarySlot(device))

\* README.md:1085 - "Once the CM0+ bus master's PC is set to '1', it locks all the
\* protections in place": from then on only a reset changes what is protected.
LockHolds ==
  [][active_pc[CM0] # 0 /\ resets' = resets
       => UNCHANGED <<pc_mask, smpu, sealed, ms_ctl>>]_vars

\* Every bus master has left context 0 and every region is in force.
Locked ==
  /\ pc_mask = MasterMask
  /\ \A m \in Masters : active_pc[m] \in MasterMask[m]
  /\ smpu = {SmpuOrder(device)[n] : n \in 1..Len(SmpuOrder(device))}
  /\ sealed = SmpuStructs
  /\ ms_ctl

\* README.md:757 - "This area has been protected using SMPUs to allow access only
\* to CM0+": nothing runs after the bootloader unless the whole lock is in place.
\* A driver call that fails half way must not lead to a half-protected system.
StartsOnlyLocked == at \in {"boot_go", "do_boot", "jump", "app"} => Locked

\* A row write the CM4 carries out: Cy_DFU_WriteData lets it pass and no region
\* stands in its way.
DfuWrites(address, length, erase) ==
  /\ WriteData(device, address, length, erase, TRUE) = "SUCCESS"
  /\ May(CM4, "write", "flash", address \div Unit(1))

\* The first address of every KB, and one that is not at the start of a row.
FlashSamples == {Unit(kb) + n : kb \in 0..(device - 1), n \in {0, 1}}

\* Neither Cy_DFU_WriteData, which lets every other part of the flash pass, nor the
\* SMPU, which opens the running application to the CM4, confines an upload; the two
\* together admit the rows of the secondary slot and nothing else of the flash, with and without
\* erase, on every family (dfu_user.c:104-126).  What was written can be verified.
DfuReachesSecondaryOnly ==
  cm4_on =>
    \A address \in FlashSamples, erase \in BOOLEAN :
      LET kb == address \div Unit(1)
          row == kb \in Addresses(SecondarySlot(device)) /\ address % CY_FLASH_SIZEOF_ROW = 0
      IN  /\ DfuWrites(address, CY_FLASH_SIZEOF_ROW, erase) <=> row
          /\ DfuWrites(address, 0, erase) <=> row /\ erase
          /\ row => /\ ReadData(device, address, CY_FLASH_SIZEOF_ROW, TRUE, TRUE) = "SUCCESS"
                    /\ May(CM4, "read", "flash", kb)
===================================================================================
