-------------------------------- MODULE SecureBoot --------------------------------
(***************************************************************************)
(* From reset to a running application and back: main() and do_boot() of   *)
(* the bootloader, the overwrite upgrade of MCUboot inside boot_go(), the   *)
(* watchdog that the bootloader starts and the CM4 application frees, and   *)
(* the DFU writes of that application into the secondary slot.  The power   *)
(* may fail between any two steps, also between two rows of an upgrade.     *)
(*                                                                         *)
(* MCUboot is not part of the repository: boot_go() is modelled from the    *)
(* configuration in common.mk (overwrite only) and from its use in main().  *)
(***************************************************************************)
EXTENDS Naturals

CONSTANTS Rows,         \* rows of a slot; the last one carries the trailer
          Images,       \* images that may be uploaded
          Signed,       \* those that validate
          Healthy,      \* those whose CM4 application gets to main()
          Factory,      \* the image programmed at first
          Blank,        \* content of an erased row
          MaxPowerCuts

ASSUME RowsAssumption == Rows \in Nat \ {0}
ASSUME ImagesAssumption ==
  /\ Signed \subseteq Images /\ Healthy \subseteq Images
  /\ Factory \in Signed \cap Healthy /\ Blank \notin Images
ASSUME MaxPowerCutsAssumption == MaxPowerCuts \in Nat

VARIABLES
  at,           \* where the CM0+ is
  primary,      \* the rows of the two slots
  secondary,
  row,          \* next row of the upgrade in progress
  wdt,          \* the watchdog: "off" or "counting"
  cm4,          \* "stray": enabled by the reset, with nothing to run; "off",
                \* "starting", "running"
  power_cuts

slots == <<primary, secondary>>
vars == <<at, slots, row, wdt, cm4, power_cuts>>

RowNumbers == 1..Rows
Whole(slot) == \E img \in Signed : \A r \in RowNumbers : slot[r] = img

\* MCUboot looks at the secondary slot when its trailer asks for an upgrade.
Pending == secondary[Rows] # Blank

----------------------------------------------------------------------------------
(* The bootloader.                                                         *)

\* Fault: the CM4 is left as the reset left it.
DisableCM4_Forgotten ==
  /\ at = "main"
  /\ at' = "boot_go"
  /\ UNCHANGED <<slots, row, wdt, cm4, power_cuts>>

\* CM4 runs from reset on some devices, and flash cannot be written meanwhile.
DisableCM4 ==
  /\ at = "main"
  /\ at' = "boot_go" /\ cm4' = "off"
  /\ UNCHANGED <<slots, row, wdt, power_cuts>>

\* Fault: an upgrade that does not validate stays where it is.
RejectUpgrade_Kept ==
  /\ at = "boot_go" /\ Pending /\ ~Whole(secondary)
  /\ UNCHANGED vars

\* boot_go(): an upgrade that does not validate is erased.
RejectUpgrade ==
  /\ at = "boot_go" /\ Pending /\ ~Whole(secondary)
  /\ secondary' = [r \in RowNumbers |-> Blank]
  /\ UNCHANGED <<at, primary, row, wdt, cm4, power_cuts>>

\* Fault: the request is withdrawn before the copy.
StartUpgrade_Withdraws ==
  /\ at = "boot_go" /\ Pending /\ Whole(secondary)
  /\ at' = "copy" /\ row' = 1
  /\ secondary' = [secondary EXCEPT ![Rows] = Blank]
  /\ UNCHANGED <<primary, wdt, cm4, power_cuts>>

\* Fault: the upgrade is not validated.
StartUpgrade_Unvalidated ==
  /\ at = "boot_go" /\ Pending
  /\ at' = "copy" /\ row' = 1
  /\ UNCHANGED <<slots, wdt, cm4, power_cuts>>

StartUpgrade ==
  /\ at = "boot_go" /\ Pending /\ Whole(secondary)
  /\ at' = "copy" /\ row' = 1
  /\ UNCHANGED <<slots, wdt, cm4, power_cuts>>

\* Fault: the row counter advances by a slot and a row.
CopyRow_Stride ==
  /\ at = "copy" /\ row \in RowNumbers
  /\ primary' = [primary EXCEPT ![row] = secondary[row]]
  /\ row' = row + Rows + 1
  /\ UNCHANGED <<at, secondary, wdt, cm4, power_cuts>>

\* Fault: rows are moved, not copied.
CopyRow_Moves ==
  /\ at = "copy" /\ row \in RowNumbers
  /\ primary' = [primary EXCEPT ![row] = secondary[row]]
  /\ secondary' = [secondary EXCEPT ![row] = Blank]
  /\ row' = row + 1
  /\ UNCHANGED <<at, wdt, cm4, power_cuts>>

CopyRow ==
  /\ at = "copy" /\ row \in RowNumbers
  /\ primary' = [primary EXCEPT ![row] = secondary[row]]
  /\ row' = row + 1
  /\ UNCHANGED <<at, secondary, wdt, cm4, power_cuts>>

\* Only then is the request withdrawn: an interrupted copy starts over.
FinishUpgrade ==
  /\ at = "copy" /\ row > Rows
  /\ secondary' = [secondary EXCEPT ![Rows] = Blank]
  /\ at' = "boot_go" /\ row' = 0
  /\ UNCHANGED <<primary, wdt, cm4, power_cuts>>

\* Fault: the primary slot is not validated.
StartWatchdog_Unvalidated ==
  /\ at = "boot_go" /\ ~Pending
  /\ wdt' = "counting"
  /\ at' = "do_boot"
  /\ UNCHANGED <<slots, row, cm4, power_cuts>>

\* boot_go() returns 0: the watchdog is started.
StartWatchdog ==
  /\ at = "boot_go" /\ ~Pending /\ Whole(primary)
  /\ wdt' = "counting"
  /\ at' = "do_boot"
  /\ UNCHANGED <<slots, row, cm4, power_cuts>>

\* Nothing bootable: deep sleep for ever.
Sleep ==
  /\ at = "boot_go" /\ ~Pending /\ ~Whole(primary)
  /\ at' = "asleep"
  /\ UNCHANGED <<slots, row, wdt, cm4, power_cuts>>

\* do_boot() jumps to the CM0+ application, which releases the CM4.
DoBoot ==
  /\ at = "do_boot"
  /\ at' = "app" /\ cm4' = "starting"
  /\ UNCHANGED <<slots, row, wdt, power_cuts>>

----------------------------------------------------------------------------------
(* The CM4 application of the image in the primary slot.                   *)

\* main(): the watchdog is kicked and freed before anything else.
FreeWatchdog ==
  /\ cm4 = "starting" /\ primary[1] \in Healthy
  /\ wdt' = "off" /\ cm4' = "running"
  /\ UNCHANGED <<at, slots, row, power_cuts>>

\* Cy_DFU_WriteData: rows of the running application are refused.
WriteData(slot, r, img) ==
  IF slot = "primary" THEN UNCHANGED slots
  ELSE secondary' = [secondary EXCEPT ![r] = img] /\ UNCHANGED primary

DfuWrite ==
  /\ cm4 = "running"
  /\ \E slot \in {"primary", "secondary"}, r \in RowNumbers, img \in Images :
       WriteData(slot, r, img)
  /\ UNCHANGED <<at, row, wdt, cm4, power_cuts>>

----------------------------------------------------------------------------------
\* Every reset begins in main() of the bootloader, without a watchdog; whether
\* the CM4 runs depends on the device.
SystemReset ==
  /\ at' = "main" /\ row' = 0
  /\ wdt' = "off" /\ cm4' \in {"off", "stray"}
  /\ UNCHANGED slots

\* Cy_DFU_ExecuteApp, after a transfer.
ExecuteApp == cm4 = "running" /\ SystemReset /\ UNCHANGED power_cuts

\* The watchdog allows 4 s, much more than a healthy application takes.
WatchdogReset ==
  /\ wdt = "counting" /\ cm4 = "starting" /\ primary[1] \notin Healthy
  /\ SystemReset /\ UNCHANGED power_cuts

PowerCut ==
  /\ power_cuts < MaxPowerCuts /\ power_cuts' = power_cuts + 1
  /\ SystemReset

Init ==
  /\ at = "main"
  /\ primary \in [RowNumbers -> {Factory, Blank}]  \* also programmed in part
  /\ secondary = [r \in RowNumbers |-> Blank]
  /\ row = 0
  /\ wdt = "off" /\ cm4 \in {"off", "stray"}
  /\ power_cuts = 0

Bootloader == DisableCM4 \/ RejectUpgrade \/ StartUpgrade \/ CopyRow \/ FinishUpgrade
                \/ StartWatchdog \/ Sleep \/ DoBoot
Next == Bootloader \/ FreeWatchdog \/ DfuWrite \/ ExecuteApp \/ WatchdogReset \/ PowerCut

\* The CM0+ goes on, a healthy application comes up, a watchdog that is not freed
\* expires.  Transfers, power cuts and the reset after a transfer need not happen.
Fairness == WF_vars(Bootloader) /\ WF_vars(FreeWatchdog) /\ WF_vars(WatchdogReset)

SafetySpec == Init /\ [][Next]_vars
Spec == SafetySpec /\ Fairness

----------------------------------------------------------------------------------
Contents == [RowNumbers -> Images \cup {Blank}]
TypeOK ==
  /\ at \in {"main", "boot_go", "copy", "do_boot", "app", "asleep"}
  /\ primary \in Contents /\ secondary \in Contents
  /\ row \in 0..(Rows + 1)
  /\ wdt \in {"off", "counting"}
  /\ cm4 \in {"stray", "off", "starting", "running"}
  /\ power_cuts \in 0..MaxPowerCuts

\* One of the slots holds a whole signed image, and when it is the secondary one
\* its trailer still asks for the upgrade.
Bootable == Whole(primary) \/ (Pending /\ Whole(secondary))

\* A device that can be started can be started ever after: no step of the program,
\* also between two rows of an upgrade, and no power cut leaves it without a whole
\* image (main() and boot_go(), Cy_DFU_WriteData).
NeverBricked == [][Bootable => Bootable']_vars

\* What runs was validated as a whole, and has not changed since.
OnlyWholeImagesRun == at \in {"do_boot", "app"} => Whole(primary)

\* Flash is written by the bootloader only while the CM4 is disabled
\* (main.c:212 of the bootloader), and by the CM4 only once the watchdog that
\* could reset it in the middle of a row is freed.
FlashWritesUndisturbed ==
  /\ at = "copy" => cm4 = "off" /\ wdt = "off"
  /\ cm4 = "running" => wdt = "off"

\* What the next start will run, and what runs.
boots == IF Pending /\ Whole(secondary) THEN secondary[1]
         ELSE IF Whole(primary) THEN primary[1] ELSE Blank
up == IF at = "app" THEN primary[1] ELSE Blank
Service == INSTANCE BootService WITH NoImage <- Blank

\* The image that the next start runs is decided by the rows in flash alone, and no
\* step of main() and boot_go(), no reset and no power cut changes it, also between two
\* rows of an upgrade: a complete upgrade is installed, an incomplete one or a broken
\* one leaves the application that was there, and that is what comes up.
ImplementsServiceSafety == Service!SafetySpec

\* And it does come up after every reset, whatever the secondary slot holds.
ImplementsServiceLiveness == Service!Liveness

\* main.c:300 of the bootloader - "If the watchdog is not updated, reset will be
\* initiated by watchdog timer and swap revert operation will be started to roll
\* back to the operable image."
RollsBack == (cm4 = "starting" /\ primary[1] \notin Healthy) ~> cm4 = "running"

\* Why no power cut is fatal: the rows already copied are those of the upgrade,
\* and the upgrade is whole until the copy is.
CopyKeepsSource ==
  at = "copy" =>
    /\ Whole(secondary)
    /\ row \in 1..(Rows + 1)
    /\ \A r \in 1..(row - 1) : primary[r] = secondary[r]

\* Where the watchdog can be running, and where the CM4 can be up.
CM4Path ==
  /\ wdt = "counting" => at \in {"do_boot", "app"}
  /\ cm4 \in {"starting", "running"} => at = "app"
  /\ at \notin {"main", "app"} => cm4 = "off"
  /\ cm4 = "running" => wdt = "off"
==================================================================================
