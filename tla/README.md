# PSoC 6 secure boot template: TLA+ models

This project models the firmware of the *PSOC 6 security application template*: an
MCUboot based bootloader on the CM0+ core that locks the memory map, validates and
upgrades an image, and starts two applications, one per core, that exchange a device
ID over IPC and receive firmware updates over UART.  TLC checks each module on a small
instance; TLAPS proves the most important results for every value of the constants.

File names below are relative to `src/`.

## Inventory of the system

| part | source | state | operations | interacts with |
|---|---|---|---|---|
| bootloader `main`, `do_boot` | `proj_btldr_cm0p/source/main.c` | position in the boot, watchdog, CM4 on or off | disable CM4, `prot_units_init`, `boot_go`, `cy_wdg_init`, jump, sleep | protection units, MCUboot, flash, application |
| protection units | `cy_ps_prot_units.c` | PC masks and active PCs of the bus masters, SMPU structures, their master structures, MS_CTL | some sixty driver calls in order | every access of every core afterwards |
| memory map | `common.mk` | none | computed per device family | all images, SMPU regions, slots |
| MCUboot (library) | configured in `common.mk`, called at `main.c:287` | two slots of flash with trailers | validate, copy row by row, withdraw the request | flash, power cuts |
| CM0+ application | `proj_cm0p/source/main.c`, `ipc_communication.c` | `msg_cmd` | LED loop with a `switch` on `msg_cmd`; IPC handler `cm0p_msg_callback` | CM4 over IPC channels 8 and 9 |
| CM4 application `main` | `proj_cm4/source/main.c` | `rmaParam`, `uid_param` | free the watchdog, report the lifecycle, `TransitionToRMA` or `dfu_task` | watchdog, SROM, task |
| `dfu_task` | `proj_cm4/source/dfu_task.c` | `msg_flag`, `msg_value`, `dfu_start_flag`, `state`, `status`, `count` | request the ID, wait for it, `Cy_DFU_Continue` and what follows each outcome; handler `cm4_msg_callback` | CM0+ over IPC, host over UART, slots |
| DFU storage callbacks | `proj_cm4/source/dfu_user.c` | secondary slot, crypto block | write, read and compare a row; validate an image: parse header and trailer, hash, compare, decode signature and key, verify | flash, SMPU, MCUboot's image format |
| UART transport | `proj_cm4/source/transport_uart.c` | FIFOs, `UART_initVar`, the counters of a read | start, stop, reset, read a packet with a timeout, write | DFU library, host |
| eFuse, key storage, TOC2, linker scripts, makefiles, host tools | `cy_ps_efuse.c`, `cy_ps_keystorage.c`, `cy_ps_config.h`, `shared/`, `scripts/`, `rma_certificate_generation/` | constants | none at run time | ROM, programmer, host |

Behaviours that are hard to test and that the models are about:

* two cores and two interrupt handlers that share IPC channels which nobody ever
  releases, and plain globals which handlers write (`DeviceIdExchange`);
* a lock of some sixty calls, any of which may fail, whose last step takes the right to
  change it away, with regions whose ranges overlap but for their disabled subregions, on
  three device families (`ProtectionUnits`);
* power cuts between two rows of an upgrade, partial uploads, a watchdog handed from one
  core to the other (`SecureBoot`);
* a host that loses, garbles or stops sending packets, a round counter that runs on
  between sessions, power cycles in a transfer (`DfuTask`);
* the end of a packet told by nothing but a FIFO level that stays the same, while bytes
  arrive between the readings, the FIFO is full or the transport is reset
  (`UartTransport`);
* a slot that mixes rows of several uploads, a crypto block that may fail at any call,
  a hash function that reports its failure to nobody, signatures whose length varies
  (`ImageValidation`);
* checks of an address that let most of the flash pass and confine an upload only
  together with the SMPU (`DfuFlash` in `ProtectionUnits`);
* a system call that may be answered late or never (`RmaTransition`).

What makes each part correct: the exchange never asserts, discloses the ID only on request
and starts the update only after it was shown; the lock confines each core, shuts out no
owner, cannot be undone and is complete before anything else runs; a device that can be
started can be started ever after and runs only whole signed images; an update of a signed
image reaches the slot as acknowledged, sessions end when they should and only then, and a
prompt host gets its image installed; an upload reaches the secondary slot and nothing
else, and is found valid if and only if it is whole and signed; a read returns one whole
packet or lasts its full time; the RMA call returns and claims no success that did not
happen.

## Modules

| module | extends | models | checked by | proved in |
|---|---|---|---|---|
| `DeviceIdService` | | abstract promise of the exchange: ask, answer, show, begin | refinement of `DeviceIdExchange` | |
| `DeviceIdExchange` | | both applications' side of the exchange, both handlers, IPC channels 8 and 9, resets | `MCExchange*.cfg` | `DeviceIdExchange_proofs` |
| `MemoryLayout` | | flash and SRAM map of the three families, SMPU regions and the hardware's decision | through `ProtectionUnits` | `MemoryLayout_proofs` |
| `DfuFlash` | `MemoryLayout` | the checks of `Cy_DFU_WriteData` and `Cy_DFU_ReadData` | through `ProtectionUnits` | `MemoryLayout_proofs` |
| `ProtectionUnits` | `DfuFlash` | `prot_units_init` call by call, the rest of the boot, applications that try to undo it and to write flash | `MCProtection*.cfg` | `ProtectionUnits_proofs` |
| `BootService` | | abstract promise of the bootloader: there is an image that the next start runs | refinement of `SecureBoot` and of `DfuTask` | |
| `SecureBoot` | | boot, upgrade row by row, watchdog, DFU writes, power cuts | `MCBoot*.cfg` | `SecureBoot_proofs` |
| `DfuTask` | | the update loop, its host and a lossy line | `MCDfu.cfg` | `DfuTask_proofs` |
| `ImageValidation` | | `Cy_DFU_ValidateApp` call by call, a host that fills the slot, a crypto block that fails | `MCImageValidation`, `MCImage.cfg` | `ImageValidation_proofs` |
| `UartTransport` | | the transport of the DFU library, byte by byte, with the FIFOs, the line and the host | `MCUart.cfg` | `UartTransport_proofs` |
| `RmaTransition` | | `TransitionToRMA` and the SROM | `MCRma*.cfg` | `RmaTransition_proofs` |

How they fit together: `UartTransport` shows that what reaches `Cy_DFU_Continue` is a
whole packet or a timeout of known length, which is what `DfuTask` takes as a step.
`DfuTask` writes rows that `DfuFlash` and the SMPU confine to the secondary slot, and
`ImageValidation` shows what its `Valid` stands for.  What `DfuTask` does in one step, the
reset that moves a valid image to the primary slot, `SecureBoot` does row by row with a
power cut anywhere; both implement `BootService`, which is the contract between them.

Definitions keep the names of the source where they have one.  An operator with an
underscore and a short fault description in its name (`ClearCommand_Forgotten`,
`CopyRow_Moves`) is a faulty variant of the definition that follows it; no
specification uses it.  Substituted for that definition it makes TLC find a violation
of the property it is paired with, which shows that the property depends on the code.

### DeviceIdExchange and DeviceIdService

A core is a thread (`cm0_pc`, `cm4_pc`) and a handler (`cm0_isr`, `cm4_isr`): the
thread moves only while its handler does not run, the handler may come in between any
two steps, and the cores run in parallel.  Every access to `msg_cmd`, `msg_flag`,
`msg_value` or to a channel is a step of its own, in the order of the code.  The channel
model is the IPC driver as the code uses it: a send takes the lock and latches a notify,
a read needs the lock and leaves it, a clear removes the latch, and nothing in the
program releases a lock.  `halted` is a CY_ASSERT.  `Reset` restarts both cores and the
IPC block.

`build` is what the compiler made of the polling loop of `dfu_task`.  `msg_flag` and
`dfu_start_flag` are not volatile, are written by a handler, and the loop calls nothing
while they are FALSE, so it is a data race whose outcomes are a loop that looks in every
round (`"reread"`) and one that looked once (`"hoisted"`).

The refinement mapping `phaseOf` reads the phase of `DeviceIdService` from the channels,
`printed` and `dfu_start_flag`.

### MemoryLayout and ProtectionUnits

Sizes and start addresses are those `common.mk` computes, in KB.  `FlashConfig` and
`SramConfig` are the slave configurations with the branches of the preprocessor turned
into conditions on the family; `Allowed` is the SMPU: of the enabled regions that match
an address, the one with the highest number decides.  The family with neither 512 KB, 1
MB nor 2 MB of flash in the `#else` branches is not a supported target (`common.mk:138`).

One action per group of calls of `prot_units_init`; configuring and enabling a structure
is one step, for it protects nothing before.  `CallFails` is the sticky status and the
branch of `main()` on it; `assert` says whether the build keeps CY_ASSERT.  After the
jump the two applications may try to change contexts, masks and regions at any time,
and the hardware decides by what was sealed.

`DfuFlash` has no state: `WriteCheck` and `ReadCheck` are the cascades of conditions of
the two callbacks, in which a later check overwrites the status of an earlier one.
`ProtectionUnits` puts them behind the SMPU as the CM4 meets it (`DfuWrites`), and
`DfuReachesSecondaryOnly` says what the two leave open together.  Neither does it alone:
the callback admits the protected storage and the scratch area, the SMPU admits the
application of the CM4 that runs.

### SecureBoot and BootService

A slot is a sequence of rows, each of which holds the content of one image or is blank;
the last row carries the trailer.  `boot_go()` is MCUboot in the configuration of
`common.mk` (overwrite only): an upgrade that does not validate is erased, a valid one is
copied row by row and then its request is withdrawn.  DFU may write any row of any image
into the secondary slot; rows of the primary slot are refused.  `PowerCut` may come
between any two steps, `WatchdogReset` only while the CM4 application has not come up.
`Healthy` are the images whose CM4 application reaches `main()`.

`BootService` has two variables: the image the next start runs and the image that runs
now.  In `SecureBoot` the first is read from the slots: the secondary if it is whole and
signed, else the primary.  That it does not change while the rows are copied, although
both slots do, is what the refinement shows.

### DfuTask

One `Cy_DFU_Continue` per round and one action for each branch of the loop on its
result, with `count` as a machine integer (`CountMod`).  Everything that arrived before
a read is one packet, so two commands in the FIFO are a garbled one.  The host sends
Enter, the rows in order and Exit, waits for each response, starts over on an error or
when no response is coming, repeats the transfer when the device still runs another
image, and may leave for good.  `quiet` is history: rounds since the last packet.
`Reboot` is the bootloader in one step, with what it does to the slot: a valid image is
copied and its request in the last row withdrawn, an upgrade that has a request and does
not validate is erased, rows without a request stay.  That `SecureBoot` starts the same image
row by row is the common refinement of `BootService`.  After a reset the wait for the
device ID before the loop (`dfu_task.c:194` to `:209`) is taken to have ended; that it may
not is shown in `DeviceIdExchange` (`exchange_lost`).

`AcknowledgedRowsStored` says what survives of an acknowledged row.  While a session is
open the rows the host has an answer for are in the slot; a power cycle closes the session,
and the boot may erase the slot, which no host was promised to be spared.  Once all rows are
acknowledged the image stays, in the slot or installed.  Both are said of signed images:
the boot erases an unsigned one after Exit, the host repeats the transfer, and since
responses carry no numbers it may take the error response to its last Exit for the one to
its new Enter and go on one response ahead.

### ImageValidation

Flash is divided into cells, a cell holds `<<image, number>>`, and a host programs rows of
any images in any order before Exit.  `Content` says what each image carries: sizes and
magic numbers, the image whose hash and signature are in its trailer, the key, `r` and
`s` as bytes.  Hashing is the sequence of the cells hashed, so that the order and the
extent of the chunks matter; a signature is a pair of numbers that is valid for one hash
and one key.  The conversions are modelled by what they do: `DerSignature` writes what the
signing tool writes, `CopiedSignature` keeps its length in a `uint8_t` and rounds it up,
`signature_der_to_asn1` puts short integers to the right end of their fields,
`extract_pub_key` scans for a marker with a pointer and a counter.  Every call of the
crypto block may fail; `assert` says what CY_ASSERT makes of it where the code has one.
`validation_status` is not initialised, so after a failed verification without
assertions it is either value.

### UartTransport

A byte is `<<length of its packet, number>>`.  Each reading of the level of the receive
FIFO, each delay and the copy is a step, and bytes arrive between them.  During the delay
in the middle of a packet a steady host sends at least one byte (868 us are ten byte
times); a halting host may stop anywhere.  What comes to a full FIFO or to a stopped UART
is lost.  The transport may be stopped, started and reset between calls, the system at
any point.  `heard`, `elapsed` and `cut` are history: what arrived since the level was
measured, the delays of this read, and whether the device itself discarded a part of the
packet that is coming in.  Of a packet that was cut its rest is read as a packet, which
`WholePackets` allows; what it rules out in that case too is that the rest is joined with
the next packet, or that any of it is left for the next read.

### RmaTransition

The call, the poll of the lock, the delay and the reading of the status; the SROM
answers in two steps, status first, at any time or never, and may be busy with somebody
else's call at first.

## Runs

| run | configuration | result | what it shows |
|---|---|---|---|
| `exchange` | `MCExchange.cfg` | holds | no assertion fires although no channel is ever released; the ID is disclosed only on request; a command the switch has seen is answered; the update begins after the ID was shown; the abstract service is implemented, its liveness in builds that reread the flags |
| `exchange_lost` | `MCExchangeLost.cfg` | violated | a request stored between the `switch` and `msg_cmd = 0` is lost for ever (`README.md:811`) |
| `exchange_hoisted` | `MCExchangeHoisted.cfg` | violated | a compiler may look at `msg_flag` once, then the answer is never shown (`README.md:917`) |
| `protection` | `MCProtection.cfg` | holds | confinement, service, permanence and completeness of the lock, on all families; an upload reaches the secondary slot and nothing else of the flash |
| `protection_release` | `MCProtectionRelease.cfg` | violated | without CY_ASSERT a failed driver call starts a half-protected system (`README.md:757`) |
| `dfu` | `MCDfu.cfg` | holds | acknowledged rows of a signed image are stored and stay, sessions end for silence and only for silence, a prompt host gets its image installed, starts are those of the boot service |
| `image` | `MCImage.cfg` | holds | an image is found valid if it is whole and signed with the key, and only then; the validation ends |
| `uart` | `MCUart.cfg` | holds | a read returns one packet of a steady host to its end, whole unless the device cut it, a silent read lasts its full time, every call returns |
| `boot` | `MCBoot.cfg` | holds | never bricked, only whole signed images run, flash writes and the source of a copy are undisturbed, the boot service is implemented with its liveness |
| `boot_rollback` | `MCBootRollback.cfg` | violated | the watchdog restarts a bad upgrade for ever, nothing rolls it back (`main.c:300`) |
| `rma` | `MCRma.cfg` | holds | the call returns, waits its full time, claims no false success |
| `rma_result` | `MCRmaResult.cfg` | violated | the value returned is success whatever the SROM said (`proj_cm4/source/main.c:136`) |

Smaller disagreements of comments with the code, which no run is spent on:

* `CM0+ - Allowed PC values = 0,1,2` (`cy_ps_prot_units.c:308`) where the mask is 1 and 2;
* `Access is RW for PC=1,4` (`:165`) where the mask is 1;
* `the protection has been excluded for first sub-region for all variants` (`:178`) of the
  SRAM of the CM0+, and `Exclude first sub-region` at `:190`, where the disable mask is 0;
* `Read/Write no execute` for the SRAM of the CM4 (`:251`), which is executable.

### Bounds

* `MaxResets = 2` in the exchange: nothing survives a reset, so one reset from every
  state and one more from every state after it show whatever a second start can meet;
  the theorems hold for any number.
* The values of words in the exchange are those the code uses; `DeviceId` is any number.
* `ProtectionUnits` checks every KB of every section, on all families; the boundaries of
  all regions and subregions are multiples of 2 KB.  `MemoryLayout_proofs` speaks of
  every address.
* `FlashSamples` are the first address of each KB and one inside its first row: every
  boundary of the map is a multiple of a KB.  The theorem `UploadsConfined` is about every
  address and any length.
* `Rows = 3` in `SecureBoot` has a first, a middle and a last row, so that a copy meets a
  power cut with rows of both images on either side; `Rows = 2` in `DfuTask` is the least
  with a state between two rows and a row that carries no trailer.  Four images cover
  signed and healthy, neither and either.  The theorems hold for any number of each.
* In `image` the slot has four rows of two cells, a block of the hash two cells and a
  coordinate two bytes; the seven images cover messages that are and are not multiples
  of a block, integers that are short, that need a leading zero and that need neither,
  even, odd and padded signatures, and one way each of being wrong: changed after
  signing, another key, another kind of signature, another header size.
* In `uart` the FIFO holds three bytes, the buffer four; packets are shorter than, as long
  as and longer than the FIFO, a response is longer; a timeout of two delays has a
  first and a last one.
* `Limit = 3`, `CountMod = 5` in `DfuTask` stand for 250 and 2^32: `count` wraps, and
  both sides of the limit are reached with and without a session.
* `MaxFaults = 2`, `MaxPowerCuts = 2`: a fault in the middle of the recovery from one.
* `IPC_STATUS_WAIT_TIME_S` has its value, 60.

### Fairness

Weak fairness of each thread and each handler in the exchange: a core executes, and an
interrupt that stays latched and enabled is taken.  In `DfuTask` the task runs, and the
host goes on unless it leaves; that it acts within five seconds is not assumed but is a
kind of host (`pace`), for which alone the upgrade is promised.  In `SecureBoot` the
CM0+ goes on, a healthy application comes up before its watchdog expires (4 s,
`main.c:77`) and a watchdog that is not freed expires; transfers and power cuts need not
happen.  In `ImageValidation` the validation goes on, in `UartTransport` the CPU runs,
the shift register empties and a steady host sends what it began; hosts otherwise owe
nothing, and a halting one may send for ever.  Of the SROM nothing is assumed.  `BootService`
asks for one thing, that a device with an image starts it, in which the weak fairness
of `SecureBoot` comes out.

`CHECK_DEADLOCK FALSE` is set where the system may really stop: the bootloader that
found nothing to boot, a failed assertion, the end of `TransitionToRMA`.

## Proofs

`DeviceIdExchange_proofs` proves of `SafetySpec`, for any device ID, any number of
resets and both outcomes of the compiler: type correctness (`TypeCorrect`), the inductive
invariant `MessagePaths` (`PathsCorrect`), and from it `NoAssertFires`,
`AnswerNeedsRequest`, `DfuAfterDeviceId` and `RefinesService`.  None of these four is
inductive.  That no assertion fires needs to know why the CM0+ does not answer twice:
the latch of channel 8 is cleared before the switch can see the command, because the
thread does not run while the handler does, and the CM4 sends once.  `RequestPath` and
`AnswerPath` say where the request and the answer can be, with one clause per stage.
`FlagsOK` is apart from `StateOK` because the provers treat Boolean variables best on
their own.

`SecureBoot_proofs` proves of `SafetySpec`, for any number of rows and any sets of
images: `TypeCorrect`, `WritesUndisturbed`, `WholeImagesRun`, `CopySafe`,
`PowerCutsHarmless`, the theorem that no step and no power cut takes a device its last
whole image, and `ImplementsService`, the refinement of `BootService`.  The invariant is
`BootInv`: types, where the CM4 and the watchdog can be (`CM4Path`), and that during a
copy the source is whole and the rows copied are those of the source
(`CopyKeepsSource`).  Without the last, the step that withdraws the request could leave
neither slot whole.  For the refinement `StartsInstalled` adds that no upgrade is waiting
once the bootloader has decided to start.  The proofs use the assumptions that `Blank` is no
image and that there is at least one row.

`DfuTask_proofs` proves, for any number of rows, images, faults and rounds:
`TypeCorrect`, `SessionsNotDroppedEarly`, `ImplementsService` and `AcknowledgedStored`.
That sessions are not dropped early needs `CountFollowsSilence`: in a session `count` is
never ahead of the silence there has been, although it runs on, and wraps, outside of
one.  That acknowledged rows are stored needs `OneAhead` (host and device
are at most one packet apart, whichever was lost) and `Transferred`: for a signed image host
and device are in step (`InStep`: what is under way is the command the host is at, and a
response is to that command), or all rows of the image are in the slot.  A host that
repeats a finished transfer falls out of step, but then the whole image is there, rows are
written over with themselves, and the one thing that changes the slot otherwise, a restart,
installs the image and clears the line (`RebootInStep`).

`MemoryLayout_proofs` does the arithmetic of the three families once, for every address.
`EveryFamilyCovered` says that each SMPU structure matches exactly the section of
`common.mk` that it is there for, no KB more or less, with its permission and contexts
(for the CM4 the rest of the flash behind the CM0+ application, and the SRAM with the 2 KB
at its end that no section covers): the powers of two and the disabled subregions of
`cy_ps_prot_units.c` against start addresses that another file computes.
`RegionsDisjoint` says that no two structures match one address.  So the rule of the
hardware that the highest number decides is never needed, and what a context may do in a
section can be read off one structure.  The lemmas at the end put the checks of
`dfu_user.c` in terms of the same sections.  There is one lemma per family, for the prover
cannot treat the sizes as variables.

`ProtectionUnits_proofs` proves `TypeCorrect` for both builds and, assuming that
CY_ASSERT stops the program (`Asserts = {TRUE}`), `StartsLocked` and `LockKept`.  Without
that assumption the first is false, as the run `protection_release` shows.  The invariant
`LockInv` says for each group of calls what it has done so far and what the groups before
it have left: the masks (`MasksSet`), the contexts (`ContextsLeft`), the regions
(`RegionsOn`), the seals (`Sealed`), and that the CM0+ is in context 0 exactly until the
last call (`ContextOfBoot`).  Past the last call it is the lock, and `LockedStays` shows
that no move of an application changes it, because nobody is in context 0 and everything
is sealed.

From the same invariant and `MemoryLayout_proofs` follow, on every family, `Confined`,
`Served` and `Cm4HasItsOwn`: what each core can and cannot reach after the lock.
`ContextsLeft` and the masks bound the contexts a core may take (`ContextOfCm4`,
`ContextOfCm0`), `ContextOfBoot` gives the one the bootloader is in at each point,
`RegionsInForce` says that the structures in force are those of the configuration, and
`Verdict` that the one that matches decides; `Open` and `Closed` put this for a whole section.
`UploadsConfined` adds the DFU callbacks: an upload writes the rows of the secondary slot
and nothing else, at every unit of the flash and with any length.  It is stronger than
`DfuReachesSecondaryOnly`, which looks at samples and follows from it
(`UploadsSampled`).

`ImageValidation_proofs` proves `TypeCorrect` and `OnlySigned` for slots, rows and blocks
of any size, any images and any key.  `AcceptsOnlySigned` by itself says nothing of the
time before the verdict; `ValidationInv` adds that header and trailer were found in order
(`ParsedThen`), that what was hashed is the beginning of the slot and ends at the trailer
(`Hashed`), and that a digest is that of what was hashed or none (`Digested`).  A digest of
none is the hash of no message, for a header is not empty: so an unreported failure of
the crypto block is found out (`VerifiedWhole`).  Used of `ImagesAssumption`: the
signing tool signs nothing that does not fit the slot, and a trailer copied from another
image carries that image's signature.

The other direction is `EverySigned`: a whole image signed with the key is found valid
unless the crypto block fails.  Its invariant `Forward` says that for such an image the
hash has gone to the end of the message when it is compared, and that the verdict is the
right one.  The step of the verification needs the way of the signature through its
formats (`SignatureDecoded`): `DerSignature` drops leading zeros, may put one in front and
may pad (`IntegerWritten`, `SignatureWritten`), the copy keeps the length in a byte and
rounds it up (`SignatureCopied`), and `signature_der_to_asn1` fills fixed fields from
the right (`FieldFilled`); what comes out is the `r` and `s` that went in, for integers of any
width.  `SignaturesAssumption` is used here: `r` and `s` are not zero, as in every ECDSA
signature, and the signature and its padding are shorter than 255 bytes (for P-256 a
signature takes at most 72).  A signature of 255 bytes would be rounded up to a length of
none.  That a set of numbers has a least one (`Least`), here the first byte that is not
zero, comes from the well-foundedness of the naturals.

`UartTransport_proofs` proves `TypeCorrect`, `ReadsWhole` and `SilenceCounted` for FIFOs,
packets and timeouts of any size but zero.  `CountedDown` says that counter and delays
add up.  For a steady host `InOrder` says that the FIFO holds the last bytes sent, all of
them unless the packet was cut or read, `Turns` that host and device speak in turn, and
`Settled` that the level can be found unchanged only when all of the packet is there;
none is inductive without the others.

`RmaTransition_proofs` proves all three invariants of the call, from where the status
can be read and who can hold the lock then (`CallPath`), and when something is printed
(`Outcome`).

Every invariant and every action property of the runs that pass is proved, the safety
halves of the refinements included.  Only model-checked is liveness, which is out of the
prover's reach: `SeenCommandAnswered`, `AbandonedSessionEnds`, `UpgradeEventually`,
`ValidationReturns`, `CallsReturn`, `AlwaysReturns` and both `ImplementsServiceLiveness`.
`EverySigned` speaks of the key that `extract_pub_key` finds.  That its scan finds the
point of the key file is evaluated by TLC for a file of that form (`KeyFound` in
`MCImageValidation`), for what a recursion computes on any input cannot be proved here.

## Not modelled

eFuse data, public keys and TOC2 (constants for the ROM and the programmer), linker
scripts and makefiles (placement, signing, merging), host tools, FreeRTOS (one task and
no object of the application's own), the LED, all printing, the lifecycle report and
`ReadUniqueID`, `Cy_DFU_GetAppMetadata` (does nothing here).  The flash boot ROM, MCUboot,
the DFU and crypto libraries, the IPC and protection drivers, the SROM, the hardware and
the host tool are external; they are modelled from how the code uses them.

Within the modelled parts: images larger than the slot, whose sizes `Cy_DFU_ValidateApp`
would add to addresses beyond it (excluded by `ImagesAssumption`, as the signing tool does
not make them), and with them the reads outside of the slot (`dfu_user.c:310`); a trailer
whose stored hash is all zeros, for a trailer holds the hash the signing tool computed; a
timeout of zero, which the code never passes (`TimeoutAssumption`); the emulated EEPROM
beyond its address range; the fields of a trailer one by one, which are a cell here.

## Plan

1. Done: the exchange with its abstract service, the protection units on the memory map
   with the DFU callbacks behind them, boot and upgrade, the update task, the boot
   service that both implement, the validation of an upload, the UART transport, the RMA
   call; proofs about each of them.
2. Next theorems: strengthenings that no run states yet, such as what the boot service
   promises of the image that the CM4 runs while an upload is stored, and that a
   validation which fails leaves both slots as they were.
3. Next models: a composition of `UartTransport` with `DfuTask` over packets of several
   bytes, if its state space allows; today the two meet in `WholePackets` and
   `SilentReadLasts`.
