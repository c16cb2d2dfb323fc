--------------------------- MODULE MemoryLayout_proofs ---------------------------
(***************************************************************************)
(* Proofs about MemoryLayout and DfuFlash: each SMPU structure covers one  *)
(* section of the memory map to the KB, so that no two of them compete for  *)
(* an address and what a context may do in a section can be read off the   *)
(* configuration of one structure.                                         *)
(***************************************************************************)
EXTENDS DfuFlash, TLAPS

-----------------------------------------------------------------------------------
(* The configurations and the map, in numbers.                             *)

\* What the matching of a region and its verdict depend on.
Configured(region, mem, base, size, disabled, permission, secure, pcMask) ==
  /\ region.mem = mem /\ region.base = base /\ region.size = size
  /\ region.disabled = disabled
  /\ region.permission = permission /\ region.secure = secure /\ region.pcMask = pcMask

\* The structures of a family.
LEMMA Structures ==
  /\ DOMAIN SmpuConfig(512) = {5, 7, 9, 10, 11, 12, 13}
  /\ DOMAIN SmpuConfig(1024) = {5, 7, 9, 10, 11, 12, 13}
  /\ DOMAIN SmpuConfig(2048) = {5, 6, 7, 8, 9, 10, 11, 12, 13}
  /\ \A d \in Devices : DOMAIN SmpuConfig(d) \subseteq Int
<1>1. \A d : DOMAIN SmpuConfig(d) = DOMAIN FlashConfig(d) \cup DOMAIN SramConfig(d)
  BY DEF SmpuConfig
<1>2. \A d : DOMAIN SramConfig(d) = {5, 10, 12} BY DEF SramConfig
<1>3. DOMAIN FlashConfig(512) = {7, 9, 11, 13} BY DEF FlashConfig
<1>4. DOMAIN FlashConfig(1024) = {7, 9, 11, 13} BY DEF FlashConfig
<1>5. DOMAIN FlashConfig(2048) = {6, 7, 8, 9, 11, 13} BY DEF FlashConfig
<1>6. DOMAIN SmpuConfig(512) = {5, 7, 9, 10, 11, 12, 13} BY <1>1, <1>2, <1>3
<1>7. DOMAIN SmpuConfig(1024) = {5, 7, 9, 10, 11, 12, 13} BY <1>1, <1>2, <1>4
<1>8. DOMAIN SmpuConfig(2048) = {5, 6, 7, 8, 9, 10, 11, 12, 13} BY <1>1, <1>2, <1>5
<1>9. \A d \in Devices : DOMAIN SmpuConfig(d) \subseteq Int
  <2>1. /\ DOMAIN SmpuConfig(512) \subseteq Int /\ DOMAIN SmpuConfig(1024) \subseteq Int
        /\ DOMAIN SmpuConfig(2048) \subseteq Int
    BY <1>6, <1>7, <1>8
  <2> QED BY <2>1 DEF Devices
<1> QED BY <1>6, <1>7, <1>8, <1>9

\* Where the configuration of each structure is found.
LEMMA ConfigOf ==
  ASSUME NEW d \in Devices, NEW smpu
  PROVE  /\ smpu \in {5, 10, 12} => SmpuConfig(d)[smpu] = SramConfig(d)[smpu]
         /\ smpu \in {7, 9, 11, 13} \/ (smpu \in {6, 8} /\ d = 2048) =>
              SmpuConfig(d)[smpu] = FlashConfig(d)[smpu]
<1>1. DOMAIN FlashConfig(d) = {7, 9, 11, 13} \cup (IF d = 2048 THEN {6, 8} ELSE {})
  BY DEF FlashConfig
<1>2. DOMAIN SramConfig(d) = {5, 10, 12} BY DEF SramConfig
<1>3. smpu \in DOMAIN SramConfig(d) => SmpuConfig(d)[smpu] = SramConfig(d)[smpu]
  BY DEF SmpuConfig
<1>4. smpu \in DOMAIN FlashConfig(d) \ DOMAIN SramConfig(d) =>
        SmpuConfig(d)[smpu] = FlashConfig(d)[smpu]
  BY DEF SmpuConfig
<1> QED BY <1>1, <1>2, <1>3, <1>4

\* Where the parts of the flash and of the SRAM start.
LEMMA Starts ==
  /\ PROTECTED_MEM_START = 112 /\ CM0P_APP_FLASH_START = 128
  /\ SECONDARY_START(2048) = 1024 /\ SCRATCH_START(2048) = 1920
  /\ \A d \in Devices : SHARED_SRAM_START(d) = IF d = 2048 THEN 192 ELSE 64
<1>1. PROTECTED_MEM_START = 112 /\ CM0P_APP_FLASH_START = 128
  BY DEF PROTECTED_MEM_START, CM0P_APP_FLASH_START, CM0P_BTLDR_FLASH_SIZE, PROTECTED_MEM_SIZE
<1>2. MCUBOOT_SLOT_SIZE(2048) = 896
  BY DEF MCUBOOT_SLOT_SIZE, CM0P_APP_FLASH_SIZE, CM4_APP_FLASH_SIZE
<1>3. SECONDARY_START(2048) = 1024 BY <1>1, <1>2 DEF SECONDARY_START
<1>4. SCRATCH_START(2048) = 1920 BY <1>2, <1>3 DEF SCRATCH_START
<1>5. \A d \in Devices : SHARED_SRAM_START(d) = IF d = 2048 THEN 192 ELSE 64
  BY DEF SHARED_SRAM_START, CM0P_APP_SRAM_SIZE
<1> QED BY <1>1, <1>3, <1>4, <1>5

\* Where a section of the map lies.
Lies(section, mem, first, last) ==
  section.mem = mem /\ Addresses(section) = first..last

\* What structure 9 and structure 5 open to the CM4: the rest of the flash behind the CM0+
\* application (as far as structure 8 on the largest family), the rest of the SRAM with the
\* 2 KB at its end that no section of the map covers.
Cm4Flash(d) == Section("flash", CM4_APP_FLASH_START(d),
                       (IF d = 2048 THEN 1024 ELSE d) - CM4_APP_FLASH_START(d))
Cm4OpenSram(d) == Section("sram", CM4_APP_SRAM_START(d), SramSize(d) - CM4_APP_SRAM_START(d))

\* The map of the family with 512 KB of flash.
LEMMA SmallMap ==
  /\ Lies(Bootloader(512), "flash", 0, 111)
  /\ Lies(ProtectedStorage(512), "flash", 112, 127)
  /\ Lies(Cm0App(512), "flash", 128, 191)
  /\ Lies(Cm4App(512), "flash", 192, 319)
  /\ Lies(PrimarySlot(512), "flash", 128, 319)
  /\ Lies(SecondarySlot(512), "flash", 320, 511)
  /\ Lies(Scratch(512), "flash", 512, 511)
  /\ Lies(Cm4Flash(512), "flash", 192, 511)
  /\ Lies(Cm0Sram(512), "sram", 0, 63)
  /\ Lies(SharedSram(512), "sram", 64, 95)
  /\ Lies(Cm4Sram(512), "sram", 96, 253)
  /\ Lies(Cm4OpenSram(512), "sram", 96, 255)
<1> USE DEF Lies, Addresses, Section
<1>1. PROTECTED_MEM_START = 112 /\ CM0P_APP_FLASH_START = 128 BY Starts
<1>2. CM4_APP_FLASH_START(512) = 192
  BY <1>1 DEF CM4_APP_FLASH_START, CM0P_APP_FLASH_SIZE
<1>3. Lies(Bootloader(512), "flash", 0, 111)
  BY DEF Bootloader, CM0P_BTLDR_FLASH_SIZE
<1>4. Lies(ProtectedStorage(512), "flash", 112, 127)
  BY <1>1 DEF ProtectedStorage, PROTECTED_MEM_SIZE
<1>5. Lies(Cm0App(512), "flash", 128, 191)
  BY <1>1 DEF Cm0App, CM0P_APP_FLASH_SIZE
<1>6. Lies(Cm4App(512), "flash", 192, 319)
  BY <1>2 DEF Cm4App, CM4_APP_FLASH_SIZE
<1>7. Lies(PrimarySlot(512), "flash", 128, 319)
  BY <1>1 DEF PrimarySlot, MCUBOOT_SLOT_SIZE, CM0P_APP_FLASH_SIZE, CM4_APP_FLASH_SIZE
<1>8. Lies(SecondarySlot(512), "flash", 320, 511)
  BY <1>1 DEF SecondarySlot, SECONDARY_START, MCUBOOT_SLOT_SIZE, CM0P_APP_FLASH_SIZE,
     CM4_APP_FLASH_SIZE
<1>9. Lies(Scratch(512), "flash", 512, 511)
  BY <1>1 DEF Scratch, SCRATCH_START, SECONDARY_START, MCUBOOT_SCRATCH_SIZE,
     MCUBOOT_SLOT_SIZE, CM0P_APP_FLASH_SIZE, CM4_APP_FLASH_SIZE
<1>10. Lies(Cm4Flash(512), "flash", 192, 511)
  BY <1>2 DEF Cm4Flash
<1>11. Lies(Cm0Sram(512), "sram", 0, 63)
  BY DEF Cm0Sram, CM0P_APP_SRAM_SIZE
<1>12. Lies(SharedSram(512), "sram", 64, 95)
  BY DEF SharedSram, SHARED_SRAM_START, SHARED_SRAM_SIZE, CM0P_APP_SRAM_SIZE
<1>13. Lies(Cm4Sram(512), "sram", 96, 253)
  BY DEF Cm4Sram, CM4_APP_SRAM_START, CM4_APP_SRAM_SIZE, SHARED_SRAM_START, SHARED_SRAM_SIZE,
     CM0P_APP_SRAM_SIZE
<1>14. Lies(Cm4OpenSram(512), "sram", 96, 255)
  BY DEF Cm4OpenSram, CM4_APP_SRAM_START, SramSize, SHARED_SRAM_START, SHARED_SRAM_SIZE,
     CM0P_APP_SRAM_SIZE
<1> QED BY <1>3, <1>4, <1>5, <1>6, <1>7, <1>8, <1>9, <1>10, <1>11, <1>12, <1>13, <1>14

\* The map of the family with 1024 KB of flash.
LEMMA MediumMap ==
  /\ Lies(Bootloader(1024), "flash", 0, 111)
  /\ Lies(ProtectedStorage(1024), "flash", 112, 127)
  /\ Lies(Cm0App(1024), "flash", 128, 255)
  /\ Lies(Cm4App(1024), "flash", 256, 575)
  /\ Lies(PrimarySlot(1024), "flash", 128, 575)
  /\ Lies(SecondarySlot(1024), "flash", 576, 1023)
  /\ Lies(Scratch(1024), "flash", 1024, 1023)
  /\ Lies(Cm4Flash(1024), "flash", 256, 1023)
  /\ Lies(Cm0Sram(1024), "sram", 0, 63)
  /\ Lies(SharedSram(1024), "sram", 64, 95)
  /\ Lies(Cm4Sram(1024), "sram", 96, 253)
  /\ Lies(Cm4OpenSram(1024), "sram", 96, 255)
<1> USE DEF Lies, Addresses, Section
<1>1. PROTECTED_MEM_START = 112 /\ CM0P_APP_FLASH_START = 128 BY Starts
<1>2. CM4_APP_FLASH_START(1024) = 256
  BY <1>1 DEF CM4_APP_FLASH_START, CM0P_APP_FLASH_SIZE
<1>3. Lies(Bootloader(1024), "flash", 0, 111)
  BY DEF Bootloader, CM0P_BTLDR_FLASH_SIZE
<1>4. Lies(ProtectedStorage(1024), "flash", 112, 127)
  BY <1>1 DEF ProtectedStorage, PROTECTED_MEM_SIZE
<1>5. Lies(Cm0App(1024), "flash", 128, 255)
  BY <1>1 DEF Cm0App, CM0P_APP_FLASH_SIZE
<1>6. Lies(Cm4App(1024), "flash", 256, 575)
  BY <1>2 DEF Cm4App, CM4_APP_FLASH_SIZE
<1>7. Lies(PrimarySlot(1024), "flash", 128, 575)
  BY <1>1 DEF PrimarySlot, MCUBOOT_SLOT_SIZE, CM0P_APP_FLASH_SIZE, CM4_APP_FLASH_SIZE
<1>8. Lies(SecondarySlot(1024), "flash", 576, 1023)
  BY <1>1 DEF SecondarySlot, SECONDARY_START, MCUBOOT_SLOT_SIZE, CM0P_APP_FLASH_SIZE,
     CM4_APP_FLASH_SIZE
<1>9. Lies(Scratch(1024), "flash", 1024, 1023)
  BY <1>1 DEF Scratch, SCRATCH_START, SECONDARY_START, MCUBOOT_SCRATCH_SIZE,
     MCUBOOT_SLOT_SIZE, CM0P_APP_FLASH_SIZE, CM4_APP_FLASH_SIZE
<1>10. Lies(Cm4Flash(1024), "flash", 256, 1023)
  BY <1>2 DEF Cm4Flash
<1>11. Lies(Cm0Sram(1024), "sram", 0, 63)
  BY DEF Cm0Sram, CM0P_APP_SRAM_SIZE
<1>12. Lies(SharedSram(1024), "sram", 64, 95)
  BY DEF SharedSram, SHARED_SRAM_START, SHARED_SRAM_SIZE, CM0P_APP_SRAM_SIZE
<1>13. Lies(Cm4Sram(1024), "sram", 96, 253)
  BY DEF Cm4Sram, CM4_APP_SRAM_START, CM4_APP_SRAM_SIZE, SHARED_SRAM_START, SHARED_SRAM_SIZE,
     CM0P_APP_SRAM_SIZE
<1>14. Lies(Cm4OpenSram(1024), "sram", 96, 255)
  BY DEF Cm4OpenSram, CM4_APP_SRAM_START, SramSize, SHARED_SRAM_START, SHARED_SRAM_SIZE,
     CM0P_APP_SRAM_SIZE
<1> QED BY <1>3, <1>4, <1>5, <1>6, <1>7, <1>8, <1>9, <1>10, <1>11, <1>12, <1>13, <1>14

\* The map of the family with 2048 KB of flash.
LEMMA LargeMap ==
  /\ Lies(Bootloader(2048), "flash", 0, 111)
  /\ Lies(ProtectedStorage(2048), "flash", 112, 127)
  /\ Lies(Cm0App(2048), "flash", 128, 255)
  /\ Lies(Cm4App(2048), "flash", 256, 1023)
  /\ Lies(PrimarySlot(2048), "flash", 128, 1023)
  /\ Lies(SecondarySlot(2048), "flash", 1024, 1919)
  /\ Lies(Scratch(2048), "flash", 1920, 2047)
  /\ Lies(Cm4Flash(2048), "flash", 256, 1023)
  /\ Lies(Cm0Sram(2048), "sram", 0, 191)
  /\ Lies(SharedSram(2048), "sram", 192, 255)
  /\ Lies(Cm4Sram(2048), "sram", 256, 1021)
  /\ Lies(Cm4OpenSram(2048), "sram", 256, 1023)
<1> USE DEF Lies, Addresses, Section
<1>1. PROTECTED_MEM_START = 112 /\ CM0P_APP_FLASH_START = 128 BY Starts
<1>2. CM4_APP_FLASH_START(2048) = 256
  BY <1>1 DEF CM4_APP_FLASH_START, CM0P_APP_FLASH_SIZE
<1>3. Lies(Bootloader(2048), "flash", 0, 111)
  BY DEF Bootloader, CM0P_BTLDR_FLASH_SIZE
<1>4. Lies(ProtectedStorage(2048), "flash", 112, 127)
  BY <1>1 DEF ProtectedStorage, PROTECTED_MEM_SIZE
<1>5. Lies(Cm0App(2048), "flash", 128, 255)
  BY <1>1 DEF Cm0App, CM0P_APP_FLASH_SIZE
<1>6. Lies(Cm4App(2048), "flash", 256, 1023)
  BY <1>2 DEF Cm4App, CM4_APP_FLASH_SIZE
<1>7. Lies(PrimarySlot(2048), "flash", 128, 1023)
  BY <1>1 DEF PrimarySlot, MCUBOOT_SLOT_SIZE, CM0P_APP_FLASH_SIZE, CM4_APP_FLASH_SIZE
<1>8. Lies(SecondarySlot(2048), "flash", 1024, 1919)
  BY <1>1 DEF SecondarySlot, SECONDARY_START, MCUBOOT_SLOT_SIZE, CM0P_APP_FLASH_SIZE,
     CM4_APP_FLASH_SIZE
<1>9. Lies(Scratch(2048), "flash", 1920, 2047)
  BY <1>1 DEF Scratch, SCRATCH_START, SECONDARY_START, MCUBOOT_SCRATCH_SIZE,
     MCUBOOT_SLOT_SIZE, CM0P_APP_FLASH_SIZE, CM4_APP_FLASH_SIZE
<1>10. Lies(Cm4Flash(2048), "flash", 256, 1023)
  BY <1>2 DEF Cm4Flash
<1>11. Lies(Cm0Sram(2048), "sram", 0, 191)
  BY DEF Cm0Sram, CM0P_APP_SRAM_SIZE
<1>12. Lies(SharedSram(2048), "sram", 192, 255)
  BY DEF SharedSram, SHARED_SRAM_START, SHARED_SRAM_SIZE, CM0P_APP_SRAM_SIZE
<1>13. Lies(Cm4Sram(2048), "sram", 256, 1021)
  BY DEF Cm4Sram, CM4_APP_SRAM_START, CM4_APP_SRAM_SIZE, SHARED_SRAM_START, SHARED_SRAM_SIZE,
     CM0P_APP_SRAM_SIZE
<1>14. Lies(Cm4OpenSram(2048), "sram", 256, 1023)
  BY DEF Cm4OpenSram, CM4_APP_SRAM_START, SramSize, SHARED_SRAM_START, SHARED_SRAM_SIZE,
     CM0P_APP_SRAM_SIZE
<1> QED BY <1>3, <1>4, <1>5, <1>6, <1>7, <1>8, <1>9, <1>10, <1>11, <1>12, <1>13, <1>14

-----------------------------------------------------------------------------------
(* What each structure covers, and what it admits there.                   *)

\* The sets of contexts that the configurations name.
PCMASK1 == {1}
PCMASK2 == {2}
PCMASK4 == {4}
PCMASK1_2 == {1, 2}
PCMASK1_4 == {1, 4}
PCMASK1_2_4 == {1, 2, 4}

\* The structure covers this section of the map, no KB less or more, and opens it to
\* these contexts for these kinds of access.
Guards(d, smpu, section, permission, masters, pcMask) ==
  /\ smpu \in DOMAIN SmpuConfig(d) /\ Addresses(section) \subseteq Int
  /\ \A mem : \A addr \in Int :
       Matches(SmpuConfig(d)[smpu], mem, addr)
         <=> mem = section.mem /\ addr \in Addresses(section)
  /\ SmpuConfig(d)[smpu].permission = permission
  /\ SmpuConfig(d)[smpu].secure <=> masters = "secure"
  /\ SmpuConfig(d)[smpu].pcMask = pcMask

\* Each structure covers the section it is there for, and what it admits there is what
\* the section's owner needs: the slave configurations against the map of common.mk.
Coverage(d) ==
  /\ Guards(d, 13, Bootloader(d), RX, "secure", PCMASK1_2)
  /\ Guards(d, 12, Cm0Sram(d), RWX, "secure", PCMASK1_2)
  /\ Guards(d, 11, Cm0App(d), RWX, "secure", PCMASK1_2)
  /\ Guards(d, 10, SharedSram(d), RW, "all", PCMASK1_2_4)
  /\ Guards(d, 9, Cm4Flash(d), RWX, "all", PCMASK1_4)
  /\ d = 2048 => Guards(d, 8, SecondarySlot(d), RWX, "all", PCMASK1_4)
  /\ Guards(d, 7, ProtectedStorage(d), RWX, "secure", PCMASK2)
  /\ d = 2048 => Guards(d, 6, Scratch(d), RW, "secure", PCMASK1)
  /\ Guards(d, 5, Cm4OpenSram(d), RWX, "all", PCMASK4)

\* The structures of the family with 512 KB of flash.
LEMMA SmallCoverage == Coverage(512)
<1>1. 512 \in Devices BY DEF Devices
<1>2. SHARED_SRAM_START(512) = 64 /\ SramSize(512) = 256
  BY <1>1, Starts DEF SramSize
<1>3. Guards(512, 13, Bootloader(512), RX, "secure", PCMASK1_2)
  <2>1. SmpuConfig(512)[13] = FlashConfig(512)[13] BY <1>1, ConfigOf
  <2>2. Configured(SmpuConfig(512)[13], "flash", 0, 128, {7}, RX, TRUE, PCMASK1_2)
    BY <2>1, Starts DEF Configured, FlashConfig, Region, PCMASK1_2
  <2>3. Lies(Bootloader(512), "flash", 0, 111) BY SmallMap
  <2>4. \A mem : \A addr \in Int :
          Matches(SmpuConfig(512)[13], mem, addr) <=> mem = "flash" /\ addr \in 0..111
    BY <2>2, SMTT(30) DEF Configured, Matches
  <2>5. 13 \in DOMAIN SmpuConfig(512) BY Structures
  <2> QED BY <2>2, <2>3, <2>4, <2>5 DEF Guards, Lies, Configured
<1>4. Guards(512, 12, Cm0Sram(512), RWX, "secure", PCMASK1_2)
  <2>1. SmpuConfig(512)[12] = SramConfig(512)[12] BY <1>1, ConfigOf
  <2>2. Configured(SmpuConfig(512)[12], "sram", 0, 64, {}, RWX, TRUE, PCMASK1_2)
    BY <2>1, <1>2 DEF Configured, SramConfig, Region, PCMASK1_2
  <2>3. Lies(Cm0Sram(512), "sram", 0, 63) BY SmallMap
  <2>4. \A mem : \A addr \in Int :
          Matches(SmpuConfig(512)[12], mem, addr) <=> mem = "sram" /\ addr \in 0..63
    BY <2>2, SMTT(30) DEF Configured, Matches
  <2>5. 12 \in DOMAIN SmpuConfig(512) BY Structures
  <2> QED BY <2>2, <2>3, <2>4, <2>5 DEF Guards, Lies, Configured
<1>5. Guards(512, 11, Cm0App(512), RWX, "secure", PCMASK1_2)
  <2>1. SmpuConfig(512)[11] = FlashConfig(512)[11] BY <1>1, ConfigOf
  <2>2. Configured(SmpuConfig(512)[11], "flash", 128, 64, {}, RWX, TRUE, PCMASK1_2)
    BY <2>1, Starts DEF Configured, FlashConfig, Region, PCMASK1_2
  <2>3. Lies(Cm0App(512), "flash", 128, 191) BY SmallMap
  <2>4. \A mem : \A addr \in Int :
          Matches(SmpuConfig(512)[11], mem, addr) <=> mem = "flash" /\ addr \in 128..191
    BY <2>2, SMTT(30) DEF Configured, Matches
  <2>5. 11 \in DOMAIN SmpuConfig(512) BY Structures
  <2> QED BY <2>2, <2>3, <2>4, <2>5 DEF Guards, Lies, Configured
<1>6. Guards(512, 10, SharedSram(512), RW, "all", PCMASK1_2_4)
  <2>1. SmpuConfig(512)[10] = SramConfig(512)[10] BY <1>1, ConfigOf
  <2>2. Configured(SmpuConfig(512)[10], "sram", 64, 32, {}, RW, FALSE, PCMASK1_2_4)
    BY <2>1, <1>2 DEF Configured, SramConfig, Region, PCMASK1_2_4
  <2>3. Lies(SharedSram(512), "sram", 64, 95) BY SmallMap
  <2>4. \A mem : \A addr \in Int :
          Matches(SmpuConfig(512)[10], mem, addr) <=> mem = "sram" /\ addr \in 64..95
    BY <2>2, SMTT(30) DEF Configured, Matches
  <2>5. 10 \in DOMAIN SmpuConfig(512) BY Structures
  <2> QED BY <2>2, <2>3, <2>4, <2>5 DEF Guards, Lies, Configured
<1>7. Guards(512, 9, Cm4Flash(512), RWX, "all", PCMASK1_4)
  <2>1. SmpuConfig(512)[9] = FlashConfig(512)[9] BY <1>1, ConfigOf
  <2>2. Configured(SmpuConfig(512)[9], "flash", 0, 512, {0, 1, 2}, RWX, FALSE, PCMASK1_4)
    BY <2>1, Starts DEF Configured, FlashConfig, Region, PCMASK1_4
  <2>3. Lies(Cm4Flash(512), "flash", 192, 511) BY SmallMap
  <2>4. \A mem : \A addr \in Int :
          Matches(SmpuConfig(512)[9], mem, addr) <=> mem = "flash" /\ addr \in 192..511
    <3> SUFFICES ASSUME NEW mem, NEW addr \in Int
                 PROVE  Matches(SmpuConfig(512)[9], mem, addr)
                          <=> mem = "flash" /\ addr \in 192..511
      OBVIOUS
    <3>1. 0 <= addr /\ addr < 512 /\ (addr \div 64) \notin {0, 1, 2}
            <=> addr \in 192..511
      OBVIOUS
    <3>2. 512 \div 8 = 64 /\ 0 + 512 = 512 /\ addr - 0 = addr OBVIOUS
    <3>3. Matches(SmpuConfig(512)[9], mem, addr)
            <=> /\ mem = "flash" /\ 0 <= addr /\ addr < 0 + 512
                /\ ((addr - 0) \div (512 \div 8)) \notin {0, 1, 2}
      BY <2>2 DEF Configured, Matches
    <3> QED BY <3>1, <3>2, <3>3
  <2>5. 9 \in DOMAIN SmpuConfig(512) BY Structures
  <2> QED BY <2>2, <2>3, <2>4, <2>5 DEF Guards, Lies, Configured
<1>8. Guards(512, 7, ProtectedStorage(512), RWX, "secure", PCMASK2)
  <2>1. SmpuConfig(512)[7] = FlashConfig(512)[7] BY <1>1, ConfigOf
  <2>2. Configured(SmpuConfig(512)[7], "flash", 112, 16, {}, RWX, TRUE, PCMASK2)
    BY <2>1, Starts DEF Configured, FlashConfig, Region, PCMASK2
  <2>3. Lies(ProtectedStorage(512), "flash", 112, 127) BY SmallMap
  <2>4. \A mem : \A addr \in Int :
          Matches(SmpuConfig(512)[7], mem, addr) <=> mem = "flash" /\ addr \in 112..127
    BY <2>2, SMTT(30) DEF Configured, Matches
  <2>5. 7 \in DOMAIN SmpuConfig(512) BY Structures
  <2> QED BY <2>2, <2>3, <2>4, <2>5 DEF Guards, Lies, Configured
<1>9. Guards(512, 5, Cm4OpenSram(512), RWX, "all", PCMASK4)
  <2>1. SmpuConfig(512)[5] = SramConfig(512)[5] BY <1>1, ConfigOf
  <2>2. Configured(SmpuConfig(512)[5], "sram", 0, 256, {0, 1, 2}, RWX, FALSE, PCMASK4)
    BY <2>1, <1>2 DEF Configured, SramConfig, Region, PCMASK4
  <2>3. Lies(Cm4OpenSram(512), "sram", 96, 255) BY SmallMap
  <2>4. \A mem : \A addr \in Int :
          Matches(SmpuConfig(512)[5], mem, addr) <=> mem = "sram" /\ addr \in 96..255
    BY <2>2, SMTT(30) DEF Configured, Matches
  <2>5. 5 \in DOMAIN SmpuConfig(512) BY Structures
  <2> QED BY <2>2, <2>3, <2>4, <2>5 DEF Guards, Lies, Configured
<1> QED BY <1>3, <1>4, <1>5, <1>6, <1>7, <1>8, <1>9 DEF Coverage

\* The structures of the family with 1024 KB of flash.
LEMMA MediumCoverage == Coverage(1024)
<1>1. 1024 \in Devices BY DEF Devices
<1>2. SHARED_SRAM_START(1024) = 64 /\ SramSize(1024) = 256
  BY <1>1, Starts DEF SramSize
<1>3. Guards(1024, 13, Bootloader(1024), RX, "secure", PCMASK1_2)
  <2>1. SmpuConfig(1024)[13] = FlashConfig(1024)[13] BY <1>1, ConfigOf
  <2>2. Configured(SmpuConfig(1024)[13], "flash", 0, 128, {7}, RX, TRUE, PCMASK1_2)
    BY <2>1, Starts DEF Configured, FlashConfig, Region, PCMASK1_2
  <2>3. Lies(Bootloader(1024), "flash", 0, 111) BY MediumMap
  <2>4. \A mem : \A addr \in Int :
          Matches(SmpuConfig(1024)[13], mem, addr) <=> mem = "flash" /\ addr \in 0..111
    BY <2>2, SMTT(30) DEF Configured, Matches
  <2>5. 13 \in DOMAIN SmpuConfig(1024) BY Structures
  <2> QED BY <2>2, <2>3, <2>4, <2>5 DEF Guards, Lies, Configured
<1>4. Guards(1024, 12, Cm0Sram(1024), RWX, "secure", PCMASK1_2)
  <2>1. SmpuConfig(1024)[12] = SramConfig(1024)[12] BY <1>1, ConfigOf
  <2>2. Configured(SmpuConfig(1024)[12], "sram", 0, 64, {}, RWX, TRUE, PCMASK1_2)
    BY <2>1, <1>2 DEF Configured, SramConfig, Region, PCMASK1_2
  <2>3. Lies(Cm0Sram(1024), "sram", 0, 63) BY MediumMap
  <2>4. \A mem : \A addr \in Int :
          Matches(SmpuConfig(1024)[12], mem, addr) <=> mem = "sram" /\ addr \in 0..63
    BY <2>2, SMTT(30) DEF Configured, Matches
  <2>5. 12 \in DOMAIN SmpuConfig(1024) BY Structures
  <2> QED BY <2>2, <2>3, <2>4, <2>5 DEF Guards, Lies, Configured
<1>5. Guards(1024, 11, Cm0App(1024), RWX, "secure", PCMASK1_2)
  <2>1. SmpuConfig(1024)[11] = FlashConfig(1024)[11] BY <1>1, ConfigOf
  <2>2. Configured(SmpuConfig(1024)[11], "flash", 128, 128, {}, RWX, TRUE, PCMASK1_2)
    BY <2>1, Starts DEF Configured, FlashConfig, Region, PCMASK1_2
  <2>3. Lies(Cm0App(1024), "flash", 128, 255) BY MediumMap
  <2>4. \A mem : \A addr \in Int :
          Matches(SmpuConfig(1024)[11], mem, addr) <=> mem = "flash" /\ addr \in 128..255
    BY <2>2, SMTT(30) DEF Configured, Matches
  <2>5. 11 \in DOMAIN SmpuConfig(1024) BY Structures
  <2> QED BY <2>2, <2>3, <2>4, <2>5 DEF Guards, Lies, Configured
<1>6. Guards(1024, 10, SharedSram(1024), RW, "all", PCMASK1_2_4)
  <2>1. SmpuConfig(1024)[10] = SramConfig(1024)[10] BY <1>1, ConfigOf
  <2>2. Configured(SmpuConfig(1024)[10], "sram", 64, 32, {}, RW, FALSE, PCMASK1_2_4)
    BY <2>1, <1>2 DEF Configured, SramConfig, Region, PCMASK1_2_4
  <2>3. Lies(SharedSram(1024), "sram", 64, 95) BY MediumMap
  <2>4. \A mem : \A addr \in Int :
          Matches(SmpuConfig(1024)[10], mem, addr) <=> mem = "sram" /\ addr \in 64..95
    BY <2>2, SMTT(30) DEF Configured, Matches
  <2>5. 10 \in DOMAIN SmpuConfig(1024) BY Structures
  <2> QED BY <2>2, <2>3, <2>4, <2>5 DEF Guards, Lies, Configured
<1>7. Guards(1024, 9, Cm4Flash(1024), RWX, "all", PCMASK1_4)
  <2>1. SmpuConfig(1024)[9] = FlashConfig(1024)[9] BY <1>1, ConfigOf
  <2>2. Configured(SmpuConfig(1024)[9], "flash", 0, 1024, {0, 1}, RWX, FALSE, PCMASK1_4)
    BY <2>1, Starts DEF Configured, FlashConfig, Region, PCMASK1_4
  <2>3. Lies(Cm4Flash(1024), "flash", 256, 1023) BY MediumMap
  <2>4. \A mem : \A addr \in Int :
          Matches(SmpuConfig(1024)[9], mem, addr) <=> mem = "flash" /\ addr \in 256..1023
    BY <2>2, SMTT(30) DEF Configured, Matches
  <2>5. 9 \in DOMAIN SmpuConfig(1024) BY Structures
  <2>6. Addresses(Cm4Flash(1024)) \subseteq Int BY <2>3 DEF Lies
  <2>7. ASSUME NEW mem, NEW addr \in Int
        PROVE  Matches(SmpuConfig(1024)[9], mem, addr)
                 <=> mem = Cm4Flash(1024).mem /\ addr \in Addresses(Cm4Flash(1024))
    <3> DEFINE kbs == 256..1023
    <3>1. Addresses(Cm4Flash(1024)) = kbs /\ Cm4Flash(1024).mem = "flash" BY <2>3 DEF Lies
    <3>2. Matches(SmpuConfig(1024)[9], mem, addr) <=> mem = "flash" /\ addr \in kbs BY <2>4
    <3> HIDE DEF kbs
    <3> QED BY <3>1, <3>2
  <2>8. /\ SmpuConfig(1024)[9].permission = RWX
        /\ SmpuConfig(1024)[9].secure <=> "all" = "secure"
        /\ SmpuConfig(1024)[9].pcMask = PCMASK1_4
    BY <2>2 DEF Configured
  <2> QED BY <2>5, <2>6, <2>7, <2>8 DEF Guards
<1>8. Guards(1024, 7, ProtectedStorage(1024), RWX, "secure", PCMASK2)
  <2>1. SmpuConfig(1024)[7] = FlashConfig(1024)[7] BY <1>1, ConfigOf
  <2>2. Configured(SmpuConfig(1024)[7], "flash", 112, 16, {}, RWX, TRUE, PCMASK2)
    BY <2>1, Starts DEF Configured, FlashConfig, Region, PCMASK2
  <2>3. Lies(ProtectedStorage(1024), "flash", 112, 127) BY MediumMap
  <2>4. \A mem : \A addr \in Int :
          Matches(SmpuConfig(1024)[7], mem, addr) <=> mem = "flash" /\ addr \in 112..127
    BY <2>2, SMTT(30) DEF Configured, Matches
  <2>5. 7 \in DOMAIN SmpuConfig(1024) BY Structures
  <2> QED BY <2>2, <2>3, <2>4, <2>5 DEF Guards, Lies, Configured
<1>9. Guards(1024, 5, Cm4OpenSram(1024), RWX, "all", PCMASK4)
  <2>1. SmpuConfig(1024)[5] = SramConfig(1024)[5] BY <1>1, ConfigOf
  <2>2. Configured(SmpuConfig(1024)[5], "sram", 0, 256, {0, 1, 2}, RWX, FALSE, PCMASK4)
    BY <2>1, <1>2 DEF Configured, SramConfig, Region, PCMASK4
  <2>3. Lies(Cm4OpenSram(1024), "sram", 96, 255) BY MediumMap
  <2>4. \A mem : \A addr \in Int :
          Matches(SmpuConfig(1024)[5], mem, addr) <=> mem = "sram" /\ addr \in 96..255
    BY <2>2, SMTT(30) DEF Configured, Matches
  <2>5. 5 \in DOMAIN SmpuConfig(1024) BY Structures
  <2> QED BY <2>2, <2>3, <2>4, <2>5 DEF Guards, Lies, Configured
<1> QED BY <1>3, <1>4, <1>5, <1>6, <1>7, <1>8, <1>9 DEF Coverage

\* The structures of the family with 2048 KB of flash.
LEMMA LargeCoverage == Coverage(2048)
<1>1. 2048 \in Devices BY DEF Devices
<1>2. SHARED_SRAM_START(2048) = 192 /\ SramSize(2048) = 1024
  BY <1>1, Starts DEF SramSize
<1>3. Guards(2048, 13, Bootloader(2048), RX, "secure", PCMASK1_2)
  <2>1. SmpuConfig(2048)[13] = FlashConfig(2048)[13] BY <1>1, ConfigOf
  <2>2. Configured(SmpuConfig(2048)[13], "flash", 0, 128, {7}, RX, TRUE, PCMASK1_2)
    BY <2>1, Starts DEF Configured, FlashConfig, Region, PCMASK1_2
  <2>3. Lies(Bootloader(2048), "flash", 0, 111) BY LargeMap
  <2>4. \A mem : \A addr \in Int :
          Matches(SmpuConfig(2048)[13], mem, addr) <=> mem = "flash" /\ addr \in 0..111
    BY <2>2, SMTT(30) DEF Configured, Matches
  <2>5. 13 \in DOMAIN SmpuConfig(2048) BY Structures
  <2> QED BY <2>2, <2>3, <2>4, <2>5 DEF Guards, Lies, Configured
<1>4. Guards(2048, 12, Cm0Sram(2048), RWX, "secure", PCMASK1_2)
  <2>1. SmpuConfig(2048)[12] = SramConfig(2048)[12] BY <1>1, ConfigOf
  <2>2. Configured(SmpuConfig(2048)[12], "sram", 0, 256, {6, 7}, RWX, TRUE, PCMASK1_2)
    BY <2>1, <1>2 DEF Configured, SramConfig, Region, PCMASK1_2
  <2>3. Lies(Cm0Sram(2048), "sram", 0, 191) BY LargeMap
  <2>4. \A mem : \A addr \in Int :
          Matches(SmpuConfig(2048)[12], mem, addr) <=> mem = "sram" /\ addr \in 0..191
    BY <2>2, SMTT(30) DEF Configured, Matches
  <2>5. 12 \in DOMAIN SmpuConfig(2048) BY Structures
  <2> QED BY <2>2, <2>3, <2>4, <2>5 DEF Guards, Lies, Configured
<1>5. Guards(2048, 11, Cm0App(2048), RWX, "secure", PCMASK1_2)
  <2>1. SmpuConfig(2048)[11] = FlashConfig(2048)[11] BY <1>1, ConfigOf
  <2>2. Configured(SmpuConfig(2048)[11], "flash", 128, 128, {}, RWX, TRUE, PCMASK1_2)
    BY <2>1, Starts DEF Configured, FlashConfig, Region, PCMASK1_2
  <2>3. Lies(Cm0App(2048), "flash", 128, 255) BY LargeMap
  <2>4. \A mem : \A addr \in Int :
          Matches(SmpuConfig(2048)[11], mem, addr) <=> mem = "flash" /\ addr \in 128..255
    BY <2>2, SMTT(30) DEF Configured, Matches
  <2>5. 11 \in DOMAIN SmpuConfig(2048) BY Structures
  <2> QED BY <2>2, <2>3, <2>4, <2>5 DEF Guards, Lies, Configured
<1>6. Guards(2048, 10, SharedSram(2048), RW, "all", PCMASK1_2_4)
  <2>1. SmpuConfig(2048)[10] = SramConfig(2048)[10] BY <1>1, ConfigOf
  <2>2. Configured(SmpuConfig(2048)[10], "sram", 192, 64, {}, RW, FALSE, PCMASK1_2_4)
    BY <2>1, <1>2 DEF Configured, SramConfig, Region, PCMASK1_2_4
  <2>3. Lies(SharedSram(2048), "sram", 192, 255) BY LargeMap
  <2>4. \A mem : \A addr \in Int :
          Matches(SmpuConfig(2048)[10], mem, addr) <=> mem = "sram" /\ addr \in 192..255
    BY <2>2, SMTT(30) DEF Configured, Matches
  <2>5. 10 \in DOMAIN SmpuConfig(2048) BY Structures
  <2> QED BY <2>2, <2>3, <2>4, <2>5 DEF Guards, Lies, Configured
<1>7. Guards(2048, 9, Cm4Flash(2048), RWX, "all", PCMASK1_4)
  <2>1. SmpuConfig(2048)[9] = FlashConfig(2048)[9] BY <1>1, ConfigOf
  <2>2. Configured(SmpuConfig(2048)[9], "flash", 0, 2048, {0, 4, 5, 6, 7}, RWX, FALSE, PCMASK1_4)
    BY <2>1, Starts DEF Configured, FlashConfig, Region, PCMASK1_4
  <2>3. Lies(Cm4Flash(2048), "flash", 256, 1023) BY LargeMap
  <2>4. \A mem : \A addr \in Int :
          Matches(SmpuConfig(2048)[9], mem, addr) <=> mem = "flash" /\ addr \in 256..1023
    <3> SUFFICES ASSUME NEW mem, NEW addr \in Int
                 PROVE  Matches(SmpuConfig(2048)[9], mem, addr)
                          <=> mem = "flash" /\ addr \in 256..1023
      OBVIOUS
    <3>1. 0 <= addr /\ addr < 2048 /\ (addr \div 256) \notin {0, 4, 5, 6, 7}
            <=> addr \in 256..1023
      OBVIOUS
    <3>2. 2048 \div 8 = 256 /\ 0 + 2048 = 2048 /\ addr - 0 = addr OBVIOUS
    <3>3. Matches(SmpuConfig(2048)[9], mem, addr)
            <=> /\ mem = "flash" /\ 0 <= addr /\ addr < 0 + 2048
                /\ ((addr - 0) \div (2048 \div 8)) \notin {0, 4, 5, 6, 7}
      BY <2>2 DEF Configured, Matches
    <3> QED BY <3>1, <3>2, <3>3
  <2>5. 9 \in DOMAIN SmpuConfig(2048) BY Structures
  <2>6. Addresses(Cm4Flash(2048)) \subseteq Int BY <2>3 DEF Lies
  <2>7. ASSUME NEW mem, NEW addr \in Int
        PROVE  Matches(SmpuConfig(2048)[9], mem, addr)
                 <=> mem = Cm4Flash(2048).mem /\ addr \in Addresses(Cm4Flash(2048))
    <3> DEFINE kbs == 256..1023
    <3>1. Addresses(Cm4Flash(2048)) = kbs /\ Cm4Flash(2048).mem = "flash" BY <2>3 DEF Lies
    <3>2. Matches(SmpuConfig(2048)[9], mem, addr) <=> mem = "flash" /\ addr \in kbs BY <2>4
    <3> HIDE DEF kbs
    <3> QED BY <3>1, <3>2
  <2>8. /\ SmpuConfig(2048)[9].permission = RWX
        /\ SmpuConfig(2048)[9].secure <=> "all" = "secure"
        /\ SmpuConfig(2048)[9].pcMask = PCMASK1_4
    BY <2>2 DEF Configured
  <2> QED BY <2>5, <2>6, <2>7, <2>8 DEF Guards
<1>8. Guards(2048, 8, SecondarySlot(2048), RWX, "all", PCMASK1_4)
  <2>1. SmpuConfig(2048)[8] = FlashConfig(2048)[8] BY <1>1, ConfigOf
  <2>2. Configured(SmpuConfig(2048)[8], "flash", 1024, 1024, {7}, RWX, FALSE, PCMASK1_4)
    BY <2>1, Starts DEF Configured, FlashConfig, Region, PCMASK1_4
  <2>3. Lies(SecondarySlot(2048), "flash", 1024, 1919) BY LargeMap
  <2>4. \A mem : \A addr \in Int :
          Matches(SmpuConfig(2048)[8], mem, addr) <=> mem = "flash" /\ addr \in 1024..1919
    <3> SUFFICES ASSUME NEW mem, NEW addr \in Int
                 PROVE  Matches(SmpuConfig(2048)[8], mem, addr)
                          <=> mem = "flash" /\ addr \in 1024..1919
      OBVIOUS
    <3>1. 1024 <= addr /\ addr < 2048 /\ ((addr - 1024) \div 128) \notin {7}
            <=> addr \in 1024..1919
      OBVIOUS
    <3>2. 1024 \div 8 = 128 /\ 1024 + 1024 = 2048 OBVIOUS
    <3>3. Matches(SmpuConfig(2048)[8], mem, addr)
            <=> /\ mem = "flash" /\ 1024 <= addr /\ addr < 1024 + 1024
                /\ ((addr - 1024) \div (1024 \div 8)) \notin {7}
      BY <2>2 DEF Configured, Matches
    <3> QED BY <3>1, <3>2, <3>3
  <2>5. 8 \in DOMAIN SmpuConfig(2048) BY Structures
  <2>6. Addresses(SecondarySlot(2048)) \subseteq Int BY <2>3 DEF Lies
  <2>7. ASSUME NEW mem, NEW addr \in Int
        PROVE  Matches(SmpuConfig(2048)[8], mem, addr)
                 <=> mem = SecondarySlot(2048).mem /\ addr \in Addresses(SecondarySlot(2048))
    <3> DEFINE kbs == 1024..1919
    <3>1. Addresses(SecondarySlot(2048)) = kbs /\ SecondarySlot(2048).mem = "flash" BY <2>3 DEF Lies
    <3>2. Matches(SmpuConfig(2048)[8], mem, addr) <=> mem = "flash" /\ addr \in kbs BY <2>4
    <3> HIDE DEF kbs
    <3> QED BY <3>1, <3>2
  <2>8. /\ SmpuConfig(2048)[8].permission = RWX
        /\ SmpuConfig(2048)[8].secure <=> "all" = "secure"
        /\ SmpuConfig(2048)[8].pcMask = PCMASK1_4
    BY <2>2 DEF Configured
  <2> QED BY <2>5, <2>6, <2>7, <2>8 DEF Guards
<1>9. Guards(2048, 7, ProtectedStorage(2048), RWX, "secure", PCMASK2)
  <2>1. SmpuConfig(2048)[7] = FlashConfig(2048)[7] BY <1>1, ConfigOf
  <2>2. Configured(SmpuConfig(2048)[7], "flash", 112, 16, {}, RWX, TRUE, PCMASK2)
    BY <2>1, Starts DEF Configured, FlashConfig, Region, PCMASK2
  <2>3. Lies(ProtectedStorage(2048), "flash", 112, 127) BY LargeMap
  <2>4. \A mem : \A addr \in Int :
          Matches(SmpuConfig(2048)[7], mem, addr) <=> mem = "flash" /\ addr \in 112..127
    BY <2>2, SMTT(30) DEF Configured, Matches
  <2>5. 7 \in DOMAIN SmpuConfig(2048) BY Structures
  <2> QED BY <2>2, <2>3, <2>4, <2>5 DEF Guards, Lies, Configured
<1>10. Guards(2048, 6, Scratch(2048), RW, "secure", PCMASK1)
  <2>1. SmpuConfig(2048)[6] = FlashConfig(2048)[6] BY <1>1, ConfigOf
  <2>2. Configured(SmpuConfig(2048)[6], "flash", 1920, 128, {}, RW, TRUE, PCMASK1)
    BY <2>1, Starts DEF Configured, FlashConfig, Region, PCMASK1
  <2>3. Lies(Scratch(2048), "flash", 1920, 2047) BY LargeMap
  <2>4. \A mem : \A addr \in Int :
          Matches(SmpuConfig(2048)[6], mem, addr) <=> mem = "flash" /\ addr \in 1920..2047
    BY <2>2, SMTT(30) DEF Configured, Matches
  <2>5. 6 \in DOMAIN SmpuConfig(2048) BY Structures
  <2> QED BY <2>2, <2>3, <2>4, <2>5 DEF Guards, Lies, Configured
<1>11. Guards(2048, 5, Cm4OpenSram(2048), RWX, "all", PCMASK4)
  <2>1. SmpuConfig(2048)[5] = SramConfig(2048)[5] BY <1>1, ConfigOf
  <2>2. Configured(SmpuConfig(2048)[5], "sram", 0, 1024, {0, 1}, RWX, FALSE, PCMASK4)
    BY <2>1, <1>2 DEF Configured, SramConfig, Region, PCMASK4
  <2>3. Lies(Cm4OpenSram(2048), "sram", 256, 1023) BY LargeMap
  <2>4. \A mem : \A addr \in Int :
          Matches(SmpuConfig(2048)[5], mem, addr) <=> mem = "sram" /\ addr \in 256..1023
    BY <2>2, SMTT(30) DEF Configured, Matches
  <2>5. 5 \in DOMAIN SmpuConfig(2048) BY Structures
  <2> QED BY <2>2, <2>3, <2>4, <2>5 DEF Guards, Lies, Configured
<1> QED BY <1>3, <1>4, <1>5, <1>6, <1>7, <1>8, <1>9, <1>10, <1>11 DEF Coverage

\* On every family each structure that prot_units_init configures matches exactly the
\* section it is meant for, with its permission and contexts: the powers of two and the
\* disabled subregions of cy_ps_prot_units.c come to the addresses common.mk computes.
\* Structures 9 and 5 reach to the end of the CM4's flash and SRAM (Cm4Flash, Cm4OpenSram).
THEOREM EveryFamilyCovered == \A d \in Devices : Coverage(d)
BY SmallCoverage, MediumCoverage, LargeCoverage DEF Devices

-----------------------------------------------------------------------------------
(* What a context may do.                                                  *)

\* No two structures compete for an address, so that the rule of the highest number
\* decides nothing in this configuration.
OneRegion(d) ==
  \A mem : \A addr \in Int : \A s, t \in DOMAIN SmpuConfig(d) :
    Matches(SmpuConfig(d)[s], mem, addr) /\ Matches(SmpuConfig(d)[t], mem, addr) => s = t

\* No two structures of the family with 512 KB of flash match one address.
LEMMA SmallDisjoint == OneRegion(512)
<1> SUFFICES ASSUME NEW mem, NEW addr \in Int
             PROVE  \A s, t \in DOMAIN SmpuConfig(512) :
                      Matches(SmpuConfig(512)[s], mem, addr)
                        /\ Matches(SmpuConfig(512)[t], mem, addr) => s = t
  BY DEF OneRegion
<1> DEFINE owner ==
  IF mem = "sram"
  THEN IF addr < 64 THEN 12 ELSE IF addr < 96 THEN 10 ELSE 5
  ELSE IF addr < 112 THEN 13 ELSE IF addr < 128 THEN 7 ELSE IF addr < 192 THEN 11
       ELSE 9
<1>1. Matches(SmpuConfig(512)[13], mem, addr) => owner = 13
  <2>1. Guards(512, 13, Bootloader(512), RX, "secure", PCMASK1_2) BY SmallCoverage DEF Coverage
  <2>2. Lies(Bootloader(512), "flash", 0, 111) BY SmallMap
  <2> QED BY <2>1, <2>2 DEF Guards, Lies
<1>2. Matches(SmpuConfig(512)[12], mem, addr) => owner = 12
  <2>1. Guards(512, 12, Cm0Sram(512), RWX, "secure", PCMASK1_2) BY SmallCoverage DEF Coverage
  <2>2. Lies(Cm0Sram(512), "sram", 0, 63) BY SmallMap
  <2> QED BY <2>1, <2>2 DEF Guards, Lies
<1>3. Matches(SmpuConfig(512)[11], mem, addr) => owner = 11
  <2>1. Guards(512, 11, Cm0App(512), RWX, "secure", PCMASK1_2) BY SmallCoverage DEF Coverage
  <2>2. Lies(Cm0App(512), "flash", 128, 191) BY SmallMap
  <2> QED BY <2>1, <2>2 DEF Guards, Lies
<1>4. Matches(SmpuConfig(512)[10], mem, addr) => owner = 10
  <2>1. Guards(512, 10, SharedSram(512), RW, "all", PCMASK1_2_4) BY SmallCoverage DEF Coverage
  <2>2. Lies(SharedSram(512), "sram", 64, 95) BY SmallMap
  <2> QED BY <2>1, <2>2 DEF Guards, Lies
<1>5. Matches(SmpuConfig(512)[9], mem, addr) => owner = 9
  <2>1. Guards(512, 9, Cm4Flash(512), RWX, "all", PCMASK1_4) BY SmallCoverage DEF Coverage
  <2>2. Lies(Cm4Flash(512), "flash", 192, 511) BY SmallMap
  <2> QED BY <2>1, <2>2 DEF Guards, Lies
<1>6. Matches(SmpuConfig(512)[7], mem, addr) => owner = 7
  <2>1. Guards(512, 7, ProtectedStorage(512), RWX, "secure", PCMASK2) BY SmallCoverage DEF Coverage
  <2>2. Lies(ProtectedStorage(512), "flash", 112, 127) BY SmallMap
  <2> QED BY <2>1, <2>2 DEF Guards, Lies
<1>7. Matches(SmpuConfig(512)[5], mem, addr) => owner = 5
  <2>1. Guards(512, 5, Cm4OpenSram(512), RWX, "all", PCMASK4) BY SmallCoverage DEF Coverage
  <2>2. Lies(Cm4OpenSram(512), "sram", 96, 255) BY SmallMap
  <2> QED BY <2>1, <2>2 DEF Guards, Lies
<1> HIDE DEF owner
<1>8. ASSUME NEW s \in DOMAIN SmpuConfig(512), Matches(SmpuConfig(512)[s], mem, addr)
      PROVE  s = owner
  <2>1. CASE s = 13 BY <1>1, <1>8, <2>1
  <2>2. CASE s = 12 BY <1>2, <1>8, <2>2
  <2>3. CASE s = 11 BY <1>3, <1>8, <2>3
  <2>4. CASE s = 10 BY <1>4, <1>8, <2>4
  <2>5. CASE s = 9 BY <1>5, <1>8, <2>5
  <2>6. CASE s = 7 BY <1>6, <1>8, <2>6
  <2>7. CASE s = 5 BY <1>7, <1>8, <2>7
  <2>8. s = 13 \/ s = 12 \/ s = 11 \/ s = 10 \/ s = 9 \/ s = 7 \/ s = 5 BY Structures
  <2> QED BY <2>1, <2>2, <2>3, <2>4, <2>5, <2>6, <2>7, <2>8
<1> QED BY <1>8

\* No two structures of the family with 1024 KB of flash match one address.
LEMMA MediumDisjoint == OneRegion(1024)
<1> SUFFICES ASSUME NEW mem, NEW addr \in Int
             PROVE  \A s, t \in DOMAIN SmpuConfig(1024) :
                      Matches(SmpuConfig(1024)[s], mem, addr)
                        /\ Matches(SmpuConfig(1024)[t], mem, addr) => s = t
  BY DEF OneRegion
<1> DEFINE owner ==
  IF mem = "sram"
  THEN IF addr < 64 THEN 12 ELSE IF addr < 96 THEN 10 ELSE 5
  ELSE IF addr < 112 THEN 13 ELSE IF addr < 128 THEN 7 ELSE IF addr < 256 THEN 11
       ELSE 9
<1>1. Matches(SmpuConfig(1024)[13], mem, addr) => owner = 13
  <2>1. Guards(1024, 13, Bootloader(1024), RX, "secure", PCMASK1_2) BY MediumCoverage DEF Coverage
  <2>2. Lies(Bootloader(1024), "flash", 0, 111) BY MediumMap
  <2> QED BY <2>1, <2>2 DEF Guards, Lies
<1>2. Matches(SmpuConfig(1024)[12], mem, addr) => owner = 12
  <2>1. Guards(1024, 12, Cm0Sram(1024), RWX, "secure", PCMASK1_2) BY MediumCoverage DEF Coverage
  <2>2. Lies(Cm0Sram(1024), "sram", 0, 63) BY MediumMap
  <2> QED BY <2>1, <2>2 DEF Guards, Lies
<1>3. Matches(SmpuConfig(1024)[11], mem, addr) => owner = 11
  <2>1. Guards(1024, 11, Cm0App(1024), RWX, "secure", PCMASK1_2) BY MediumCoverage DEF Coverage
  <2>2. Lies(Cm0App(1024), "flash", 128, 255) BY MediumMap
  <2> QED BY <2>1, <2>2 DEF Guards, Lies
<1>4. Matches(SmpuConfig(1024)[10], mem, addr) => owner = 10
  <2>1. Guards(1024, 10, SharedSram(1024), RW, "all", PCMASK1_2_4) BY MediumCoverage DEF Coverage
  <2>2. Lies(SharedSram(1024), "sram", 64, 95) BY MediumMap
  <2> QED BY <2>1, <2>2 DEF Guards, Lies
<1>5. Matches(SmpuConfig(1024)[9], mem, addr) => owner = 9
  <2>1. Guards(1024, 9, Cm4Flash(1024), RWX, "all", PCMASK1_4) BY MediumCoverage DEF Coverage
  <2>2. Lies(Cm4Flash(1024), "flash", 256, 1023) BY MediumMap
  <2> QED BY <2>1, <2>2 DEF Guards, Lies
<1>6. Matches(SmpuConfig(1024)[7], mem, addr) => owner = 7
  <2>1. Guards(1024, 7, ProtectedStorage(1024), RWX, "secure", PCMASK2) BY MediumCoverage DEF Coverage
  <2>2. Lies(ProtectedStorage(1024), "flash", 112, 127) BY MediumMap
  <2> QED BY <2>1, <2>2 DEF Guards, Lies
<1>7. Matches(SmpuConfig(1024)[5], mem, addr) => owner = 5
  <2>1. Guards(1024, 5, Cm4OpenSram(1024), RWX, "all", PCMASK4) BY MediumCoverage DEF Coverage
  <2>2. Lies(Cm4OpenSram(1024), "sram", 96, 255) BY MediumMap
  <2> QED BY <2>1, <2>2 DEF Guards, Lies
<1> HIDE DEF owner
<1>8. ASSUME NEW s \in DOMAIN SmpuConfig(1024), Matches(SmpuConfig(1024)[s], mem, addr)
      PROVE  s = owner
  <2>1. CASE s = 13 BY <1>1, <1>8, <2>1
  <2>2. CASE s = 12 BY <1>2, <1>8, <2>2
  <2>3. CASE s = 11 BY <1>3, <1>8, <2>3
  <2>4. CASE s = 10 BY <1>4, <1>8, <2>4
  <2>5. CASE s = 9 BY <1>5, <1>8, <2>5
  <2>6. CASE s = 7 BY <1>6, <1>8, <2>6
  <2>7. CASE s = 5 BY <1>7, <1>8, <2>7
  <2>8. s = 13 \/ s = 12 \/ s = 11 \/ s = 10 \/ s = 9 \/ s = 7 \/ s = 5 BY Structures
  <2> QED BY <2>1, <2>2, <2>3, <2>4, <2>5, <2>6, <2>7, <2>8
<1> QED BY <1>8

\* No two structures of the family with 2048 KB of flash match one address.
LEMMA LargeDisjoint == OneRegion(2048)
<1> SUFFICES ASSUME NEW mem, NEW addr \in Int
             PROVE  \A s, t \in DOMAIN SmpuConfig(2048) :
                      Matches(SmpuConfig(2048)[s], mem, addr)
                        /\ Matches(SmpuConfig(2048)[t], mem, addr) => s = t
  BY DEF OneRegion
<1> DEFINE owner ==
  IF mem = "sram"
  THEN IF addr < 192 THEN 12 ELSE IF addr < 256 THEN 10 ELSE 5
  ELSE IF addr < 112 THEN 13 ELSE IF addr < 128 THEN 7 ELSE IF addr < 256 THEN 11
       ELSE IF addr < 1024 THEN 9 ELSE IF addr < 1920 THEN 8 ELSE 6
<1>1. Matches(SmpuConfig(2048)[13], mem, addr) => owner = 13
  <2>1. Guards(2048, 13, Bootloader(2048), RX, "secure", PCMASK1_2) BY LargeCoverage DEF Coverage
  <2>2. Lies(Bootloader(2048), "flash", 0, 111) BY LargeMap
  <2> QED BY <2>1, <2>2 DEF Guards, Lies
<1>2. Matches(SmpuConfig(2048)[12], mem, addr) => owner = 12
  <2>1. Guards(2048, 12, Cm0Sram(2048), RWX, "secure", PCMASK1_2) BY LargeCoverage DEF Coverage
  <2>2. Lies(Cm0Sram(2048), "sram", 0, 191) BY LargeMap
  <2> QED BY <2>1, <2>2 DEF Guards, Lies
<1>3. Matches(SmpuConfig(2048)[11], mem, addr) => owner = 11
  <2>1. Guards(2048, 11, Cm0App(2048), RWX, "secure", PCMASK1_2) BY LargeCoverage DEF Coverage
  <2>2. Lies(Cm0App(2048), "flash", 128, 255) BY LargeMap
  <2> QED BY <2>1, <2>2 DEF Guards, Lies
<1>4. Matches(SmpuConfig(2048)[10], mem, addr) => owner = 10
  <2>1. Guards(2048, 10, SharedSram(2048), RW, "all", PCMASK1_2_4) BY LargeCoverage DEF Coverage
  <2>2. Lies(SharedSram(2048), "sram", 192, 255) BY LargeMap
  <2> QED BY <2>1, <2>2 DEF Guards, Lies
<1>5. Matches(SmpuConfig(2048)[9], mem, addr) => owner = 9
  <2>1. Guards(2048, 9, Cm4Flash(2048), RWX, "all", PCMASK1_4) BY LargeCoverage DEF Coverage
  <2>2. Lies(Cm4Flash(2048), "flash", 256, 1023) BY LargeMap
  <2> QED BY <2>1, <2>2 DEF Guards, Lies
<1>6. Matches(SmpuConfig(2048)[8], mem, addr) => owner = 8
  <2>1. Guards(2048, 8, SecondarySlot(2048), RWX, "all", PCMASK1_4) BY LargeCoverage DEF Coverage
  <2>2. Lies(SecondarySlot(2048), "flash", 1024, 1919) BY LargeMap
  <2> QED BY <2>1, <2>2 DEF Guards, Lies
<1>7. Matches(SmpuConfig(2048)[7], mem, addr) => owner = 7
  <2>1. Guards(2048, 7, ProtectedStorage(2048), RWX, "secure", PCMASK2) BY LargeCoverage DEF Coverage
  <2>2. Lies(ProtectedStorage(2048), "flash", 112, 127) BY LargeMap
  <2> QED BY <2>1, <2>2 DEF Guards, Lies
<1>8. Matches(SmpuConfig(2048)[6], mem, addr) => owner = 6
  <2>1. Guards(2048, 6, Scratch(2048), RW, "secure", PCMASK1) BY LargeCoverage DEF Coverage
  <2>2. Lies(Scratch(2048), "flash", 1920, 2047) BY LargeMap
  <2> QED BY <2>1, <2>2 DEF Guards, Lies
<1>9. Matches(SmpuConfig(2048)[5], mem, addr) => owner = 5
  <2>1. Guards(2048, 5, Cm4OpenSram(2048), RWX, "all", PCMASK4) BY LargeCoverage DEF Coverage
  <2>2. Lies(Cm4OpenSram(2048), "sram", 256, 1023) BY LargeMap
  <2> QED BY <2>1, <2>2 DEF Guards, Lies
<1> HIDE DEF owner
<1>10. ASSUME NEW s \in DOMAIN SmpuConfig(2048), Matches(SmpuConfig(2048)[s], mem, addr)
      PROVE  s = owner
  <2>1. CASE s = 13 BY <1>1, <1>10, <2>1
  <2>2. CASE s = 12 BY <1>2, <1>10, <2>2
  <2>3. CASE s = 11 BY <1>3, <1>10, <2>3
  <2>4. CASE s = 10 BY <1>4, <1>10, <2>4
  <2>5. CASE s = 9 BY <1>5, <1>10, <2>5
  <2>6. CASE s = 8 BY <1>6, <1>10, <2>6
  <2>7. CASE s = 7 BY <1>7, <1>10, <2>7
  <2>8. CASE s = 6 BY <1>8, <1>10, <2>8
  <2>9. CASE s = 5 BY <1>9, <1>10, <2>9
  <2>10. s = 13 \/ s = 12 \/ s = 11 \/ s = 10 \/ s = 9 \/ s = 8 \/ s = 7 \/ s = 6 \/ s = 5 BY Structures
  <2> QED BY <2>1, <2>2, <2>3, <2>4, <2>5, <2>6, <2>7, <2>8, <2>9, <2>10
<1> QED BY <1>10

\* On no family do two of the structures that prot_units_init configures match the
\* same address: which number the hardware gives precedence to never matters.
THEOREM RegionsDisjoint == \A d \in Devices : OneRegion(d)
BY SmallDisjoint, MediumDisjoint, LargeDisjoint DEF Devices

-----------------------------------------------------------------------------------
(* The sections that no structure guards alone.                            *)

\* The memory of each section.
LEMMA Memories ==
  ASSUME NEW d
  PROVE  /\ Bootloader(d).mem = "flash" /\ ProtectedStorage(d).mem = "flash"
         /\ Cm0App(d).mem = "flash" /\ Cm4App(d).mem = "flash"
         /\ PrimarySlot(d).mem = "flash" /\ SecondarySlot(d).mem = "flash"
         /\ Scratch(d).mem = "flash" /\ Cm4Flash(d).mem = "flash"
         /\ Cm0Sram(d).mem = "sram" /\ SharedSram(d).mem = "sram"
         /\ Cm4Sram(d).mem = "sram" /\ Cm4OpenSram(d).mem = "sram"
BY DEF Bootloader, ProtectedStorage, Cm0App, Cm4App, PrimarySlot, SecondarySlot, Scratch,
       Cm4Flash, Cm0Sram, SharedSram, Cm4Sram, Cm4OpenSram, Section

\* The primary slot is the two applications; where no structure is there for the secondary
\* slot alone it lies in what is open to the CM4; the slots are disjoint, and the sections
\* fill the flash from its first KB to its last.
Parts(d) ==
  /\ Addresses(PrimarySlot(d)) = Addresses(Cm0App(d)) \cup Addresses(Cm4App(d))
  /\ Addresses(Cm4App(d)) \subseteq Addresses(Cm4Flash(d))
  /\ Addresses(Cm4Sram(d)) \subseteq Addresses(Cm4OpenSram(d))
  /\ d # 2048 => /\ Addresses(SecondarySlot(d)) \subseteq Addresses(Cm4Flash(d))
                 /\ Addresses(Scratch(d)) = {}
  /\ \A kb \in Addresses(SecondarySlot(d)) : kb \notin Addresses(PrimarySlot(d))
  /\ \A kb \in Addresses(SecondarySlot(d)) : kb \notin Addresses(Bootloader(d))
  /\ 0..(d - 1) = Addresses(Bootloader(d)) \cup Addresses(ProtectedStorage(d))
                    \cup Addresses(PrimarySlot(d)) \cup Addresses(SecondarySlot(d))
                    \cup Addresses(Scratch(d))

\* The parts of the flash and the SRAM with 512 KB of flash.
LEMMA SmallParts == Parts(512)
<1>1. Addresses(Bootloader(512)) = 0..111 BY SmallMap DEF Lies
<1>2. Addresses(ProtectedStorage(512)) = 112..127 BY SmallMap DEF Lies
<1>3. Addresses(Cm0App(512)) = 128..191 BY SmallMap DEF Lies
<1>4. Addresses(Cm4App(512)) = 192..319 BY SmallMap DEF Lies
<1>5. Addresses(PrimarySlot(512)) = 128..319 BY SmallMap DEF Lies
<1>6. Addresses(SecondarySlot(512)) = 320..511 BY SmallMap DEF Lies
<1>7. Addresses(Scratch(512)) = 512..511 BY SmallMap DEF Lies
<1>8. Addresses(Cm4Flash(512)) = 192..511 BY SmallMap DEF Lies
<1>9. Addresses(Cm0Sram(512)) = 0..63 BY SmallMap DEF Lies
<1>10. Addresses(SharedSram(512)) = 64..95 BY SmallMap DEF Lies
<1>11. Addresses(Cm4Sram(512)) = 96..253 BY SmallMap DEF Lies
<1>12. Addresses(Cm4OpenSram(512)) = 96..255 BY SmallMap DEF Lies
<1>13. Addresses(PrimarySlot(512)) = Addresses(Cm0App(512)) \cup Addresses(Cm4App(512))
  BY <1>5, <1>3, <1>4
<1>14. Addresses(Cm4App(512)) \subseteq Addresses(Cm4Flash(512))
  BY <1>4, <1>8
<1>15. Addresses(Cm4Sram(512)) \subseteq Addresses(Cm4OpenSram(512))
  BY <1>11, <1>12
<1>16. Addresses(SecondarySlot(512)) \subseteq Addresses(Cm4Flash(512))
  BY <1>6, <1>8
<1>17. Addresses(Scratch(512)) = {}
  BY <1>7
<1>18. \A kb \in Addresses(SecondarySlot(512)) : kb \notin Addresses(PrimarySlot(512))
  <2> SUFFICES ASSUME NEW kb \in Addresses(SecondarySlot(512)), kb \in Addresses(PrimarySlot(512)) PROVE FALSE
    OBVIOUS
  <2>1. kb \in Int /\ kb >= 320 BY <1>6
  <2>2. kb <= 319 BY <1>5
  <2> QED BY <2>1, <2>2
<1>19. 0..(512 - 1) = Addresses(Bootloader(512)) \cup Addresses(ProtectedStorage(512))
          \cup Addresses(PrimarySlot(512)) \cup Addresses(SecondarySlot(512))
          \cup Addresses(Scratch(512))
  BY <1>1, <1>2, <1>5, <1>6, <1>7
<1>20. \A kb \in Addresses(SecondarySlot(512)) : kb \notin Addresses(Bootloader(512))
  <2> SUFFICES ASSUME NEW kb \in Addresses(SecondarySlot(512)),
                      kb \in Addresses(Bootloader(512))
               PROVE  FALSE
    OBVIOUS
  <2>1. kb \in Int /\ kb >= 320 BY <1>6
  <2>2. kb <= 111 BY <1>1
  <2> QED BY <2>1, <2>2
<1> QED BY <1>13, <1>14, <1>15, <1>16, <1>17, <1>18, <1>19, <1>20 DEF Parts

\* The parts of the flash and the SRAM with 1024 KB of flash.
LEMMA MediumParts == Parts(1024)
<1>1. Addresses(Bootloader(1024)) = 0..111 BY MediumMap DEF Lies
<1>2. Addresses(ProtectedStorage(1024)) = 112..127 BY MediumMap DEF Lies
<1>3. Addresses(Cm0App(1024)) = 128..255 BY MediumMap DEF Lies
<1>4. Addresses(Cm4App(1024)) = 256..575 BY MediumMap DEF Lies
<1>5. Addresses(PrimarySlot(1024)) = 128..575 BY MediumMap DEF Lies
<1>6. Addresses(SecondarySlot(1024)) = 576..1023 BY MediumMap DEF Lies
<1>7. Addresses(Scratch(1024)) = 1024..1023 BY MediumMap DEF Lies
<1>8. Addresses(Cm4Flash(1024)) = 256..1023 BY MediumMap DEF Lies
<1>9. Addresses(Cm0Sram(1024)) = 0..63 BY MediumMap DEF Lies
<1>10. Addresses(SharedSram(1024)) = 64..95 BY MediumMap DEF Lies
<1>11. Addresses(Cm4Sram(1024)) = 96..253 BY MediumMap DEF Lies
<1>12. Addresses(Cm4OpenSram(1024)) = 96..255 BY MediumMap DEF Lies
<1>13. Addresses(PrimarySlot(1024)) = Addresses(Cm0App(1024)) \cup Addresses(Cm4App(1024))
  BY <1>5, <1>3, <1>4
<1>14. Addresses(Cm4App(1024)) \subseteq Addresses(Cm4Flash(1024))
  BY <1>4, <1>8
<1>15. Addresses(Cm4Sram(1024)) \subseteq Addresses(Cm4OpenSram(1024))
  BY <1>11, <1>12
<1>16. Addresses(SecondarySlot(1024)) \subseteq Addresses(Cm4Flash(1024))
  BY <1>6, <1>8
<1>17. Addresses(Scratch(1024)) = {}
  BY <1>7
<1>18. \A kb \in Addresses(SecondarySlot(1024)) : kb \notin Addresses(PrimarySlot(1024))
  <2> SUFFICES ASSUME NEW kb \in Addresses(SecondarySlot(1024)), kb \in Addresses(PrimarySlot(1024)) PROVE FALSE
    OBVIOUS
  <2>1. kb \in Int /\ kb >= 576 BY <1>6
  <2>2. kb <= 575 BY <1>5
  <2> QED BY <2>1, <2>2
<1>19. 0..(1024 - 1) = Addresses(Bootloader(1024)) \cup Addresses(ProtectedStorage(1024))
          \cup Addresses(PrimarySlot(1024)) \cup Addresses(SecondarySlot(1024))
          \cup Addresses(Scratch(1024))
  BY <1>1, <1>2, <1>5, <1>6, <1>7
<1>20. \A kb \in Addresses(SecondarySlot(1024)) : kb \notin Addresses(Bootloader(1024))
  <2> SUFFICES ASSUME NEW kb \in Addresses(SecondarySlot(1024)),
                      kb \in Addresses(Bootloader(1024))
               PROVE  FALSE
    OBVIOUS
  <2>1. kb \in Int /\ kb >= 576 BY <1>6
  <2>2. kb <= 111 BY <1>1
  <2> QED BY <2>1, <2>2
<1> QED BY <1>13, <1>14, <1>15, <1>16, <1>17, <1>18, <1>19, <1>20 DEF Parts

\* The parts of the flash and the SRAM with 2048 KB of flash.
LEMMA LargeParts == Parts(2048)
<1>1. Addresses(Bootloader(2048)) = 0..111 BY LargeMap DEF Lies
<1>2. Addresses(ProtectedStorage(2048)) = 112..127 BY LargeMap DEF Lies
<1>3. Addresses(Cm0App(2048)) = 128..255 BY LargeMap DEF Lies
<1>4. Addresses(Cm4App(2048)) = 256..1023 BY LargeMap DEF Lies
<1>5. Addresses(PrimarySlot(2048)) = 128..1023 BY LargeMap DEF Lies
<1>6. Addresses(SecondarySlot(2048)) = 1024..1919 BY LargeMap DEF Lies
<1>7. Addresses(Scratch(2048)) = 1920..2047 BY LargeMap DEF Lies
<1>8. Addresses(Cm4Flash(2048)) = 256..1023 BY LargeMap DEF Lies
<1>9. Addresses(Cm0Sram(2048)) = 0..191 BY LargeMap DEF Lies
<1>10. Addresses(SharedSram(2048)) = 192..255 BY LargeMap DEF Lies
<1>11. Addresses(Cm4Sram(2048)) = 256..1021 BY LargeMap DEF Lies
<1>12. Addresses(Cm4OpenSram(2048)) = 256..1023 BY LargeMap DEF Lies
<1>13. Addresses(PrimarySlot(2048)) = Addresses(Cm0App(2048)) \cup Addresses(Cm4App(2048))
  BY <1>5, <1>3, <1>4
<1>14. Addresses(Cm4App(2048)) \subseteq Addresses(Cm4Flash(2048))
  BY <1>4, <1>8
<1>15. Addresses(Cm4Sram(2048)) \subseteq Addresses(Cm4OpenSram(2048))
  BY <1>11, <1>12
<1>16. \A kb \in Addresses(SecondarySlot(2048)) : kb \notin Addresses(PrimarySlot(2048))
  <2> SUFFICES ASSUME NEW kb \in Addresses(SecondarySlot(2048)), kb \in Addresses(PrimarySlot(2048)) PROVE FALSE
    OBVIOUS
  <2>1. kb \in Int /\ kb >= 1024 BY <1>6
  <2>2. kb <= 1023 BY <1>5
  <2> QED BY <2>1, <2>2
<1>17. 0..(2048 - 1) = Addresses(Bootloader(2048)) \cup Addresses(ProtectedStorage(2048))
          \cup Addresses(PrimarySlot(2048)) \cup Addresses(SecondarySlot(2048))
          \cup Addresses(Scratch(2048))
  BY <1>1, <1>2, <1>5, <1>6, <1>7
<1>18. \A kb \in Addresses(SecondarySlot(2048)) : kb \notin Addresses(Bootloader(2048))
  <2> SUFFICES ASSUME NEW kb \in Addresses(SecondarySlot(2048)),
                      kb \in Addresses(Bootloader(2048))
               PROVE  FALSE
    OBVIOUS
  <2>1. kb \in Int /\ kb >= 1024 BY <1>6
  <2>2. kb <= 111 BY <1>1
  <2> QED BY <2>1, <2>2
<1> QED BY <1>13, <1>14, <1>15, <1>16, <1>17, <1>18 DEF Parts

\* The parts of every family.
LEMMA EveryMap == \A d \in Devices : Parts(d)
BY SmallParts, MediumParts, LargeParts DEF Devices
-----------------------------------------------------------------------------------
(* The checks of dfu_user.c, in sections of the map.                       *)

\* A unit of the flash lies in a KB of it.
LEMMA KbOfUnit ==
  ASSUME NEW d \in Devices, NEW address \in 0..(Unit(d) - 1)
  PROVE  /\ address \div Unit(1) \in 0..(d - 1)
         /\ 4 * (address \div Unit(1)) <= address
         /\ address < 4 * (address \div Unit(1)) + 4
<1>1. Unit(1) = 4 /\ Unit(d) = 4 * d /\ d \in Int BY DEF Unit, Devices
<1>2. address \in Int /\ 0 <= address /\ address < 4 * d BY <1>1
<1>3. 4 * (address \div 4) <= address /\ address < 4 * (address \div 4) + 4
  BY <1>2
<1> QED BY <1>1, <1>2, <1>3

\* Of the main flash the range leaves out the bootloader, and nothing else.
LEMMA RangeOfUnit ==
  ASSUME NEW d \in Devices, NEW address \in 0..(Unit(d) - 1)
  PROVE  InRange(d, address) <=> address \div Unit(1) \notin Addresses(Bootloader(d))
<1> DEFINE kb == address \div Unit(1)
<1>1. kb \in 0..(d - 1) /\ 4 * kb <= address /\ address < 4 * kb + 4 BY KbOfUnit
<1> HIDE DEF kb
<1>2. d \in Int /\ d <= 2048 BY DEF Devices
<1>3. address \in Int /\ address < 4 * d BY <1>2 DEF Unit
<1>4. kb \in Addresses(Bootloader(d)) <=> kb < 112
  BY <1>1 DEF Addresses, Bootloader, Section, CM0P_BTLDR_FLASH_SIZE
<1>5. InRange(d, address) <=> 448 <= address
  BY <1>2, <1>3
  DEF InRange, Unit, CM0P_BTLDR_FLASH_SIZE, CY_EM_EEPROM_BASE, CY_EM_EEPROM_SIZE
<1>6. kb < 112 <=> address < 448 BY <1>1, <1>2, <1>3
<1>7. InRange(d, address) <=> kb \notin Addresses(Bootloader(d))
  BY <1>1, <1>2, <1>3, <1>4, <1>5, <1>6
<1> QED BY <1>7 DEF kb

\* What is refused as part of the running application is the primary slot.
LEMMA PrimaryOfUnit ==
  ASSUME NEW d \in Devices, NEW address \in 0..(Unit(d) - 1)
  PROVE  InPrimarySlot(d, address) <=> address \div Unit(1) \in Addresses(PrimarySlot(d))
<1> DEFINE kb == address \div Unit(1)
<1>1. kb \in 0..(d - 1) /\ 4 * kb <= address /\ address < 4 * kb + 4 BY KbOfUnit
<1> HIDE DEF kb
<1>2. d \in Int BY DEF Devices
<1>3. address \in Int BY <1>2 DEF Unit
<1>4. MCUBOOT_SLOT_SIZE(d) \in Int
  BY DEF MCUBOOT_SLOT_SIZE, CM0P_APP_FLASH_SIZE, CM4_APP_FLASH_SIZE, Devices
<1>5. kb \in Addresses(PrimarySlot(d)) <=> 128 <= kb /\ kb < 128 + MCUBOOT_SLOT_SIZE(d)
  BY <1>1, <1>2, <1>4, Starts DEF Addresses, PrimarySlot, Section
<1>6. InPrimarySlot(d, address)
        <=> 512 <= address /\ address < 4 * (128 + MCUBOOT_SLOT_SIZE(d))
  BY Starts DEF InPrimarySlot, Unit
<1>7. InPrimarySlot(d, address) <=> kb \in Addresses(PrimarySlot(d))
  BY <1>1, <1>2, <1>3, <1>4, <1>5, <1>6
<1> QED BY <1>7 DEF kb

\* What Cy_DFU_ReadData compares: any row within the range, the running application too.
LEMMA ReadChecks ==
  ASSUME NEW d, NEW address, InRange(d, address)
  PROVE  ReadData(d, address, CY_FLASH_SIZEOF_ROW, TRUE, TRUE) = "SUCCESS"
<1>1. IsMultipleOf(CY_FLASH_SIZEOF_ROW, CY_FLASH_SIZEOF_ROW)
  BY DEF IsMultipleOf, CY_FLASH_SIZEOF_ROW
<1> QED BY <1>1 DEF ReadData, ReadCheck
==================================================================================
