------------------------------ MODULE MemoryLayout ------------------------------
(***************************************************************************)
(* The flash and SRAM map of the three device families, as common.mk       *)
(* computes it, and the SMPU regions of cy_ps_prot_units.c.  Addresses are *)
(* offsets in KB from START_OF_FLASH and START_OF_SRAM.                    *)
(***************************************************************************)
EXTENDS Integers

\* The families by flash size in KB: CY8CPROTO-062S3-4343W; CY8CKIT-062-WIFI-BT,
\* CY8CKIT-062-BLE and CY8CPROTO-063-BLE; CY8CPROTO-062-4343W and CY8CKIT-062S2-43012.
Devices == {512, 1024, 2048}

\* SRAM of the family (288 KB parts are treated as 256 KB ones).
SramSize(d) == IF d = 2048 THEN 1024 ELSE 256

CM0P_BTLDR_FLASH_SIZE == 112
PROTECTED_MEM_SIZE == 16
\* Fault: the size of the smallest family for all of them.
CM0P_APP_FLASH_SIZE_Same(d) == 64

CM0P_APP_FLASH_SIZE(d) == IF d = 512 THEN 64 ELSE 128
CM4_APP_FLASH_SIZE(d) == CASE d = 512 -> 128 [] d = 1024 -> 320 [] d = 2048 -> 768
MCUBOOT_SCRATCH_SIZE(d) == IF d = 2048 THEN 128 ELSE 0
CM0P_APP_SRAM_SIZE(d) == IF d = 2048 THEN 192 ELSE 64
SHARED_SRAM_SIZE(d) == IF d = 2048 THEN 64 ELSE 32
CM4_APP_SRAM_SIZE(d) == IF d = 2048 THEN 766 ELSE 158

PROTECTED_MEM_START == CM0P_BTLDR_FLASH_SIZE
CM0P_APP_FLASH_START == PROTECTED_MEM_START + PROTECTED_MEM_SIZE
CM4_APP_FLASH_START(d) == CM0P_APP_FLASH_START + CM0P_APP_FLASH_SIZE(d)
MCUBOOT_SLOT_SIZE(d) == CM0P_APP_FLASH_SIZE(d) + CM4_APP_FLASH_SIZE(d)
SECONDARY_START(d) == CM0P_APP_FLASH_START + MCUBOOT_SLOT_SIZE(d)
SCRATCH_START(d) == SECONDARY_START(d) + MCUBOOT_SLOT_SIZE(d)
SHARED_SRAM_START(d) == CM0P_APP_SRAM_SIZE(d)
CM4_APP_SRAM_START(d) == SHARED_SRAM_START(d) + SHARED_SRAM_SIZE(d)

\* A section of the map: which memory, where, how long.
Section(mem, start, size) == [mem |-> mem, start |-> start, size |-> size]
Addresses(s) == s.start .. (s.start + s.size - 1)

Bootloader(d) == Section("flash", 0, CM0P_BTLDR_FLASH_SIZE)
ProtectedStorage(d) == Section("flash", PROTECTED_MEM_START, PROTECTED_MEM_SIZE)
Cm0App(d) == Section("flash", CM0P_APP_FLASH_START, CM0P_APP_FLASH_SIZE(d))
Cm4App(d) == Section("flash", CM4_APP_FLASH_START(d), CM4_APP_FLASH_SIZE(d))
PrimarySlot(d) == Section("flash", CM0P_APP_FLASH_START, MCUBOOT_SLOT_SIZE(d))
SecondarySlot(d) == Section("flash", SECONDARY_START(d), MCUBOOT_SLOT_SIZE(d))
Scratch(d) == Section("flash", SCRATCH_START(d), MCUBOOT_SCRATCH_SIZE(d))
Cm0Sram(d) == Section("sram", 0, CM0P_APP_SRAM_SIZE(d))
SharedSram(d) == Section("sram", SHARED_SRAM_START(d), SHARED_SRAM_SIZE(d))
Cm4Sram(d) == Section("sram", CM4_APP_SRAM_START(d), CM4_APP_SRAM_SIZE(d))

--------------------------------------------------------------------------------
(* SMPU regions.  A region starts at a multiple of its size, is divided    *)
(* into eight subregions some of which are disabled, and admits some       *)
(* kinds of access from some protection contexts.                          *)

Region(mem, address, size, disabled, permission, secure, pcMask) ==
  [mem |-> mem, base |-> (address \div size) * size, size |-> size,
   disabled |-> disabled, permission |-> permission, secure |-> secure,
   pcMask |-> pcMask]

R == {"read"}
RX == {"read", "execute"}
RW == {"read", "write"}
RWX == {"read", "write", "execute"}

\* The slave configurations of cy_ps_prot_units.c by SMPU structure; the flash
\* and SRAM sizes select among the branches of the preprocessor.
FlashConfig(d) ==
  [smpu \in {7, 9, 11, 13} \cup (IF d = 2048 THEN {6, 8} ELSE {}) |->
    CASE smpu = 13 -> Region("flash", 0, 128, {7}, RX, TRUE, {1, 2})
      [] smpu = 11 -> Region("flash", CM0P_APP_FLASH_START,
                             IF d = 512 THEN 64 ELSE 128, {}, RWX, TRUE, {1, 2})
      [] smpu = 9 -> Region("flash", 0, d,
                            CASE d = 512 -> {0, 1, 2}
                              [] d = 1024 -> {0, 1}
                              [] d = 2048 -> {0, 4, 5, 6, 7}, RWX, FALSE, {1, 4})
      [] smpu = 8 -> Region("flash", SECONDARY_START(d), 1024, {7}, RWX, FALSE, {1, 4})
      [] smpu = 7 -> Region("flash", PROTECTED_MEM_START, 16, {}, RWX, TRUE, {2})
      [] smpu = 6 -> Region("flash", SCRATCH_START(d), 128, {}, RW, TRUE, {1})]

SramConfig(d) ==
  [smpu \in {5, 10, 12} |->
    CASE smpu = 12 -> IF SramSize(d) = 1024
                      THEN Region("sram", 0, 256, {6, 7}, RWX, TRUE, {1, 2})
                      ELSE Region("sram", 0, 64, {}, RWX, TRUE, {1, 2})
      [] smpu = 10 -> Region("sram", SHARED_SRAM_START(d),
                             IF SramSize(d) = 1024 THEN 64 ELSE 32, {}, RW, FALSE, {1, 2, 4})
      [] smpu = 5 -> Region("sram", 0, SramSize(d),
                            IF SramSize(d) = 1024 THEN {0, 1} ELSE {0, 1, 2},
                            RWX, FALSE, {4})]

SmpuConfig(d) ==
  [smpu \in DOMAIN FlashConfig(d) \cup DOMAIN SramConfig(d) |->
    IF smpu \in DOMAIN SramConfig(d) THEN SramConfig(d)[smpu] ELSE FlashConfig(d)[smpu]]

\* The hardware's match of an address against a region.
Matches(region, mem, addr) ==
  /\ region.mem = mem
  /\ region.base <= addr /\ addr < region.base + region.size
  /\ ((addr - region.base) \div (region.size \div 8)) \notin region.disabled

\* May a bus master in context pc make this kind of access?  Context 0 may do
\* everything; else the matching region with the highest number decides, and
\* what no region matches is open.
Allowed(regions, pc, secure, kind, mem, addr) ==
  LET matching == {s \in DOMAIN regions : Matches(regions[s], mem, addr)}
      deciding == CHOOSE s \in matching : \A t \in matching : t <= s
  IN  \/ pc = 0
      \/ matching = {}
      \/ /\ pc \in regions[deciding].pcMask
         /\ regions[deciding].secure => secure
         /\ kind \in regions[deciding].permission
================================================================================
