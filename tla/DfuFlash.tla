-------------------------------- MODULE DfuFlash --------------------------------
(***************************************************************************)
(* Cy_DFU_WriteData and Cy_DFU_ReadData: what the checks of the CM4        *)
(* application make of an address and a length that a DFU command asks     *)
(* for.  Addresses and lengths are in units of 256 bytes, half a row, from  *)
(* START_OF_FLASH: an odd one stands for every address inside a row.       *)
(***************************************************************************)
EXTENDS MemoryLayout

CY_FLASH_SIZEOF_ROW == 2
Unit(kb) == 4 * kb

CY_EM_EEPROM_BASE == Unit(65536)     \* 0x14000000 - 0x10000000
CY_EM_EEPROM_SIZE == Unit(32)

IsMultipleOf(value, multiple) == value % multiple = 0

\* The range both functions allow, which leaves out the bootloader only.
InRange(d, address) ==
  \/ Unit(CM0P_BTLDR_FLASH_SIZE) <= address /\ address < Unit(d)
  \/ CY_EM_EEPROM_BASE <= address /\ address < CY_EM_EEPROM_BASE + CY_EM_EEPROM_SIZE

\* CY_DFU_APP0_VERIFY_START and _LENGTH: the application that runs.
InPrimarySlot(d, address) ==
  /\ Unit(CM0P_APP_FLASH_START) <= address
  /\ address < Unit(CM0P_APP_FLASH_START + MCUBOOT_SLOT_SIZE(d))

\* Fault: the branch of an allowed address clears the status.
WriteCheck_Cleared(d, address, length, erase) ==
  IF InRange(d, address) THEN "SUCCESS" ELSE "ERROR_ADDRESS"

\* Each check overwrites the status of the one before.
WriteCheck(d, address, length, erase) ==
  LET of_length == IF \/ ~IsMultipleOf(address, CY_FLASH_SIZEOF_ROW)
                      \/ length # CY_FLASH_SIZEOF_ROW /\ ~erase
                   THEN "ERROR_LENGTH" ELSE "SUCCESS"
      of_slot == IF InPrimarySlot(d, address) THEN "ERROR_ADDRESS" ELSE of_length
  IN  IF InRange(d, address) THEN of_slot ELSE "ERROR_ADDRESS"

\* One row is written, the buffer or zeros; written tells what the driver made of it.
WriteData(d, address, length, erase, written) ==
  IF WriteCheck(d, address, length, erase) # "SUCCESS"
  THEN WriteCheck(d, address, length, erase)
  ELSE IF written THEN "SUCCESS" ELSE "ERROR_DATA"

\* Only the length and the range: the application that runs may be read.
ReadCheck(d, address, length) ==
  LET of_length == IF IsMultipleOf(length, CY_FLASH_SIZEOF_ROW)
                   THEN "SUCCESS" ELSE "ERROR_LENGTH"
  IN  IF InRange(d, address) THEN of_length ELSE "ERROR_ADDRESS"

\* equal tells the outcome of a comparison with the buffer.
ReadData(d, address, length, compare, equal) ==
  IF ReadCheck(d, address, length) # "SUCCESS" THEN ReadCheck(d, address, length)
  ELSE IF compare /\ ~equal THEN "ERROR_VERIFY" ELSE "SUCCESS"
================================================================================
