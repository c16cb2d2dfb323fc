\* A slot of four rows, a block of the hash as long as a row, both builds.
CONSTANTS
  Images <- MCImages
  Content <- MCContent
  Blank = Blank
  SlotCells = 8
  RowCells = 2
  HeaderCells = 1
  BlockCells = 2
  Width = 2
  KeyFile <- MCKeyFile
  Asserts = {TRUE, FALSE}
SPECIFICATION Spec
INVARIANTS TypeOK AcceptsOnlySigned AcceptsEverySigned
PROPERTIES ValidationReturns
