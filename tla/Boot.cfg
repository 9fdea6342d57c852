SPECIFICATION Spec
CONSTANTS
  Word = 4096
  Page = 16
  PAGE_SIZE = 16
  Slots = 6
  MAX_DEVICES = 128
  Machines <- MCMachines
  SectorSize = 2
  Byte = 8
  Counts = {5, 16}
  Seeks = {123, 2012}
  Starts = {0, 5, 123, 2012, 6, 11, 129, 2018, 2040, 2, 7, 125, 2014, 2019}
  Images <- MCImages
  HeaderSize = 6
  NONE = NONE
  ABSENT = ABSENT
INVARIANTS
  BarsKeptAndMapped
  ReadsTheDisk
  ImageIsFile

  
CHECK_DEADLOCK FALSE
