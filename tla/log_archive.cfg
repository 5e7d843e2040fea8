SPECIFICATION FairSpec
CONSTANTS
  Order <- LogTables
  LocalDays <- ScaledLocal
  FallbackDays <- ScaledFallback
  ArchiveDays <- ScaledArchive
  CountKeep <- KeepOne
  MaxRows = 2
  MaxLag = 1
  MaxCuts = 1
INVARIANTS CopyBeforeDelete
PROPERTIES KeptWhileYoung NandDrains
