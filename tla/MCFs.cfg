CONSTANTS
  fileA = fileA
  fileB = fileB
  File = {fileA, fileB}
  NBlocks = 8
  DirBlk <- TwoDirBlks
  BLKBITSIZE = 16
  NDIRECT = 1
  NINDIRECT = 2
  MaxOps = 7
SPECIFICATION Spec
INVARIANTS TypeOK NoSharedBlock ReadsAllocated NoneLeaked DiskFreeIsFree DiskStructsInUse FlushedSurvives
CHECK_DEADLOCK FALSE
