CONSTANTS
  Proc = {A, B}
  First = A
  Reader = A
  Writer = B
  PIPEBUFSIZ = 2
  NBytes = 4
  MaxOps = 4
  SMP = FALSE
  A = A
  B = B
SPECIFICATION FairSpec
INVARIANTS TypeOK EofMeansGone ReadsInOrder PipePageCovers
PROPERTY WaitEnds
CHECK_DEADLOCK FALSE
