CONSTANTS
  Proc = {A, B}
  First = A
  Reader = A
  Writer = B
  PIPEBUFSIZ = 1
  NBytes = 1
  MaxOps = 3
  SMP = TRUE
  A = A
  B = B
SPECIFICATION Spec
INVARIANT EofMeansGone
CHECK_DEADLOCK FALSE
