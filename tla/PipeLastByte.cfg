CONSTANTS
  Proc = {A, B}
  First = A
  Reader = A
  Writer = B
  PIPEBUFSIZ = 2
  NBytes = 2
  MaxOps = 1
  SMP = FALSE
  A = A
  B = B
SPECIFICATION Spec
INVARIANT EofAfterLastByte
CHECK_DEADLOCK FALSE
