CONSTANTS
  Env = {e1, e2}
  NPAGE = 9
  VA <- StackVA
  PdpeTop = 1
  PdxTop = 1
  LastIdx = 2
  RefMod = 65536
  MaxStray = 1
SPECIFICATION Spec
INVARIANT RefExact
