CONSTANTS
  Env = {e1, e2, e3}
  NPAGE = 13
  VA <- InnerVA
  PdpeTop = 1
  PdxTop = 1
  LastIdx = 2
  RefMod = 65536
  MaxStray = 1
SPECIFICATION Spec
INVARIANTS TypeOK RefExact FreeUnmapped TablesPrivate
PROPERTY FailureRestores
VIEW UpToNames
