SPECIFICATION Spec
CONSTANTS
  n = n
  nf = nf
  ff = ff
  mcp = mcp
  console = console
  m1 = m1
  c1 = c1
  c2 = c2
  NoWorker = NoWorker
  Home <- HomeOf
  Names <- TwoNames
  FtsName <- TwoFtsNames
  Procs = {console}
  Workers = {c1, c2}
  MaxBatches = 2
  Crashing = FALSE
INVARIANTS OneProcessInv NoOrphans EnabledIsComplete
