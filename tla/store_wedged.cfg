SPECIFICATION RetrySpec
CONSTANTS
  n = n
  nf = nf
  ff = ff
  mcp = mcp
  console = console
  m1 = m1
  c1 = c1
  c2 = c2
  NoWorker = NoWorker
  Home <- HomeOf
  Names <- OneName
  FtsName <- OneFtsName
  Procs = {mcp, console}
  Workers = {m1, c1}
  MaxBatches = 1
  Crashing = FALSE
PROPERTY RecoversFromFailure
