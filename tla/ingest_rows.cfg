SPECIFICATION FairSpec
CONSTANTS
  a = a
  b = b
  c = c
  d = d
  extra = extra
  id = id
  ID = ID
  Column = column
  Stems = {id, ID}
  Blank = Blank
  Broken = Broken
  Ragged = extra
  KeyOrder <- SomeOrder
  Normalized <- SomeHeaders
  Fold <- SomeFold
  Records <- SomeRecords
  Headings <- SomeHeadings
  Files <- SomeFiles
  SampleSize = 2
  BatchSize = 3
INVARIANTS Distinct FirstFree RowsExact TypesFit ValuesKept
PROPERTY Terminates
CHECK_DEADLOCK FALSE
