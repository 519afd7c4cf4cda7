SPECIFICATION FairSpec
CONSTANTS
  q1 = q1
  q2 = q2
  NoWorker = NoWorker
  Workers = {q1, q2}
  Timeout = 1
  RowLimit = 1
  Statements <- SomeStatements
  MaxCommits = 1
INVARIANTS FullBudget CapExact FreshResult NoStrayHandler
PROPERTY QueryIsAnswered
