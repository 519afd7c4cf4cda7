SPECIFICATION FairSpec
CONSTANTS
  t1 = t1
  t2 = t2
  Tables = {t1, t2}
  Habits <- SomeHabits
  MaxCalls = 3
INVARIANTS HighlightMatches PanelsShowLatest UploadedIsListed
PROPERTY UploadIsReported
