SPECIFICATION Spec
CONSTANTS
  f = f
  f1 = f1
  f2 = f2
  Nothing = Nothing
  Suffixed <- SuffixesOf
  FileNames = {f, f1}
  Requests = {u1, u2}
  Readers = {m1}
  Tables = {t1, t2}
CHECK_DEADLOCK FALSE
INVARIANTS UploadKept RejectedRemoved
PROPERTY NeverReplaced
