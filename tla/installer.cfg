SPECIFICATION Spec
CONSTANTS
  r1 = r1
  r2 = r2
  ours = ours
  second = second
  other = other
  Missing = Missing
  Broken = Broken
  Runs = {r1, r2}
  Servers = {ours, second, other}
  NameOf <- NamesOf
  MaxEdits = 2
CHECK_DEADLOCK FALSE
INVARIANTS NoLitter
PROPERTIES NeverCorrupted OthersUntouched BackedUp
