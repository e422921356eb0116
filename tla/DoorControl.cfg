SPECIFICATION FairSpec
CONSTANTS
  Tasks = {a, b, c}
  a = a
  b = b
  c = c
  RelockAfter = 2
INVARIANTS
  TypeOK
  NeverStuckUnlocked
  SwitchAgrees
PROPERTIES
  RelocksItself
