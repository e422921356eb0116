SPECIFICATION FairSpec
CONSTANTS
  Tasks = {a, b}
  a = a
  b = b
  Unchecked = {b}
  Raw = {b}
  MaxAuthAttempts = 4
INVARIANTS
  TypeOK
  WrongPasswordSentOnce
PROPERTIES
  RequestsUseNewNonces
  KeepsPromise
  RequestsEnd
CHECK_DEADLOCK FALSE
