\* One device that rejects a right password once in a while, as this firmware does.
SPECIFICATION MCSpec
CONSTANTS
  Devices    = {d1}
  Addresses  = {a1}
  Passwords  = {p1, p2}
  Entries    = {e1}
  Flows      = {f1}
  Nothing    = Nothing
  Moody      = TRUE
  Garbled    = FALSE
  MaxChanges = 0
PROPERTIES AskedOnlyIfWrong
