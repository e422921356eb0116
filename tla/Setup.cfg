\* Two devices that move, fail, answer nonsense and change their password, under
\* two racing flows and a reauth flow.
SPECIFICATION MCSpec
CONSTANTS
  Devices    = {d1, d2}
  Addresses  = {a1, a2}
  Passwords  = {p1, p2}
  Entries    = {e1, e2}
  Flows      = {f1, f2}
  Nothing    = Nothing
  Moody      = FALSE
  Garbled    = TRUE
  MaxChanges = 1
INVARIANTS TypeOK OneEntryPerDevice
PROPERTIES StoresAccepted LoadedOrAsked
