SPECIFICATION Spec
CONSTANTS
  ha = ha
  other = other
  tool = tool
  nvr = nvr
  Nobody = Nobody
  Installers = {ha, other}
  Forced = {other}
  Captures = {tool}
  Outsiders = {nvr}
INVARIANTS
  TypeOK
  ConfiguredIsUndone
PROPERTIES
  OverwritesOnlyUnseen
CHECK_DEADLOCK FALSE
