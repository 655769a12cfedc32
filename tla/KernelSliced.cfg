SPECIFICATION Spec
CONSTANTS
  Processes = {p1, p2}
  Default = Default
  None = None
  AnySwitch = TRUE
  MaxLive = 2
INVARIANTS RunsOwnRegisters
