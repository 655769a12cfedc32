SPECIFICATION Spec
CONSTANTS
  Processes = {p1, p2, p3}
  Default = Default
  None = None
  AnySwitch = FALSE
  MaxLive = 3
SYMMETRY ProcessSymmetry
INVARIANTS TypeOK RunsOwnRegisters TrapsFindOwnContext ExitFindsMachineFrame ActiveContextExists
PROPERTY UserCannotPanic
