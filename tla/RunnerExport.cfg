SPECIFICATION Spec
CONSTANTS
  h1 = h1
  h2 = h2
  b1 = b1
  b2 = b2
  b3 = b3
  b4 = b4
  b5 = b5
  Hosts <- OneHost
  Names <- MCNames
  Executables <- MCExecutables
  Libraries <- MCLibraries
  Builtin <- MCBuiltin
  Needed <- MCNeeded
  Blocks = {b1, b2}
  ExportMayFail = TRUE
  MaxStarts = 1
SYMMETRY BlockSymmetry
INVARIANT MemoryOwnedOnce
