SPECIFICATION Spec
CONSTANTS
  h1 = h1
  h2 = h2
  p1 = p1
  p2 = p2
  Base <- MCBase
  Last = 2
  Handlers <- MCHandlers
  Copies <- MCCopies
  NoCopy = NoCopy
  Hosts <- TwoHosts
  Processes <- MCProcesses
  Functions <- MCFunctions
  Exports <- MCExports
  NeedsContext = {"appExited"}
SYMMETRY Symmetric
CHECK_DEADLOCK FALSE
INVARIANT SymbolsWrapped
