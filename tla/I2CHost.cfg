SPECIFICATION Spec
CONSTANTS
  Threads = {t1, t2}
  Interfaces = {0}
  Addresses <- MCAddresses
  Bytes <- MCBytes
  Lines <- MCLines
  MaxQueue = 3
  Unconnected = Unconnected
  NoLink = NoLink
SYMMETRY ThreadSymmetry
INVARIANTS TypeOK NoLinkLeak BuffersOutliveLinks SuccessIsWhole
