SPECIFICATION Spec
CONSTANTS
  Requests = {r1}
  Sectors = {s1, s2}
  Data = {0, 1, 2}
  Zero = 0
  NoData = NoData
  Sums = {10, 11, 12}
  CRC <- DistinctCRC
  Ops = {"read", "write"}
  MaxFaults = 2
INVARIANTS KeepsReadable
PROPERTIES WritesTakeEffect SuccessMirrors
