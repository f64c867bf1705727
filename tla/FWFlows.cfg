SPECIFICATION FirewallSpec
CONSTANTS
  CPUs = {c1}
  Levels = {"softirq", "process"}
  Keys = {k1, k2}
  Entries = {e1, e2, e3}
  NoEntry = NoEntry
  Packets = {"syn", "fin", "udp", "in"}
  Unload = TRUE
SYMMETRY Symmetric
CONSTRAINT NoneStale
INVARIANTS StaysOpen
CHECK_DEADLOCK FALSE
