SPECIFICATION Spec
CONSTANTS
  Procs = {p, q}
  Senders = {p}
  Stoppers = {p, q}
  Checks = {c}
  Commands = {k}
  Fresh = TRUE
  MaxSent = 1
  MaxStops = 1
  MaxCrashes = 1
  MaxTroubles = 1
  Gaps = {}
  p = p
  q = q
  c = c
  k = k
INVARIANTS
  TypeOK
  RecordKept
PROPERTIES
  DownIsQuiet
  DeadRowsKept
