SPECIFICATION Spec
CONSTANTS
  Procs = {p}
  Senders = {p}
  Stoppers = {p}
  Checks = {c, d}
  Commands = {}
  Fresh = TRUE
  MaxSent = 2
  MaxStops = 1
  MaxCrashes = 0
  MaxTroubles = 1
  Gaps = {}
  p = p
  c = c
  d = d
INVARIANT RecordCovers
