\* Two starts, with readings before the first sender, a queue that fills, and
\* connections that are refused and broken.
CONSTANTS
  MaxData = 3
  MaxStarts = 2
  MaxQueue = 2
  MaxFaults = 2

SPECIFICATION Spec

INVARIANTS
  TypeOK
  HandedExactly
  InOrder

PROPERTIES
  Delivered
  StopEnds
