\* Two packets, so that one can be stranded and another queued behind it; three
\* faults of the network, one try and one retry to connect.
SPECIFICATION Spec
CONSTANTS
  MaxPackets = 2
  MaxFaults = 3
  MaxTries = 1
INVARIANTS
  TypeOK
  Conserved
PROPERTIES
  Served
  StopEnds
