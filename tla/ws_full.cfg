\* A queue that is full when SendData looks and empty when it throws the oldest
\* item away.
CONSTANTS
  MaxData = 2
  MaxStarts = 1
  MaxQueue = 1
  MaxFaults = 1

SPECIFICATION Spec

PROPERTIES
  ThrowsAway
