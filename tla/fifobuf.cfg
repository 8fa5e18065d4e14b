\* A ring of four slots (capacity three): it fills, empties and wraps on both
\* branches of fifo_isfull.  Two byte values tell an overwritten slot apart.
CONSTANTS
  Size = 4
  Byte = {b0, b1}

SPECIFICATION FairSpec

INVARIANTS
  TypeOK
  NoTornSlot

PROPERTIES
  QueueSpec
  RoomSuffices
