\* Two-bit bytes, so that a frame starts at either bit of a byte; a frame of
\* two bytes; a FIFO of two bytes and calls of work() that leave it half
\* empty, fill it, or overflow it by one byte.
CONSTANTS
  SyncWord   <- MCSyncWord
  ByteBits   = 2
  FrameBytes = 2
  RxRoom     = 2
  WorkBytes  = {1, 2, 3}

SPECIFICATION FairSpec

INVARIANTS
  TypeOK
  PopsAByte

PROPERTIES
  LossIsOverrun
  DeframerSpec
  WorkEnds
