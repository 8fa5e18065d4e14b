\* A FIFO that two frames together do not fit.  CHECK_DEADLOCK FALSE: the block
\* really stops, in the busy-wait of afsk_write.
CONSTANTS
  Frames      <- MCFrames
  PreambleLen = 1
  TrailerLen  = 1
  TxRoom      = 6
  CharLen     = 1
  WorkSamples = {2}
  MaxPosts    = 2

SPECIFICATION FairSpec

CHECK_DEADLOCK FALSE

PROPERTY
  DacServed
