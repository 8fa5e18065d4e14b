\* Three frames of up to two characters, escaped and between flags, fit the
\* FIFO together.  Characters of two samples and calls of work() with room for
\* one or three of them, so that a call may end inside a character.
CONSTANTS
  Frames      <- MCFrames
  PreambleLen = 2
  TrailerLen  = 2
  TxRoom      = 18
  CharLen     = 2
  WorkSamples = {1, 3}
  MaxPosts    = 3

SPECIFICATION FairSpec

INVARIANTS
  TypeOK
  FramesIntact
  PttCoversBurst

PROPERTIES
  BurstFramed
  FramesSent
