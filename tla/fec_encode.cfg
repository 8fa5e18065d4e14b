\* Frames of three bytes and a FIFO that holds two of them, so that a frame
\* can wait in the queue, in the FIFO half pushed, behind another, or arrive
\* during the preamble, the data, the trailer and the carrier's last byte.
\* work() has room for one byte, or for more than preamble and trailer.
CONSTANTS
  FrameLen    = 3
  PreambleLen = 2
  TrailerLen  = 2
  TxRoom      = 6
  Backlog     = 6
  WorkBytes   = {1, 4}
  MaxFrames   = 4

SPECIFICATION FairSpec

INVARIANTS
  TypeOK
  NeverSpins
  PttCoversSymbols

PROPERTIES
  NoGapInFrame
  PreambleLeads
  TrailerCloses
  PttOffClean
  FramesSent
  PttReleased
