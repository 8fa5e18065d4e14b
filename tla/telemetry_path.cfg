\* Two frames: one may break and the other follow it.  The system may stop when
\* every frame has been sent and read.
CONSTANTS
  Overhead = 2
  maxPacketSize = 9
  Frames <- MCFrames
  MaxFrames = 2
  BufLen = 7
  ConstLength = 4

SPECIFICATION Spec

INVARIANT
  PacketsWhole

PROPERTY
  FramesWhole

CHECK_DEADLOCK FALSE
