\* Two frames, one wrong tone at any bit, an rx_fifo of three characters and
\* ax25_poll after any bit or not for long enough to overrun it.
CONSTANTS
  Frames    <- MCFrames
  MinLen    = 2
  BufLen    = 2
  RxRoom    = 3
  MaxFrames = 2
  MaxErrors = 1

SPECIFICATION Spec

INVARIANTS
  TypeOK
  NoFrameTwice
  LossExplained
