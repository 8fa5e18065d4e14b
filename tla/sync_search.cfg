\* The real sync word and the whole table of sequence, from every position of
\* both counters.  Four bytes fill the register, so that more of the same add
\* no other windows.
CONSTANT
  Enough = 4

SPECIFICATION Spec

INVARIANTS
  NoFalseSync
  SyncSeen
