\* Every byte, both phases, receivers that cut the line at any bit, and any bit of
\* a byte flipped: nothing is left out.
CONSTANT
  Offsets = {0, 1, 2, 3, 4, 5, 6, 7}

SPECIFICATION Spec

INVARIANT
  DecodedRight
