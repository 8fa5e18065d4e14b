----------------------------- MODULE MCHdlcLink -----------------------------
\* Small instance of HdlcLink for TLC: frames of the characters that are hard
\* to send: 248 ends in five ones, in front of the closing flag or of more
\* data; a flag, a reset and an ESC as data; eight ones; and a frame longer
\* than the buffer.
EXTENDS HdlcLink

MCFrames == {<<27, 248>>, <<248, 126>>, <<127, 255, 27>>}
=============================================================================
