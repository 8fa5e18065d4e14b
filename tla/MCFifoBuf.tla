----------------------------- MODULE MCFifoBuf ------------------------------
\* Small instance of FifoBuf for TLC.
EXTENDS FifoBuf
=============================================================================
