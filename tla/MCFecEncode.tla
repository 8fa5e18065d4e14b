---------------------------- MODULE MCFecEncode -----------------------------
\* Small instance of FecEncode for TLC.
EXTENDS FecEncode
=============================================================================
