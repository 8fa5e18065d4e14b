---------------------------- MODULE MCFecDecode -----------------------------
\* Small instance of FecDecode for TLC.  The sync word has the shape of
\* 0x1ACFFC1D: zeros first, so that an empty register is close to it.
EXTENDS FecDecode

MCSyncWord == <<0, 1, 1, 0>>
=============================================================================
