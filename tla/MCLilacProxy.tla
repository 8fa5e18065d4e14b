---------------------------- MODULE MCLilacProxy ----------------------------
\* Small instance of LilacProxy for TLC.
EXTENDS LilacProxy
=============================================================================
