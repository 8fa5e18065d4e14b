---------------------------- MODULE MCDslwpProxy ----------------------------
\* Small instance of DslwpProxy for TLC.
EXTENDS DslwpProxy
=============================================================================
