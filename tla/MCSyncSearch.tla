---------------------------- MODULE MCSyncSearch ----------------------------
\* SyncSearch for TLC: the values are those of the source.
EXTENDS SyncSearch
=============================================================================
