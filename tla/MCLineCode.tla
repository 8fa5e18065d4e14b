----------------------------- MODULE MCLineCode -----------------------------
\* LineCode for TLC: the tables are those of the source.
EXTENDS LineCode
=============================================================================
