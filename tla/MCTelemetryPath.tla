-------------------------- MODULE MCTelemetryPath ---------------------------
\* Small instance of TelemetryPath for TLC: a frame of the two characters that
\* are escaped, one that holds the header of a packet, and one that makes a
\* packet too long for the server and ends like the beginning of a header.
EXTENDS TelemetryPath

MCFrames == {<<192, 219>>, <<80, 97, 67, 95, 116>>, <<221, 7, 7, 7, 7, 80, 97>>}
=============================================================================
