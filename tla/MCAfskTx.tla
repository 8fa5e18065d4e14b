------------------------------ MODULE MCAfskTx ------------------------------
\* Small instances of AfskTx for TLC: a plain frame, one with a flag at its end,
\* and one of an ESC followed by a flag.
EXTENDS AfskTx

MCFrames == {<<"data", "flag">>, <<"esc", "flag">>, <<"data">>}
=============================================================================
