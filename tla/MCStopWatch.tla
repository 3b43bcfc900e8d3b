---------------------------- MODULE MCStopWatch ----------------------------
EXTENDS StopWatch

Both == {RunStop, Clear}
=============================================================================
