----------------------------- MODULE MCSpeedTest -----------------------------
EXTENDS SpeedTest
=============================================================================
