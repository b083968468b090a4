---------------------------- MODULE MCProbeJoin -----------------------------
EXTENDS ProbeJoin
=============================================================================
