---------------------------- MODULE MCParallelMap ----------------------------
EXTENDS ParallelMap
=============================================================================
