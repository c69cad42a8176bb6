---------------------------- MODULE MCCheckpoint ----------------------------
EXTENDS CheckpointManager
=============================================================================
