---------------------------- MODULE MCAsyncGRPO ----------------------------
EXTENDS AsyncGRPO
=============================================================================
