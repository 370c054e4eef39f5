---------------------------- MODULE MCMoaContext ----------------------------
EXTENDS MoaContext

TwoRequests == 1..2
=============================================================================
