----------------------------- MODULE MCZkClient -----------------------------
EXTENDS ZkClient

TwoHosts == 1..2
ThreeHosts == 1..3
=============================================================================
