------------------------------ MODULE MCMiner ------------------------------
EXTENDS Miner, TLC
=============================================================================
