-------------------------------- MODULE MCTcp ------------------------------
EXTENDS Tcp
=============================================================================
