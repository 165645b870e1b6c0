-------------------------- MODULE MCServerProcess --------------------------
EXTENDS ServerProcess

CONSTANTS w1, w2

MCWorkers == {w1, w2}

=============================================================================
