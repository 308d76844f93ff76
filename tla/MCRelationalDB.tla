--------------------------- MODULE MCRelationalDB ---------------------------
EXTENDS RelationalDB, TLC

Threads == Permutations(Thread \ Plain)
=============================================================================
