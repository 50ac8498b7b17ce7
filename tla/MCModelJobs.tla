---------------------------- MODULE MCModelJobs ----------------------------
EXTENDS ModelJobs

CONSTANTS w1, w2

MCWorkers == {w1, w2}
=============================================================================
