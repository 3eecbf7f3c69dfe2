---------------------------- MODULE MCOccupancy ----------------------------
EXTENDS Occupancy, TLC

JobsAlike == Permutations(Jobs)
=============================================================================
