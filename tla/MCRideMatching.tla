--------------------------- MODULE MCRideMatching ---------------------------
EXTENDS RideMatching, TLC

Symmetry == Permutations(Drivers) \cup Permutations(Rides)
=============================================================================
