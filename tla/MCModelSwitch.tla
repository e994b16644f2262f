--------------------------- MODULE MCModelSwitch ---------------------------
\* ModelSwitch for TLC.
EXTENDS ModelSwitch, TLC

MCSymmetry == Permutations(Models) \cup Permutations(Patches)
=============================================================================
