---------------------------- MODULE MCStatuteIndex ----------------------------
EXTENDS StatuteIndex

Symmetry == Permutations(Tenants) \cup Permutations(Workers)
=============================================================================
