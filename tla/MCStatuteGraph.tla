---------------------------- MODULE MCStatuteGraph ----------------------------
EXTENDS StatuteGraph, TLC

Symmetry == Permutations(Entities)
=============================================================================
