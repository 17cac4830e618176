----------------------------- MODULE MCSnapshots -----------------------------
\* Four holders are enough for a snapshot to be shared, given back and taken
\* again while two later ones replace it.
EXTENDS Snapshots, TLC

CONSTANTS h1, h2, h3, h4

MCHolders == {h1, h2, h3, h4}

HolderSymmetry == Permutations(MCHolders)
=============================================================================
