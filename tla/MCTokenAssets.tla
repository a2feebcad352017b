------------------------------ MODULE MCTokenAssets ------------------------------
EXTENDS TokenAssets, TLC

CONSTANTS c1, c2

SameCalls == Permutations({c1, c2})

=============================================================================
