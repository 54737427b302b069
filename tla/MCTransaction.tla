--------------------------- MODULE MCTransaction ---------------------------
EXTENDS Transaction, TLC

CONSTANTS w1, w2

TwoWindows == {w1, w2}
OneWindow == {w1}

Symmetry == Permutations({w1, w2})
=============================================================================
