----------------------------- MODULE MCExchange -----------------------------
EXTENDS Exchange, TLC

Symmetry == Permutations(Request)
=============================================================================
