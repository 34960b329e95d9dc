----------------------------- MODULE MCMemStore -----------------------------
\* A small store for TLC.
EXTENDS MemStore, TLC

StoreSymmetry == Permutations(Addr)
=============================================================================
