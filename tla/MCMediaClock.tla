----------------------------- MODULE MCMediaClock -----------------------------
EXTENDS MediaClock, TLC

ReaderSymmetry == Permutations(Readers)
=============================================================================
