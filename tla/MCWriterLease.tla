---------------------------- MODULE MCWriterLease -----------------------------
EXTENDS WriterLease, TLC

CONSTANTS a, b, c, p, q

\* Two leases of one process and one of another.
MCProcessOf == [l \in Leases |-> IF l = c THEN q ELSE p]

\* The leases of one process are interchangeable, and the inodes.
MCSymmetry == Permutations(Leases \ {c}) \cup Permutations(Inodes)
=============================================================================
