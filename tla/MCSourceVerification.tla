------------------------- MODULE MCSourceVerification -------------------------
EXTENDS SourceVerification, TLC

\* A file whose second chunk is older than its first does not compile.
MCValid == {c \in Content : c[1] <= c[2]}

\* Two files that never return to an old state, under one attachment; or one
\* that may, and a second directory.
MCWorlds ==
    {[recurs |-> FALSE, names |-> {1, 2}, generations |-> 1],
     [recurs |-> TRUE, names |-> {1}, generations |-> 2]}
=============================================================================
