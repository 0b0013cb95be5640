----------------------------- MODULE MCRuntimeMixer -----------------------------
EXTENDS RuntimeMixer

CONSTANTS console, other

\* One preset turns a channel off, the other does so by soloing its neighbour.
MCPresets ==
    {[muted |-> {0}, soloed |-> {}], [muted |-> {}, soloed |-> {1}]}
=============================================================================
