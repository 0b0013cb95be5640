--------------------------- MODULE MCLibraryService ---------------------------
EXTENDS LibraryService, TLC

CONSTANTS songs, disc, upper, lower, other

\* A directory, and one inside it.
MCPaths == {songs, disc}
MCNested == {<<songs, disc>>}

\* One name in two cases, and another.
MCLocators == {upper, lower, other}
MCFold == [l \in MCLocators |-> IF l = upper THEN lower ELSE l]

\* A record that is no projection.
MCAbsent == [none |-> TRUE]
=============================================================================
