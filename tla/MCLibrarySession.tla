--------------------------- MODULE MCLibrarySession ---------------------------
EXTENDS LibrarySession

CONSTANTS songs, tune

MCPaths == {songs}
MCLocators == {tune}
MCFold == [l \in MCLocators |-> l]

\* A record that is no projection.
MCAbsent == [none |-> TRUE]
=============================================================================
