--------------------------- MODULE MCFileLoading ---------------------------
EXTENDS FileLoading

CONSTANTS root, sub, login

MCPaths  == {root, sub}
MCParent == [p \in {root, sub} |-> root]
=============================================================================
