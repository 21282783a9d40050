---------------------------- MODULE MCFolderTree ----------------------------
EXTENDS FolderTree

\* A directory in which new ones are made.
MCDirs0 == {<<>>, <<"a">>}

MCPaths == MCDirs0 \cup {<<"a", "n">>}
=============================================================================
