---------------------------- MODULE MCFolderView ----------------------------
EXTENDS FolderView

\* Two directories that have names in common; one is in the other.
MCDirs == {"top", "sub"}

MCNames == {1, 2, 3, 4}

MCTarget == [d \in MCDirs |-> [n \in MCNames |-> IF d = "top" /\ n = 1 THEN "sub" ELSE NoDir]]

\* One of them has one page or two, as other clients come and go.
MCContents == [d \in MCDirs |-> IF d = "top" THEN {{1, 2, 3, 4}, {1, 2}} ELSE {{2}}]

MCFilters == {{1, 3}}
=============================================================================
