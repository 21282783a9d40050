------------------------- MODULE MCPackageDownload -------------------------
EXTENDS PackageDownload

\* A folder with the file 1, the directory 2 (a file, a directory with an empty
\* file, a file), the empty directory 3 and the directory 4, which has the files
\* "a" and "a ".
MCChildren == (<<2>> :> <<<<2, 1>>, <<2, 2>>, <<2, 3>>>>) @@ (<<2, 2>> :> <<<<2, 2, 1>>>>)
              @@ (<<3>> :> <<>>) @@ (<<4>> :> <<<<4, 1>>, <<4, 2>>>>)
MCChunks   == (<<1>> :> 2) @@ (<<2, 1>> :> 1) @@ (<<2, 2, 1>> :> 0) @@ (<<2, 3>> :> 1)
              @@ (<<4, 1>> :> 1) @@ (<<4, 2>> :> 1)
MCTrimTo   == (<<4, 2>> :> <<4, 1>>) @@ (<<2>> :> <<1>>)

\* Files before and after directories, one directory, nothing but an empty one,
\* and names that collide (the last one only in its own archive: there the
\* entries of 4 are called 1 and 2).
MCSelections == {<<<<1>>, <<2>>, <<3>>>>, <<<<2>>>>, <<<<1>>>>, <<<<3>>>>,
                 <<<<1>>, <<4>>>>, <<<<4>>>>}
=============================================================================
