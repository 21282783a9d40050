--------------------------- MODULE MCUploadQueue ---------------------------
EXTENDS UploadQueue

CONSTANTS d1, d2

MCDirs == {d1, d2}
=============================================================================
