--------------------------- MODULE MCFileTransfer ---------------------------
EXTENDS FileTransfer, TLC

\* Requests of a direction are interchangeable (safety only).
Interchangeable == Permutations(Down)
=============================================================================
