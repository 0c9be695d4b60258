--------------------------- MODULE MCFileTransfer ---------------------------
EXTENDS FileTransfer

\* Two files sent by two workers: one of two chunks, one of zero bytes.
TwoFiles == <<2, 0>>
\* Two files of zero bytes.
TwoEmptyFiles == <<0, 0>>
\* One file of two chunks, sent by a single worker.
OneFile == <<2>>
=============================================================================
