--------------------------- MODULE MCTransferStream ---------------------------
EXTENDS TransferStream
=============================================================================
