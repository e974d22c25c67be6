--------------------------- MODULE MCTransferWindow ---------------------------
EXTENDS TransferWindow
=============================================================================
