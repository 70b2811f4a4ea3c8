--------------------------- MODULE MC_ReceiptStore ---------------------------
EXTENDS ReceiptStore
=============================================================================
