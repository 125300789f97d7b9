----------------------------- MODULE MCStateFiles -----------------------------
EXTENDS StateFiles
=============================================================================
