----------------------------- MODULE MCRecords ------------------------------
EXTENDS Records
=============================================================================
