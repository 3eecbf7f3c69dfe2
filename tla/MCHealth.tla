------------------------------ MODULE MCHealth ------------------------------
EXTENDS Health
=============================================================================
