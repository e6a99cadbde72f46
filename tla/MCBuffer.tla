------------------------------ MODULE MCBuffer ------------------------------
EXTENDS Buffer
=============================================================================
