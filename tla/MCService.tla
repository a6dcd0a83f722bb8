----------------------------- MODULE MCService -----------------------------
EXTENDS Service
CONSTANTS A, B, C
=============================================================================
