----------------------------- MODULE MCGPGProxy -----------------------------
EXTENDS GPGProxy
=============================================================================
