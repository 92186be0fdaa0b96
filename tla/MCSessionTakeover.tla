------------------------- MODULE MCSessionTakeover -------------------------
EXTENDS SessionTakeover, TLC
=============================================================================
