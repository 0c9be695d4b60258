------------------------- MODULE MCSessionHandshake -------------------------
EXTENDS SessionHandshake
=============================================================================
