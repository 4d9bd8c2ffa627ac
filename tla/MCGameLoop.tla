----------------------------- MODULE MCGameLoop -----------------------------
EXTENDS GameLoop
=============================================================================
