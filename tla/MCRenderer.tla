----------------------------- MODULE MCRenderer -----------------------------
EXTENDS Renderer
=============================================================================
