------------------------- MODULE MCResourceManager -------------------------
EXTENDS ResourceManager

CONSTANTS c1, c2, p1, p2

TheClients == {c1, c2}
ThePaths == {p1, p2}
=============================================================================
