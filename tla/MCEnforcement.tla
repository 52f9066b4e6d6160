--------------------------- MODULE MCEnforcement ---------------------------
EXTENDS Enforcement

CONSTANTS s1, s2

Builtin == <<s1, s2>>
=============================================================================
