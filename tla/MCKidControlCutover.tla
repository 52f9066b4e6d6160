------------------------- MODULE MCKidControlCutover -------------------------
EXTENDS KidControlCutover

CONSTANTS d1, d2, p1, p2

\* Each device has a profile of its own.
MCProfileOf == [d \in {d1, d2} |-> IF d = d1 THEN p1 ELSE p2]
=============================================================================
