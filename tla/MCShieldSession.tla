--------------------------- MODULE MCShieldSession ---------------------------
\* Instances of ShieldSession for TLC: three calls, told apart by identity only.
EXTENDS ShieldSession

CONSTANTS c1, c2, c3

ThreeCalls == {c1, c2, c3}
=============================================================================
