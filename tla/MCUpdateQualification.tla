----------------------- MODULE MCUpdateQualification -----------------------
EXTENDS UpdateQualification

CONSTANTS r0, r1, k0, k1
=============================================================================
