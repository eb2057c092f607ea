------------------------ MODULE MCProjectConfigCache ------------------------
EXTENDS ProjectConfigCache

CONSTANTS p1, r1, r2, a1

=============================================================================
