--------------------------- MODULE MCCaptureExport ---------------------------
EXTENDS CaptureExport

CONSTANTS p1, p2, c1

=============================================================================
