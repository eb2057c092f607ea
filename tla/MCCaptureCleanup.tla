-------------------------- MODULE MCCaptureCleanup --------------------------
EXTENDS CaptureCleanup

CONSTANTS p1, p2

=============================================================================
