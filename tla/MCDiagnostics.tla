---------------------------- MODULE MCDiagnostics ----------------------------
(* Diagnostics for TLC: two targets, one of which is renamed.              *)
EXTENDS Diagnostics

CONSTANTS t1, t2, n1, n2

Req(t, names, latency, failed) ==
    [target |-> t, names |-> names, latency |-> latency, failed |-> failed]

SomeRequests == {Req(t1, n1, 1, FALSE), Req(t1, n2, 2, TRUE), Req(t2, n1, 0, TRUE)}

=============================================================================
