------------------------------ MODULE MCRouting ------------------------------
(***************************************************************************)
(* Instances of Routing for TLC: of all the tables an earlier process may  *)
(* have left, a provider and nothing else, and two providers with a route  *)
(* and no targets or one target each, with every upstream up or none.      *)
(***************************************************************************)
EXTENDS Routing

CONSTANTS m1, u1, u2, c1, r1

MCInit ==
    \E n \in 1 .. 2 : \E m \in {0, 2 * (n - 1)} :
        /\ providers = [id \in 1 .. n |-> [url |-> <<u1, u2>>[id], enabled |-> TRUE,
                                          deleted |-> FALSE, status |-> "healthy"]]
        /\ routes = [id \in 1 .. n - 1 |-> [model |-> m1, enabled |-> TRUE, deleted |-> FALSE]]
        /\ targets = [id \in 1 .. m |-> [route |-> 1, provider |-> id, weight |-> id - 1,
                                         enabled |-> TRUE, deleted |-> FALSE]]
        /\ up \in {{}, Url}
        /\ Init

MCSpec == MCInit /\ [][Next]_vars /\ Fairness

=============================================================================
