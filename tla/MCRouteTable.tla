---------------------------- MODULE MCRouteTable ----------------------------
(* Model values for RouteTable, and a check of its list operator.          *)
EXTENDS RouteTable, TLC

CONSTANTS t1, t2, t3, i1, i2, k1, k2, e1, e2, e3, e4

SmallLists == UNION {Injection(1 .. n, {i1, i2}) : n \in 0 .. 2}

(* On a list that holds a peer at most once, Without is Vec::retain.       *)
ASSUME RetainAssumption ==
  \A s \in SmallLists : \A i \in {i1, i2} :
    Without(s, i) = SelectSeq(s, LAMBDA v : v # i)

Symmetry ==
  Permutations({t1, t2, t3}) \cup Permutations({i1, i2})
    \cup Permutations({k1, k2}) \cup Permutations({e1, e2, e3, e4})
=============================================================================
