------------------------------- MODULE Registry -------------------------------
(***************************************************************************)
(* What the routing table promises its users: a map from peers to routes   *)
(* and, for every key, the peers that use it in the order they joined.     *)
(* add_route, remove_route and update_route each take effect in one step,  *)
(* the step that changes the route of the peer.                            *)
(***************************************************************************)
EXTENDS PeerList

CONSTANTS IDs, Keys, Metrics, None

Routes == [key : Keys, metric : Metrics]

VARIABLES
  route,   \* [IDs -> Routes \cup {None}]
  users    \* [Keys -> Seq(IDs)]

vars == <<route, users>>

Init ==
  /\ route = [i \in IDs |-> None]
  /\ users = [k \in Keys |-> <<>>]

Add(i, r) ==
  /\ route' = [route EXCEPT ![i] = r]
  /\ users' = [k \in Keys |-> IF k = r.key THEN With(users[k], i)
                              ELSE Without(users[k], i)]

Remove(i) ==
  /\ route' = [route EXCEPT ![i] = None]
  /\ users' = [k \in Keys |-> Without(users[k], i)]

Update(i, m) ==
  /\ route[i] # None
  /\ route' = [route EXCEPT ![i].metric = m]
  /\ UNCHANGED users

Next ==
  \E i \in IDs :
    \/ \E r \in Routes : Add(i, r)
    \/ Remove(i)
    \/ \E m \in Metrics : Update(i, m)

Spec == Init /\ [][Next]_vars
=============================================================================
