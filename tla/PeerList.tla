------------------------------- MODULE PeerList -------------------------------
(***************************************************************************)
(* The Vec<ID> of a route: the peers that use it, each at most once, in    *)
(* the order they joined.  Nothing here is recursive, so that theorems can *)
(* speak of it.                                                            *)
(***************************************************************************)
EXTENDS Naturals, Sequences, Functions

(* ids.retain(|v| v != id) on a list that holds each peer at most once.    *)
Without(s, i) ==
  IF \E j \in DOMAIN s : s[j] = i
  THEN LET p == CHOOSE j \in DOMAIN s : s[j] = i
       IN  [j \in 1 .. (Len(s) - 1) |-> IF j < p THEN s[j] ELSE s[j + 1]]
  ELSE s

(* Mutations: push without contains; the newest peer in front.             *)
WithAgain(s, i) == Append(s, i)

WithInFront(s, i) == IF i \in Range(s) THEN s ELSE <<i>> \o s

(* if !list.contains(&id) { list.push(id) } *)
With(s, i) == IF i \in Range(s) THEN s ELSE Append(s, i)
=============================================================================
