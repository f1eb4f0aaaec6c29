----------------------------- MODULE MCNatChannel -----------------------------
(* Model values for NatChannel.                                            *)
EXTENDS NatChannel, TLC

CONSTANTS c1, c2, s1, s2

SmallQueues == UNION {Injection(1 .. n, Tokens) : n \in 0 .. 3}

(* Only is the filter of a sequence by a set.                              *)
ASSUME OnlyAssumption ==
  \A q \in SmallQueues, S \in SUBSET Tokens :
    Only(q, S) = SelectSeq(q, LAMBDA token : token \in S)

Symmetry == Permutations({s1, s2})
=============================================================================
