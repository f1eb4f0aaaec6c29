--------------------------------- MODULE MCStun ---------------------------------
(* Public addresses for Stun: two ports of one address, and an IPv6 one.   *)
EXTENDS Stun

CONSTANTS four, six

SomeAddrs == {[ip |-> four, port |-> 1], [ip |-> four, port |-> 3],
              [ip |-> six, port |-> 1]}

SomeV6 == {[ip |-> six, port |-> 1]}
=============================================================================
