------------------------------- MODULE MCPunch -------------------------------
(* Small ports and small limits for Punch.                                 *)
EXTENDS Punch

CONSTANTS i1, i2

SmallK1 == [b \in BOOLEAN |-> IF b THEN 3 ELSE 2]
SmallK2 == [b \in BOOLEAN |-> IF b THEN 4 ELSE 2]

ToCone(i, n) ==
  [peer |-> i, ips |-> n, public_port |-> 1, public_port_range |-> 0,
   nat_type |-> "Cone"]

ToSymmetric(i, n, port, range) ==
  [peer |-> i, ips |-> n, public_port |-> port, public_port_range |-> range,
   nat_type |-> "Symmetric"]

(* A cone peer; symmetric ones with a narrow range and two addresses, with *)
(* a wide range that both ends of the ports cut off, and without a port.   *)
SomeRequests ==
  {ToCone(i1, 1), ToSymmetric(i1, 2, 7, 1), ToSymmetric(i2, 1, 5, 9),
   ToSymmetric(i1, 1, 0, 0)}
=============================================================================
