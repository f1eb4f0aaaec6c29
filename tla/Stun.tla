---------------------------------- MODULE Stun ----------------------------------
(***************************************************************************)
(* stun_test_nat: two rounds, each with a socket of its own, ask every     *)
(* STUN server which public address the NAT gave the socket; a server that *)
(* names an alternative address is asked a second time from there.  More   *)
(* than one public address in a round makes the NAT symmetric.             *)
(*                                                                         *)
(* The network answers a request once or never, and possibly late.  An     *)
(* answer carries no transaction id that anybody checks.  connect() drops  *)
(* what arrives from other addresses from then on, not what is already in  *)
(* the receive buffer: a late answer may be taken for the next server's.   *)
(***************************************************************************)
EXTENDS Integers, Sequences, FiniteSets, FiniteSetsExt

CONSTANTS
  NumServers,   \* length of stun_servers
  Rounds,       \* 2
  Tries,        \* 2
  Addrs,        \* addresses a server may see: [ip, port]
  V6,           \* those that are not IPv4
  None

Ports == 0 .. 65535

ASSUME StunAssumption ==
  /\ {NumServers, Rounds, Tries} \subseteq Nat \ {0}
  /\ \A a \in Addrs : a.port \in Ports
  /\ V6 \subseteq Addrs
  /\ None \notin Addrs

VARIABLES
  at,          \* control point
  round,       \* rounds of stun_test_nat begun
  nat,         \* the address the NAT gives the socket, by destination
  server,      \* servers of this round already begun
  dest,        \* destination the socket is connected to
  test,        \* 1 or 2: which call of test_nat_
  tries,       \* requests test_nat_ has sent
  unanswered,  \* requests to dest that may still be answered
  inbox,       \* receive buffer of the socket
  mapped1,     \* mapped_addr1
  pub_addrs,   \* addresses found in this round
  told,        \* (ghost) IPv4 addresses servers have told in this round
  result       \* (nat_type, hash_set, port_range) of stun_test_nat

net  == <<nat, unanswered, inbox>>
loop == <<round, server>>
call == <<dest, test, tries, mapped1>>
vars == <<at, loop, net, call, pub_addrs, told, result>>

Servers == 1 .. NumServers
Dests   == Servers \X {1, 2}     \* a server and its alternative address
Replies == [mapped : Addrs \cup {None}, changed : Servers \cup {None}]

TypeOK ==
  /\ at \in {"bind", "next", "send", "recv", "change", "done"}
  /\ round \in 0 .. Rounds
  /\ nat \in [Dests -> Addrs] \cup {None}
  /\ server \in 0 .. NumServers
  /\ dest \in Dests \cup {None}
  /\ test \in {1, 2}
  /\ tries \in 0 .. Tries
  /\ unanswered \in 0 .. Tries
  /\ inbox \in Seq(Replies)
  /\ mapped1 \in Addrs \cup {None}
  /\ pub_addrs \subseteq Addrs
  /\ told \subseteq Addrs \ V6
  /\ result \in [type : {"Cone", "Symmetric"}, ips : SUBSET {a.ip : a \in Addrs},
                 range : Ports]

Init ==
  /\ at = "bind"
  /\ round = 0
  /\ nat = None
  /\ server = 0
  /\ dest = None
  /\ test = 1
  /\ tries = 0
  /\ unanswered = 0
  /\ inbox = <<>>
  /\ mapped1 = None
  /\ pub_addrs = {}
  /\ told = {}
  /\ result = [type |-> "Cone", ips |-> {}, range |-> 0]

-----------------------------------------------------------------------------
(* stun_test_nat and stun_test_nat0 *)

Ipv4(a) == {a} \ V6

Spread(addrs) == IF addrs = {} THEN 0
                 ELSE Max({a.port : a \in addrs}) - Min({a.port : a \in addrs})

(* Every address counts for the type, IPv4 ones for the rest.              *)
Merge(r, addrs) ==
  [type  |-> IF Cardinality(addrs) > 1 THEN "Symmetric" ELSE r.type,
   ips   |-> r.ips \cup {a.ip : a \in addrs \ V6},
   range |-> Max({r.range, Spread(addrs \ V6)})]

(* Mutation: pub_addrs outlives the socket of its round.                   *)
BindKeepsAddresses ==
  /\ at = "bind"
  /\ round < Rounds
  /\ round' = round + 1
  /\ nat' \in [Dests -> Addrs]
  /\ server' = 0
  /\ inbox' = <<>>
  /\ unanswered' = 0
  /\ told' = {}
  /\ at' = "next"
  /\ UNCHANGED <<call, pub_addrs, result>>

(* The socket of a round, and with it the mappings the NAT will make.      *)
Bind ==
  /\ at = "bind"
  /\ round < Rounds
  /\ round' = round + 1
  /\ nat' \in [Dests -> Addrs]
  /\ server' = 0
  /\ inbox' = <<>>
  /\ unanswered' = 0
  /\ pub_addrs' = {}
  /\ told' = {}
  /\ at' = "next"
  /\ UNCHANGED <<call, result>>

(* An error of a round is logged.                                          *)
BindFails ==
  /\ at = "bind"
  /\ round < Rounds
  /\ round' = round + 1
  /\ UNCHANGED <<at, server, net, call, pub_addrs, told, result>>

RoundEnd ==
  /\ at = "next"
  /\ server = NumServers
  /\ result' = Merge(result, pub_addrs)
  /\ at' = "bind"
  /\ UNCHANGED <<loop, net, call, pub_addrs, told>>

Return ==
  /\ at = "bind"
  /\ round = Rounds
  /\ at' = "done"
  /\ UNCHANGED <<loop, net, call, pub_addrs, told, result>>

-----------------------------------------------------------------------------
(* test_nat *)

Locals(d, n, k, m) == dest' = d /\ test' = n /\ tries' = k /\ mapped1' = m

(* Mutation: the addresses of a server replace those of the earlier ones.  *)
ServerDoneOnly(addrs) ==
  /\ at' = "next"
  /\ pub_addrs' = addrs
  /\ Locals(None, 1, 0, None)

(* This server is over, and these are the addresses it has told.           *)
ServerDone(addrs) ==
  /\ at' = "next"
  /\ pub_addrs' = pub_addrs \cup addrs
  /\ Locals(None, 1, 0, None)

Connect ==
  /\ at = "next"
  /\ server < NumServers
  /\ server' = server + 1
  /\ \/ at' = "send" /\ Locals(<<server', 1>>, 1, 0, None)
     \/ at' = "next" /\ Locals(None, 1, 0, None)     \* `?`: no such host
  /\ unanswered' = 0
  /\ UNCHANGED <<round, nat, inbox, pub_addrs, told, result>>

(* Answers that nobody has taken. *)
Left == {inbox[i].mapped : i \in DOMAIN inbox}

(* connect() to the alternative address, whatever server it belongs to.    *)
Change ==
  /\ at = "change"
  /\ \/ at' = "send" /\ Locals(dest, 2, 0, mapped1) /\ UNCHANGED pub_addrs
     \/ ServerDone(Ipv4(mapped1))
  /\ unanswered' = 0
  /\ told' = told \ Left
  /\ UNCHANGED <<loop, nat, inbox, result>>

(* Mutation: the second address is asked for an alternative one, too.      *)
MappedAgain(m, changed) ==
  IF changed = None
  THEN ServerDone(Ipv4(m))
  ELSE /\ at' = "change"
       /\ Locals(<<changed, 2>>, test, 0, m)
       /\ UNCHANGED pub_addrs

(* The end of test_nat_, with an answer and without.                       *)
Mapped(m, changed) ==
  IF test = 2
  THEN ServerDone(Ipv4(mapped1) \cup (IF m \in V6 THEN {} ELSE {mapped1}))
  ELSE IF changed = None
  THEN ServerDone(Ipv4(m))
  ELSE /\ at' = "change"
       /\ Locals(<<changed, 2>>, 1, 0, m)
       /\ UNCHANGED pub_addrs

Failed == ServerDone(IF test = 2 THEN Ipv4(mapped1) ELSE {})

-----------------------------------------------------------------------------
(* test_nat_ *)

Send ==
  /\ at = "send"
  /\ \/ /\ at' = "recv"
        /\ tries' = tries + 1
        /\ unanswered' = unanswered + 1
        /\ UNCHANGED <<dest, test, mapped1, pub_addrs>>
     \/ Failed /\ UNCHANGED unanswered
  /\ UNCHANGED <<loop, nat, inbox, told, result>>

(* Mutation: for _ in 0..=2.                                               *)
NextTryOnceMore ==
  IF tries <= Tries THEN at' = "send" /\ UNCHANGED <<call, pub_addrs>> ELSE Failed

NextTry ==
  IF tries < Tries THEN at' = "send" /\ UNCHANGED <<call, pub_addrs>> ELSE Failed

Recv ==
  LET reply == Head(inbox) IN
  /\ at = "recv"
  /\ inbox # <<>>
  /\ inbox' = Tail(inbox)
  /\ IF reply.mapped = None THEN NextTry ELSE Mapped(reply.mapped, reply.changed)
  /\ UNCHANGED <<loop, nat, unanswered, told, result>>

(* Mutation: the socket has no read timeout.                               *)
TimeoutNever == FALSE /\ UNCHANGED vars

Timeout ==
  /\ at = "recv"
  /\ inbox = <<>>
  /\ NextTry
  /\ UNCHANGED <<loop, net, told, result>>

-----------------------------------------------------------------------------
(* A server answers, with or without what the request asked for.           *)
Reply ==
  /\ dest # None
  /\ at \in {"send", "recv"}
  /\ unanswered > 0
  /\ unanswered' = unanswered - 1
  /\ \E m \in {nat[dest], None}, c \in {dest[1], None} :
       /\ inbox' = Append(inbox, [mapped |-> m, changed |-> c])
       /\ told' = told \cup (IF dest[2] = 1 THEN {m} \ (V6 \cup {None}) ELSE {})
  /\ UNCHANGED <<at, loop, nat, call, pub_addrs, result>>

CodeStep == \/ Bind \/ BindFails \/ RoundEnd \/ Return
            \/ Connect \/ Change \/ Send \/ Recv \/ Timeout

Next == CodeStep \/ Reply

Spec == Init /\ [][Next]_vars

(* The calling thread runs; nobody has to answer.                          *)
FairSpec == Spec /\ WF_vars(CodeStep)

-----------------------------------------------------------------------------
(* A NAT that gives a socket one address, whoever it sends to, is never    *)
(* called symmetric: neither two sockets, nor a late answer, nor an IPv6   *)
(* address makes it one.                                                   *)
ConeIsCone ==
  [][result.type = "Cone" /\ result'.type = "Symmetric" =>
       \E d, e \in Dests : nat[d] # nat[e]]_vars

(* What servers tell of their own accord is in the answer: two different   *)
(* addresses make the NAT symmetric, their spread is in the range.  Only   *)
(* an answer that came too late may be missing: one that nobody has taken  *)
(* when the round ends, or the socket turns to the alternative address.    *)
ToldIsAnswered ==
  [][at = "next" /\ at' = "bind" =>
       LET heard == told \ Left IN
       /\ Cardinality(heard) > 1 => result'.type = "Symmetric"
       /\ {a.ip : a \in heard} \subseteq result'.ips
       /\ Spread(heard) <= result'.range]_vars

(* The test ends, though no server ever answers or all answer too late.    *)
TestEnds == <>(at = "done")

(* What is left to do: two steps for each request still to be sent, and    *)
(* for the first address of a server those of the second.                  *)
CallLeft == 2 * (Tries - tries) + (IF at = "recv" THEN 1 ELSE 0)

ServerLeft ==
  CASE at = "next"   -> 0
    [] at = "change" -> 2 * Tries + 1
    [] OTHER         -> CallLeft + (IF test = 1 THEN 2 * Tries + 1 ELSE 0)

PerServer == 4 * Tries + 2
PerRound  == NumServers * PerServer + 2

RoundLeft ==
  CASE at = "done" -> 0
    [] at = "bind" -> 1
    [] OTHER       -> 2 + (NumServers - server) * PerServer + ServerLeft

Work == (Rounds - round) * PerRound + RoundLeft

(* Answers, late ones and those that name another server included, never   *)
(* send the test back: every step of the code leaves less to do, so that   *)
(* stun_test_nat makes at most Rounds * PerRound + 1 of them.              *)
TestShrinks == [][CodeStep => 0 <= Work' /\ Work' < Work]_vars

(* channel/mod.rs: "detect the local NAT type with the STUN servers".  An  *)
(* address seen from a server's alternative address counts.                *)
SecondAddressCounts ==
  [][at = "recv" /\ test = 2 /\ at' = "next" /\ inbox' # inbox
       /\ Head(inbox).mapped \in Addrs \ V6 =>
         Head(inbox).mapped \in pub_addrs']_vars
=============================================================================
