------------------------------ MODULE StunProofs ------------------------------
(***************************************************************************)
(* Proofs about Stun, for any number of servers, rounds and addresses: a   *)
(* cone NAT is never called symmetric, by StunInv, and what servers tell   *)
(* in time is in the answer, by AnswerInv.                                 *)
(***************************************************************************)
EXTENDS Stun, FiniteSetTheorems, WellFoundedInduction, TLAPS

(* The addresses the NAT has given the socket of this round.               *)
Given == {nat[d] : d \in Dests}

Answers == [mapped : Given \cup {None}, changed : Servers \cup {None}]

(* An address that is anywhere on its way to pub_addrs is one of this      *)
(* round's socket: neither a late answer nor a local of the round before   *)
(* brings another.                                                         *)
StunInv ==
  /\ server \in 0 .. NumServers
  /\ at \in {"send", "recv", "change"} => dest \in Dests
  /\ at = "change" \/ test = 2 => mapped1 # None
  /\ at \in {"bind", "next", "done"} => mapped1 = None /\ test = 1
  /\ inbox \in Seq(Answers)
  /\ mapped1 \in Given \cup {None}
  /\ pub_addrs \subseteq Given

-----------------------------------------------------------------------------
LEMMA InitStun == Init => StunInv
BY StunAssumption DEF Init, StunInv

LEMMA NatKept ==
  ASSUME UNCHANGED nat
  PROVE  Given' = Given /\ Answers' = Answers
BY DEF Given, Answers

(* How the calls of one server end, whatever they have told.               *)
LEMMA ServerDoneStep ==
  ASSUME StunInv, UNCHANGED <<nat, server>>, inbox' \in Seq(Answers),
         NEW addrs \in SUBSET Given, ServerDone(addrs)
  PROVE  StunInv'
BY NatKept DEF StunInv, ServerDone, Locals

LEMMA NextTryStep ==
  ASSUME StunInv, at = "recv", UNCHANGED <<nat, server>>, inbox' \in Seq(Answers),
         NextTry
  PROVE  StunInv'
<1>1. CASE tries < Tries
  BY <1>1, NatKept DEF StunInv, NextTry, call
<1>2. CASE ~(tries < Tries)
  <2>1. (IF test = 2 THEN Ipv4(mapped1) ELSE {}) \in SUBSET Given
    BY DEF StunInv, Ipv4
  <2>2. QED BY <1>2, <2>1, ServerDoneStep DEF NextTry, Failed
<1>3. QED BY <1>1, <1>2

LEMMA MappedStep ==
  ASSUME StunInv, UNCHANGED <<nat, server>>, inbox' \in Seq(Answers),
         NEW m \in Given, m # None, NEW changed \in Servers \cup {None},
         Mapped(m, changed)
  PROVE  StunInv'
<1>1. CASE test = 2
  <2>1. Ipv4(mapped1) \cup (IF m \in V6 THEN {} ELSE {mapped1}) \in SUBSET Given
    BY <1>1 DEF StunInv, Ipv4
  <2>2. QED BY <1>1, <2>1, ServerDoneStep DEF Mapped
<1>2. CASE test # 2 /\ changed = None
  <2>1. Ipv4(m) \in SUBSET Given
    BY DEF Ipv4
  <2>2. QED BY <1>2, <2>1, ServerDoneStep DEF Mapped
<1>3. CASE test # 2 /\ changed # None
  BY <1>3, NatKept DEF Mapped, Locals, StunInv, Dests
<1>4. QED BY <1>1, <1>2, <1>3

LEMMA NextStun == StunInv /\ [Next]_vars => StunInv'
<1> SUFFICES ASSUME StunInv, [Next]_vars PROVE StunInv'
  OBVIOUS
<1>1. CASE Bind
  <2>1. inbox' = <<>> /\ pub_addrs' = {} /\ at' = "next" /\ server' = 0
        /\ mapped1' = None /\ test' = 1
    BY <1>1 DEF Bind, call, StunInv
  <2>2. QED BY <2>1, StunAssumption DEF StunInv
<1>2. CASE BindFails \/ RoundEnd \/ Return
  BY <1>2, NatKept DEF BindFails, RoundEnd, Return, StunInv, loop, net, call
<1>3. CASE Connect
  <2>1. server' \in Servers /\ server' \in 0 .. NumServers
    BY <1>3, StunAssumption DEF Connect, StunInv, Servers
  <2>2. <<server', 1>> \in Dests
    BY <2>1 DEF Dests
  <2>3. QED BY <1>3, <2>1, <2>2, NatKept DEF Connect, Locals, StunInv
<1>4. CASE Change
  <2>1. UNCHANGED <<nat, server, inbox>> /\ at = "change"
    BY <1>4 DEF Change, loop
  <2>2. CASE ServerDone(Ipv4(mapped1))
    <3>1. Ipv4(mapped1) \in SUBSET Given
      BY <2>1 DEF StunInv, Ipv4
    <3>2. QED BY <2>1, <2>2, <3>1, ServerDoneStep DEF StunInv
  <2>3. CASE at' = "send" /\ Locals(dest, 2, 0, mapped1) /\ UNCHANGED pub_addrs
    BY <2>1, <2>3, NatKept DEF Locals, StunInv
  <2>4. QED BY <1>4, <2>2, <2>3 DEF Change
<1>5. CASE Send
  <2>1. UNCHANGED <<nat, server, inbox>> /\ at = "send"
    BY <1>5 DEF Send, loop
  <2>2. CASE Failed
    <3>1. (IF test = 2 THEN Ipv4(mapped1) ELSE {}) \in SUBSET Given
      BY DEF StunInv, Ipv4
    <3>2. QED BY <2>1, <2>2, <3>1, ServerDoneStep DEF StunInv, Failed
  <2>3. CASE at' = "recv" /\ UNCHANGED <<dest, test, mapped1, pub_addrs>>
    BY <2>1, <2>3, NatKept DEF StunInv
  <2>4. QED BY <1>5, <2>2, <2>3 DEF Send
<1>6. CASE Recv
  <2>1. /\ UNCHANGED <<nat, server>> /\ at = "recv"
        /\ inbox # <<>> /\ inbox' = Tail(inbox)
    BY <1>6 DEF Recv, loop
  <2>2. inbox' \in Seq(Answers) /\ Head(inbox) \in Answers
    BY <2>1 DEF StunInv
  <2>3. CASE Head(inbox).mapped = None
    BY <1>6, <2>1, <2>2, <2>3, NextTryStep DEF Recv
  <2>4. CASE Head(inbox).mapped # None
    <3>1. /\ Head(inbox).mapped \in Given
          /\ Head(inbox).changed \in Servers \cup {None}
      BY <2>2, <2>4 DEF Answers
    <3>2. QED BY <1>6, <2>1, <2>2, <2>4, <3>1, MappedStep DEF Recv
  <2>5. QED BY <2>3, <2>4
<1>7. CASE Timeout
  BY <1>7, NextTryStep DEF Timeout, loop, net, StunInv
<1>8. CASE Reply
  <2>1. /\ UNCHANGED <<nat, at, server, dest, test, mapped1, pub_addrs>>
        /\ dest \in Dests
    BY <1>8 DEF Reply, loop, call, StunInv
  <2>2. nat[dest] \in Given /\ dest[1] \in Servers
    BY <2>1 DEF Given, Dests
  <2>3. inbox' \in Seq(Answers)
    <3>1. PICK m \in {nat[dest], None}, c \in {dest[1], None} :
            inbox' = Append(inbox, [mapped |-> m, changed |-> c])
      BY <1>8 DEF Reply
    <3>2. [mapped |-> m, changed |-> c] \in Answers
      BY <2>2 DEF Answers
    <3>3. QED BY <3>1, <3>2 DEF StunInv
  <2>4. QED BY <2>1, <2>3, NatKept DEF StunInv
<1>9. CASE UNCHANGED vars
  BY <1>9, NatKept DEF vars, loop, net, call, StunInv
<1>10. QED
  BY <1>1, <1>2, <1>3, <1>4, <1>5, <1>6, <1>7, <1>8, <1>9 DEF Next, CodeStep

(* Nothing but addresses of the round's socket is ever collected.          *)
THEOREM StunInductive == Spec => []StunInv
BY InitStun, NextStun, PTL DEF Spec

(* A NAT that gives the socket one address is not called symmetric,        *)
(* whatever answers are lost or late.                                      *)
THEOREM ConeIsConeHolds == Spec => ConeIsCone
<1>1. ASSUME StunInv, [Next]_vars,
             result.type = "Cone", result'.type = "Symmetric",
             \A d, e \in Dests : nat[d] = nat[e]
      PROVE  FALSE
  <2>1. result' = Merge(result, pub_addrs)
    BY <1>1 DEF Next, CodeStep, Bind, BindFails, RoundEnd, Return, Connect, Change,
       Send, Recv, Timeout, Reply, vars
  <2>2. Cardinality(pub_addrs) > 1
    BY <1>1, <2>1 DEF Merge
  <2> DEFINE d == <<1, 1>>
  <2>3. d \in Dests
    <3>1. 1 \in Servers
      BY StunAssumption DEF Servers
    <3>2. QED BY <3>1 DEF Dests
  <2> HIDE DEF d
  <2>4. pub_addrs \subseteq {nat[d]}
    BY <1>1, <2>3 DEF StunInv, Given
  <2>5. IsFiniteSet({nat[d]}) /\ Cardinality({nat[d]}) = 1
    BY FS_Singleton
  <2>6. Cardinality(pub_addrs) <= 1 /\ IsFiniteSet(pub_addrs)
    BY <2>4, <2>5, FS_Subset
  <2>7. Cardinality(pub_addrs) \in Nat
    BY <2>6, FS_CardinalityType
  <2>8. QED BY <2>2, <2>6, <2>7
<1>2. StunInv /\ [Next]_vars =>
        [result.type = "Cone" /\ result'.type = "Symmetric" =>
           \E d, e \in Dests : nat[d] # nat[e]]_vars
  BY <1>1
<1>3. QED BY <1>2, StunInductive, PTL DEF Spec, ConeIsCone
-----------------------------------------------------------------------------
(* A set of numbers has a least element, and a bounded one a greatest.     *)
LEMMA LeastExists ==
  ASSUME NEW S \in SUBSET Nat, S # {}
  PROVE  \E x \in S : \A y \in S : x <= y
<1>1. PICK x \in S : \A y \in S : ~(<<y, x>> \in OpToRel(<, Nat))
  BY NatLessThanWellFounded, WFMin
<1>2. \A y \in S : ~(y < x)
  <2>1. \A y \in S : y < x => <<y, x>> \in OpToRel(<, Nat)
    BY DEF OpToRel
  <2>2. QED BY <1>1, <2>1
<1>3. QED BY <1>2

LEMMA Extremes ==
  ASSUME NEW n \in Nat, NEW S \in SUBSET (0 .. n), S # {}
  PROVE  /\ Min(S) \in S /\ \A y \in S : Min(S) <= y
         /\ Max(S) \in S /\ \A y \in S : Max(S) >= y
<1>1. \A y \in S : y \in Nat /\ y <= n
  OBVIOUS
<1>2. S \in SUBSET Nat
  BY <1>1
<1>3. \E x \in S : \A y \in S : x <= y
  BY <1>2, LeastExists
<1>4. \E x \in S : \A y \in S : x >= y
  <2> DEFINE D == {n - y : y \in S}
  <2>1. D \in SUBSET Nat /\ D # {}
    <3>1. \A y \in S : n - y \in Nat
      BY <1>1
    <3>2. QED BY <3>1
  <2>2. \A y \in S : n - y \in D
    OBVIOUS
  <2>3. \A d \in D : \E x \in S : d = n - x
    OBVIOUS
  <2> HIDE DEF D
  <2>4. PICK d \in D : \A e \in D : d <= e
    BY <2>1, LeastExists
  <2>5. PICK x \in S : d = n - x
    BY <2>3
  <2>6. \A y \in S : n - x <= n - y
    BY <2>2, <2>4, <2>5
  <2>7. \A y \in S : x >= y
    BY <1>1, <2>6
  <2>8. QED BY <2>7
<1>5. QED BY <1>3, <1>4 DEF Min, Max

LEMMA PortFacts ==
  /\ \E n \in Nat : Ports = 0 .. n
  /\ 0 \in Ports /\ Ports \subseteq Nat
  /\ \A x, y \in Ports : x <= y => y - x \in Ports
<1> DEFINE top == 65535
<1>1. top \in Nat /\ Ports = 0 .. top
  BY DEF Ports
<1> HIDE DEF top
<1>2. QED BY <1>1

(* The same of a set of ports. *)
LEMMA PortExtremes ==
  ASSUME NEW S \in SUBSET Ports, S # {}
  PROVE  /\ Min(S) \in S /\ \A y \in S : Min(S) <= y
         /\ Max(S) \in S /\ \A y \in S : Max(S) >= y
<1>1. PICK n \in Nat : Ports = 0 .. n
  BY PortFacts
<1>2. S \in SUBSET (0 .. n)
  BY <1>1
<1>3. QED BY <1>2, Extremes

LEMMA SpreadType ==
  ASSUME NEW S \in SUBSET Addrs
  PROVE  /\ Spread(S) \in Ports
         /\ \A T \in SUBSET S : Spread(T) <= Spread(S)
<1> DEFINE P(A) == {a.port : a \in A}
<1>1. \A A \in SUBSET Addrs : P(A) \in SUBSET Ports
  BY StunAssumption
<1>2. \A A \in SUBSET Addrs : A # {} => P(A) # {}
  OBVIOUS
<1>3. \A A \in SUBSET Addrs : Spread(A) = IF A = {} THEN 0 ELSE Max(P(A)) - Min(P(A))
  BY DEF Spread
<1>4. \A T \in SUBSET S : T \in SUBSET Addrs /\ P(T) \subseteq P(S)
  OBVIOUS
<1> HIDE DEF P
<1>5. ASSUME NEW A \in SUBSET Addrs, A # {}
      PROVE  /\ Min(P(A)) \in P(A) /\ \A y \in P(A) : Min(P(A)) <= y
             /\ Max(P(A)) \in P(A) /\ \A y \in P(A) : Max(P(A)) >= y
             /\ Min(P(A)) \in Ports /\ Max(P(A)) \in Ports
  <2> DEFINE Q == P(A)
  <2>1. Q \in SUBSET Ports /\ Q # {}
    BY <1>1, <1>2, <1>5
  <2> HIDE DEF Q
  <2>2. /\ Min(Q) \in Q /\ \A y \in Q : Min(Q) <= y
        /\ Max(Q) \in Q /\ \A y \in Q : Max(Q) >= y
    BY <2>1, PortExtremes
  <2>3. QED BY <2>1, <2>2 DEF Q
<1>6. ASSUME NEW A \in SUBSET Addrs PROVE Spread(A) \in Ports
  <2>1. CASE A = {}
    BY <1>3, <2>1, PortFacts
  <2>2. CASE A # {}
    <3>1. Spread(A) = Max(P(A)) - Min(P(A))
      BY <1>3, <2>2
    <3>2. Min(P(A)) \in Ports /\ Max(P(A)) \in Ports /\ Min(P(A)) <= Max(P(A))
      BY <1>5, <2>2
    <3>3. QED BY <3>1, <3>2, PortFacts
  <2>3. QED BY <2>1, <2>2
<1>7. ASSUME NEW T \in SUBSET S PROVE Spread(T) <= Spread(S)
  <2>1. CASE T = {}
    <3>1. Spread(T) = 0
      BY <1>3, <1>4, <2>1
    <3>2. Spread(S) \in Nat
      BY <1>6, PortFacts
    <3>3. QED BY <3>1, <3>2
  <2>2. CASE T # {}
    <3>1. Spread(S) = Max(P(S)) - Min(P(S)) /\ Spread(T) = Max(P(T)) - Min(P(T))
      BY <1>3, <1>4, <2>2
    <3>2. /\ Max(P(T)) <= Max(P(S)) /\ Min(P(S)) <= Min(P(T))
          /\ {Max(P(T)), Max(P(S)), Min(P(S)), Min(P(T))} \subseteq Nat
      <4>1. S # {} /\ T \in SUBSET Addrs /\ P(T) \subseteq P(S)
        BY <1>4, <2>2
      <4>2. /\ Min(P(S)) \in Ports /\ Max(P(S)) \in Ports
            /\ \A y \in P(S) : Min(P(S)) <= y /\ Max(P(S)) >= y
        BY <1>5, <4>1
      <4>3. /\ Min(P(T)) \in P(T) /\ Max(P(T)) \in P(T)
            /\ Min(P(T)) \in Ports /\ Max(P(T)) \in Ports
        BY <1>5, <2>2, <4>1
      <4>4. /\ Min(P(S)) <= Min(P(T)) /\ Max(P(S)) >= Max(P(T))
        BY <4>1, <4>2, <4>3
      <4>5. {Max(P(T)), Max(P(S)), Min(P(S)), Min(P(T))} \subseteq Nat
        BY <4>2, <4>3, PortFacts
      <4>6. QED BY <4>4, <4>5
    <3>3. QED BY <3>1, <3>2
  <2>3. QED BY <2>1, <2>2
<1>8. QED BY <1>6, <1>7

(* The result is never less than what a round has found. *)
LEMMA MergeType ==
  ASSUME TypeOK
  PROVE  /\ Merge(result, pub_addrs) \in
              [type : {"Cone", "Symmetric"}, ips : SUBSET {a.ip : a \in Addrs},
               range : Ports]
         /\ Spread(pub_addrs \ V6) <= Merge(result, pub_addrs).range
<1> DEFINE S == Spread(pub_addrs \ V6)
<1>1. result.range \in Ports /\ S \in Ports
      /\ result.type \in {"Cone", "Symmetric"}
      /\ result.ips \in SUBSET {a.ip : a \in Addrs} /\ pub_addrs \subseteq Addrs
  BY SpreadType DEF TypeOK
<1> HIDE DEF S
<1>2. Max({result.range, S}) \in {result.range, S} /\ Max({result.range, S}) >= S
  <2>1. {result.range, S} \in SUBSET Ports /\ {result.range, S} # {}
    BY <1>1
  <2>2. QED BY <2>1, PortExtremes
<1>3. S <= Max({result.range, S}) /\ Max({result.range, S}) \in Ports
  BY <1>1, <1>2, PortFacts
<1>4. QED BY <1>1, <1>3 DEF Merge, S

-----------------------------------------------------------------------------
(* The addresses test_nat holds for pub_addrs. *)
Held == IF mapped1 = None THEN {} ELSE Ipv4(mapped1)

(* What servers have told is in the buffer, in mapped_addr1 or in          *)
(* pub_addrs; while an alternative address is asked it is in no buffer.    *)
AnswerInv ==
  /\ TypeOK
  /\ at \in {"next", "send", "recv", "change"} => nat \in [Dests -> Addrs]
  /\ at = "send" => tries < Tries
  /\ at \in {"send", "recv"} => dest \in Dests /\ dest[2] = test /\ unanswered <= tries
  /\ at = "change" => dest \in Dests /\ dest[2] = 2 /\ test = 1
  /\ at \in {"bind", "next", "done"} => test = 1
  /\ (test = 1 /\ at # "change") <=> mapped1 = None
  /\ IsFiniteSet(pub_addrs)
  /\ told \ Left \subseteq pub_addrs \cup Held
  /\ test = 2 => told \subseteq pub_addrs \cup Held

LEMMA InitAnswers == Init => AnswerInv
<1> SUFFICES ASSUME Init PROVE AnswerInv
  OBVIOUS
<1>1. TypeOK
  BY StunAssumption, PortFacts DEF Init, TypeOK
<1>2. IsFiniteSet({})
  BY FS_EmptySet
<1>3. QED BY <1>1, <1>2 DEF Init, AnswerInv, Held

(* How the calls of one server end: what it has told is kept.              *)
LEMMA ServerDoneAnswers ==
  ASSUME AnswerInv, at \in {"send", "recv", "change"},
         UNCHANGED <<round, server, nat, result>>,
         inbox' \in Seq(Replies), unanswered' \in 0 .. Tries,
         NEW addrs \in SUBSET Addrs, IsFiniteSet(addrs), ServerDone(addrs),
         told' \subseteq told, told' \ Left' \subseteq pub_addrs \cup addrs
  PROVE  AnswerInv'
<1>1. pub_addrs' = pub_addrs \cup addrs /\ at' = "next" /\ dest' = None /\ test' = 1
      /\ tries' = 0 /\ mapped1' = None
  BY DEF ServerDone, Locals
<1>2. TypeOK'
  BY <1>1, StunAssumption DEF AnswerInv, TypeOK, Replies
<1>3. IsFiniteSet(pub_addrs')
  BY <1>1, FS_Union DEF AnswerInv
<1>4. QED
  BY <1>1, <1>2, <1>3 DEF AnswerInv, Held

LEMMA Ipv4Finite ==
  ASSUME NEW a \in Addrs
  PROVE  Ipv4(a) \in SUBSET Addrs /\ IsFiniteSet(Ipv4(a))
<1>1. IsFiniteSet({a}) /\ Ipv4(a) \subseteq {a}
  BY FS_Singleton DEF Ipv4
<1>2. QED BY <1>1, FS_Subset

(* The end of test_nat_ without an answer, with what is held already.      *)
LEMMA FailedAnswers ==
  ASSUME AnswerInv, at \in {"send", "recv"},
         UNCHANGED <<round, server, nat, result, told>>,
         inbox' \in Seq(Replies), unanswered' \in 0 .. Tries,
         told \ Left' \subseteq pub_addrs \cup Held, Failed
  PROVE  AnswerInv'
<1> DEFINE addrs == IF test = 2 THEN Ipv4(mapped1) ELSE {}
<1>1. addrs = Held
  BY DEF AnswerInv, TypeOK, Held
<1>2. addrs \in SUBSET Addrs /\ IsFiniteSet(addrs)
  <2>1. CASE test = 2
    <3>1. mapped1 \in Addrs
      BY <2>1 DEF AnswerInv, TypeOK
    <3>2. QED BY <2>1, <3>1, Ipv4Finite
  <2>2. CASE test # 2
    BY <2>2, FS_EmptySet
  <2>3. QED BY <2>1, <2>2
<1>3. ServerDone(addrs)
  BY DEF Failed
<1> HIDE DEF addrs
<1>4. QED BY <1>1, <1>2, <1>3, ServerDoneAnswers

LEMMA NextTryAnswers ==
  ASSUME AnswerInv, at = "recv",
         UNCHANGED <<round, server, nat, result, told, unanswered>>,
         inbox' \in Seq(Replies),
         told \ Left' \subseteq pub_addrs \cup Held, NextTry
  PROVE  AnswerInv'
<1>1. CASE tries < Tries
  <2>1. at' = "send" /\ UNCHANGED <<dest, test, tries, mapped1, pub_addrs>>
    BY <1>1 DEF NextTry, call
  <2>2. TypeOK'
    BY <2>1 DEF AnswerInv, TypeOK, Replies
  <2>3. QED BY <1>1, <2>1, <2>2 DEF AnswerInv, Held
<1>2. CASE ~(tries < Tries)
  <2>1. unanswered' \in 0 .. Tries
    BY DEF AnswerInv, TypeOK
  <2>2. QED BY <1>2, <2>1, FailedAnswers DEF NextTry
<1>3. QED BY <1>1, <1>2

LEMMA MappedAnswers ==
  ASSUME AnswerInv, at = "recv",
         UNCHANGED <<round, server, nat, result, told, unanswered>>,
         inbox' \in Seq(Replies),
         NEW m \in Addrs, NEW changed \in Servers \cup {None},
         told \ Left' \subseteq pub_addrs \cup Held \cup {m},
         Mapped(m, changed)
  PROVE  AnswerInv'
<1>1. told \subseteq Addrs \ V6 /\ unanswered' \in 0 .. Tries /\ m # None
  BY StunAssumption DEF AnswerInv, TypeOK
<1>2. CASE test = 2
  <2> DEFINE addrs == Ipv4(mapped1) \cup (IF m \in V6 THEN {} ELSE {mapped1})
  <2>1. mapped1 \in Addrs /\ Held = Ipv4(mapped1) /\ told \subseteq pub_addrs \cup Held
    BY <1>2 DEF AnswerInv, TypeOK, Held
  <2>2. addrs \in SUBSET Addrs
    BY <2>1, Ipv4Finite
  <2>3. IsFiniteSet(addrs)
    <3>1. IsFiniteSet({mapped1}) /\ addrs \subseteq {mapped1}
      BY FS_Singleton DEF Ipv4
    <3>2. QED BY <3>1, FS_Subset
  <2>4. ServerDone(addrs) /\ Held \subseteq addrs
    BY <1>2, <2>1 DEF Mapped
  <2> HIDE DEF addrs
  <2>5. told' \subseteq told /\ told' \ Left' \subseteq pub_addrs \cup addrs
    BY <2>1, <2>4
  <2>6. QED BY <1>1, <2>2, <2>3, <2>4, <2>5, ServerDoneAnswers
<1>3. CASE test # 2
  <2>1. Held = {} /\ told \ Left' \subseteq pub_addrs \cup Ipv4(m)
    BY <1>1, <1>3 DEF AnswerInv, TypeOK, Held, Ipv4
  <2>2. CASE changed = None
    <3>1. ServerDone(Ipv4(m))
      BY <1>3, <2>2 DEF Mapped
    <3>2. Ipv4(m) \in SUBSET Addrs /\ IsFiniteSet(Ipv4(m))
      BY Ipv4Finite
    <3>3. QED BY <1>1, <2>1, <3>1, <3>2, ServerDoneAnswers
  <2>3. CASE changed # None
    <3>1. /\ at' = "change" /\ dest' = <<changed, 2>> /\ test' = 1 /\ tries' = 0
          /\ mapped1' = m /\ UNCHANGED pub_addrs
      BY <1>3, <2>3 DEF Mapped, Locals
    <3>2. <<changed, 2>> \in Dests
      BY <2>3 DEF Dests
    <3>3. TypeOK'
      BY <1>1, <3>1, <3>2, StunAssumption DEF AnswerInv, TypeOK, Replies
    <3>4. Held' = Ipv4(m)
      BY <1>1, <3>1 DEF Held, Ipv4
    <3>5. QED BY <1>1, <2>1, <3>1, <3>2, <3>3, <3>4 DEF AnswerInv
  <2>4. QED BY <2>2, <2>3
<1>4. QED BY <1>2, <1>3

LEMMA NextAnswers == AnswerInv /\ StunInv /\ [Next]_vars => AnswerInv'
<1> SUFFICES ASSUME AnswerInv, StunInv, [Next]_vars PROVE AnswerInv'
  OBVIOUS
<1>1. CASE Bind
  <2>1. /\ round' = round + 1 /\ round < Rounds /\ nat' \in [Dests -> Addrs]
        /\ server' = 0 /\ inbox' = <<>> /\ unanswered' = 0 /\ pub_addrs' = {}
        /\ told' = {} /\ at' = "next" /\ at = "bind"
        /\ UNCHANGED <<dest, test, tries, mapped1, result>>
    BY <1>1 DEF Bind, call
  <2>2. TypeOK'
    BY <2>1, StunAssumption DEF AnswerInv, TypeOK
  <2>3. QED BY <2>1, <2>2, FS_EmptySet DEF AnswerInv, Held
<1>2. CASE BindFails \/ Return
  <2>1. /\ at = "bind" /\ at' \in {"bind", "done"} /\ round' \in 0 .. Rounds
        /\ UNCHANGED <<server, nat, unanswered, inbox, dest, test, tries, mapped1,
                       pub_addrs, told, result>>
    BY <1>2, StunAssumption DEF BindFails, Return, loop, net, call, AnswerInv, TypeOK
  <2>2. TypeOK'
    BY <2>1 DEF AnswerInv, TypeOK, Replies
  <2>3. QED BY <2>1, <2>2 DEF AnswerInv, Held, Left
<1>3. CASE RoundEnd
  <2>1. /\ at = "next" /\ at' = "bind" /\ result' = Merge(result, pub_addrs)
        /\ UNCHANGED <<round, server, nat, unanswered, inbox, dest, test, tries,
                       mapped1, pub_addrs, told>>
    BY <1>3 DEF RoundEnd, loop, net, call
  <2>2. TypeOK'
    BY <2>1, MergeType DEF AnswerInv, TypeOK, Replies
  <2>3. QED BY <2>1, <2>2 DEF AnswerInv, Held, Left
<1>4. CASE Connect
  <2>1. server' \in Servers /\ server' \in 0 .. NumServers
    BY <1>4, StunAssumption DEF Connect, AnswerInv, TypeOK, Servers
  <2>2. <<server', 1>> \in Dests
    BY <2>1 DEF Dests
  <2>3. /\ at = "next" /\ unanswered' = 0 /\ test' = 1 /\ tries' = 0 /\ mapped1' = None
        /\ \/ at' = "send" /\ dest' = <<server', 1>>
           \/ at' = "next" /\ dest' = None
        /\ UNCHANGED <<round, nat, inbox, pub_addrs, told, result>>
    BY <1>4 DEF Connect, Locals
  <2>4. TypeOK'
    BY <2>1, <2>2, <2>3, StunAssumption DEF AnswerInv, TypeOK, Replies
  <2>5. QED
    BY <2>2, <2>3, <2>4, StunAssumption DEF AnswerInv, Held, Left
<1>5. CASE Change
  <2>1. /\ at = "change" /\ unanswered' = 0 /\ told' = told \ Left
        /\ UNCHANGED <<round, server, nat, inbox, result>>
    BY <1>5 DEF Change, loop
  <2>2. /\ mapped1 \in Addrs /\ Held = Ipv4(mapped1) /\ inbox' \in Seq(Replies)
        /\ unanswered' \in 0 .. Tries
        /\ told' \subseteq pub_addrs \cup Held
    BY <2>1, StunAssumption DEF AnswerInv, TypeOK, Held
  <2>3. CASE ServerDone(Ipv4(mapped1))
    <3>1. Ipv4(mapped1) \in SUBSET Addrs /\ IsFiniteSet(Ipv4(mapped1))
      BY <2>2, Ipv4Finite
    <3>2. told' \subseteq told /\ told' \ Left' \subseteq pub_addrs \cup Ipv4(mapped1)
      BY <2>1, <2>2
    <3>3. QED BY <2>1, <2>2, <2>3, <3>1, <3>2, ServerDoneAnswers
  <2>4. CASE at' = "send" /\ Locals(dest, 2, 0, mapped1) /\ UNCHANGED pub_addrs
    <3>1. dest' = dest /\ test' = 2 /\ tries' = 0 /\ mapped1' = mapped1 /\ at' = "send"
      BY <2>4 DEF Locals
    <3>2. TypeOK'
      BY <2>1, <2>2, <2>4, <3>1, StunAssumption DEF AnswerInv, TypeOK, Replies
    <3>3. Held' = Held
      BY <3>1 DEF Held
    <3>4. QED
      BY <2>1, <2>2, <2>4, <3>1, <3>2, <3>3, StunAssumption DEF AnswerInv
  <2>5. QED BY <1>5, <2>3, <2>4 DEF Change
<1>6. CASE Send
  <2>1. at = "send" /\ UNCHANGED <<round, server, nat, inbox, told, result>>
    BY <1>6 DEF Send, loop
  <2>2. inbox' \in Seq(Replies) /\ unanswered \in 0 .. Tries
        /\ told \ Left' \subseteq pub_addrs \cup Held
    BY <2>1 DEF AnswerInv, TypeOK, Left
  <2>3. CASE Failed /\ UNCHANGED unanswered
    BY <2>1, <2>2, <2>3, FailedAnswers
  <2>4. CASE /\ at' = "recv" /\ tries' = tries + 1 /\ unanswered' = unanswered + 1
             /\ UNCHANGED <<dest, test, mapped1, pub_addrs>>
    <3>1. tries' \in 0 .. Tries /\ unanswered' \in 0 .. Tries /\ unanswered' <= tries'
      BY <2>1, <2>2, <2>4, StunAssumption DEF AnswerInv, TypeOK
    <3>2. TypeOK'
      BY <2>1, <2>4, <3>1 DEF AnswerInv, TypeOK, Replies
    <3>3. QED BY <2>1, <2>4, <3>1, <3>2 DEF AnswerInv, Held, Left
  <2>5. QED BY <1>6, <2>3, <2>4 DEF Send
<1>7. CASE Recv
  <2>1. /\ at = "recv" /\ inbox # <<>> /\ inbox' = Tail(inbox)
        /\ UNCHANGED <<round, server, nat, unanswered, told, result>>
    BY <1>7 DEF Recv, loop
  <2>2. /\ inbox \in Seq(Replies) /\ inbox' \in Seq(Replies)
        /\ Head(inbox) \in Replies
        /\ Left \subseteq {Head(inbox).mapped} \cup Left'
    <3>1. inbox \in Seq(Replies)
      BY DEF AnswerInv, TypeOK
    <3>2. \A i \in DOMAIN inbox :
            i = 1 \/ (i - 1 \in DOMAIN Tail(inbox) /\ Tail(inbox)[i - 1] = inbox[i])
      BY <2>1, <3>1
    <3>3. \A i \in DOMAIN inbox :
            inbox[i].mapped \in {Head(inbox).mapped} \cup Left'
      BY <2>1, <3>2 DEF Left
    <3>4. Left \subseteq {Head(inbox).mapped} \cup Left'
      BY <3>3 DEF Left
    <3>5. QED BY <2>1, <3>1, <3>4
  <2>3. told \ Left' \subseteq pub_addrs \cup Held \cup {Head(inbox).mapped}
    BY <2>2 DEF AnswerInv
  <2>4. CASE Head(inbox).mapped = None
    <3>1. None \notin told
      BY StunAssumption DEF AnswerInv, TypeOK
    <3>2. told \ Left' \subseteq pub_addrs \cup Held
      BY <2>3, <2>4, <3>1
    <3>3. NextTry
      BY <1>7, <2>4 DEF Recv
    <3>4. QED BY <2>1, <2>2, <3>2, <3>3, NextTryAnswers
  <2>5. CASE Head(inbox).mapped # None
    <3>1. /\ Head(inbox).mapped \in Addrs
          /\ Head(inbox).changed \in Servers \cup {None}
      BY <2>2, <2>5 DEF Replies
    <3>2. Mapped(Head(inbox).mapped, Head(inbox).changed)
      BY <1>7, <2>5 DEF Recv
    <3>3. QED BY <2>1, <2>2, <2>3, <3>1, <3>2, MappedAnswers
  <2>6. QED BY <2>4, <2>5
<1>8. CASE Timeout
  <2>1. /\ at = "recv" /\ NextTry
        /\ UNCHANGED <<round, server, nat, unanswered, inbox, told, result>>
    BY <1>8 DEF Timeout, loop, net
  <2>2. inbox' \in Seq(Replies) /\ told \ Left' \subseteq pub_addrs \cup Held
    BY <2>1 DEF AnswerInv, TypeOK, Left
  <2>3. QED BY <2>1, <2>2, NextTryAnswers
<1>9. CASE Reply
  <2>1. /\ at \in {"send", "recv"} /\ unanswered > 0 /\ unanswered' = unanswered - 1
        /\ UNCHANGED <<at, round, server, nat, dest, test, tries, mapped1, pub_addrs,
                       result>>
    BY <1>9 DEF Reply, loop, call
  <2>2. PICK m \in {nat[dest], None}, c \in {dest[1], None} :
          /\ inbox' = Append(inbox, [mapped |-> m, changed |-> c])
          /\ told' = told \cup (IF dest[2] = 1 THEN {m} \ (V6 \cup {None}) ELSE {})
    BY <1>9 DEF Reply
  <2>3. m \in Addrs \cup {None} /\ c \in Servers \cup {None} /\ inbox \in Seq(Replies)
    BY <2>1 DEF AnswerInv, TypeOK, Dests
  <2>4. [mapped |-> m, changed |-> c] \in Replies
    BY <2>3 DEF Replies
  <2>5. inbox' \in Seq(Replies) /\ Left' = Left \cup {m}
    <3> DEFINE a == [mapped |-> m, changed |-> c]
    <3>1. a \in Replies /\ a.mapped = m /\ inbox' = Append(inbox, a)
      BY <2>2, <2>4
    <3> HIDE DEF a
    <3>2. /\ inbox' \in Seq(Replies) /\ Len(inbox') = Len(inbox) + 1
          /\ \A i \in 1 .. Len(inbox) : inbox'[i] = inbox[i]
          /\ inbox'[Len(inbox) + 1] = a
      BY <2>3, <3>1
    <3>3. DOMAIN inbox' = (DOMAIN inbox) \cup {Len(inbox) + 1}
          /\ DOMAIN inbox = 1 .. Len(inbox)
      BY <2>3, <3>2
    <3>4. Left' = {inbox'[i].mapped : i \in DOMAIN inbox'}
      BY DEF Left
    <3>5. QED BY <3>1, <3>2, <3>3, <3>4 DEF Left
  <2>6. told' \in SUBSET (Addrs \ V6)
    BY <2>2, <2>3 DEF AnswerInv, TypeOK
  <2>7. unanswered' \in 0 .. Tries /\ unanswered' <= tries
    BY <2>1, StunAssumption DEF AnswerInv, TypeOK
  <2>8. TypeOK'
    BY <2>1, <2>5, <2>6, <2>7 DEF AnswerInv, TypeOK
  <2>9. told' \ Left' \subseteq told \ Left
    BY <2>2, <2>5
  <2>10. test = 2 => told' = told
    BY <2>1, <2>2 DEF AnswerInv
  <2>11. QED
    BY <2>1, <2>7, <2>8, <2>9, <2>10 DEF AnswerInv, Held
<1>10. CASE UNCHANGED vars
  BY <1>10 DEF vars, loop, net, call, AnswerInv, TypeOK, Replies, Held, Left
<1>11. QED
  BY <1>1, <1>2, <1>3, <1>4, <1>5, <1>6, <1>7, <1>8, <1>9, <1>10 DEF Next, CodeStep

(* Nothing a server has told in time is on its way nowhere.                *)
THEOREM AnswersInductive == Spec => []AnswerInv
BY InitAnswers, NextAnswers, StunInductive, PTL DEF Spec

(* The variables of the test keep their types. *)
THEOREM StunTypeCorrect == Spec => []TypeOK
BY AnswersInductive, PTL DEF AnswerInv

(* What servers tell in time is in the answer: the type, the addresses and *)
(* the range, for any servers, tries and addresses.                        *)
THEOREM ToldIsAnsweredHolds == Spec => ToldIsAnswered
<1> DEFINE Answered == LET heard == told \ Left IN
             /\ Cardinality(heard) > 1 => result'.type = "Symmetric"
             /\ {a.ip : a \in heard} \subseteq result'.ips
             /\ Spread(heard) <= result'.range
<1>1. ASSUME AnswerInv, [Next]_vars, at = "next", at' = "bind"
      PROVE  Answered
  <2> DEFINE heard == told \ Left
  <2>1. result' = Merge(result, pub_addrs)
    BY <1>1 DEF Next, CodeStep, Bind, BindFails, RoundEnd, Return, Connect, Locals,
       Change, Send, Recv, Timeout, Reply, vars
  <2>2. heard \subseteq pub_addrs \ V6 /\ pub_addrs \ V6 \in SUBSET Addrs
    BY <1>1, StunAssumption DEF AnswerInv, TypeOK, Held
  <2>3. Cardinality(heard) > 1 => Cardinality(pub_addrs) > 1
    <3>1. heard \subseteq pub_addrs /\ IsFiniteSet(pub_addrs)
      BY <1>1, <2>2 DEF AnswerInv
    <3> HIDE DEF heard
    <3>2. IsFiniteSet(heard) /\ Cardinality(heard) <= Cardinality(pub_addrs)
      BY <3>1, FS_Subset
    <3>3. Cardinality(heard) \in Nat /\ Cardinality(pub_addrs) \in Nat
      BY <3>1, <3>2, FS_CardinalityType
    <3>4. QED BY <3>2, <3>3
  <2>4. Spread(heard) <= result'.range
    <3>1. Spread(heard) <= Spread(pub_addrs \ V6)
      BY <2>2, SpreadType
    <3>2. Spread(pub_addrs \ V6) <= result'.range
      BY <1>1, <2>1, MergeType DEF AnswerInv
    <3>3. result'.range \in Ports
      <4>1. result' \in [type : {"Cone", "Symmetric"}, ips : SUBSET {a.ip : a \in Addrs},
                         range : Ports]
        BY <1>1, <2>1, MergeType DEF AnswerInv
      <4>2. QED BY <4>1
    <3>4. Spread(heard) \in Ports /\ Spread(pub_addrs \ V6) \in Ports
      BY <2>2, SpreadType
    <3> HIDE DEF heard
    <3>5. QED BY <3>1, <3>2, <3>3, <3>4, PortFacts
  <2>5. {a.ip : a \in heard} \subseteq result'.ips
    <3>1. result'.ips = result.ips \cup {a.ip : a \in pub_addrs \ V6}
      BY <2>1 DEF Merge
    <3>2. QED BY <2>2, <3>1
  <2>6. Cardinality(heard) > 1 => result'.type = "Symmetric"
    BY <2>1, <2>3 DEF Merge
  <2>7. QED BY <2>4, <2>5, <2>6
<1>2. AnswerInv /\ [Next]_vars => [at = "next" /\ at' = "bind" => Answered]_vars
  BY <1>1
<1>3. QED BY <1>2, AnswersInductive, PTL DEF Spec, ToldIsAnswered

-----------------------------------------------------------------------------
(* How much is left to do.  The products are looked at here only.          *)
Turns(k) == k * PerServer

Laps(k) == k * PerRound

LEMMA ProductFacts ==
  ASSUME NEW k \in Nat, NEW n \in Nat
  PROVE  k * n \in Nat /\ (k + 1) * n = k * n + n
OBVIOUS

LEMMA TurnsFacts ==
  /\ PerServer \in Nat /\ PerServer = 4 * Tries + 2
  /\ \A k \in Nat : Turns(k) \in Nat /\ Turns(k + 1) = Turns(k) + PerServer
<1>1. PerServer \in Nat /\ PerServer = 4 * Tries + 2
  BY StunAssumption DEF PerServer
<1>2. QED BY <1>1, ProductFacts DEF Turns

LEMMA LapsFacts ==
  /\ PerRound \in Nat /\ PerRound = Turns(NumServers) + 2
  /\ \A k \in Nat : Laps(k) \in Nat /\ Laps(k + 1) = Laps(k) + PerRound
<1>1. PerRound \in Nat /\ PerRound = Turns(NumServers) + 2
  <2>1. PerRound = Turns(NumServers) + 2
    BY DEF PerRound, Turns
  <2>2. Turns(NumServers) \in Nat
    BY StunAssumption, TurnsFacts
  <2>3. QED BY <2>1, <2>2
<1>2. QED BY <1>1, ProductFacts DEF Laps

InRound == {"next", "send", "recv", "change"}

(* What is left of a round and of the test are natural numbers.            *)
LeftOK ==
  /\ round \in 0 .. Rounds /\ server \in 0 .. NumServers /\ tries \in 0 .. Tries
  /\ ServerLeft \in Nat
  /\ at \in {"send", "recv", "change"} => ServerLeft > 0
  /\ RoundLeft = IF at = "done" THEN 0 ELSE IF at = "bind" THEN 1
                 ELSE 2 + Turns(NumServers - server) + ServerLeft
  /\ Work = Laps(Rounds - round) + RoundLeft
  /\ Work \in Nat

LEMMA LeftTypes == AnswerInv => LeftOK
<1> SUFFICES ASSUME AnswerInv PROVE LeftOK
  OBVIOUS
<1>1. /\ round \in 0 .. Rounds /\ server \in 0 .. NumServers /\ tries \in 0 .. Tries
      /\ at \in {"bind", "done"} \cup InRound
      /\ {NumServers, Rounds, Tries} \subseteq Nat
      /\ at = "send" => tries < Tries
  BY StunAssumption DEF AnswerInv, TypeOK, InRound
<1>2. /\ ServerLeft \in Nat
      /\ at \in {"send", "recv", "change"} => ServerLeft > 0
  <2>1. CallLeft \in Nat /\ (at \in {"send", "recv"} => CallLeft > 0)
    BY <1>1 DEF CallLeft
  <2>2. CASE at = "next"
    BY <2>2 DEF ServerLeft
  <2>3. CASE at = "change"
    BY <1>1, <2>3 DEF ServerLeft
  <2>4. CASE at \notin {"next", "change"}
    <3>1. ServerLeft = CallLeft + (IF test = 1 THEN 2 * Tries + 1 ELSE 0)
      BY <2>4 DEF ServerLeft
    <3>2. QED BY <1>1, <2>1, <2>4, <3>1
  <2>5. QED BY <2>2, <2>3, <2>4
<1>3. RoundLeft = IF at = "done" THEN 0 ELSE IF at = "bind" THEN 1
                  ELSE 2 + Turns(NumServers - server) + ServerLeft
  BY DEF RoundLeft, Turns
<1>4. Work = Laps(Rounds - round) + RoundLeft
  BY DEF Work, Laps
<1>5. Work \in Nat
  <2>1. NumServers - server \in Nat /\ Rounds - round \in Nat
    BY <1>1
  <2>2. Turns(NumServers - server) \in Nat /\ Laps(Rounds - round) \in Nat
    BY <2>1, TurnsFacts, LapsFacts
  <2>3. QED BY <1>2, <1>3, <1>4, <2>2
<1>6. QED BY <1>1, <1>2, <1>3, <1>4, <1>5 DEF LeftOK

LEMMA LeftTypesNext == AnswerInv' => LeftOK'
BY LeftTypes, PTL

(* A step of the calls about one server. *)
LEMMA LessOfServer ==
  ASSUME LeftOK, LeftOK', at \in InRound, at' \in InRound,
         UNCHANGED <<round, server>>, ServerLeft' < ServerLeft
  PROVE  Work' < Work
<1>1. RoundLeft = 2 + Turns(NumServers - server) + ServerLeft
  BY DEF LeftOK, InRound
<1>2. RoundLeft' = 2 + Turns(NumServers - server) + ServerLeft'
  BY DEF LeftOK, InRound
<1>3. Work = Laps(Rounds - round) + RoundLeft
      /\ Work' = Laps(Rounds - round) + RoundLeft'
  BY DEF LeftOK
<1>4. ServerLeft \in Nat /\ ServerLeft' \in Nat /\ Turns(NumServers - server) \in Nat
      /\ Laps(Rounds - round) \in Nat
  <2>1. NumServers - server \in Nat /\ Rounds - round \in Nat
    BY StunAssumption DEF LeftOK
  <2>2. QED BY <2>1, TurnsFacts, LapsFacts DEF LeftOK
<1>5. QED BY <1>1, <1>2, <1>3, <1>4

(* The next server, and the next round. *)
LEMMA LessOfConnect ==
  ASSUME LeftOK, LeftOK', Connect
  PROVE  Work' < Work
<1>1. /\ at = "next" /\ server' = server + 1 /\ round' = round /\ tries' = 0
      /\ test' = 1 /\ at' \in {"send", "next"}
  BY DEF Connect, Locals
<1>2. ServerLeft = 0 /\ ServerLeft' \in Nat /\ ServerLeft' < PerServer
  <2>1. at' = "next" => ServerLeft' = 0
    BY DEF ServerLeft
  <2>2. at' = "send" => ServerLeft' = 2 * Tries + (2 * Tries + 1)
    BY <1>1, StunAssumption DEF ServerLeft, CallLeft
  <2>3. QED BY <1>1, <2>1, <2>2, StunAssumption, TurnsFacts DEF ServerLeft
<1>3. PICK k \in Nat : NumServers - server = k + 1 /\ NumServers - server' = k
  BY <1>1, StunAssumption DEF LeftOK
<1>4. Turns(NumServers - server) = Turns(k) + PerServer /\ Turns(k) \in Nat
  BY <1>3, TurnsFacts
<1>5. RoundLeft = 2 + Turns(NumServers - server) + ServerLeft
      /\ RoundLeft' = 2 + Turns(k) + ServerLeft'
  BY <1>1, <1>3 DEF LeftOK
<1>6. RoundLeft' < RoundLeft /\ RoundLeft \in Nat /\ RoundLeft' \in Nat
  BY <1>2, <1>4, <1>5, TurnsFacts
<1>7. Laps(Rounds - round) \in Nat
  <2>1. Rounds - round \in Nat
    BY StunAssumption DEF LeftOK
  <2>2. QED BY <2>1, LapsFacts
<1>8. Work = Laps(Rounds - round) + RoundLeft
      /\ Work' = Laps(Rounds - round) + RoundLeft'
  BY <1>1 DEF LeftOK
<1>9. QED BY <1>6, <1>7, <1>8

LEMMA LessOfRound ==
  ASSUME LeftOK, LeftOK', Bind \/ BindFails
  PROVE  Work' < Work
<1>1. at = "bind" /\ round < Rounds /\ round' = round + 1
  BY DEF Bind, BindFails
<1>2. PICK k \in Nat : Rounds - round = k + 1 /\ Rounds - round' = k
  BY <1>1, StunAssumption DEF LeftOK
<1>3. Laps(Rounds - round) = Laps(k) + PerRound /\ Laps(k) \in Nat
  BY <1>2, LapsFacts
<1>4. RoundLeft = 1 /\ RoundLeft' \in Nat /\ RoundLeft' <= PerRound
  <2>1. CASE Bind
    <3>1. at' = "next" /\ server' = 0
      BY <2>1 DEF Bind
    <3>2. ServerLeft' = 0
      BY <3>1 DEF ServerLeft
    <3>3. NumServers - server' = NumServers
      BY <3>1, StunAssumption
    <3>4. RoundLeft' = 2 + Turns(NumServers)
      <4>1. RoundLeft' = 2 + Turns(NumServers - server') + ServerLeft'
        BY <3>1 DEF LeftOK
      <4>2. Turns(NumServers) \in Nat
        BY StunAssumption, TurnsFacts
      <4>3. QED BY <3>2, <3>3, <4>1, <4>2
    <3>5. RoundLeft' = PerRound /\ RoundLeft' \in Nat
      <4>1. Turns(NumServers) \in Nat
        BY StunAssumption, TurnsFacts
      <4>2. QED BY <3>4, <4>1, LapsFacts
    <3>6. QED BY <1>1, <3>5 DEF LeftOK
  <2>2. CASE BindFails
    <3>1. at' = "bind"
      BY <1>1, <2>2 DEF BindFails
    <3>2. RoundLeft' = 1
      BY <3>1 DEF LeftOK
    <3>3. QED BY <1>1, <3>2, StunAssumption, TurnsFacts, LapsFacts DEF LeftOK
  <2>3. QED BY <2>1, <2>2
<1>5. Work = Laps(Rounds - round) + RoundLeft /\ Work' = Laps(k) + RoundLeft'
  BY <1>2 DEF LeftOK
<1>6. QED BY <1>3, <1>4, <1>5, LapsFacts

LEMMA LessOfEnd ==
  ASSUME LeftOK, LeftOK', RoundEnd \/ Return
  PROVE  Work' < Work
<1>1. round' = round /\ server' = server
  BY DEF RoundEnd, Return, loop
<1>2. RoundLeft \in Nat /\ RoundLeft' \in Nat /\ RoundLeft' < RoundLeft
  <2>1. CASE RoundEnd
    <3>1. at = "next" /\ at' = "bind" /\ NumServers - server \in Nat
      BY <2>1, StunAssumption DEF RoundEnd, LeftOK
    <3>2. Turns(NumServers - server) \in Nat
      BY <3>1, TurnsFacts
    <3>3. RoundLeft = 2 + Turns(NumServers - server) + ServerLeft /\ RoundLeft' = 1
      BY <3>1 DEF LeftOK
    <3>4. QED BY <3>2, <3>3 DEF LeftOK
  <2>2. CASE Return
    BY <2>2 DEF Return, LeftOK
  <2>3. QED BY <2>1, <2>2
<1>3. Laps(Rounds - round) \in Nat
  <2>1. Rounds - round \in Nat
    BY StunAssumption DEF LeftOK
  <2>2. QED BY <2>1, LapsFacts
<1>4. Work = Laps(Rounds - round) + RoundLeft
      /\ Work' = Laps(Rounds - round) + RoundLeft'
  BY <1>1 DEF LeftOK
<1>5. QED BY <1>2, <1>3, <1>4

(* Within the calls about one server. *)
LEMMA ServerDoneLess ==
  ASSUME LeftOK, at \in {"send", "recv", "change"}, NEW addrs, ServerDone(addrs)
  PROVE  at' \in InRound /\ ServerLeft' < ServerLeft
<1>1. at' = "next"
  BY DEF ServerDone
<1>2. ServerLeft' = 0
  BY <1>1 DEF ServerLeft
<1>3. QED BY <1>1, <1>2 DEF LeftOK, InRound

LEMMA NextTryLess ==
  ASSUME LeftOK, at = "recv", NextTry
  PROVE  at' \in InRound /\ ServerLeft' < ServerLeft
<1>1. CASE tries < Tries
  <2>1. at' = "send" /\ tries' = tries /\ test' = test
    BY <1>1 DEF NextTry, call
  <2>2. CallLeft' < CallLeft /\ CallLeft \in Int /\ CallLeft' \in Int
    BY <2>1, StunAssumption DEF CallLeft, LeftOK
  <2>3. QED BY <2>1, <2>2, StunAssumption DEF ServerLeft, InRound
<1>2. CASE ~(tries < Tries)
  BY <1>2, ServerDoneLess DEF NextTry, Failed
<1>3. QED BY <1>1, <1>2

LEMMA MappedLess ==
  ASSUME LeftOK, at = "recv", test \in {1, 2}, NEW m, NEW changed, Mapped(m, changed)
  PROVE  at' \in InRound /\ ServerLeft' < ServerLeft
<1>1. CASE test = 2 \/ changed = None
  BY <1>1, ServerDoneLess DEF Mapped
<1>2. CASE test = 1 /\ changed # None
  <2>1. at' = "change"
    BY <1>2 DEF Mapped
  <2>2. ServerLeft' = 2 * Tries + 1
    BY <2>1 DEF ServerLeft
  <2>3. ServerLeft = CallLeft + (2 * Tries + 1)
    BY <1>2 DEF ServerLeft
  <2>4. CallLeft \in Nat /\ CallLeft > 0
    BY StunAssumption DEF CallLeft, LeftOK
  <2>5. QED BY <2>1, <2>2, <2>3, <2>4, StunAssumption DEF InRound
<1>3. QED BY <1>1, <1>2

LEMMA SendLess ==
  ASSUME LeftOK, Send
  PROVE  at' \in InRound /\ ServerLeft' < ServerLeft
<1>1. CASE Failed
  BY <1>1, ServerDoneLess DEF Send, Failed
<1>2. CASE at' = "recv" /\ tries' = tries + 1 /\ test' = test
  <2>1. CallLeft' < CallLeft /\ CallLeft \in Int /\ CallLeft' \in Int
    BY <1>2, StunAssumption DEF Send, CallLeft, LeftOK
  <2>2. at = "send"
    BY DEF Send
  <2>3. QED BY <1>2, <2>1, <2>2, StunAssumption DEF ServerLeft, InRound
<1>3. QED BY <1>1, <1>2 DEF Send

LEMMA ChangeLess ==
  ASSUME LeftOK, Change
  PROVE  at' \in InRound /\ ServerLeft' < ServerLeft
<1>1. CASE ServerDone(Ipv4(mapped1))
  BY <1>1, ServerDoneLess DEF Change
<1>2. CASE at' = "send" /\ Locals(dest, 2, 0, mapped1)
  <2>1. ServerLeft = 2 * Tries + 1
    BY DEF Change, ServerLeft
  <2>2. ServerLeft' = 2 * Tries
    BY <1>2, StunAssumption DEF Locals, ServerLeft, CallLeft
  <2>3. QED BY <1>2, <2>1, <2>2, StunAssumption DEF InRound
<1>3. QED BY <1>1, <1>2 DEF Change

LEMMA CodeLess ==
  AnswerInv /\ AnswerInv' /\ CodeStep => 0 <= Work' /\ Work' < Work
<1> SUFFICES ASSUME AnswerInv, AnswerInv', CodeStep PROVE 0 <= Work' /\ Work' < Work
  OBVIOUS
<1>1. LeftOK /\ LeftOK'
  BY LeftTypes, LeftTypesNext
<1>2. 0 <= Work'
  BY <1>1 DEF LeftOK
<1>3. CASE Bind \/ BindFails \/ RoundEnd \/ Return \/ Connect
  BY <1>1, <1>2, <1>3, LessOfRound, LessOfEnd, LessOfConnect
<1>4. CASE Change \/ Send \/ Recv \/ Timeout
  <2>1. at \in InRound /\ UNCHANGED <<round, server>> /\ test \in {1, 2}
    BY <1>4 DEF Change, Send, Recv, Timeout, InRound, loop, AnswerInv, TypeOK
  <2>2. at' \in InRound /\ ServerLeft' < ServerLeft
    BY <1>1, <1>4, <2>1, ChangeLess, SendLess, NextTryLess, MappedLess DEF Recv, Timeout
  <2>3. QED BY <1>1, <1>2, <2>1, <2>2, LessOfServer
<1>5. QED BY <1>3, <1>4 DEF CodeStep

(* No answer sends the test back: for any number of servers, rounds and    *)
(* tries it is over after Rounds * PerRound + 1 steps of its own.          *)
THEOREM TestShrinksHolds == Spec => TestShrinks
<1>1. AnswerInv /\ AnswerInv' /\ [Next]_vars
        => [CodeStep => 0 <= Work' /\ Work' < Work]_vars
  BY CodeLess
<1>2. QED BY <1>1, AnswersInductive, PTL DEF Spec, TestShrinks
=============================================================================
