--------------------------- MODULE NatChannelProofs ---------------------------
(***************************************************************************)
(* Proofs about NatChannel, for any number of clones and controllers:      *)
(* close() is final; no change of the status is missed; no receiver sleeps *)
(* on a datagram; the groups settle as the last change asks.  Three        *)
(* inductive invariants: ControlInv of the controllers, CloneInv of the    *)
(* clones and their polls, SettleInv of the changes.                       *)
(***************************************************************************)
EXTENDS NatChannel, FiniteSetTheorems, SequenceTheorems, TLAPS

Inside == {"load", "store", "wake"}

(* The mutex of the list of wakers excludes; whoever is about to store a   *)
(* status closes the channel, or has found it open under the mutex.        *)
ControlInv ==
  /\ ctl \in [Controllers -> {"idle", "lock"} \cup Inside]
  /\ want \in [Controllers -> Types \cup {"Close", None}]
  /\ \A k \in Controllers : ctl[k] \in Inside <=> list_lock = k
  /\ \A k \in Controllers :
       ctl[k] = "store" => want[k] = "Close" \/ status # "Close"

-----------------------------------------------------------------------------
LEMMA InitControl == Init => ControlInv
BY NatAssumption DEF Init, ControlInv, Inside

(* No step of a clone, nor of the network, has to do with a controller.    *)
LEMMA CloneSteps ==
  ASSUME NEW c \in Clones, TryClone(c) \/ CloneStep(c) \/ PollTimeout(c) \/ Discard(c)
  PROVE  UNCHANGED <<status, list_lock, ctl, want>>
<1>1. CASE TryClone(c) \/ PollTimeout(c) \/ Discard(c)
  BY <1>1 DEF TryClone, PollTimeout, Discard, shared, control
<1>2. CASE TryDefault(c) \/ TryUdp(c) \/ Poll(c) \/ Event(c) \/ ChangeLoad(c)
  BY <1>2 DEF TryDefault, TryUdp, Poll, Event, ChangeLoad, shared, control
<1>3. CASE ChangeCone(c) \/ ChangeSymmetric(c) \/ \E n \in 0 .. size : ChangeFails(c, n)
  BY <1>3 DEF ChangeCone, ChangeSymmetric, ChangeFails, control
<1>4. CASE PushWaker(c) \/ Drop(c)
  BY <1>4 DEF PushWaker, Drop, control
<1>5. QED BY <1>1, <1>2, <1>3, <1>4 DEF CloneStep

LEMMA NextControl == ControlInv /\ [Next]_vars => ControlInv'
<1> SUFFICES ASSUME ControlInv, [Next]_vars PROVE ControlInv'
  OBVIOUS
<1> USE NatAssumption DEF ControlInv, Inside
<1>1. CASE UNCHANGED <<status, list_lock, ctl, want>>
  BY <1>1
<1>2. ASSUME NEW k \in Controllers, NEW s \in Types \cup {"Close"}, Call(k, s)
      PROVE  ControlInv'
  BY <1>2 DEF Call, At, shared
<1>3. ASSUME NEW k \in Controllers, LockList(k) PROVE ControlInv'
  BY <1>3 DEF LockList, Unlocked, At
<1>4. ASSUME NEW k \in Controllers, LoadStatus(k) PROVE ControlInv'
  <2>1. CASE status \in {want[k], "Close"}
    BY <1>4, <2>1 DEF LoadStatus, Unlock, At
  <2>2. CASE status \notin {want[k], "Close"}
    BY <1>4, <2>2 DEF LoadStatus, At
  <2>3. QED BY <2>1, <2>2
<1>5. ASSUME NEW k \in Controllers, StoreStatus(k) PROVE ControlInv'
  BY <1>5 DEF StoreStatus, At
<1>6. ASSUME NEW k \in Controllers, Wake(k) PROVE ControlInv'
  <2>1. CASE UNCHANGED <<list_lock, ctl, want>>
    BY <1>6, <2>1 DEF Wake
  <2>2. CASE Unlock(k)
    BY <1>6, <2>2 DEF Wake, Unlock, At
  <2>3. QED BY <1>6, <2>1, <2>2 DEF Wake
<1>7. ASSUME NEW k \in Controllers, WakeFails(k) PROVE ControlInv'
  BY <1>7 DEF WakeFails, Unlock, At
<1>8. CASE (\E s \in Sockets : Arrive(s)) \/ UNCHANGED vars
  BY <1>1, <1>8 DEF Arrive, vars, shared, control
<1>9. QED
  BY <1>1, <1>2, <1>3, <1>4, <1>5, <1>6, <1>7, <1>8, CloneSteps DEF Next, ControlStep

(* The mutex excludes, and no stale decision of set_nat_type survives.     *)
THEOREM ControlInductive == Spec => []ControlInv
BY InitControl, NextControl, PTL DEF Spec

(* set_nat_type never reopens a channel, however its load and its store    *)
(* fall around those of close() and of other calls.                        *)
THEOREM CloseIsFinalHolds == Spec => CloseIsFinal
<1>1. ControlInv /\ [Next]_vars => [status = "Close" => status' = "Close"]_vars
  <2> SUFFICES ASSUME ControlInv, Next, status = "Close" PROVE status' = "Close"
    BY DEF vars
  <2>1. ASSUME NEW k \in Controllers, ControlStep(k) PROVE status' = "Close"
    BY <2>1 DEF ControlStep, LockList, LoadStatus, StoreStatus, Wake, WakeFails,
       ControlInv
  <2>2. QED
    BY <2>1, CloneSteps DEF Next, Arrive, Call, shared
<1>2. QED BY <1>1, ControlInductive, PTL DEF Spec, CloseIsFinal

-----------------------------------------------------------------------------
(* Lists of tokens. *)

(* What the filter keeps. *)
LEMMA OnlyProperties ==
  ASSUME NEW T, NEW s \in Seq(T), NEW S
  PROVE  /\ Only(s, S) \in Seq(T)
         /\ Range(Only(s, S)) = Range(s) \cap S
<1> DEFINE D       == {j \in DOMAIN s : s[j] \in S}
           Rank(j) == Cardinality({i \in D : i < j}) + 1
           Nth(n)  == CHOOSE j \in D : Rank(j) = n
           N       == Cardinality(D)
           rank    == [j \in D |-> Rank(j)]
<1>1. D \in SUBSET (1 .. Len(s)) /\ Len(s) \in Nat
  OBVIOUS
<1>2. IsFiniteSet(D) /\ N \in Nat
  <2>1. IsFiniteSet(1 .. Len(s))
    BY <1>1, FS_Interval
  <2>2. IsFiniteSet(D)
    BY <1>1, <2>1, FS_Subset
  <2>3. QED BY <2>2, FS_CardinalityType
<1> HIDE DEF D
<1>3. ASSUME NEW j \in D, NEW A \in SUBSET D, {i \in D : i < j} \cup {j} \subseteq A
      PROVE  Rank(j) \in 1 .. Cardinality(A) /\ Cardinality(A) \in Nat
  <2> DEFINE B == {i \in D : i < j}
  <2>1. IsFiniteSet(A) /\ Cardinality(A) \in Nat
    BY <1>2, FS_Subset, FS_CardinalityType
  <2>2. IsFiniteSet(B) /\ Cardinality(B) \in Nat
    <3>1. B \in SUBSET D
      OBVIOUS
    <3>2. QED BY <1>2, <3>1, FS_Subset, FS_CardinalityType
  <2>3. j \notin B
    BY <1>1
  <2>4. Cardinality(B \cup {j}) = Cardinality(B) + 1
    BY <2>2, <2>3, FS_AddElement
  <2>5. Cardinality(B \cup {j}) <= Cardinality(A)
    BY <1>3, <2>1, FS_Subset
  <2>6. Rank(j) = Cardinality(B) + 1
    OBVIOUS
  <2> HIDE DEF Rank, B
  <2>7. QED BY <2>1, <2>2, <2>4, <2>5, <2>6
<1>4. \A j \in D : Rank(j) \in 1 .. N
  BY <1>1, <1>3
<1>5. ASSUME NEW i \in D, NEW j \in D, i < j
      PROVE  Rank(i) < Rank(j)
  <2> DEFINE A == {l \in D : l < j}
  <2>1. {l \in D : l < i} \cup {i} \subseteq A
    <3>1. \A l \in D : l \in Int
      BY <1>1
    <3>2. \A l \in D : l < i => l < j
      BY <1>5, <3>1
    <3>3. QED BY <1>5, <3>2
  <2>2. Rank(i) \in 1 .. Cardinality(A) /\ Cardinality(A) \in Nat
    BY <2>1, <1>3
  <2>3. Rank(j) = Cardinality(A) + 1
    OBVIOUS
  <2> HIDE DEF Rank, A
  <2>4. QED BY <2>2, <2>3
<1> HIDE DEF Rank
<1>6. \A i, j \in D : Rank(i) = Rank(j) => i = j
  BY <1>1, <1>4, <1>5
<1>7. rank \in Injection(D, 1 .. N)
  BY <1>4, <1>6 DEF Injection, IsInjective
<1>8. rank \in Surjection(D, 1 .. N)
  <2>1. IsFiniteSet(1 .. N) /\ Cardinality(1 .. N) = N
    BY <1>2, FS_Interval
  <2>2. QED BY <1>7, <2>1, FS_Injection
<1>9. \A n \in 1 .. N : Nth(n) \in D /\ Rank(Nth(n)) = n
  <2>1. \A n \in 1 .. N : \E j \in D : Rank(j) = n
    BY <1>8 DEF Surjection
  <2>2. QED BY <2>1
<1>10. \A j \in D : Nth(Rank(j)) = j
  BY <1>4, <1>6, <1>9
<1>11. Only(s, S) = [n \in 1 .. N |-> s[Nth(n)]]
  BY DEF Only, D, Rank
<1> HIDE DEF Nth, N
<1>12. \A n \in 1 .. N : s[Nth(n)] \in T /\ s[Nth(n)] \in Range(s) \cap S
  BY <1>1, <1>9 DEF D, Range
<1>13. Only(s, S) \in Seq(T)
  BY <1>2, <1>11, <1>12
<1>14. \A x \in Range(s) \cap S : \E j \in D : s[j] = x
  BY DEF Range, D
<1>15. \A x \in Range(s) \cap S : \E n \in 1 .. N : s[Nth(n)] = x
  BY <1>4, <1>10, <1>14
<1>16. Range(Only(s, S)) = Range(s) \cap S
  BY <1>11, <1>12, <1>15 DEF Range
<1>17. QED BY <1>13, <1>16

LEMMA TokenFacts ==
  /\ DEFAULT_TOKEN \in Tokens /\ CHANGE_TOKEN \in Tokens
  /\ DEFAULT_TOKEN # CHANGE_TOKEN
  /\ \A i \in 0 .. size - 1 : i \in Tokens /\ i \notin {DEFAULT_TOKEN, CHANGE_TOKEN}
BY NatAssumption DEF Tokens, DEFAULT_TOKEN, CHANGE_TOKEN

LEMMA RaiseProperties ==
  ASSUME NEW T, NEW q \in Seq(T), NEW token \in T
  PROVE  /\ Raise(q, token) \in Seq(T)
         /\ Range(Raise(q, token)) = Range(q) \cup {token}
<1>1. CASE token \in Range(q)
  BY <1>1 DEF Raise
<1>2. CASE token \notin Range(q)
  <2>1. <<token>> \in Seq(T) /\ Range(<<token>>) = {token}
    BY DEF Range
  <2>2. Raise(q, token) = q \o <<token>>
    BY <1>2, AppendIsConcat DEF Raise
  <2>3. q \o <<token>> \in Seq(T)
    BY <2>1, ConcatProperties
  <2>4. Range(q \o <<token>>) = Range(q) \cup Range(<<token>>)
    BY <2>1, RangeConcatenation
  <2>5. QED BY <2>1, <2>2, <2>3, <2>4
<1>3. QED BY <1>1, <1>2

LEMMA SplitProperties ==
  ASSUME NEW T, NEW q \in Seq(T), NEW n \in 0 .. Len(q)
  PROVE  /\ SubSeq(q, 1, n) \in Seq(T) /\ SubSeq(q, n + 1, Len(q)) \in Seq(T)
         /\ n > 0 => SubSeq(q, 1, n) # <<>>
         /\ Range(SubSeq(q, 1, n)) \cup Range(SubSeq(q, n + 1, Len(q))) = Range(q)
<1>1. Len(q) \in Nat /\ \A i \in 1 .. Len(q) : q[i] \in T
  OBVIOUS
<1>2. SubSeq(q, 1, n) \in Seq(T) /\ Len(SubSeq(q, 1, n)) = IF 1 <= n THEN n ELSE 0
  BY <1>1, SubSeqProperties
<1>3. SubSeq(q, n + 1, Len(q)) \in Seq(T)
  BY <1>1, SubSeqProperties
<1>4. SubSeq(q, 1, n) \o SubSeq(q, n + 1, Len(q)) = q
  <2>1. 1 \in 1 .. Len(q) + 1 /\ n \in 1 - 1 .. Len(q) /\ Len(q) \in n .. Len(q)
    BY <1>1
  <2>2. SubSeq(q, 1, n) \o SubSeq(q, n + 1, Len(q)) = SubSeq(q, 1, Len(q))
    BY <2>1, ConcatAdjacentSubSeq
  <2>3. QED BY <2>2, SubSeqFull
<1>5. Range(SubSeq(q, 1, n) \o SubSeq(q, n + 1, Len(q)))
        = Range(SubSeq(q, 1, n)) \cup Range(SubSeq(q, n + 1, Len(q)))
  BY <1>2, <1>3, RangeConcatenation
<1>6. n > 0 => SubSeq(q, 1, n) # <<>>
  BY <1>2
<1>7. QED BY <1>2, <1>3, <1>4, <1>5, <1>6

LEMMA TailProperties ==
  ASSUME NEW T, NEW q \in Seq(T), q # <<>>
  PROVE  /\ Head(q) \in T /\ Tail(q) \in Seq(T)
         /\ Range(q) = {Head(q)} \cup Range(Tail(q))
<1>1. Head(q) \in T /\ Tail(q) \in Seq(T) /\ Len(Tail(q)) = Len(q) - 1
  BY HeadTailProperties
<1>2. \A i \in 1 .. Len(Tail(q)) : Tail(q)[i] = q[i + 1]
  BY HeadTailProperties
<1>3. Head(q) = q[1] /\ Len(q) \in Nat \ {0}
  BY EmptySeq
<1>4. \A j \in 1 .. Len(q) : j = 1 \/ j - 1 \in 1 .. Len(Tail(q))
  BY <1>1, <1>3
<1>5. Range(q) = {q[j] : j \in 1 .. Len(q)}
      /\ Range(Tail(q)) = {Tail(q)[i] : i \in 1 .. Len(Tail(q))}
  BY <1>1, RangeEquality
<1>6. \A i \in 1 .. Len(Tail(q)) : i + 1 \in 1 .. Len(q)
  BY <1>1, <1>3
<1>7. Range(q) \subseteq {Head(q)} \cup Range(Tail(q))
  <2> SUFFICES ASSUME NEW j \in 1 .. Len(q), q[j] # Head(q)
               PROVE  q[j] \in Range(Tail(q))
    BY <1>5
  <2>1. j - 1 \in 1 .. Len(Tail(q)) /\ Tail(q)[j - 1] = q[(j - 1) + 1] /\ (j - 1) + 1 = j
    BY <1>2, <1>3, <1>4
  <2>2. QED BY <1>5, <2>1
<1>8. {Head(q)} \cup Range(Tail(q)) \subseteq Range(q)
  BY <1>2, <1>3, <1>5, <1>6
<1>9. QED BY <1>1, <1>7, <1>8

-----------------------------------------------------------------------------
(* The inductive invariant of the clones. *)

(* A group has a name exactly if it has a socket. *)
Named(g) == g.gen = 0 <=> g.len = 0

(* A batch of events lasts for one round of recv_from. *)
Batch(c) ==
  /\ at[c] = "event" => events[c] # <<>>
  /\ at[c] \notin {"event", "apply"} => events[c] = <<>>

(* A change that is going on has loaded a status.                          *)
Loaded(c) == Applying(c) => seen[c] \in Types

(* The waker is in the list before the clone loads the status.             *)
InList(c) ==
  at[c] \in Receiving \cup {"cloned", "copying"} => c \in change_waker_list

(* Every datagram the clone could take has its token in the poll or in the *)
(* batch, or its socket is still to be tried.                              *)
Covered(c) ==
  at[c] \in {"udp", "poll", "event", "apply"} =>
    \A s \in Registered(c) \cap pending :
      \/ TokenOf(s) \in Range(ready[c]) \cup Range(events[c])
      \/ at[c] = "udp" /\ s # Default /\ s[2] >= index[c]

Told(c) ==
  stale[c] /\ ~lost[c] /\ at[c] \in Receiving \cup {"copying"} =>
    \/ CHANGE_TOKEN \in Range(ready[c]) \cup Range(events[c])
    \/ \E k \in Controllers : c \in to_wake[k]

Sound(c) ==
  /\ Named(udp_list[c])
  /\ Batch(c) /\ Loaded(c) /\ InList(c) /\ Covered(c) /\ Told(c)

(* A controller that works has been asked for something. *)
HasWish(k) == ctl[k] \in {"lock", "load", "store"} => want[k] # None

CloneInv ==
  /\ TypeOK
  /\ Named(share_info)
  /\ \A c \in Clones : Sound(c)
  /\ \A k \in Controllers : HasWish(k)

LEMMA InitClones == Init => CloneInv
<1> SUFFICES ASSUME Init PROVE CloneInv
  OBVIOUS
<1>1. Empty \in Groups /\ Named(Empty)
  BY NatAssumption DEF Empty, Groups, Named
<1>2. TypeOK
  BY <1>1, NatAssumption DEF Init, TypeOK, Points, Receiving, Types
<1>3. \A c \in Clones : Sound(c)
  BY <1>1 DEF Init, Sound, Batch, Loaded, Applying, InList, Covered, Told, Receiving
<1>4. QED BY <1>1, <1>2, <1>3 DEF CloneInv, Init, HasWish

(* A step that does not touch a clone, but may take datagrams away.        *)
LEMMA OtherClone ==
  ASSUME NEW d \in Clones, Sound(d),
         at'[d] = at[d], udp_list'[d] = udp_list[d], ready'[d] = ready[d],
         events'[d] = events[d], index'[d] = index[d], seen'[d] = seen[d],
         stale'[d] = stale[d], lost'[d] = lost[d],
         pending' \subseteq pending,
         d \in change_waker_list => d \in change_waker_list',
         UNCHANGED to_wake
  PROVE  Sound(d)'
BY DEF Sound, Named, Batch, Loaded, Applying, InList, Covered, Told, Registered,
   HasPoll

(* It is enough to look at the clone that takes the step.                  *)
LEMMA OwnClone ==
  ASSUME CloneInv, NEW c \in Clones, TypeOK', Named(share_info'), Sound(c)',
         \A d \in Clones \ {c} :
           /\ at'[d] = at[d] /\ udp_list'[d] = udp_list[d] /\ ready'[d] = ready[d]
           /\ events'[d] = events[d] /\ index'[d] = index[d] /\ seen'[d] = seen[d]
           /\ stale'[d] = stale[d] /\ lost'[d] = lost[d]
           /\ d \in change_waker_list => d \in change_waker_list',
         pending' \subseteq pending,
         UNCHANGED <<ctl, want, to_wake>>
  PROVE  CloneInv'
<1>1. \A d \in Clones \ {c} : Sound(d)'
  BY OtherClone DEF CloneInv
<1>2. QED BY <1>1 DEF CloneInv, HasWish

LEMMA RegisteredSockets ==
  ASSUME TypeOK, NEW c \in Clones, Named(udp_list[c]), NEW s \in Registered(c)
  PROVE  \/ s = Default /\ TokenOf(s) = DEFAULT_TOKEN
         \/ /\ s # Default /\ s[1] = udp_list[c].gen
            /\ s[2] \in 0 .. size - 1 /\ s[2] < udp_list[c].len
            /\ TokenOf(s) = s[2] /\ s = <<udp_list[c].gen, s[2]>>
<1>1. udp_list[c].len \in 0 .. size /\ size \in Nat
  BY NatAssumption DEF TypeOK, Groups
<1>2. CASE s = Default
  BY <1>2 DEF TokenOf
<1>3. CASE s \in SocketsOf(udp_list[c])
  <2>1. PICK i \in 0 .. udp_list[c].len - 1 : s = <<udp_list[c].gen, i>>
    BY <1>3 DEF SocketsOf
  <2>2. udp_list[c].gen # 0
    BY <1>1, <2>1 DEF Named
  <2>3. QED BY <1>1, <2>1, <2>2 DEF Default, TokenOf
<1>4. QED BY <1>2, <1>3 DEF Registered

-----------------------------------------------------------------------------
(* The steps of recv_from. *)

LEMMA DeliverStep ==
  ASSUME CloneInv, NEW c \in Clones, NEW s, at[c] \in {"out", "udp", "event"},
         Deliver(c, s),
         UNCHANGED <<shared, udp_list, ready, seen, control, stale>>
  PROVE  CloneInv'
<1> USE DEF CloneInv
<1>1. TypeOK'
  BY NatAssumption DEF TypeOK, Deliver, Goto, shared, control, Points, Receiving
<1>2. at'[c] = "out" /\ events'[c] = <<>>
  BY DEF Deliver, Goto, TypeOK
<1>3. Told(c)'
  BY <1>2 DEF Deliver, TypeOK, control, Told, Sound, Receiving
<1>4. Sound(c)'
  BY <1>2, <1>3 DEF Sound, Named, Batch, Loaded, Applying, InList, Covered,
     Receiving, shared
<1>5. QED
  BY <1>1, <1>4, OwnClone DEF Deliver, Goto, TypeOK, shared, control

LEMMA TryStep ==
  ASSUME CloneInv, NEW c \in Clones, at[c] \in {"out", "udp"}, NEW i \in Nat,
         \A s \in Registered(c) \cap pending :
           TokenOf(s) \in Range(ready[c]) \/ (s # Default /\ s[2] >= i),
         Try(c, i),
         UNCHANGED <<shared, udp_list, ready, seen, control, stale>>
  PROVE  CloneInv'
<1> USE DEF CloneInv
<1>1. udp_list[c].len \in 0 .. size /\ size \in Nat \ {0}
  BY NatAssumption DEF TypeOK, Groups
<1>2. at'[c] = (IF i < udp_list[c].len THEN "udp" ELSE "poll")
      /\ index'[c] = (IF i < udp_list[c].len THEN i ELSE 0)
  BY DEF Try, Goto, TypeOK
<1>3. TypeOK'
  BY <1>1 DEF TypeOK, Try, Goto, shared, control, Points, Receiving
<1>4. events[c] = <<>> /\ Range(events[c]) = {}
  BY DEF Sound, Batch, Range
<1>5. Told(c)'
  BY <1>2 DEF Try, control, Told, Sound, Receiving
<1>6. Covered(c)'
  <2> SUFFICES ASSUME NEW s \in Registered(c) \cap pending
               PROVE  \/ TokenOf(s) \in Range(ready[c])
                      \/ at'[c] = "udp" /\ s # Default /\ s[2] >= index'[c]
    BY <1>2 DEF Covered, Registered, HasPoll, Receiving, Try
  <2>1. CASE TokenOf(s) \notin Range(ready[c])
    <3>1. s # Default /\ s[2] >= i
      BY <2>1
    <3>2. s[2] < udp_list[c].len /\ s[2] \in Nat
      BY <3>1, RegisteredSockets DEF Sound
    <3>3. QED BY <1>1, <1>2, <3>1, <3>2
  <2>2. QED BY <2>1
<1>7. Sound(c)'
  BY <1>2, <1>4, <1>5, <1>6 DEF Sound, Named, Batch, Loaded, Applying, InList,
     Receiving, shared, Try
<1>8. QED
  BY <1>3, <1>7, OwnClone DEF Try, Goto, TypeOK, shared, control

LEMMA TryDefaultStep ==
  ASSUME CloneInv, NEW c \in Clones, TryDefault(c)
  PROVE  CloneInv'
<1>1. CASE Default \in pending
  BY <1>1, DeliverStep DEF TryDefault
<1>2. CASE Default \notin pending
  <2>1. \A s \in Registered(c) \cap pending : s # Default /\ s[2] >= 0
    BY <1>2, RegisteredSockets DEF CloneInv, Sound
  <2>2. QED BY <1>2, <2>1, TryStep DEF TryDefault
<1>3. QED BY <1>1, <1>2

LEMMA TryUdpStep ==
  ASSUME CloneInv, NEW c \in Clones, TryUdp(c)
  PROVE  CloneInv'
<1> DEFINE t == <<udp_list[c].gen, index[c]>>
<1>1. CASE t \in pending
  BY <1>1, DeliverStep DEF TryUdp
<1>2. CASE t \notin pending
  <2>0. at[c] = "udp" /\ index[c] \in Nat
    BY NatAssumption DEF TryUdp, CloneInv, TypeOK
  <2>1. ASSUME NEW s \in Registered(c) \cap pending
        PROVE  TokenOf(s) \in Range(ready[c]) \/ (s # Default /\ s[2] >= index[c] + 1)
    <3>1. events[c] = <<>> /\ Range(events[c]) = {}
      BY <2>0 DEF CloneInv, Sound, Batch, Range
    <3>2. Covered(c)
      BY DEF CloneInv, Sound
    <3>3. TokenOf(s) \in Range(ready[c]) \/ (s # Default /\ s[2] >= index[c])
      BY <2>0, <3>1, <3>2 DEF Covered
    <3>4. s # Default => s[2] # index[c] /\ s[2] \in 0 .. size - 1
      BY <1>2, RegisteredSockets DEF CloneInv, Sound
    <3>5. s # Default /\ s[2] >= index[c] => s[2] >= index[c] + 1
      BY <2>0, <3>4, NatAssumption
    <3>6. QED BY <3>3, <3>5
  <2>2. index[c] + 1 \in Nat
    BY <2>0
  <2>3. QED BY <1>2, <2>0, <2>1, <2>2, TryStep DEF TryUdp
<1>3. QED BY <1>1, <1>2

(* A socket the clone listens on is readable exactly if it has a datagram. *)
LEMMA ReadableSockets ==
  ASSUME TypeOK, NEW c \in Clones, Named(udp_list[c]),
         NEW s \in Registered(c) \cap pending
  PROVE  TokenOf(s) \in Tokens /\ Readable(c, TokenOf(s))
BY RegisteredSockets, TokenFacts DEF Readable

LEMMA LiveProperties ==
  ASSUME TypeOK, NEW c \in Clones
  PROVE  /\ Live(c) \in Seq(Tokens)
         /\ Range(Live(c)) = {t \in Range(ready[c]) : Readable(c, t)}
<1>1. ready[c] \in Seq(Tokens)
  BY DEF TypeOK
<1>2. Range(ready[c]) \subseteq Tokens
  BY <1>1, RangeOfSeq
<1>3. QED BY <1>1, <1>2, OnlyProperties DEF Live

LEMMA PollStep ==
  ASSUME CloneInv, NEW c \in Clones, Poll(c)
  PROVE  CloneInv'
<1> USE DEF CloneInv
<1> DEFINE n == IF Len(Live(c)) > capacity THEN capacity ELSE Len(Live(c))
<1>1. Live(c) \in Seq(Tokens) /\ Len(Live(c)) \in Nat
  BY LiveProperties
<1>2. n \in 0 .. Len(Live(c)) /\ n > 0
  BY <1>1, NatAssumption DEF Poll
<1>3. events'[c] = SubSeq(Live(c), 1, n)
      /\ ready'[c] = SubSeq(Live(c), n + 1, Len(Live(c)))
  BY DEF Poll, TypeOK
<1>4. /\ events'[c] \in Seq(Tokens) /\ ready'[c] \in Seq(Tokens)
      /\ events'[c] # <<>>
      /\ Range(events'[c]) \cup Range(ready'[c]) = Range(Live(c))
  <2> HIDE DEF n
  <2> DEFINE q == Live(c)
  <2>1. q \in Seq(Tokens) /\ n \in 0 .. Len(q) /\ n > 0
    BY <1>1, <1>2
  <2> HIDE DEF q
  <2>2. /\ SubSeq(q, 1, n) \in Seq(Tokens) /\ SubSeq(q, n + 1, Len(q)) \in Seq(Tokens)
        /\ SubSeq(q, 1, n) # <<>>
        /\ Range(SubSeq(q, 1, n)) \cup Range(SubSeq(q, n + 1, Len(q))) = Range(q)
    BY <2>1, SplitProperties
  <2>3. QED BY <1>3, <2>2 DEF q
<1>5. at[c] = "poll" /\ at'[c] = "event"
  BY DEF Poll, Goto, TypeOK
<1>6. TypeOK'
  <2> HIDE DEF n
  <2>1. events' \in [Clones -> Seq(Tokens)] /\ ready' \in [Clones -> Seq(Tokens)]
    BY <1>4 DEF Poll, TypeOK
  <2>2. at' \in [Clones -> Points]
    BY DEF Poll, Goto, TypeOK, Points, Receiving
  <2>3. QED BY <2>1, <2>2 DEF Poll, TypeOK, shared, control, ghosts
<1>7. Range(events[c]) = {}
  BY <1>5 DEF Sound, Batch, Range
<1>8. Covered(c)'
  <2> SUFFICES ASSUME NEW s \in Registered(c) \cap pending
               PROVE  TokenOf(s) \in Range(ready'[c]) \cup Range(events'[c])
    BY <1>5 DEF Covered, Registered, HasPoll, Receiving, Poll
  <2>1. TokenOf(s) \in Range(ready[c])
    BY <1>5, <1>7 DEF Sound, Covered
  <2>2. Readable(c, TokenOf(s))
    BY ReadableSockets DEF Sound
  <2>3. QED BY <1>4, <2>1, <2>2, LiveProperties
<1>9. Told(c)'
  <2>1. Readable(c, CHANGE_TOKEN)
    BY TokenFacts DEF Readable
  <2>2. CHANGE_TOKEN \in Range(ready[c]) => CHANGE_TOKEN \in Range(Live(c))
    BY <2>1, LiveProperties
  <2>3. Told(c) /\ UNCHANGED <<stale, lost, to_wake>>
    BY DEF Sound, Poll, control, ghosts
  <2>4. QED BY <1>4, <1>5, <1>7, <2>2, <2>3 DEF Told, Receiving
<1>10. Sound(c)'
  BY <1>4, <1>5, <1>8, <1>9 DEF Sound, Named, Batch, Loaded, Applying, InList,
     Receiving, shared, Poll
<1>11. QED
  BY <1>6, <1>10, OwnClone DEF Poll, Goto, TypeOK, shared, control, ghosts

(* What becomes of the clone when the first event of a batch is dealt with. *)
LEMMA NextEventPoints ==
  ASSUME TypeOK, NEW c \in Clones, NEW rest \in Seq(Tokens), NextEvent(c, rest)
  PROVE  /\ events'[c] = rest /\ events' \in [Clones -> Seq(Tokens)]
         /\ at'[c] = (IF rest = <<>> THEN "out" ELSE "event")
         /\ at' \in [Clones -> Points]
         /\ Batch(c)'
BY DEF TypeOK, NextEvent, Goto, Batch, Points, Receiving

LEMMA EventStep ==
  ASSUME CloneInv, NEW c \in Clones, Event(c)
  PROVE  CloneInv'
<1> USE DEF CloneInv
<1> DEFINE token == Head(events[c])
           t     == IF token = DEFAULT_TOKEN THEN Default
                    ELSE <<udp_list[c].gen, token>>
<1>1. at[c] = "event" /\ token # CHANGE_TOKEN
      /\ UNCHANGED <<shared, udp_list, ready, seen, control, stale>>
  BY DEF Event
<1>2. events[c] \in Seq(Tokens) /\ events[c] # <<>>
  BY <1>1 DEF TypeOK, Sound, Batch
<1>3. /\ Tail(events[c]) \in Seq(Tokens)
      /\ Range(events[c]) = {token} \cup Range(Tail(events[c]))
  BY <1>2, TailProperties
<1>4. CASE t \in Registered(c) \cap pending
  BY <1>1, <1>4, DeliverStep DEF Event
<1>5. CASE t \notin Registered(c) \cap pending
  <2>1. NextEvent(c, Tail(events[c])) /\ UNCHANGED <<pending, index, lost>>
    BY <1>5 DEF Event
  <2>2. /\ events'[c] = Tail(events[c]) /\ events' \in [Clones -> Seq(Tokens)]
        /\ at'[c] \in {"out", "event"}
        /\ at' \in [Clones -> Points]
        /\ Batch(c)'
    BY <1>3, <2>1, NextEventPoints
  <2>3. TypeOK'
    BY <1>1, <2>1, <2>2 DEF TypeOK, shared, control
  <2>4. Covered(c)'
    <3> SUFFICES ASSUME NEW s \in Registered(c) \cap pending
                 PROVE  TokenOf(s) \in Range(ready[c]) \cup Range(Tail(events[c]))
      BY <1>1, <2>1, <2>2 DEF Covered, Registered, HasPoll, Receiving
    <3>1. TokenOf(s) \in Range(ready[c]) \cup Range(events[c])
      BY <1>1 DEF Sound, Covered
    <3>2. TokenOf(s) # token
      <4>1. s # t
        BY <1>5
      <4>2. CASE s = Default
        BY <4>1, <4>2 DEF TokenOf
      <4>3. CASE s # Default
        <5>1. s = <<udp_list[c].gen, s[2]>> /\ TokenOf(s) = s[2]
              /\ s[2] \in 0 .. size - 1
          BY <4>3, RegisteredSockets DEF Sound
        <5>2. s[2] # DEFAULT_TOKEN
          BY <5>1, TokenFacts
        <5>3. QED BY <4>1, <5>1, <5>2
      <4>4. QED BY <4>2, <4>3
    <3>3. QED BY <1>3, <3>1, <3>2
  <2>5. Told(c)'
    <3>1. Told(c) /\ UNCHANGED <<ready, stale, lost, to_wake>>
      BY <1>1, <2>1 DEF Sound, control
    <3>2. QED BY <1>1, <1>3, <2>2, <3>1 DEF Told, Receiving
  <2>6. Sound(c)'
    BY <1>1, <2>2, <2>4, <2>5 DEF Sound, Named, Loaded, Applying, InList,
       Receiving, shared
  <2>7. QED
    BY <1>1, <2>1, <2>3, <2>6, OwnClone DEF NextEvent, Goto, TypeOK, shared, control
<1>6. QED BY <1>4, <1>5

LEMMA PollTimeoutStep ==
  ASSUME CloneInv, NEW c \in Clones, PollTimeout(c)
  PROVE  CloneInv'
<1> USE DEF CloneInv
<1>1. at[c] = "poll" /\ at'[c] = "out"
  BY DEF PollTimeout, Goto, TypeOK
<1>2. TypeOK'
  BY DEF PollTimeout, Goto, TypeOK, Points, Receiving, shared, polls, control, ghosts
<1>3. Sound(c)'
  BY <1>1 DEF PollTimeout, Sound, Named, Batch, Loaded, Applying, InList, Covered,
     Told, Receiving, shared, polls, control, ghosts
<1>4. QED
  BY <1>2, <1>3, OwnClone
  DEF PollTimeout, Goto, TypeOK, shared, polls, control, ghosts

-----------------------------------------------------------------------------
(* The steps of change(). *)

LEMMA ChangeLoadStep ==
  ASSUME CloneInv, NEW c \in Clones, ChangeLoad(c)
  PROVE  CloneInv'
<1> USE DEF CloneInv
<1>1. /\ at[c] \in {"event", "cloned"}
      /\ at[c] = "event" => Head(events[c]) = CHANGE_TOKEN
      /\ stale'[c] = FALSE
      /\ UNCHANGED <<shared, udp_list, ready, pending, index, control>>
  BY DEF ChangeLoad, Called, TypeOK
<1>2. CASE Closed
  <2>1. at'[c] \in {"dropping", "failed"} /\ events'[c] = <<>> /\ UNCHANGED seen
    BY <1>1, <1>2 DEF ChangeLoad, Fail, Goto, TypeOK
  <2>2. at' \in [Clones -> Points] /\ events' \in [Clones -> Seq(Tokens)]
    <3>1. Fail(c)
      BY <1>2 DEF ChangeLoad
    <3>2. at' \in [Clones -> Points]
      BY <1>1, <3>1 DEF Fail, Goto, TypeOK, Points
    <3>3. <<>> \in Seq(Tokens)
      OBVIOUS
    <3>4. events' \in [Clones -> Seq(Tokens)]
      BY <3>1, <3>3 DEF Fail, TypeOK
    <3>5. QED BY <3>2, <3>4
  <2>3. TypeOK'
    BY <1>1, <2>1, <2>2 DEF ChangeLoad, TypeOK, shared, control
  <2>4. Sound(c)'
    BY <1>1, <2>1 DEF Sound, Named, Batch, Loaded, Applying, InList, Covered, Told,
       Receiving, shared, control
  <2>5. QED
    BY <1>1, <1>2, <2>1, <2>3, <2>4, OwnClone
    DEF ChangeLoad, Fail, Goto, TypeOK, shared, control
<1>3. CASE ~Closed
  <2>1. /\ at'[c] = (IF at[c] = "event" THEN "apply" ELSE "copying")
        /\ seen'[c] = status /\ status \in Types
        /\ events'[c] = (IF events[c] = <<>> THEN <<>> ELSE Tail(events[c]))
    BY <1>3 DEF ChangeLoad, Goto, TypeOK, Closed
  <2>2. events'[c] \in Seq(Tokens)
        /\ Range(events[c]) \subseteq Range(events'[c]) \cup {CHANGE_TOKEN}
    <3>1. CASE events[c] = <<>>
      BY <2>1, <3>1 DEF TypeOK
    <3>2. CASE events[c] # <<>>
      <4>1. at[c] = "event"
        BY <1>1, <3>2 DEF Sound, Batch
      <4>2. events[c] \in Seq(Tokens)
        BY DEF TypeOK
      <4>3. QED BY <1>1, <2>1, <3>2, <4>1, <4>2, TailProperties
    <3>3. QED BY <3>1, <3>2
  <2>3. events' \in [Clones -> Seq(Tokens)]
    <3>1. events' = [events EXCEPT ![c] = events'[c]]
      BY <1>3 DEF ChangeLoad, TypeOK
    <3>2. QED BY <2>2, <3>1 DEF TypeOK
  <2>4. at' \in [Clones -> Points] /\ seen' \in [Clones -> Types \cup {None}]
    BY <1>3, <2>1 DEF ChangeLoad, Goto, TypeOK, Points, Receiving
  <2>5. TypeOK'
    BY <1>1, <2>3, <2>4 DEF ChangeLoad, TypeOK, shared, control
  <2>6. Covered(c)'
    <3> SUFFICES ASSUME NEW s \in Registered(c) \cap pending, at[c] = "event"
                 PROVE  TokenOf(s) \in Range(ready[c]) \cup Range(events'[c])
      BY <1>1, <2>1 DEF Covered, Registered, HasPoll, Receiving
    <3>1. TokenOf(s) \in Range(ready[c]) \cup Range(events[c])
      BY DEF Sound, Covered
    <3>2. TokenOf(s) # CHANGE_TOKEN
      BY RegisteredSockets, TokenFacts DEF Sound
    <3>3. QED BY <2>2, <3>1, <3>2
  <2>7. Batch(c)'
    BY <1>1, <2>1 DEF Sound, Batch
  <2>8. Sound(c)'
    BY <1>1, <2>1, <2>6, <2>7 DEF Sound, Named, Loaded, Applying, InList, Told,
       Receiving, shared
  <2>9. QED
    BY <1>1, <1>3, <2>5, <2>8, OwnClone DEF ChangeLoad, Goto, TypeOK, shared, control
<1>4. QED BY <1>2, <1>3

LEMMA RelistenProperties ==
  ASSUME TypeOK, NEW c \in Clones, NEW g \in Groups, Relisten(c, g)
  PROVE  /\ udp_list'[c] = g
         /\ udp_list' \in [Clones -> Groups]
         /\ ready' \in [Clones -> Seq(Tokens)]
         /\ Range(ready'[c]) =
              (Range(ready[c]) \cap {DEFAULT_TOKEN, CHANGE_TOKEN})
                \cup {i \in 0 .. g.len - 1 : <<g.gen, i>> \in pending}
         /\ \A d \in Clones \ {c} :
              udp_list'[d] = udp_list[d] /\ ready'[d] = ready[d]
<1> DEFINE all  == [i \in 1 .. g.len |-> i - 1]
           kept == Only(ready[c], {DEFAULT_TOKEN, CHANGE_TOKEN})
           new  == Only(all, {token \in Tokens : <<g.gen, token>> \in pending})
<1>1. g.len \in 0 .. size /\ size \in Nat
  BY NatAssumption DEF Groups
<1>2. all \in Seq(Tokens) /\ Range(all) = 0 .. g.len - 1
  <2>1. \A i \in 1 .. g.len : i - 1 \in 0 .. g.len - 1 /\ i - 1 \in Tokens
    BY <1>1, TokenFacts
  <2>2. \A j \in 0 .. g.len - 1 : j + 1 \in 1 .. g.len /\ (j + 1) - 1 = j
    BY <1>1
  <2>3. all \in Seq(Tokens)
    BY <1>1, <2>1
  <2>4. DOMAIN all = 1 .. g.len
    OBVIOUS
  <2>5. Range(all) = {all[i] : i \in 1 .. g.len}
    BY <2>4 DEF Range
  <2>6. QED BY <2>1, <2>2, <2>3, <2>5
<1>3. kept \in Seq(Tokens)
      /\ Range(kept) = Range(ready[c]) \cap {DEFAULT_TOKEN, CHANGE_TOKEN}
  BY OnlyProperties DEF TypeOK
<1> HIDE DEF all
<1>4. new \in Seq(Tokens)
      /\ Range(new) = Range(all) \cap {token \in Tokens : <<g.gen, token>> \in pending}
  BY <1>2, OnlyProperties
<1>5. Range(new) = {i \in 0 .. g.len - 1 : <<g.gen, i>> \in pending}
  <2>1. 0 .. g.len - 1 \subseteq Tokens
    BY <1>1, TokenFacts
  <2>2. QED BY <1>2, <1>4, <2>1
<1>6. ready' = [ready EXCEPT ![c] = kept \o new]
  BY DEF Relisten, all
<1> HIDE DEF kept, new
<1>7. kept \o new \in Seq(Tokens) /\ Range(kept \o new) = Range(kept) \cup Range(new)
  BY <1>3, <1>4, ConcatProperties, RangeConcatenation
<1>8. QED
  BY <1>3, <1>5, <1>6, <1>7 DEF Relisten, TypeOK

LEMMA FreshGenFresh ==
  ASSUME TypeOK, share_info.gen = 0
  PROVE  FreshGen \in Gens
<1> DEFINE used == [c \in Clones |-> udp_list[c].gen]
<1>1. used \in [Clones -> Gens \cup {0}]
  BY DEF TypeOK, Groups
<1>2. Gens \ Range(used) # {} /\ 0 \notin Gens
  BY <1>1, NatAssumption
<1>3. Used = {0} \cup Range(used)
  BY <1>1 DEF Used, Range
<1>4. \E g \in Gens : g \notin Used
  BY <1>2, <1>3
<1>5. QED BY <1>4 DEF FreshGen

(* change() takes over a group, or none, and comes to its end.             *)
LEMMA ApplyStep ==
  ASSUME CloneInv, NEW c \in Clones, Applying(c), NEW g \in Groups, Named(g),
         share_info' \in Groups, Named(share_info'),
         Relisten(c, g), Succeed(c), Leave(c), pending' \subseteq pending,
         UNCHANGED <<status, change_waker_list, list_lock, index, control, ghosts>>
  PROVE  CloneInv'
<1> USE DEF CloneInv
<1>1. at[c] \in {"apply", "copying"} /\ events[c] \in Seq(Tokens)
  BY DEF Applying, TypeOK
<1>2. /\ events'[c] = events[c] /\ events' = events
      /\ at'[c] \in {"out", "event"}
      /\ at[c] = "copying" => at'[c] = "out"
      /\ at' \in [Clones -> Points]
      /\ \A d \in Clones \ {c} : at'[d] = at[d]
      /\ Batch(c)'
  <2>1. CASE at[c] = "apply"
    BY <1>1, <2>1 DEF Succeed, NextEvent, Goto, TypeOK, Points, Receiving, Batch
  <2>2. CASE at[c] = "copying"
    <3>1. events[c] = <<>>
      BY <2>2 DEF Sound, Batch
    <3>2. QED BY <1>1, <2>2, <3>1 DEF Succeed, Goto, TypeOK, Points, Receiving, Batch
  <2>3. QED BY <1>1, <2>1, <2>2
<1>3. seen'[c] = None /\ seen' \in [Clones -> Types \cup {None}]
      /\ \A d \in Clones \ {c} : seen'[d] = seen[d]
  BY DEF Leave, TypeOK
<1>4. /\ udp_list'[c] = g
      /\ udp_list' \in [Clones -> Groups]
      /\ ready' \in [Clones -> Seq(Tokens)]
      /\ Range(ready'[c]) =
           (Range(ready[c]) \cap {DEFAULT_TOKEN, CHANGE_TOKEN})
             \cup {i \in 0 .. g.len - 1 : <<g.gen, i>> \in pending}
      /\ \A d \in Clones \ {c} :
           udp_list'[d] = udp_list[d] /\ ready'[d] = ready[d]
  BY RelistenProperties
<1>5. TypeOK'
  BY <1>2, <1>3, <1>4 DEF TypeOK, control, ghosts
<1>6. ASSUME at[c] = "apply", NEW s \in ({Default} \cup SocketsOf(g)) \cap pending
      PROVE  TokenOf(s) \in Range(ready'[c]) \cup Range(events[c])
  <2>1. CASE s = Default
    <3>1. Default \in Registered(c) \cap pending
      BY <1>6, <2>1 DEF Registered, HasPoll, Receiving
    <3>2. TokenOf(s) \in Range(ready[c]) \cup Range(events[c])
      BY <1>6, <2>1, <3>1 DEF Sound, Covered
    <3>3. QED BY <1>4, <2>1, <3>2 DEF TokenOf
  <2>2. CASE s # Default
    <3>1. PICK i \in 0 .. g.len - 1 : s = <<g.gen, i>>
      BY <1>6, <2>2 DEF SocketsOf
    <3>2. QED BY <1>4, <1>6, <2>2, <3>1 DEF TokenOf
  <2>3. QED BY <2>1, <2>2
<1>7. Covered(c)'
  <2> SUFFICES ASSUME at'[c] = "event",
                      NEW s \in ({Default} \cup SocketsOf(g)) \cap pending
               PROVE  TokenOf(s) \in Range(ready'[c]) \cup Range(events[c])
    BY <1>2, <1>4 DEF Covered, Registered, HasPoll, Receiving
  <2>1. QED BY <1>1, <1>2, <1>6
<1>8. Told(c)'
  <2>1. Told(c) /\ UNCHANGED <<stale, lost, to_wake>>
    BY DEF Sound, control, ghosts
  <2>2. CHANGE_TOKEN \in Range(ready[c]) => CHANGE_TOKEN \in Range(ready'[c])
    BY <1>4
  <2>3. QED BY <1>1, <1>2, <2>1, <2>2 DEF Told, Receiving
<1>9. Sound(c)'
  BY <1>1, <1>2, <1>4, <1>7, <1>8 DEF Sound, Loaded, Applying, InList, Receiving
<1>10. QED
  BY <1>2, <1>3, <1>4, <1>5, <1>9, OwnClone DEF control, ghosts

LEMMA EmptyGroup == Empty \in Groups /\ Named(Empty)
BY NatAssumption DEF Empty, Groups, Named

(* A group that is made: all of it, or what was bound before an error.     *)
LEMMA NewGroup ==
  ASSUME CloneInv, share_info.len = 0, NEW n \in 1 .. size
  PROVE  [gen |-> FreshGen, len |-> n] \in Groups /\ Named([gen |-> FreshGen, len |-> n])
<1>1. share_info.gen = 0
  BY DEF CloneInv, Named
<1>2. FreshGen \in Gens
  BY <1>1, FreshGenFresh DEF CloneInv
<1>3. FreshGen # 0 /\ n # 0 /\ n \in 0 .. size
  BY <1>2, NatAssumption
<1>4. QED BY <1>2, <1>3 DEF Groups, Named

LEMMA ChangeConeStep ==
  ASSUME CloneInv, NEW c \in Clones, ChangeCone(c)
  PROVE  CloneInv'
<1>1. share_info' = Empty /\ pending' \subseteq pending
  BY DEF ChangeCone, Cleared
<1>2. QED BY <1>1, EmptyGroup, ApplyStep DEF ChangeCone

LEMMA ChangeSymmetricStep ==
  ASSUME CloneInv, NEW c \in Clones, ChangeSymmetric(c)
  PROVE  CloneInv'
<1>1. share_info' \in Groups /\ Named(share_info')
  <2>1. size \in 1 .. size
    BY NatAssumption
  <2>2. CASE share_info.len = 0
    BY <2>1, <2>2, NewGroup DEF ChangeSymmetric
  <2>3. CASE share_info.len # 0
    BY <2>3 DEF ChangeSymmetric, CloneInv, TypeOK
  <2>4. QED BY <2>2, <2>3
<1>2. pending' \subseteq pending
  BY DEF ChangeSymmetric
<1>3. QED BY <1>1, <1>2, ApplyStep DEF ChangeSymmetric

LEMMA ChangeFailsStep ==
  ASSUME CloneInv, NEW c \in Clones, NEW n \in 0 .. size, ChangeFails(c, n)
  PROVE  CloneInv'
<1>1. share_info' \in Groups /\ Named(share_info')
  <2>1. CASE share_info.len = 0 /\ n # 0
    <3>1. n \in 1 .. size
      BY <2>1, NatAssumption
    <3>2. QED BY <2>1, <3>1, NewGroup DEF ChangeFails
  <2>2. CASE share_info.len = 0 /\ n = 0
    BY <2>2, EmptyGroup DEF ChangeFails
  <2>3. CASE share_info.len # 0
    BY <2>3 DEF ChangeFails, CloneInv, TypeOK
  <2>4. QED BY <2>1, <2>2, <2>3
<1>2. /\ at[c] \in {"apply", "copying"}
      /\ at'[c] \in {"dropping", "failed"}
      /\ at' \in [Clones -> Points]
      /\ \A d \in Clones \ {c} : at'[d] = at[d]
      /\ at[c] = "copying" => at'[c] = "failed"
  BY DEF ChangeFails, Applying, Fail, Goto, CloneInv, TypeOK, Points
<1>3. /\ events'[c] = <<>> /\ events' \in [Clones -> Seq(Tokens)]
      /\ \A d \in Clones \ {c} : events'[d] = events[d]
  <2>1. <<>> \in Seq(Tokens)
    OBVIOUS
  <2>2. QED BY <2>1 DEF ChangeFails, Fail, CloneInv, TypeOK
<1>4. seen' \in [Clones -> Types \cup {None}]
      /\ \A d \in Clones \ {c} : seen'[d] = seen[d]
  BY DEF ChangeFails, Leave, CloneInv, TypeOK
<1>5. /\ udp_list'[c] = Empty
      /\ udp_list' \in [Clones -> Groups]
      /\ ready' \in [Clones -> Seq(Tokens)]
      /\ \A d \in Clones \ {c} :
           udp_list'[d] = udp_list[d] /\ ready'[d] = ready[d]
  BY EmptyGroup, RelistenProperties DEF ChangeFails, CloneInv
<1>6. pending' \subseteq pending
      /\ UNCHANGED <<status, change_waker_list, list_lock, index, control, ghosts>>
  BY DEF ChangeFails
<1>7. TypeOK'
  BY <1>1, <1>2, <1>3, <1>4, <1>5, <1>6 DEF CloneInv, TypeOK, control, ghosts
<1>8. Sound(c)'
  BY <1>2, <1>3, <1>5, EmptyGroup DEF Sound, Named, Batch, Loaded, Applying, InList,
     Covered, Told, Receiving
<1>9. QED
  BY <1>1, <1>2, <1>3, <1>4, <1>5, <1>6, <1>7, <1>8, OwnClone DEF control, ghosts

-----------------------------------------------------------------------------
(* A clone is made, put into the list of wakers, dropped.                  *)

LEMMA TryCloneStep ==
  ASSUME CloneInv, NEW c \in Clones, TryClone(c)
  PROVE  CloneInv'
<1> USE DEF CloneInv
<1>1. at[c] = "unborn" /\ at'[c] = "cloning" /\ at' \in [Clones -> Points]
      /\ \A d \in Clones \ {c} : at'[d] = at[d]
  BY DEF TryClone, Goto, TypeOK, Points
<1>2. ready' \in [Clones -> Seq(Tokens)]
  <2>1. <<DEFAULT_TOKEN>> \in Seq(Tokens) /\ <<>> \in Seq(Tokens)
    BY TokenFacts
  <2>2. QED BY <2>1 DEF TryClone, TypeOK
<1>3. TypeOK'
  BY <1>1, <1>2 DEF TryClone, TypeOK, shared, control
<1>4. Sound(c)'
  BY <1>1 DEF TryClone, shared, Sound, Named, Batch, Loaded, Applying, InList, Covered,
     Told, Receiving
<1>5. QED
  BY <1>1, <1>3, <1>4, OwnClone DEF TryClone, TypeOK, shared, control

LEMMA PushWakerStep ==
  ASSUME CloneInv, NEW c \in Clones, PushWaker(c)
  PROVE  CloneInv'
<1> USE DEF CloneInv
<1>1. at[c] = "cloning" /\ at'[c] = "cloned" /\ at' \in [Clones -> Points]
      /\ \A d \in Clones \ {c} : at'[d] = at[d]
  BY DEF PushWaker, Goto, TypeOK, Points
<1>2. change_waker_list' = change_waker_list \cup {c}
  BY DEF PushWaker, WithWaker
<1>3. TypeOK'
  BY <1>1, <1>2 DEF PushWaker, TypeOK, polls, control, ghosts
<1>4. Sound(c)'
  BY <1>1, <1>2 DEF PushWaker, polls, Sound, Named, Batch, Loaded, Applying, InList,
     Covered, Told, Receiving
<1>5. QED
  BY <1>1, <1>2, <1>3, <1>4, OwnClone DEF PushWaker, polls, control, ghosts

LEMMA DiscardStep ==
  ASSUME CloneInv, NEW c \in Clones, Discard(c)
  PROVE  CloneInv'
<1> USE DEF CloneInv
<1>1. at[c] = "out" /\ at'[c] = "dropping" /\ at' \in [Clones -> Points]
      /\ \A d \in Clones \ {c} : at'[d] = at[d]
  BY DEF Discard, Goto, TypeOK, Points
<1>2. TypeOK'
  BY <1>1 DEF Discard, TypeOK, shared, polls, control, ghosts
<1>3. Sound(c)'
  BY <1>1 DEF Discard, shared, polls, Sound, Named, Batch, Loaded, Applying, InList,
     Covered, Told, Receiving
<1>4. QED
  BY <1>1, <1>2, <1>3, OwnClone DEF Discard, shared, polls, control, ghosts

LEMMA DropStep ==
  ASSUME CloneInv, NEW c \in Clones, Drop(c)
  PROVE  CloneInv'
<1> USE DEF CloneInv
<1>1. at'[c] = "gone" /\ at' \in [Clones -> Points]
      /\ \A d \in Clones \ {c} : at'[d] = at[d]
  BY DEF Drop, Goto, TypeOK, Points
<1>2. /\ udp_list'[c] = Empty /\ events'[c] = <<>>
      /\ udp_list' \in [Clones -> Groups]
      /\ ready' \in [Clones -> Seq(Tokens)] /\ events' \in [Clones -> Seq(Tokens)]
      /\ \A d \in Clones \ {c} :
           udp_list'[d] = udp_list[d] /\ ready'[d] = ready[d] /\ events'[d] = events[d]
  <2>1. <<>> \in Seq(Tokens)
    OBVIOUS
  <2>2. QED BY <2>1, EmptyGroup DEF Drop, TypeOK
<1>3. pending' \subseteq pending /\ change_waker_list' = change_waker_list \ {c}
      /\ UNCHANGED <<status, list_lock, share_info, index, seen, control, ghosts>>
  BY DEF Drop
<1>4. TypeOK'
  BY <1>1, <1>2, <1>3 DEF TypeOK, control, ghosts
<1>5. Sound(c)'
  BY <1>1, <1>2, EmptyGroup DEF Sound, Named, Batch, Loaded, Applying, InList,
     Covered, Told, Receiving
<1>6. QED
  BY <1>1, <1>2, <1>3, <1>4, <1>5, OwnClone DEF control, ghosts

-----------------------------------------------------------------------------
(* A datagram arrives. *)

LEMMA OpenSockets ==
  ASSUME CloneInv, NEW s \in Open
  PROVE  s \in Sockets /\ TokenOf(s) \in Tokens
<1>1. CASE s = Default
  BY <1>1, TokenFacts DEF Sockets, TokenOf
<1>2. ASSUME NEW g \in Groups, Named(g), s \in SocketsOf(g)
      PROVE  s \in Sockets /\ TokenOf(s) \in Tokens
  <2>1. g.len \in 0 .. size /\ g.gen \in Gens \cup {0} /\ size \in Nat /\ 0 \notin Gens
    BY NatAssumption DEF Groups
  <2>2. PICK i \in 0 .. g.len - 1 : s = <<g.gen, i>>
    BY <1>2 DEF SocketsOf
  <2>3. g.gen \in Gens /\ i \in 0 .. size - 1
    BY <1>2, <2>1, <2>2 DEF Named
  <2>4. s # Default
    BY <2>1, <2>2, <2>3 DEF Default
  <2>5. QED BY <2>2, <2>3, <2>4, TokenFacts DEF Sockets, TokenOf
<1>3. share_info \in Groups /\ Named(share_info)
      /\ \A c \in Clones : udp_list[c] \in Groups /\ Named(udp_list[c])
  BY DEF CloneInv, TypeOK, Sound
<1>4. QED BY <1>1, <1>2, <1>3 DEF Open

LEMMA ArriveStep ==
  ASSUME CloneInv, NEW s \in Sockets, Arrive(s)
  PROVE  CloneInv'
<1> USE DEF CloneInv
<1>1. /\ s \in Sockets /\ TokenOf(s) \in Tokens
      /\ pending' = pending \cup {s}
      /\ UNCHANGED <<shared, udp_list, events, receiver, control, ghosts>>
  BY OpenSockets DEF Arrive
<1>2. ASSUME NEW c \in Clones
      PROVE  /\ ready'[c] \in Seq(Tokens)
             /\ Range(ready[c]) \subseteq Range(ready'[c])
             /\ s \in Registered(c) => TokenOf(s) \in Range(ready'[c])
  <2>1. ready[c] \in Seq(Tokens)
    BY DEF TypeOK
  <2>2. CASE s \in Registered(c)
    <3>1. ready'[c] = Raise(ready[c], TokenOf(s))
      BY <2>2 DEF Arrive
    <3>2. QED BY <1>1, <2>1, <3>1, RaiseProperties
  <2>3. CASE s \notin Registered(c)
    BY <2>1, <2>3 DEF Arrive
  <2>4. QED BY <2>2, <2>3
<1>3. ready' \in [Clones -> Seq(Tokens)]
  <2>1. ready' = [c \in Clones |-> ready'[c]]
    BY DEF Arrive
  <2>2. QED BY <1>2, <2>1
<1>4. TypeOK'
  BY <1>1, <1>3 DEF TypeOK, shared, receiver, control, ghosts
<1>5. ASSUME NEW c \in Clones PROVE Sound(c)'
  <2>1. Registered(c)' = Registered(c)
    BY <1>1 DEF Registered, HasPoll, receiver
  <2>2. Covered(c)'
    <3> SUFFICES ASSUME at[c] \in {"udp", "poll", "event", "apply"},
                        NEW t \in Registered(c) \cap pending'
                 PROVE  \/ TokenOf(t) \in Range(ready'[c]) \cup Range(events[c])
                        \/ at[c] = "udp" /\ t # Default /\ t[2] >= index[c]
      BY <1>1, <2>1 DEF Covered, receiver
    <3>1. CASE t = s
      BY <1>2, <3>1
    <3>2. CASE t \in pending
      BY <1>2, <3>2 DEF Sound, Covered
    <3>3. QED BY <1>1, <3>1, <3>2
  <2>3. Told(c)'
    BY <1>1, <1>2 DEF Sound, Told, receiver, control, ghosts
  <2>4. QED
    BY <1>1, <2>2, <2>3 DEF Sound, Named, Batch, Loaded, Applying, InList, shared,
       receiver
<1>6. QED
  BY <1>1, <1>4, <1>5 DEF Named, HasWish, shared, control

-----------------------------------------------------------------------------
(* The steps of a controller. *)

(* A clone looks to a controller as before, but for what it is told.       *)
LEMMA ToldClone ==
  ASSUME NEW c \in Clones, Sound(c), Told(c)',
         UNCHANGED <<at, index, seen, udp_list, events, pending, change_waker_list>>,
         Range(ready[c]) \subseteq Range(ready'[c])
  PROVE  Sound(c)'
BY DEF Sound, Named, Batch, Loaded, Applying, InList, Covered, Registered, HasPoll

(* The tables of the controllers, and the others' part of them.            *)
Controlled(k) ==
  /\ list_lock' \in Controllers \cup {None}
  /\ ctl' \in [Controllers -> {"idle", "lock", "load", "store", "wake"}]
  /\ want' \in [Controllers -> Types \cup {"Close", None}]
  /\ \A j \in Controllers : HasWish(j)'

LEMMA UnlockControlled ==
  ASSUME CloneInv, NEW k \in Controllers, Unlock(k)
  PROVE  Controlled(k)
BY DEF Unlock, At, CloneInv, TypeOK, HasWish, Controlled

LEMMA CallStep ==
  ASSUME CloneInv, NEW k \in Controllers, NEW s \in Types \cup {"Close"}, Call(k, s)
  PROVE  CloneInv'
<1>1. s # None
  BY NatAssumption DEF Types
<1>2. Controlled(k)
  BY <1>1 DEF Call, At, shared, CloneInv, TypeOK, HasWish, Controlled
<1>3. UNCHANGED <<shared, udp_list, polls, receiver, to_wake, ghosts>>
  BY DEF Call
<1>4. TypeOK'
  BY <1>2, <1>3 DEF CloneInv, TypeOK, Controlled, shared, polls, receiver, ghosts
<1>5. \A c \in Clones : Sound(c)'
  BY <1>3, OtherClone DEF CloneInv, shared, polls, receiver, ghosts
<1>6. QED
  BY <1>2, <1>3, <1>4, <1>5 DEF CloneInv, Named, Controlled, shared

LEMMA LockListStep ==
  ASSUME CloneInv, NEW k \in Controllers, LockList(k)
  PROVE  CloneInv'
<1>1. Controlled(k)
  BY DEF LockList, At, CloneInv, TypeOK, HasWish, Controlled
<1>2. UNCHANGED <<status, change_waker_list, share_info, udp_list, polls, receiver,
                  to_wake, ghosts>>
  BY DEF LockList
<1>3. TypeOK'
  BY <1>1, <1>2 DEF CloneInv, TypeOK, Controlled, polls, receiver, ghosts
<1>4. \A c \in Clones : Sound(c)'
  BY <1>2, OtherClone DEF CloneInv, polls, receiver, ghosts
<1>5. QED
  BY <1>1, <1>2, <1>3, <1>4 DEF CloneInv, Named, Controlled

LEMMA LoadStatusStep ==
  ASSUME CloneInv, NEW k \in Controllers, LoadStatus(k)
  PROVE  CloneInv'
<1>1. Controlled(k)
  <2>1. CASE Unlock(k)
    BY <2>1, UnlockControlled
  <2>2. CASE At(k, "store") /\ UNCHANGED <<list_lock, want>>
    BY <2>2 DEF LoadStatus, At, CloneInv, TypeOK, HasWish, Controlled
  <2>3. QED BY <2>1, <2>2 DEF LoadStatus
<1>2. UNCHANGED <<status, change_waker_list, share_info, udp_list, polls, receiver,
                  to_wake, ghosts>>
  BY DEF LoadStatus
<1>3. TypeOK'
  BY <1>1, <1>2 DEF CloneInv, TypeOK, Controlled, polls, receiver, ghosts
<1>4. \A c \in Clones : Sound(c)'
  BY <1>2, OtherClone DEF CloneInv, polls, receiver, ghosts
<1>5. QED
  BY <1>1, <1>2, <1>3, <1>4 DEF CloneInv, Named, Controlled

LEMMA StoreStatusStep ==
  ASSUME CloneInv, NEW k \in Controllers, StoreStatus(k)
  PROVE  CloneInv'
<1>1. ctl[k] = "store" /\ status' = want[k]
      /\ to_wake' = [to_wake EXCEPT ![k] = change_waker_list]
      /\ stale' = [c \in Clones |-> at[c] \notin {"failed", "gone"}]
      /\ UNCHANGED <<change_waker_list, list_lock, share_info, udp_list, polls,
                     receiver, want, lost>>
  BY DEF StoreStatus
<1>2. Controlled(k)
  BY <1>1 DEF StoreStatus, At, CloneInv, TypeOK, HasWish, Controlled
<1>3. status' \in Types \cup {"Close"}
  BY <1>1 DEF CloneInv, HasWish, TypeOK
<1>4. to_wake' \in [Controllers -> SUBSET Clones] /\ stale' \in [Clones -> BOOLEAN]
      /\ to_wake'[k] = change_waker_list
  BY <1>1 DEF CloneInv, TypeOK
<1>5. TypeOK'
  BY <1>1, <1>2, <1>3, <1>4 DEF CloneInv, TypeOK, Controlled, polls, receiver
<1>6. ASSUME NEW c \in Clones PROVE Sound(c)'
  <2>1. Sound(c) /\ UNCHANGED <<at, index, seen, udp_list, events, pending,
                                change_waker_list, ready>>
    BY <1>1 DEF CloneInv, polls, receiver
  <2>2. Told(c)'
    BY <1>4, <2>1 DEF Told, Sound, InList
  <2>3. QED BY <2>1, <2>2, ToldClone
<1>7. QED
  BY <1>1, <1>2, <1>5, <1>6 DEF CloneInv, Named, Controlled

LEMMA WakeStep ==
  ASSUME CloneInv, NEW k \in Controllers, Wake(k)
  PROVE  CloneInv'
<1>1. UNCHANGED <<status, change_waker_list, share_info, udp_list, events, pending,
                  receiver, ghosts>>
  BY DEF Wake
<1>2. ASSUME NEW d \in to_wake[k],
             to_wake' = [to_wake EXCEPT ![k] = @ \ {d}],
             ready' = [ready EXCEPT ![d] = IF HasPoll(d)
                                           THEN Raise(@, CHANGE_TOKEN) ELSE @],
             UNCHANGED <<list_lock, ctl, want>>
      PROVE  CloneInv'
  <2>1. d \in Clones /\ ready[d] \in Seq(Tokens)
    BY <1>2 DEF CloneInv, TypeOK
  <2>2. /\ ready'[d] \in Seq(Tokens)
        /\ Range(ready[d]) \subseteq Range(ready'[d])
        /\ HasPoll(d) => CHANGE_TOKEN \in Range(ready'[d])
        /\ \A c \in Clones \ {d} : ready'[c] = ready[c]
        /\ ready' \in [Clones -> Seq(Tokens)]
    <3>1. Raise(ready[d], CHANGE_TOKEN) \in Seq(Tokens)
          /\ Range(Raise(ready[d], CHANGE_TOKEN)) = Range(ready[d]) \cup {CHANGE_TOKEN}
      BY <2>1, TokenFacts, RaiseProperties
    <3>2. ready'[d] = IF HasPoll(d) THEN Raise(ready[d], CHANGE_TOKEN) ELSE ready[d]
      BY <1>2, <2>1 DEF CloneInv, TypeOK
    <3>3. ready'[d] \in Seq(Tokens)
      BY <2>1, <3>1, <3>2
    <3>4. ready' = [ready EXCEPT ![d] = ready'[d]]
      BY <1>2, <2>1 DEF CloneInv, TypeOK
    <3>5. QED BY <2>1, <3>1, <3>2, <3>3, <3>4 DEF CloneInv, TypeOK
  <2>3. to_wake' \in [Controllers -> SUBSET Clones]
        /\ \A j \in Controllers : to_wake[j] \ {d} \subseteq to_wake'[j]
    BY <1>2 DEF CloneInv, TypeOK
  <2>4. TypeOK'
    BY <1>1, <1>2, <2>2, <2>3 DEF CloneInv, TypeOK, receiver, ghosts
  <2>5. ASSUME NEW c \in Clones PROVE Sound(c)'
    <3>1. Sound(c) /\ UNCHANGED <<at, index, seen, udp_list, events, pending,
                                  change_waker_list>>
      BY <1>1 DEF CloneInv, receiver
    <3>2. Range(ready[c]) \subseteq Range(ready'[c])
      <4>1. CASE c = d
        BY <2>2, <4>1
      <4>2. CASE c # d
        BY <2>2, <4>2
      <4>3. QED BY <4>1, <4>2
    <3>3. Told(c)'
      <4>1. CASE c = d
        BY <1>1, <2>2, <4>1 DEF Told, HasPoll, receiver
      <4>2. CASE c # d
        BY <1>1, <2>3, <3>1, <3>2, <4>2 DEF Told, Sound, ghosts
      <4>3. QED BY <4>1, <4>2
    <3>4. QED BY <3>1, <3>2, <3>3, ToldClone
  <2>6. QED
    BY <1>1, <1>2, <2>4, <2>5 DEF CloneInv, Named, HasWish
<1>3. CASE Unlock(k) /\ UNCHANGED <<to_wake, ready>>
  <2>1. Controlled(k)
    BY <1>3, UnlockControlled
  <2>2. TypeOK'
    BY <1>1, <1>3, <2>1 DEF CloneInv, TypeOK, Controlled, receiver, ghosts
  <2>3. \A c \in Clones : Sound(c)'
    BY <1>1, <1>3, OtherClone DEF CloneInv, receiver, ghosts
  <2>4. QED BY <1>1, <2>1, <2>2, <2>3 DEF CloneInv, Named, Controlled
<1>4. QED BY <1>2, <1>3 DEF Wake

LEMMA WakeFailsStep ==
  ASSUME CloneInv, NEW k \in Controllers, WakeFails(k)
  PROVE  CloneInv'
<1>1. /\ lost' = [c \in Clones |-> lost[c] \/ c \in to_wake[k]]
      /\ to_wake' = [to_wake EXCEPT ![k] = {}]
      /\ UNCHANGED <<status, change_waker_list, share_info, udp_list, polls, receiver,
                     stale>>
  BY DEF WakeFails
<1>2. Controlled(k)
  BY UnlockControlled DEF WakeFails
<1>3. lost' \in [Clones -> BOOLEAN] /\ to_wake' \in [Controllers -> SUBSET Clones]
      /\ \A c \in Clones : ~lost'[c] => ~lost[c] /\ c \notin to_wake[k]
      /\ \A j \in Controllers \ {k} : to_wake'[j] = to_wake[j]
  BY <1>1 DEF CloneInv, TypeOK
<1>4. TypeOK'
  BY <1>1, <1>2, <1>3 DEF CloneInv, TypeOK, Controlled, polls, receiver
<1>5. ASSUME NEW c \in Clones PROVE Sound(c)'
  <2>1. Sound(c) /\ UNCHANGED <<at, index, seen, udp_list, events, pending,
                                change_waker_list, ready, stale>>
    BY <1>1 DEF CloneInv, polls, receiver
  <2>2. Told(c)'
    BY <1>3, <2>1 DEF Told, Sound
  <2>3. QED BY <2>1, <2>2, ToldClone
<1>6. QED
  BY <1>1, <1>2, <1>4, <1>5 DEF CloneInv, Named, Controlled

-----------------------------------------------------------------------------
LEMMA NextClones == CloneInv /\ [Next]_vars => CloneInv'
<1> SUFFICES ASSUME CloneInv, [Next]_vars PROVE CloneInv'
  OBVIOUS
<1>1. ASSUME NEW c \in Clones,
             TryClone(c) \/ CloneStep(c) \/ PollTimeout(c) \/ Discard(c)
      PROVE  CloneInv'
  <2>1. CASE TryDefault(c) \/ TryUdp(c) \/ Poll(c) \/ Event(c) \/ PollTimeout(c)
    BY <2>1, TryDefaultStep, TryUdpStep, PollStep, EventStep, PollTimeoutStep
  <2>2. CASE ChangeLoad(c) \/ ChangeCone(c) \/ ChangeSymmetric(c)
             \/ \E n \in 0 .. size : ChangeFails(c, n)
    BY <2>2, ChangeLoadStep, ChangeConeStep, ChangeSymmetricStep, ChangeFailsStep
  <2>3. CASE TryClone(c) \/ PushWaker(c) \/ Discard(c) \/ Drop(c)
    BY <2>3, TryCloneStep, PushWakerStep, DiscardStep, DropStep
  <2>4. QED BY <1>1, <2>1, <2>2, <2>3 DEF CloneStep
<1>2. ASSUME NEW k \in Controllers,
             ControlStep(k) \/ \E s \in Types \cup {"Close"} : Call(k, s)
      PROVE  CloneInv'
  BY <1>2, CallStep, LockListStep, LoadStatusStep, StoreStatusStep, WakeStep,
     WakeFailsStep DEF ControlStep
<1>3. CASE UNCHANGED vars
  BY <1>3 DEF vars, shared, polls, receiver, control, ghosts, CloneInv, TypeOK, Named,
     HasWish, Sound, Batch, Loaded, Applying, InList, Covered, Told, Registered, HasPoll
<1>4. QED BY <1>1, <1>2, <1>3, ArriveStep DEF Next

(* The tokens a poll and a batch hold, and who is in the list of wakers,   *)
(* after any steps of any clones, controllers and peers.                   *)
THEOREM CloneInductive == Spec => []CloneInv
BY InitClones, NextClones, PTL DEF Spec

(* The variables keep their types, for any number of clones.               *)
THEOREM NatTypeCorrect == Spec => []TypeOK
BY CloneInductive, PTL DEF CloneInv

(* No change of the status is missed: set_nat_type and close store it and  *)
(* then wake, and a clone is in the list before it loads the status.       *)
THEOREM NothingMissedHolds == Spec => []NothingMissed
<1>1. CloneInv => NothingMissed
  BY DEF CloneInv, Sound, Told, NothingMissed
<1>2. QED BY <1>1, CloneInductive, PTL

(* A receiver sleeps in poll() only while the sockets it listens on are    *)
(* empty, although polls are edge-triggered, batches are left half read    *)
(* and change() swaps the sockets in between.                              *)
THEOREM NoStrandedDatagramHolds == Spec => []NoStrandedDatagram
<1>1. CloneInv => NoStrandedDatagram
  <2> SUFFICES ASSUME CloneInv, NEW c \in Clones, Asleep(c),
                      NEW s \in Registered(c) \cap pending
               PROVE  FALSE
    BY DEF NoStrandedDatagram
  <2>1. at[c] = "poll" /\ Live(c) = <<>> /\ TypeOK /\ Sound(c)
    BY DEF Asleep, CloneInv
  <2>2. Range(events[c]) = {} /\ Range(Live(c)) = {}
    BY <2>1 DEF Sound, Batch, Range
  <2>3. TokenOf(s) \in Range(ready[c])
    BY <2>1, <2>2 DEF Sound, Covered
  <2>4. Readable(c, TokenOf(s))
    BY <2>1, ReadableSockets DEF Sound
  <2>5. QED BY <2>1, <2>2, <2>3, <2>4, LiveProperties
<1>2. QED BY <1>1, CloneInductive, PTL

-----------------------------------------------------------------------------
(* Where the changes lead, if nothing fails. *)

(* A clone that has loaded the status of now applies it, or has.           *)
Follows(c) ==
  ~stale[c] /\ status # "Close" =>
    /\ Applying(c) => seen[c] = status
    /\ at[c] \in Receiving \ {"apply"} => udp_list[c].len = Asked

(* Somebody has still to handle a change, or was dropped before it could.  *)
Unsettled == \E d \in Clones : (stale[d] /\ at[d] # "unborn") \/ Applying(d)

SharedFollows ==
  status # "Close" /\ (\E c \in Clones : at[c] \in Receiving) =>
    share_info.len = Asked \/ Unsettled

SettleInv ==
  ~CanFail =>
    /\ share_info.len \in {0, size}
    /\ \A c \in Clones : Follows(c)
    /\ SharedFollows

LEMMA InitSettle == Init => SettleInv
BY NatAssumption
DEF Init, SettleInv, Follows, SharedFollows, Asked, Empty, Applying, Receiving

(* A step that has nothing to do with a change of the status.              *)
LEMMA SettleKept ==
  ASSUME SettleInv, NEW c \in Clones, UNCHANGED <<status, share_info, seen, stale>>,
         \A d \in Clones \ {c} : at'[d] = at[d] /\ udp_list'[d] = udp_list[d],
         at[c] \notin {"apply", "copying"},
         at'[c] \notin {"apply", "copying", "unborn"},
         at'[c] \in Receiving => at[c] \in Receiving /\ udp_list'[c] = udp_list[c]
  PROVE  SettleInv'
<1> SUFFICES ASSUME ~CanFail PROVE SettleInv'
  BY DEF SettleInv
<1> USE DEF SettleInv
<1>1. Asked' = Asked
  BY DEF Asked
<1>2. ASSUME NEW d \in Clones PROVE Follows(d)'
  <2>1. CASE d = c
    BY <1>1, <2>1 DEF Follows, Applying, Receiving
  <2>2. CASE d # c
    BY <1>1, <2>2 DEF Follows, Applying
  <2>3. QED BY <2>1, <2>2
<1>3. Unsettled => Unsettled'
  BY DEF Unsettled, Applying
<1>4. (\E d \in Clones : at'[d] \in Receiving) => \E d \in Clones : at[d] \in Receiving
  OBVIOUS
<1>5. SharedFollows'
  BY <1>1, <1>3, <1>4 DEF SharedFollows
<1>6. QED BY <1>2, <1>5

LEMMA RecvSettle ==
  ASSUME CloneInv, SettleInv, NEW c \in Clones,
         TryDefault(c) \/ TryUdp(c) \/ Poll(c) \/ Event(c) \/ PollTimeout(c)
           \/ Discard(c) \/ PushWaker(c) \/ Drop(c)
  PROVE  SettleInv'
<1> USE DEF CloneInv, TypeOK, Goto, Receiving
<1>1. CASE TryDefault(c) \/ TryUdp(c)
  <2>1. at[c] \in {"out", "udp"} /\ at'[c] \in {"out", "udp", "poll"}
        /\ \A d \in Clones \ {c} : at'[d] = at[d]
    BY <1>1 DEF TryDefault, TryUdp, Deliver, Try
  <2>2. UNCHANGED <<status, share_info, seen, stale, udp_list>>
    BY <1>1 DEF TryDefault, TryUdp, shared
  <2>3. QED BY <2>1, <2>2, SettleKept
<1>2. CASE Poll(c) \/ PollTimeout(c) \/ Discard(c)
  <2>1. at[c] \in {"out", "poll"} /\ at'[c] \in {"out", "event", "dropping"}
        /\ \A d \in Clones \ {c} : at'[d] = at[d]
    BY <1>2 DEF Poll, PollTimeout, Discard
  <2>2. UNCHANGED <<status, share_info, seen, stale, udp_list>>
    BY <1>2 DEF Poll, PollTimeout, Discard, shared, ghosts
  <2>3. QED BY <2>1, <2>2, SettleKept
<1>3. CASE Event(c)
  <2>1. at[c] = "event" /\ at'[c] \in {"out", "event"}
        /\ \A d \in Clones \ {c} : at'[d] = at[d]
    BY <1>3 DEF Event, Deliver, NextEvent
  <2>2. UNCHANGED <<status, share_info, seen, stale, udp_list>>
    BY <1>3 DEF Event, shared
  <2>3. QED BY <2>1, <2>2, SettleKept
<1>4. CASE PushWaker(c)
  <2>1. at[c] = "cloning" /\ at'[c] = "cloned"
        /\ \A d \in Clones \ {c} : at'[d] = at[d]
    BY <1>4 DEF PushWaker
  <2>2. UNCHANGED <<status, share_info, seen, stale, udp_list>>
    BY <1>4 DEF PushWaker, ghosts
  <2>3. QED BY <2>1, <2>2, SettleKept
<1>5. CASE Drop(c)
  <2>1. at[c] = "dropping" /\ at'[c] = "gone"
        /\ \A d \in Clones \ {c} : at'[d] = at[d] /\ udp_list'[d] = udp_list[d]
    BY <1>5 DEF Drop
  <2>2. UNCHANGED <<status, share_info, seen, stale>>
    BY <1>5 DEF Drop, ghosts
  <2>3. QED BY <2>1, <2>2, SettleKept
<1>6. QED BY <1>1, <1>2, <1>3, <1>4, <1>5

(* A change comes to its end: it is the last one, or the clone is told of  *)
(* another.                                                                *)
LEMMA ApplySettle ==
  ASSUME CloneInv, SettleInv, NEW c \in Clones, Applying(c), NEW g \in Groups,
         Relisten(c, g), Succeed(c), Leave(c),
         UNCHANGED <<status, stale>>,
         ~CanFail => share_info'.len = g.len
                     /\ g.len = IF seen[c] = "Symmetric" THEN size ELSE 0
  PROVE  SettleInv'
<1> SUFFICES ASSUME ~CanFail PROVE SettleInv'
  BY DEF SettleInv
<1>1. /\ share_info'.len = g.len /\ share_info'.len \in {0, size}
      /\ udp_list'[c] = g
      /\ \A d \in Clones \ {c} : udp_list'[d] = udp_list[d]
  BY RelistenProperties DEF CloneInv
<1>2. /\ at'[c] \in {"out", "event"} /\ \A d \in Clones \ {c} : at'[d] = at[d]
  BY DEF Applying, Succeed, NextEvent, Goto, CloneInv, TypeOK
<1>3. \A d \in Clones \ {c} : seen'[d] = seen[d]
  BY DEF Leave, CloneInv, TypeOK
<1>4. Asked' = Asked
  BY DEF Asked
<1>5. ~stale[c] /\ status # "Close" => seen[c] = status /\ g.len = Asked
  BY DEF SettleInv, Follows, Asked
<1>6. ASSUME NEW d \in Clones PROVE Follows(d)'
  <2>1. CASE d = c
    BY <1>1, <1>2, <1>4, <1>5, <2>1 DEF Follows, Applying
  <2>2. CASE d # c
    BY <1>1, <1>2, <1>3, <1>4, <2>2 DEF SettleInv, Follows, Applying
  <2>3. QED BY <2>1, <2>2
<1>7. SharedFollows'
  <2>1. CASE stale[c]
    BY <1>2, <2>1 DEF SharedFollows, Unsettled
  <2>2. CASE ~stale[c]
    BY <1>1, <1>4, <1>5, <2>2 DEF SharedFollows
  <2>3. QED BY <2>1, <2>2
<1>8. QED BY <1>1, <1>6, <1>7 DEF SettleInv

LEMMA ChangeSettle ==
  ASSUME CloneInv, SettleInv, NEW c \in Clones,
         ChangeCone(c) \/ ChangeSymmetric(c) \/ \E n \in 0 .. size : ChangeFails(c, n)
  PROVE  SettleInv'
<1>1. CASE ChangeCone(c)
  <2>1. share_info' = Empty /\ Empty.len = 0 /\ seen[c] = "Cone"
    BY <1>1 DEF ChangeCone, Cleared, Empty
  <2>2. QED BY <1>1, <2>1, EmptyGroup, ApplySettle DEF ChangeCone, ghosts
<1>2. CASE ChangeSymmetric(c)
  <2>1. share_info' \in Groups
    <3>1. CASE share_info.len = 0
      <4>1. size \in 1 .. size
        BY NatAssumption
      <4>2. QED BY <1>2, <3>1, <4>1, NewGroup DEF ChangeSymmetric
    <3>2. CASE share_info.len # 0
      BY <1>2, <3>2 DEF ChangeSymmetric, CloneInv, TypeOK
    <3>3. QED BY <3>1, <3>2
  <2>2. ~CanFail => share_info'.len = size /\ seen[c] = "Symmetric"
    BY <1>2 DEF ChangeSymmetric, SettleInv
  <2>3. QED BY <1>2, <2>1, <2>2, ApplySettle DEF ChangeSymmetric, ghosts
<1>3. ASSUME NEW n \in 0 .. size, ChangeFails(c, n) PROVE SettleInv'
  BY <1>3, NatAssumption DEF ChangeFails, SettleInv
<1>4. QED BY <1>1, <1>2, <1>3

LEMMA LoadSettle ==
  ASSUME CloneInv, SettleInv, NEW c \in Clones, ChangeLoad(c)
  PROVE  SettleInv'
<1> SUFFICES ASSUME ~CanFail PROVE SettleInv'
  BY DEF SettleInv
<1>1. /\ UNCHANGED <<status, share_info, udp_list>>
      /\ \A d \in Clones \ {c} : stale'[d] = stale[d]
  BY DEF ChangeLoad, shared, CloneInv, TypeOK
<1>2. Asked' = Asked
  BY <1>1 DEF Asked
<1>3. CASE Closed
  BY <1>1, <1>3 DEF SettleInv, Follows, SharedFollows, Closed
<1>4. CASE ~Closed
  <2>1. /\ at'[c] \in {"apply", "copying"} /\ seen'[c] = status
        /\ \A d \in Clones \ {c} : at'[d] = at[d] /\ seen'[d] = seen[d]
    BY <1>4 DEF ChangeLoad, Goto, CloneInv, TypeOK
  <2>2. Unsettled'
    BY <2>1 DEF Unsettled, Applying
  <2>3. ASSUME NEW d \in Clones PROVE Follows(d)'
    <3>1. CASE d = c
      BY <1>1, <2>1, <3>1 DEF Follows, Applying, Receiving
    <3>2. CASE d # c
      BY <1>1, <1>2, <2>1, <3>2 DEF SettleInv, Follows, Applying
    <3>3. QED BY <3>1, <3>2
  <2>4. QED BY <1>1, <2>2, <2>3 DEF SettleInv, SharedFollows
<1>5. QED BY <1>3, <1>4

LEMMA TryCloneSettle ==
  ASSUME CloneInv, SettleInv, NEW c \in Clones, TryClone(c)
  PROVE  SettleInv'
<1> SUFFICES ASSUME ~CanFail PROVE SettleInv'
  BY DEF SettleInv
<1>1. /\ at'[c] = "cloning" /\ stale'[c] = TRUE
      /\ \A d \in Clones \ {c} : at'[d] = at[d] /\ stale'[d] = stale[d]
      /\ UNCHANGED <<status, share_info, udp_list, seen>>
  BY DEF TryClone, Goto, shared, CloneInv, TypeOK
<1>2. Asked' = Asked
  BY <1>1 DEF Asked
<1>3. Unsettled'
  BY <1>1 DEF Unsettled
<1>4. ASSUME NEW d \in Clones PROVE Follows(d)'
  <2>1. CASE d = c
    BY <1>1, <2>1 DEF Follows
  <2>2. CASE d # c
    BY <1>1, <1>2, <2>2 DEF SettleInv, Follows, Applying
  <2>3. QED BY <2>1, <2>2
<1>5. QED BY <1>1, <1>3, <1>4 DEF SettleInv, SharedFollows

(* Whoever receives when the status is stored has still to load it.        *)
LEMMA StoreSettle ==
  ASSUME CloneInv, SettleInv, NEW k \in Controllers, StoreStatus(k)
  PROVE  SettleInv'
<1>1. /\ stale' = [c \in Clones |-> at[c] \notin {"failed", "gone"}]
      /\ UNCHANGED <<at, share_info, udp_list, seen>>
  BY DEF StoreStatus, receiver
<1>2. \A c \in Clones : Follows(c)'
  BY <1>1 DEF Follows, Applying, Receiving
<1>3. (\E c \in Clones : at[c] \in Receiving) => Unsettled'
  BY <1>1 DEF Unsettled, Receiving
<1>4. QED BY <1>1, <1>2, <1>3 DEF SettleInv, SharedFollows

LEMMA NextSettle == CloneInv /\ SettleInv /\ [Next]_vars => SettleInv'
<1> SUFFICES ASSUME CloneInv, SettleInv, [Next]_vars PROVE SettleInv'
  OBVIOUS
<1>1. CASE UNCHANGED <<status, share_info, udp_list, at, seen, stale>>
  BY <1>1 DEF SettleInv, Follows, SharedFollows, Unsettled, Applying, Asked
<1>2. ASSUME NEW c \in Clones,
             TryClone(c) \/ CloneStep(c) \/ PollTimeout(c) \/ Discard(c)
      PROVE  SettleInv'
  BY <1>2, RecvSettle, ChangeSettle, LoadSettle, TryCloneSettle DEF CloneStep
<1>3. ASSUME NEW k \in Controllers,
             ControlStep(k) \/ \E s \in Types \cup {"Close"} : Call(k, s)
      PROVE  SettleInv'
  <2>1. CASE StoreStatus(k)
    BY <2>1, StoreSettle
  <2>2. CASE LockList(k) \/ LoadStatus(k) \/ Wake(k) \/ WakeFails(k)
             \/ \E s \in Types \cup {"Close"} : Call(k, s)
    BY <1>1, <2>2 DEF LockList, LoadStatus, Wake, WakeFails, Call, shared, receiver,
       ghosts
  <2>3. QED BY <1>3, <2>1, <2>2 DEF ControlStep
<1>4. CASE (\E s \in Sockets : Arrive(s)) \/ UNCHANGED vars
  BY <1>1, <1>4 DEF Arrive, vars, shared, receiver, ghosts
<1>5. QED BY <1>2, <1>3, <1>4 DEF Next

THEOREM SettleInductive == Spec => []SettleInv
BY InitSettle, NextSettle, CloneInductive, PTL DEF Spec

(* A clone may apply a status that is no longer set, and undo what another *)
(* has done; when the changes are over every clone listens on what the     *)
(* status asks for, and so do the clones to come.                          *)
THEOREM GroupsSettleHolds == Spec => []GroupsSettle
<1>1. SettleInv => GroupsSettle
  <2> SUFFICES ASSUME SettleInv, ~CanFail, status # "Close", Settled
               PROVE  /\ \A c \in Clones : at[c] \in Receiving =>
                           udp_list[c].len = Asked
                      /\ (\E c \in Clones : at[c] \in Receiving)
                           /\ (\A c \in Clones : stale[c] => at[c] = "unborn")
                           => share_info.len = Asked
    BY DEF GroupsSettle
  <2>1. \A c \in Clones : at[c] \in Receiving =>
          ~stale[c] /\ at[c] \in Receiving \ {"apply"}
    BY DEF Settled, Applying, Receiving
  <2>2. \A c \in Clones : at[c] \in Receiving => udp_list[c].len = Asked
    BY <2>1 DEF SettleInv, Follows
  <2>3. \A c \in Clones : ~Applying(c)
    BY DEF Settled
  <2>4. (\A c \in Clones : stale[c] => at[c] = "unborn") => ~Unsettled
    BY <2>3 DEF Unsettled
  <2>5. QED BY <2>2, <2>4 DEF SettleInv, SharedFollows
<1>2. QED BY <1>1, SettleInductive, PTL

-----------------------------------------------------------------------------
(* Who sleeps through close(): whoever still receives has not looked at    *)
(* the status since, and nobody is left to wake it.                        *)
WakerInv == \A k \in Controllers : to_wake[k] # {} => ctl[k] = "wake"

ClosedInv ==
  status = "Close" => \A c \in Clones : at[c] \in Receiving \cup {"copying"} => stale[c]

SleeperInv == WakerInv /\ ClosedInv

LEMMA InitSleeper == Init => SleeperInv
BY DEF Init, SleeperInv, WakerInv, ClosedInv

LEMMA CloneWaker ==
  ASSUME NEW c \in Clones, TryClone(c) \/ CloneStep(c) \/ PollTimeout(c) \/ Discard(c)
  PROVE  UNCHANGED <<status, ctl, to_wake>>
<1>1. CASE TryClone(c) \/ PollTimeout(c) \/ Discard(c)
  BY <1>1 DEF TryClone, PollTimeout, Discard, shared, control
<1>2. CASE TryDefault(c) \/ TryUdp(c) \/ Poll(c) \/ Event(c) \/ ChangeLoad(c)
  BY <1>2 DEF TryDefault, TryUdp, Poll, Event, ChangeLoad, shared, control
<1>3. CASE ChangeCone(c) \/ ChangeSymmetric(c) \/ \E n \in 0 .. size : ChangeFails(c, n)
  BY <1>3 DEF ChangeCone, ChangeSymmetric, ChangeFails, control
<1>4. CASE PushWaker(c) \/ Drop(c)
  BY <1>4 DEF PushWaker, Drop, control
<1>5. QED BY <1>1, <1>2, <1>3, <1>4 DEF CloneStep

LEMMA NextWaker == CloneInv /\ WakerInv /\ [Next]_vars => WakerInv'
<1> SUFFICES ASSUME CloneInv, WakerInv, [Next]_vars PROVE WakerInv'
  OBVIOUS
<1> USE DEF CloneInv, TypeOK, WakerInv
<1>1. CASE UNCHANGED <<ctl, to_wake>>
  BY <1>1
<1>2. ASSUME NEW k \in Controllers,
             \/ LockList(k) \/ LoadStatus(k)
             \/ \E s \in Types \cup {"Close"} : Call(k, s)
      PROVE  WakerInv'
  BY <1>2 DEF LockList, LoadStatus, Call, At, Unlock
<1>3. ASSUME NEW k \in Controllers, StoreStatus(k) PROVE WakerInv'
  BY <1>3 DEF StoreStatus, At
<1>4. ASSUME NEW k \in Controllers, Wake(k) PROVE WakerInv'
  <2>1. CASE to_wake[k] = {} /\ Unlock(k) /\ UNCHANGED to_wake
    BY <2>1 DEF Unlock, At
  <2>2. CASE to_wake[k] # {} /\ UNCHANGED ctl
    BY <1>4, <2>2 DEF Wake
  <2>3. QED BY <1>1, <1>4, <2>1, <2>2 DEF Wake
<1>5. ASSUME NEW k \in Controllers, WakeFails(k) PROVE WakerInv'
  BY <1>5 DEF WakeFails, Unlock, At
<1>6. CASE (\E s \in Sockets : Arrive(s)) \/ UNCHANGED vars
  BY <1>1, <1>6 DEF Arrive, vars, control
<1>7. QED
  BY <1>1, <1>2, <1>3, <1>4, <1>5, <1>6, CloneWaker DEF Next, ControlStep

(* A clone begins to receive, or goes on, only with a change it has loaded *)
(* before close() stored the status.                                       *)
LEMMA RecvClosed ==
  ASSUME CloneInv, ClosedInv, NEW c \in Clones,
         TryClone(c) \/ CloneStep(c) \/ PollTimeout(c) \/ Discard(c)
  PROVE  ClosedInv'
<1> USE DEF CloneInv, TypeOK, Goto, Receiving
<1>1. CASE ChangeLoad(c)
  <2>1. CASE Closed
    BY <1>1, <2>1 DEF ChangeLoad, Called, Fail, ClosedInv, shared
  <2>2. CASE ~Closed
    BY <1>1, <2>2 DEF ChangeLoad, ClosedInv, Closed, shared
  <2>3. QED BY <2>1, <2>2
<1>2. ASSUME /\ \A d \in Clones \ {c} : at'[d] = at[d] /\ stale'[d] = stale[d]
             /\ \/ at'[c] \notin Receiving \cup {"copying"}
                \/ at[c] \in Receiving \cup {"copying"} /\ stale'[c] = stale[c]
             /\ UNCHANGED status
      PROVE  ClosedInv'
  BY <1>2 DEF ClosedInv
<1>3. UNCHANGED status
  BY CloneWaker
<1>4. CASE TryClone(c) \/ PollTimeout(c) \/ Discard(c) \/ PushWaker(c) \/ Drop(c)
  BY <1>2, <1>3, <1>4 DEF TryClone, PollTimeout, Discard, PushWaker, Drop, ghosts
<1>5. CASE TryDefault(c) \/ TryUdp(c)
  BY <1>2, <1>3, <1>5 DEF TryDefault, TryUdp, Deliver, Try
<1>6. CASE Poll(c) \/ Event(c)
  BY <1>2, <1>3, <1>6 DEF Poll, Event, Deliver, NextEvent, ghosts
<1>7. CASE ChangeCone(c) \/ ChangeSymmetric(c)
  BY <1>2, <1>3, <1>7 DEF ChangeCone, ChangeSymmetric, Succeed, NextEvent, Applying, ghosts
<1>8. CASE \E n \in 0 .. size : ChangeFails(c, n)
  BY <1>2, <1>3, <1>8 DEF ChangeFails, Fail, ghosts
<1>9. QED BY <1>1, <1>4, <1>5, <1>6, <1>7, <1>8 DEF CloneStep

LEMMA NextClosed == CloneInv /\ ClosedInv /\ [Next]_vars => ClosedInv'
<1> SUFFICES ASSUME CloneInv, ClosedInv, [Next]_vars PROVE ClosedInv'
  OBVIOUS
<1>1. CASE UNCHANGED <<status, at, stale>>
  BY <1>1 DEF ClosedInv
<1>2. ASSUME NEW k \in Controllers, StoreStatus(k) PROVE ClosedInv'
  BY <1>2 DEF StoreStatus, ClosedInv, Receiving, receiver
<1>3. ASSUME NEW k \in Controllers,
             \/ LockList(k) \/ LoadStatus(k) \/ Wake(k) \/ WakeFails(k)
             \/ \E s \in Types \cup {"Close"} : Call(k, s)
      PROVE  ClosedInv'
  BY <1>1, <1>3 DEF LockList, LoadStatus, Wake, WakeFails, Call, shared, receiver, ghosts
<1>4. CASE (\E s \in Sockets : Arrive(s)) \/ UNCHANGED vars
  BY <1>1, <1>4 DEF Arrive, vars, shared, receiver, ghosts
<1>5. QED BY <1>2, <1>3, <1>4, RecvClosed DEF Next, ControlStep

THEOREM SleeperInductive == Spec => []SleeperInv
<1>1. CloneInv /\ SleeperInv /\ [Next]_vars => SleeperInv'
  BY NextWaker, NextClosed DEF SleeperInv
<1>2. QED BY <1>1, InitSleeper, CloneInductive, PTL DEF Spec

(* A receiver that sleeps in poll() after close() is done has thrown its   *)
(* CHANGE event away, or its waker failed: nobody else sleeps, also with   *)
(* failing wakers and with clones that were being made at the time.        *)
THEOREM SleeperLostEventHolds == Spec => []SleeperLostEvent
<1>1. CloneInv /\ ControlInv /\ SleeperInv => SleeperLostEvent
  <2> SUFFICES ASSUME CloneInv, ControlInv, SleeperInv, status = "Close",
                      list_lock = None, NEW c \in Clones, Asleep(c), ~lost[c]
               PROVE  FALSE
    BY DEF SleeperLostEvent, CloneInv, TypeOK
  <2>1. at[c] = "poll" /\ Live(c) = <<>> /\ TypeOK /\ Sound(c)
    BY DEF Asleep, CloneInv
  <2>2. stale[c]
    BY <2>1 DEF SleeperInv, ClosedInv, Receiving
  <2>3. Range(events[c]) = {} /\ Range(Live(c)) = {}
    BY <2>1 DEF Sound, Batch, Range
  <2>4. CHANGE_TOKEN \notin Range(ready[c])
    <3>1. Readable(c, CHANGE_TOKEN)
      BY TokenFacts DEF Readable
    <3>2. Range(Live(c)) = {t \in Range(ready[c]) : Readable(c, t)}
      BY <2>1, LiveProperties
    <3>3. QED BY <2>3, <3>1, <3>2
  <2>5. PICK k \in Controllers : c \in to_wake[k]
    BY <2>1, <2>2, <2>3, <2>4 DEF Sound, Told, Receiving
  <2>6. ctl[k] = "wake"
    BY <2>5 DEF SleeperInv, WakerInv
  <2>7. list_lock = k
    BY <2>6 DEF ControlInv, Inside
  <2>8. QED BY <2>7, NatAssumption
<1>2. QED
  BY <1>1, CloneInductive, ControlInductive, SleeperInductive, PTL
=============================================================================
