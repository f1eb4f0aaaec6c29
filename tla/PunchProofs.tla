----------------------------- MODULE PunchProofs -----------------------------
(***************************************************************************)
(* Proofs about Punch, for any number of ports, limits, sockets and        *)
(* requests.                                                               *)
(***************************************************************************)
EXTENDS Punch, TLAPS

Busy == {"begin", "cone", "predict", "near", "chunk", "far"}

(* A thread that works has a request. *)
HasJob(p) == at[p] \in Busy => job[p] \in Requests

(* punch_ stops at its limit, since count never jumps over it.             *)
CountBelowMax(p) == at[p] \in {"near", "far"} => count[p] + 1 <= Max(p)

(* How far the running punch_ has come over a peer of one address.         *)
OneAddress(p) ==
  at[p] = "far" /\ job[p].ips = 1 =>
    ip[p] = 0 /\ count[p] + ports[p] = ChunkSize(p)

(* The datagrams sent so far: one to the local address, and for each count *)
(* of punch_ at most one from every socket the punch began with.           *)
Each(p) == IF is_cone[p] THEN 1 ELSE 1 + size

NearMost(p) == (max_k1[is_cone[p]] - 1) * Each(p)

IoSoFar(p) ==
  /\ at[p] \in {"next", "begin", "stopped"} => io[p] = 0
  /\ at[p] = "predict" => io[p] <= 1
  /\ at[p] = "near" => io[p] <= 1 + count[p] * Each(p)
  /\ at[p] = "chunk" => io[p] <= 1 + NearMost(p)
  /\ at[p] = "far" => io[p] <= 1 + NearMost(p) + count[p] * Each(p)

Local(p) == HasJob(p) /\ CountBelowMax(p) /\ OneAddress(p) /\ IoSoFar(p)

PunchIInv == TypeOK /\ \A p \in Punchers : Local(p)

-----------------------------------------------------------------------------
LEMMA Fields ==
  ASSUME NEW r \in Requests
  PROVE  /\ r.peer \in IDs /\ r.ips \in Nat /\ r.nat_type \in Punchers
         /\ r.public_port \in 0 .. PortMax /\ r.public_port_range \in 0 .. PortMax
BY PunchAssumption DEF RequestType

LEMMA ModSmall ==
  ASSUME NEW m \in Nat, NEW n \in 0 .. m
  PROVE  n % (m + 1) = n
OBVIOUS

(* The range of ports is empty only for a peer without a port and without  *)
(* a range; then Near is zero, and nums has one port all the same.         *)
LEMMA NearFits ==
  ASSUME NEW r \in Requests, NEW k1 \in Nat \ {0}
  PROVE  /\ Near(r, k1) \in 0 .. PortMax
         /\ Near(r, k1) \in 0 .. NumsLen(r)
<1> USE PunchAssumption
<1>1. /\ PortMax \in Nat \ {0}
      /\ MinPort(r) \in 1 .. PortMax /\ MaxPort(r) \in 0 .. PortMax
      /\ MaxPort(r) - MinPort(r) + 1 \in 0 .. PortMax
  BY Fields DEF MinPort, MaxPort
<1> DEFINE n == MaxPort(r) - MinPort(r) + 1
<1>2. n % (PortMax + 1) = n
  BY <1>1, ModSmall
<1>3. n <= NumsLen(r)
  BY <1>1 DEF NumsLen, Underflows
<1> HIDE DEF n
<1>4. Near(r, k1) = IF n > k1 THEN k1 ELSE n
  BY <1>2 DEF Near, n
<1>5. n \in 0 .. PortMax
  BY <1>1 DEF n
<1>6. NumsLen(r) \in Nat
  BY <1>1 DEF NumsLen, Underflows
<1>7. QED BY <1>1, <1>3, <1>4, <1>5, <1>6

LEMMA ChunkFits ==
  ASSUME TypeOK, NEW p \in Punchers, job[p] \in Requests
  PROVE  /\ ChunkSize(p) \in 1 .. max_k2[is_cone[p]]
         /\ port_index[p][job[p].peer] + ChunkSize(p) <= PortMax
         /\ ChunkSize(p) \in 0 .. PortMax
         /\ NextChunk(p) \in 0 .. PortMax - 1
<1> USE PunchAssumption
<1>1. port_index[p][job[p].peer] \in 0 .. PortMax - 1
  BY Fields DEF TypeOK
<1>2. max_k2[is_cone[p]] \in Nat \ {0}
  BY DEF TypeOK
<1>3. QED BY <1>1, <1>2 DEF ChunkSize, ChunkEnd, NextChunk

-----------------------------------------------------------------------------
LEMMA InitPunchIInv == Init => PunchIInv
<1> SUFFICES ASSUME Init PROVE PunchIInv
  OBVIOUS
<1>1. TypeOK
  BY PunchAssumption DEF Init, TypeOK, PunchPoints
<1>2. \A p \in Punchers : Local(p)
  BY DEF Init, Local, HasJob, Busy, CountBelowMax, OneAddress, IoSoFar
<1>3. QED BY <1>1, <1>2 DEF PunchIInv

(* A step of one thread does not touch the locals of the other.            *)
LEMMA OtherThread ==
  ASSUME NEW q \in Punchers, Local(q),
         at'[q] = at[q], job'[q] = job[q], is_cone'[q] = is_cone[q],
         ports'[q] = ports[q], ip'[q] = ip[q], count'[q] = count[q],
         port_index'[q] = port_index[q], io'[q] = io[q]
  PROVE  Local(q)'
BY DEF Local, HasJob, CountBelowMax, Max, OneAddress, ChunkSize, ChunkEnd, IoSoFar,
   NearMost, Each

LEMMA PunchTypes ==
  ASSUME PunchIInv, [Next]_vars
  PROVE  TypeOK'
<1> USE PunchAssumption DEF PunchIInv
<1>1. ASSUME NEW r \in Requests, Request(r) PROVE TypeOK'
  BY <1>1, Fields DEF Request, TypeOK, work
<1>2. ASSUME NEW s \in {"Cone", "Symmetric", "Close"}, SetStatus(s) PROVE TypeOK'
  BY <1>2 DEF SetStatus, TypeOK, work
<1>3. CASE DropChannels \/ UNCHANGED vars
  BY <1>3 DEF DropChannels, vars, TypeOK, work
<1>4. ASSUME NEW p \in Punchers, PunchStep(p) PROVE TypeOK'
  <2>0. at[p] \in Busy => job[p] \in Requests
    BY DEF Local, HasJob
  <2>1. ASSUME NEW point \in PunchPoints, Return(p, point)
        PROVE  /\ at' \in [Punchers -> PunchPoints]
               /\ job' \in [Punchers -> Requests \cup {None}]
               /\ is_cone' \in [Punchers -> BOOLEAN]
               /\ ports' \in [Punchers -> 0 .. PortMax]
               /\ ip' \in [Punchers -> Nat]
               /\ count' \in [Punchers -> Nat]
               /\ io' \in [Punchers -> Nat]
    BY <2>1 DEF Return, Goto, TypeOK
  <2>2. {"next", "stopped", "begin", "cone", "predict", "near", "chunk", "far"}
          \subseteq PunchPoints
    BY DEF PunchPoints
  <2>3. CASE Next_(p)
    <3>1. queue[p] # <<>> => Head(queue[p]) \in Requests
      BY DEF TypeOK
    <3>2. QED BY <2>2, <2>3, <3>1 DEF Next_, Goto, TypeOK
  <2>4. CASE Begin(p)
    <3>1. CASE status = "Close"
      BY <2>1, <2>2, <2>4, <3>1 DEF Begin, TypeOK
    <3>2. CASE status # "Close"
      <4>1. io' \in [Punchers -> Nat]
        BY <2>4, <3>2 DEF Begin, TypeOK
      <4>2. at' \in [Punchers -> PunchPoints]
        <5> DEFINE point == IF job[p].nat_type = "Cone" THEN "cone" ELSE "predict"
        <5>1. point \in PunchPoints
          BY <2>2
        <5>2. at' = [at EXCEPT ![p] = point]
          BY <2>4, <3>2 DEF Begin, Goto
        <5>3. QED BY <5>1, <5>2 DEF TypeOK
      <4>3. QED BY <2>4, <3>2, <4>1, <4>2 DEF Begin, TypeOK
    <3>3. QED BY <3>1, <3>2
  <2>5. CASE SendCone(p)
    <3>1. CASE Return(p, "next") \/ Return(p, "stopped")
      BY <2>1, <2>2, <2>5, <3>1 DEF SendCone, TypeOK
    <3>2. CASE ~(Return(p, "next") \/ Return(p, "stopped"))
      <4>1. ip[p] + 1 \in Nat /\ io[p] + 1 \in Nat
        BY DEF TypeOK
      <4>2. ip' = [ip EXCEPT ![p] = ip[p] + 1] /\ io' = [io EXCEPT ![p] = io[p] + 1]
        BY <2>5, <3>2 DEF SendCone
      <4>3. ip' \in [Punchers -> Nat] /\ io' \in [Punchers -> Nat]
        BY <4>1, <4>2 DEF TypeOK
      <4>4. QED BY <2>5, <3>2, <4>3 DEF SendCone, TypeOK
    <3>3. QED BY <3>1, <3>2
  <2>6. CASE Predict(p)
    <3>0. job[p] \in Requests
      BY <2>0, <2>6 DEF Predict, Busy
    <3>1. CASE Return(p, "stopped")
      BY <2>1, <2>2, <2>6, <3>1 DEF Predict, TypeOK
    <3>2. CASE ~Return(p, "stopped")
      <4>1. \A b \in BOOLEAN : Near(job[p], max_k1[b]) \in 0 .. PortMax
        BY <3>0, NearFits
      <4>2. (status = "Cone") \in BOOLEAN
        OBVIOUS
      <4>3. is_cone' \in [Punchers -> BOOLEAN]
        BY <2>6, <3>2, <4>2 DEF Predict, TypeOK
      <4>4. at' \in [Punchers -> PunchPoints]
        BY <2>2, <2>6, <3>2 DEF Predict, Goto, TypeOK
      <4>5. /\ ports' \in [Punchers -> 0 .. PortMax]
            /\ ip' \in [Punchers -> Nat] /\ count' \in [Punchers -> Nat]
        <5>1. CASE Narrow(job[p], status = "Cone")
          <6>1. Run(p, Near(job[p], max_k1[status = "Cone"]))
            BY <2>6, <3>2, <5>1 DEF Predict
          <6>2. QED BY <4>1, <4>2, <6>1 DEF Run, TypeOK
        <5>2. CASE ~Narrow(job[p], status = "Cone")
          BY <2>6, <3>2, <5>2 DEF Predict, TypeOK
        <5>3. QED BY <5>1, <5>2
      <4>6. QED BY <2>6, <3>2, <4>3, <4>4, <4>5 DEF Predict, TypeOK
    <3>3. QED BY <3>1, <3>2
  <2>7. CASE Send(p)
    <3>1. CASE Return(p, "stopped")
      BY <2>1, <2>2, <2>7, <3>1 DEF Send, TypeOK
    <3>2. CASE ~Return(p, "stopped")
      <4>1. ports[p] \in 1 .. PortMax
        BY <2>7 DEF Send, Over, TypeOK
      <4>2. io' \in [Punchers -> Nat]
        BY <2>7, <3>2 DEF Send, Datagrams, TypeOK
      <4>3. /\ ports' \in [Punchers -> 0 .. PortMax]
            /\ ip' \in [Punchers -> Nat] /\ count' \in [Punchers -> Nat]
        BY <2>7, <3>2, <4>1 DEF Send, TypeOK
      <4>4. QED BY <2>7, <3>2, <4>2, <4>3 DEF Send, TypeOK
    <3>3. QED BY <3>1, <3>2
  <2>8. CASE NearDone(p)
    BY <2>2, <2>8 DEF NearDone, Goto, TypeOK, work
  <2>9. CASE Chunk(p)
    <3>1. ChunkSize(p) \in 0 .. PortMax
      BY <2>0, <2>9, ChunkFits DEF Chunk, Busy
    <3>2. QED BY <2>2, <2>9, <3>1 DEF Chunk, Run, Goto, TypeOK
  <2>10. CASE FarDone(p)
    <3>1. NextChunk(p) \in 0 .. PortMax - 1
      BY <2>0, <2>10, ChunkFits DEF FarDone, Busy
    <3>2. port_index' \in [Punchers -> [IDs -> 0 .. PortMax - 1]]
      BY <2>10, <3>1 DEF FarDone, TypeOK
    <3>3. QED BY <2>1, <2>2, <2>10, <3>2 DEF FarDone, TypeOK
  <2>11. QED
    BY <1>4, <2>3, <2>4, <2>5, <2>6, <2>7, <2>8, <2>9, <2>10 DEF PunchStep
<1>5. QED BY <1>1, <1>2, <1>3, <1>4 DEF Next

-----------------------------------------------------------------------------
(* What each socket may still add to the datagrams of a punch_.            *)
LEMMA EachMore ==
  ASSUME NEW n \in Nat, NEW m \in Nat, NEW f \in Nat
  PROVE  /\ n * f \in Nat
         /\ (n + 1) * f = n * f + f
         /\ n <= m => n * f <= m * f
OBVIOUS

LEMMA LocalTypes ==
  ASSUME TypeOK, NEW p \in Punchers
  PROVE  /\ at[p] \in PunchPoints /\ is_cone[p] \in BOOLEAN
         /\ ports[p] \in 0 .. PortMax
         /\ ip[p] \in Nat /\ count[p] \in Nat /\ io[p] \in Nat
         /\ Each(p) \in Nat /\ NearMost(p) \in Nat
         /\ max_k1[is_cone[p]] \in Nat \ {0} /\ max_k2[is_cone[p]] \in Nat \ {0}
<1> USE PunchAssumption
<1>1. /\ at[p] \in PunchPoints /\ is_cone[p] \in BOOLEAN
      /\ ports[p] \in 0 .. PortMax
      /\ ip[p] \in Nat /\ count[p] \in Nat /\ io[p] \in Nat
  BY DEF TypeOK
<1>2. Each(p) \in Nat
  BY DEF Each
<1>3. max_k1[is_cone[p]] \in Nat \ {0} /\ max_k2[is_cone[p]] \in Nat \ {0}
  BY <1>1
<1>4. NearMost(p) \in Nat
  BY <1>2, <1>3, EachMore DEF NearMost
<1>5. QED BY <1>1, <1>2, <1>3, <1>4

(* A call of punch that is over leaves nothing behind.                     *)
LEMMA Returned ==
  ASSUME TypeOK, NEW p \in Punchers, NEW point \in {"next", "stopped"},
         Return(p, point)
  PROVE  Local(p)'
BY DEF TypeOK, Return, Goto, Local, HasJob, Busy, CountBelowMax, OneAddress, IoSoFar

LEMMA OwnThread ==
  ASSUME PunchIInv, NEW p \in Punchers, PunchStep(p)
  PROVE  Local(p)'
<1> USE PunchAssumption DEF PunchIInv
<1>0. Local(p)
  OBVIOUS
<1>01. /\ at[p] \in PunchPoints /\ is_cone[p] \in BOOLEAN
       /\ ports[p] \in 0 .. PortMax
       /\ ip[p] \in Nat /\ count[p] \in Nat /\ io[p] \in Nat
       /\ Each(p) \in Nat /\ NearMost(p) \in Nat
       /\ max_k1[is_cone[p]] \in Nat \ {0} /\ max_k2[is_cone[p]] \in Nat \ {0}
  BY LocalTypes
<1>1. CASE Next_(p)
  <2>1. queue[p] # <<>> => Head(queue[p]) \in Requests
    BY DEF TypeOK
  <2>2. QED
    BY <1>0, <1>1, <2>1 DEF TypeOK, Next_, Goto, Local, HasJob, Busy, CountBelowMax,
       OneAddress, IoSoFar
<1>2. CASE Begin(p)
  <2>1. CASE Return(p, "stopped")
    BY <2>1, Returned
  <2>2. CASE ~Return(p, "stopped")
    <3>1. at'[p] \in {"cone", "predict"} /\ job'[p] = job[p]
      BY <1>2, <2>2 DEF TypeOK, Begin, Goto
    <3>2. io'[p] \in {0, 1}
      BY <1>0, <1>2, <2>2 DEF TypeOK, Begin, Local, IoSoFar
    <3>3. job[p] \in Requests
      BY <1>0, <1>2 DEF Begin, Local, HasJob, Busy
    <3>4. QED
      BY <3>1, <3>2, <3>3
      DEF Local, HasJob, Busy, CountBelowMax, OneAddress, IoSoFar
  <2>3. QED BY <2>1, <2>2
<1>3. CASE SendCone(p)
  <2>1. CASE Return(p, "next") \/ Return(p, "stopped")
    BY <2>1, Returned
  <2>2. CASE ~(Return(p, "next") \/ Return(p, "stopped"))
    BY <1>0, <1>3, <2>2
    DEF SendCone, Local, HasJob, Busy, CountBelowMax, OneAddress, IoSoFar
  <2>3. QED BY <2>1, <2>2
<1>4. CASE Predict(p)
  <2>0. job[p] \in Requests /\ io[p] <= 1
    BY <1>0, <1>4 DEF Predict, Local, HasJob, Busy, IoSoFar
  <2>1. CASE Return(p, "stopped")
    BY <2>1, Returned
  <2>2. CASE ~Return(p, "stopped")
    <3>1. /\ job'[p] = job[p] /\ io'[p] = io[p]
          /\ is_cone'[p] = (status = "Cone")
          /\ at'[p] \in {"near", "chunk"}
          /\ at'[p] = "near" => count'[p] = 0
      BY <1>4, <2>2 DEF TypeOK, Predict, Goto, Run
    <3>2. is_cone'[p] \in BOOLEAN
      BY <3>1
    <3>3. Each(p)' \in Nat /\ max_k1[is_cone'[p]] - 1 \in Nat
      BY <3>2 DEF Each
    <3>4. NearMost(p)' \in Nat
      BY <3>3, EachMore DEF NearMost
    <3>5. at'[p] = "near" => count'[p] * Each(p)' = 0
      BY <3>1, <3>3
    <3>6. IoSoFar(p)'
      BY <2>0, <3>1, <3>3, <3>4, <3>5, <1>01 DEF IoSoFar
    <3>7. CountBelowMax(p)'
      <4>1. max_k1[is_cone'[p]] \in Nat \ {0}
        BY <3>2
      <4>2. at'[p] = "near" => Max(p)' = max_k1[is_cone'[p]]
        BY DEF Max
      <4>3. QED BY <3>1, <4>1, <4>2 DEF CountBelowMax
    <3>8. QED
      BY <2>0, <3>1, <3>6, <3>7 DEF Local, HasJob, OneAddress
  <2>3. QED BY <2>1, <2>2
<1>5. CASE Send(p)
  <2>1. CASE Return(p, "stopped")
    BY <2>1, Returned
  <2>2. CASE ~Return(p, "stopped")
    <3>1. /\ at[p] \in {"near", "far"} /\ at' = at /\ job' = job
          /\ is_cone' = is_cone /\ port_index' = port_index
          /\ ports[p] # 0 /\ job[p].ips # 0 /\ count[p] + 1 # Max(p)
          /\ count'[p] = count[p] + 1
          /\ \E d \in Datagrams(p) : io'[p] = io[p] + d
      BY <1>5, <2>2 DEF TypeOK, Send, Over
    <3>2. \A d \in Datagrams(p) : d \in Nat /\ d <= Each(p)
      BY <1>01 DEF Datagrams, Each
    <3>3. CountBelowMax(p)'
      BY <1>0, <1>01, <3>1 DEF Local, CountBelowMax, Max
    <3>4. count'[p] * Each(p) = count[p] * Each(p) + Each(p)
      BY <1>01, <3>1, EachMore
    <3>5. count[p] * Each(p) \in Nat
      BY <1>01, EachMore
    <3>6. Each(p)' = Each(p) /\ NearMost(p)' = NearMost(p)
      BY <3>1 DEF Each, NearMost
    <3>7. IoSoFar(p)'
      <4>1. PICK d \in Datagrams(p) : io'[p] = io[p] + d
        BY <3>1
      <4>2. d \in Nat /\ d <= Each(p)
        BY <3>2
      <4>3. QED
        BY <1>0, <1>01, <3>1, <3>4, <3>5, <3>6, <4>1, <4>2 DEF Local, IoSoFar
    <3>8. OneAddress(p)'
      <4> SUFFICES ASSUME at[p] = "far", job[p].ips = 1
                   PROVE  ip'[p] = 0 /\ count'[p] + ports'[p] = ChunkSize(p)'
        BY <3>1 DEF OneAddress
      <4>1. ip[p] = 0 /\ count[p] + ports[p] = ChunkSize(p)
        BY <1>0 DEF Local, OneAddress
      <4>2. ip'[p] = 0 /\ ports'[p] = ports[p] - 1
        BY <1>5, <2>2, <4>1 DEF TypeOK, Send
      <4>3. ChunkSize(p)' = ChunkSize(p)
        BY <3>1 DEF ChunkSize, ChunkEnd
      <4>4. QED BY <1>01, <3>1, <4>1, <4>2, <4>3
    <3>9. QED BY <1>0, <3>1, <3>3, <3>7, <3>8 DEF Local, HasJob
  <2>3. QED BY <2>1, <2>2
<1>6. CASE NearDone(p)
  <2>1. /\ at[p] = "near" /\ at'[p] = "chunk"
        /\ job' = job /\ is_cone' = is_cone /\ io' = io
    BY <1>6 DEF TypeOK, NearDone, Goto, work
  <2>2. Each(p)' = Each(p) /\ NearMost(p)' = NearMost(p)
    BY <2>1 DEF Each, NearMost
  <2>3. count[p] <= max_k1[is_cone[p]] - 1
    BY <1>0, <1>01, <2>1 DEF Local, CountBelowMax, Max
  <2>4. count[p] * Each(p) <= NearMost(p)
    BY <1>01, <2>3, EachMore DEF NearMost
  <2>5. count[p] * Each(p) \in Nat
    BY <1>01, EachMore
  <2>6. io[p] <= 1 + NearMost(p)
    BY <1>0, <1>01, <2>1, <2>4, <2>5 DEF Local, IoSoFar
  <2>7. QED
    BY <1>0, <2>1, <2>2, <2>6
    DEF Local, HasJob, Busy, CountBelowMax, OneAddress, IoSoFar
<1>7. CASE Chunk(p)
  <2>1. /\ at[p] = "chunk" /\ at'[p] = "far" /\ port_index' = port_index
        /\ job' = job /\ is_cone' = is_cone /\ io' = io
        /\ count'[p] = 0 /\ ip'[p] = 0 /\ ports'[p] = ChunkSize(p)
    BY <1>7 DEF TypeOK, Chunk, Goto, Run
  <2>2. Each(p)' = Each(p) /\ NearMost(p)' = NearMost(p)
    BY <2>1 DEF Each, NearMost
  <2>3. job[p] \in Requests /\ io[p] <= 1 + NearMost(p)
    BY <1>0, <2>1 DEF Local, HasJob, Busy, IoSoFar
  <2>4. ChunkSize(p)' = ChunkSize(p) /\ ChunkSize(p) \in Nat
    BY <2>1, <2>3, ChunkFits DEF ChunkSize, ChunkEnd
  <2>5. IoSoFar(p)'
    BY <1>01, <2>1, <2>2, <2>3 DEF IoSoFar
  <2>6. CountBelowMax(p)' /\ OneAddress(p)'
    BY <1>01, <2>1, <2>4 DEF CountBelowMax, Max, OneAddress
  <2>7. QED BY <2>1, <2>3, <2>5, <2>6 DEF Local, HasJob
<1>8. CASE FarDone(p)
  BY <1>8, Returned DEF FarDone
<1>9. QED
  BY <1>1, <1>2, <1>3, <1>4, <1>5, <1>6, <1>7, <1>8 DEF PunchStep

LEMMA NextPunchIInv == PunchIInv /\ [Next]_vars => PunchIInv'
<1> SUFFICES ASSUME PunchIInv, [Next]_vars PROVE PunchIInv'
  OBVIOUS
<1>1. TypeOK'
  BY PunchTypes
<1>2. ASSUME NEW q \in Punchers PROVE Local(q)'
  <2>0. Local(q)
    BY DEF PunchIInv
  <2>1. CASE UNCHANGED <<at, work>>
    BY <2>0, <2>1, OtherThread DEF work
  <2>2. ASSUME NEW p \in Punchers, PunchStep(p) PROVE Local(q)'
    <3>1. CASE p = q
      BY <2>2, <3>1, OwnThread
    <3>2. CASE p # q
      <4>1. /\ at'[q] = at[q] /\ job'[q] = job[q] /\ is_cone'[q] = is_cone[q]
            /\ ports'[q] = ports[q] /\ ip'[q] = ip[q] /\ count'[q] = count[q]
            /\ port_index'[q] = port_index[q] /\ io'[q] = io[q]
        <5> USE <3>2 DEF PunchIInv, TypeOK, Goto, Return, Run, work
        <5>1. CASE Next_(p) \/ Begin(p)
          BY <5>1 DEF Next_, Begin
        <5>2. CASE SendCone(p)
          BY <5>2 DEF SendCone
        <5>3. CASE Predict(p)
          BY <5>3 DEF Predict
        <5>4. CASE Send(p)
          BY <5>4 DEF Send
        <5>5. CASE NearDone(p) \/ Chunk(p)
          BY <5>5 DEF NearDone, Chunk
        <5>6. CASE FarDone(p)
          BY <5>6 DEF FarDone
        <5>7. QED
          BY <2>2, <5>1, <5>2, <5>3, <5>4, <5>5, <5>6 DEF PunchStep
      <4>2. QED BY <2>0, <4>1, OtherThread
    <3>3. QED BY <3>1, <3>2
  <2>3. QED
    BY <2>1, <2>2 DEF Next, Request, SetStatus, DropChannels, vars
<1>3. QED BY <1>1, <1>2 DEF PunchIInv

(* The inductive invariant, for any limits, ports, peers and requests.     *)
THEOREM PunchInductive == Spec => []PunchIInv
BY InitPunchIInv, NextPunchIInv, PTL DEF Spec

(* The variables of the punch threads keep their types: the cursor of      *)
(* every peer stays inside port_vec.                                       *)
THEOREM PunchTypeCorrect == Spec => []TypeOK
<1>1. PunchIInv => TypeOK BY DEF PunchIInv
<1>2. QED BY <1>1, PunchInductive, PTL

(* No slice of nums or of port_vec is out of bounds, and no chunk empty,   *)
(* whatever a peer reports and whatever types the NAT has taken.           *)
THEOREM SlicesInBoundsHolds == Spec => []SlicesInBounds
<1>1. ASSUME PunchIInv PROVE SlicesInBounds
  <2> SUFFICES ASSUME NEW p \in Punchers
               PROVE  /\ at[p] = "predict" =>
                           Near(job[p], max_k1[status = "Cone"])
                             \in 0 .. NumsLen(job[p])
                      /\ at[p] = "chunk" =>
                           /\ ChunkSize(p) > 0
                           /\ port_index[p][job[p].peer] + ChunkSize(p) <= PortMax
    BY DEF SlicesInBounds
  <2>1. at[p] \in {"predict", "chunk"} => job[p] \in Requests
    BY <1>1 DEF PunchIInv, Local, HasJob, Busy
  <2>2. max_k1[status = "Cone"] \in Nat \ {0}
    BY PunchAssumption
  <2>3. at[p] = "chunk" =>
          /\ ChunkSize(p) \in 1 .. max_k2[is_cone[p]]
          /\ port_index[p][job[p].peer] + ChunkSize(p) <= PortMax
    BY <1>1, <2>1, ChunkFits DEF PunchIInv
  <2>4. max_k2[is_cone[p]] \in Nat
    BY <1>1, LocalTypes DEF PunchIInv
  <2>5. QED BY <2>1, <2>2, <2>3, <2>4, NearFits
<1>2. QED BY <1>1, PunchInductive, PTL

(* A punch sends many datagrams, or each of few from every socket of the   *)
(* group, however the NAT type changes while it runs.                      *)
THEOREM IoBoundedHolds == Spec => []IoBounded
<1>1. ASSUME PunchIInv, NEW p \in Punchers, at[p] \in {"near", "chunk", "far"}
      PROVE  io[p] <= 1 + IoBound(is_cone[p])
  <2> DEFINE k1 == max_k1[is_cone[p]]
             k2 == max_k2[is_cone[p]]
             f  == Each(p)
             n  == count[p]
  <2>1. k1 \in Nat \ {0} /\ k2 \in Nat \ {0} /\ f \in Nat /\ n \in Nat
        /\ io[p] \in Nat
    BY <1>1, LocalTypes DEF PunchIInv
  <2>2. IoBound(is_cone[p]) = (k1 + k2 - 2) * f
    BY DEF IoBound, Each
  <2>3. Local(p)
    BY <1>1 DEF PunchIInv
  <2>4. /\ at[p] = "near" => n <= k1 - 1
        /\ at[p] = "far" => n <= k2 - 1
    BY <2>1, <2>3 DEF Local, CountBelowMax, Max
  <2>5. /\ at[p] = "near" => io[p] <= 1 + n * f
        /\ at[p] = "chunk" => io[p] <= 1 + (k1 - 1) * f
        /\ at[p] = "far" => io[p] <= 1 + (k1 - 1) * f + n * f
    BY <2>3 DEF Local, IoSoFar, NearMost
  <2> HIDE DEF k1, k2, f, n
  <2>6. (k1 + k2 - 2) * f = (k1 - 1) * f + (k2 - 1) * f
    BY <2>1
  <2>7. /\ (k1 - 1) * f \in Nat /\ (k2 - 1) * f \in Nat /\ n * f \in Nat
        /\ n <= k1 - 1 => n * f <= (k1 - 1) * f
        /\ n <= k2 - 1 => n * f <= (k2 - 1) * f
    BY <2>1, EachMore
  <2>8. QED BY <1>1, <2>1, <2>2, <2>4, <2>5, <2>6, <2>7
<1>2. ASSUME PunchIInv PROVE IoBounded
  <2>1. \A p \in Punchers : is_cone[p] = TRUE \/ is_cone[p] = FALSE
    BY <1>2 DEF PunchIInv, TypeOK
  <2>2. QED BY <1>1, <1>2, <2>1 DEF IoBounded
<1>3. QED BY <1>2, PunchInductive, PTL

(* A peer's cursor moves only after its chunk has been sent, but for the   *)
(* last port of a full one.                                                *)
THEOREM CursorFollowsPortsHolds == Spec => CursorFollowsPorts
<1>1. ASSUME PunchIInv, [Next]_vars, NEW p \in Punchers, NEW i \in IDs,
             port_index'[p][i] # port_index[p][i]
      PROVE  /\ at[p] = "far"
             /\ job[p].peer = i
             /\ job[p].ips = 1 => count[p] >= ChunkSize(p) - 1
  <2>1. PICK q \in Punchers : FarDone(q)
    BY <1>1 DEF Next, Request, SetStatus, DropChannels, PunchStep, Next_, Begin,
       SendCone, Predict, Send, NearDone, Chunk, vars, work
  <2>2. port_index' = [port_index EXCEPT ![q][job[q].peer] = NextChunk(q)]
    BY <2>1 DEF FarDone
  <2>3. q = p /\ job[p].peer = i
    BY <1>1, <2>2 DEF PunchIInv, TypeOK
  <2>4. at[p] = "far" /\ Over(p) /\ job[p] \in Requests
    BY <1>1, <2>1, <2>3 DEF FarDone, PunchIInv, Local, HasJob, Busy
  <2>5. ASSUME job[p].ips = 1 PROVE count[p] >= ChunkSize(p) - 1
    <3>1. count[p] + ports[p] = ChunkSize(p)
      BY <1>1, <2>4, <2>5 DEF PunchIInv, Local, OneAddress
    <3>2. ports[p] = 0 \/ count[p] + 1 = max_k2[is_cone[p]]
      BY <2>4, <2>5 DEF Over, Max
    <3>3. ChunkSize(p) \in 1 .. max_k2[is_cone[p]]
      BY <1>1, <2>4, ChunkFits DEF PunchIInv
    <3>4. count[p] \in Nat /\ max_k2[is_cone[p]] \in Nat /\ ports[p] \in Nat
      BY <1>1, LocalTypes DEF PunchIInv
    <3>5. QED BY <3>1, <3>2, <3>3, <3>4
  <2>6. QED BY <2>3, <2>4, <2>5
<1>2. PunchIInv /\ [Next]_vars =>
        [\A p \in Punchers, i \in IDs :
           port_index'[p][i] # port_index[p][i] =>
             /\ at[p] = "far"
             /\ job[p].peer = i
             /\ job[p].ips = 1 => count[p] >= ChunkSize(p) - 1]_vars
  BY <1>1
<1>3. QED BY <1>2, PunchInductive, PTL DEF Spec, CursorFollowsPorts
=============================================================================
