------------------------------ MODULE IdleProofs ------------------------------
(***************************************************************************)
(* Proofs about Idle: the idle thread leaves the routing table sound, is   *)
(* never parked past a route that was added or past close(), and answers   *)
(* without a peer only for a route that is gone.                           *)
(***************************************************************************)
EXTENDS Idle, RegistryProofs

(* The idle thread adds no route, and holds an entry while it looks at it. *)
IdlerLocals ==
  /\ new[Idler] = None
  /\ at # "out" => pc[Idler] \in {"idle", "holding"}
  /\ at \in {"read", "write", "collect"} => pc[Idler] = "holding"

(* Between the store of Close and the end of the idle thread there is      *)
(* always somebody who will wake it, unless it is about to look.           *)
CloseTokens ==
  status = "Close" => un_parker \/ closing \/ at \in {"check", "stopped"}

(* The inductive invariant. *)
IdleIInv == IInv /\ IdleTypeOK /\ IdlerLocals /\ NoLostWake /\ CloseTokens

-----------------------------------------------------------------------------
(* What a step of the idle detector does to the table is a step of the     *)
(* table, but for the token that close() makes available.                  *)
LEMMA StepOfTable ==
  ASSUME IdleNext, report \in Seq(IDs)
  PROVE  [Next]_vars \/ CloseUnpark
<1> USE IdleAssumption
<1>1. ASSUME NEW t \in Threads, TableStep(t) PROVE Next
  BY <1>1 DEF TableStep, Next, Step
<1>2. CASE IdleStep
  <2>1. CASE \E k \in Keys : Advance(k)
    BY <2>1 DEF Advance, Next, Call
  <2>2. CASE LoadWrite
    BY <2>2 DEF LoadWrite, Next, Step
  <2>3. CASE Collect
    BY <2>3 DEF Collect, Next, Step
  <2>4. CASE Wake
    BY <2>4 DEF Wake, Next
  <2>5. CASE NextIdle \/ ScanEnd \/ LoadRead \/ Empty \/ Check
    BY <2>5 DEF NextIdle, ScanEnd, LoadRead, Empty, Check
  <2>6. CASE Handle
    <3>1. CASE report = <<>>
      BY <2>6, <3>1 DEF Handle
    <3>2. CASE report # <<>>
      <4>1. Head(report) \in IDs /\ RemoveRoute(Idler, Head(report))
        BY <2>6, <3>2 DEF Handle
      <4>2. QED BY <4>1 DEF Next, Call
    <3>3. QED BY <3>1, <3>2
  <2>7. QED
    BY <1>1, <1>2, <2>1, <2>2, <2>3, <2>4, <2>5, <2>6 DEF IdleStep
<1>3. ASSUME NEW t \in Users, TableCall(t) \/ UserStep(t)
      PROVE  [Next]_vars
  <2>0. t \in Threads
    BY DEF Users
  <2>1. CASE TableCall(t)
    BY <2>0, <2>1 DEF TableCall, Next
  <2>2. CASE ReadClock(t)
    BY <2>2 DEF ReadClock
  <2>3. CASE StoreRead(t) \/ StoreWrite(t)
    BY <2>0, <2>3 DEF StoreRead, StoreWrite, Next, Step
  <2>4. CASE \E e \in Entries : CreateStamped(t, e)
    BY <2>0, <2>4 DEF CreateStamped, Next, Step
  <2>5. QED
    BY <1>1, <1>3, <2>0, <2>1, <2>2, <2>3, <2>4 DEF UserStep
<1>4. CASE CloseStatus \/ Tick
  BY <1>4 DEF CloseStatus, Tick
<1>5. QED BY <1>2, <1>3, <1>4 DEF IdleNext

LEMMA TableInvariant ==
  ASSUME IInv, report \in Seq(IDs), [IdleNext]_idleVars
  PROVE  IInv'
<1>1. CASE CloseUnpark
  <2>1. UNCHANGED <<tables, lock, locals>> /\ un_parker' \in BOOLEAN
    BY <1>1 DEF CloseUnpark
  <2>2. QED BY <2>1, UnchangedStep
<1>2. CASE UNCHANGED idleVars
  BY <1>2, NextIInv DEF idleVars
<1>3. QED BY <1>1, <1>2, StepOfTable, NextIInv

-----------------------------------------------------------------------------
LEMMA IdleTypes ==
  ASSUME IInv, IInv', IdleTypeOK, IdlerLocals, [IdleNext]_idleVars
  PROVE  IdleTypeOK'
<1> USE IdleAssumption, NoneAssumption
<1>0. TypeOK' /\ \A t \in Threads : pc[t] = "holding" => ref[t] \in Entries
  BY DEF IInv, TypeOK, LocalsSet
<1>01. at \in {"read", "write"} =>
         last_read[ref[Idler]] \in 0 .. MaxTime /\ last_write[ref[Idler]] \in 0 .. MaxTime
  BY <1>0 DEF IdleTypeOK, IdlerLocals
<1>1. CASE UNCHANGED idleVars
  BY <1>0, <1>1 DEF idleVars, clock, stamps, scan, IdleTypeOK
<1>2. CASE IdleStep
  <2>1. ASSUME NEW k \in Keys, Advance(k) PROVE IdleTypeOK'
    BY <1>0, <2>1 DEF Advance, clock, stamps, IdleTypeOK, IdlePoints
  <2>2. CASE NextIdle
    BY <1>0, <2>2 DEF NextIdle, Round, clock, stamps, IdleTypeOK, IdlePoints, Never
  <2>3. CASE ScanEnd
    BY <1>0, <2>3 DEF ScanEnd, clock, stamps, scan, IdleTypeOK, IdlePoints
  <2>4. CASE LoadRead
    BY <1>0, <1>01, <2>4 DEF LoadRead, Older, clock, stamps, IdleTypeOK, IdlePoints, Never
  <2>5. CASE LoadWrite
    BY <1>0, <1>01, <2>5 DEF LoadWrite, Older, clock, stamps, IdleTypeOK, IdlePoints, Never
  <2>6. CASE Collect
    BY <1>0, <2>6 DEF Collect, Forget, Touch, clock, stamps, IdleTypeOK, IdlePoints,
       Never, IInv, TypeOK
  <2>7. CASE Handle
    BY <1>0, <2>7 DEF Handle, clock, stamps, IdleTypeOK, IdlePoints
  <2>8. CASE Empty
    BY <1>0, <2>8 DEF Empty, Forget, clock, stamps, IdleTypeOK, IdlePoints, Never
  <2>9. CASE Wake
    BY <1>0, <2>9 DEF Wake, clock, stamps, IdleTypeOK, IdlePoints
  <2>10. CASE Check
    BY <1>0, <2>10 DEF Check, Round, clock, stamps, IdleTypeOK, IdlePoints, Never
  <2>11. CASE TableStep(Idler)
    BY <1>0, <2>11 DEF TableStep, clock, stamps, scan, IdleTypeOK
  <2>12. QED
    BY <1>2, <2>1, <2>2, <2>3, <2>4, <2>5, <2>6, <2>7, <2>8, <2>9, <2>10, <2>11
    DEF IdleStep
<1>3. ASSUME NEW t \in Users, TableCall(t) \/ UserStep(t)
      PROVE  IdleTypeOK'
  <2>0. t \in Threads
    BY DEF Users
  <2>1. CASE TableCall(t) \/ TableStep(t)
    BY <1>0, <2>1 DEF TableCall, TableStep, clock, stamps, scan, IdleTypeOK
  <2>2. CASE ReadClock(t)
    BY <1>0, <2>0, <2>2 DEF ReadClock, stamps, scan, IdleTypeOK
  <2>3. CASE StoreRead(t)
    BY <1>0, <2>0, <2>3 DEF StoreRead, Touch, scan, IdleTypeOK
  <2>4. CASE StoreWrite(t)
    BY <1>0, <2>0, <2>4 DEF StoreWrite, Touch, scan, IdleTypeOK
  <2>5. ASSUME NEW e \in Entries, CreateStamped(t, e) PROVE IdleTypeOK'
    BY <1>0, <2>0, <2>5 DEF CreateStamped, scan, IdleTypeOK
  <2>6. QED
    BY <1>3, <2>1, <2>2, <2>3, <2>4, <2>5 DEF UserStep
<1>4. CASE CloseStatus \/ CloseUnpark
  BY <1>0, <1>4 DEF CloseStatus, CloseUnpark, clock, stamps, scan, IdleTypeOK
<1>5. CASE Tick
  BY <1>0, <1>5 DEF Tick, stamps, scan, IdleTypeOK
<1>6. QED BY <1>1, <1>2, <1>3, <1>4, <1>5 DEF IdleNext

-----------------------------------------------------------------------------
LEMMA IdlerLocalsStep ==
  ASSUME IInv, IdleTypeOK, IdlerLocals, [IdleNext]_idleVars
  PROVE  IdlerLocals'
<1> USE IdleAssumption, NoneAssumption
<1>0. pc \in [Threads -> Points] /\ new \in [Threads -> Routes \cup {None}]
  BY DEF IInv, TypeOK
<1>1. CASE UNCHANGED idleVars
  BY <1>1 DEF idleVars, vars, locals, IdlerLocals
<1>2. CASE IdleStep
  <2>1. ASSUME NEW k \in Keys, Advance(k) PROVE IdlerLocals'
    BY <1>0, <2>1 DEF Advance, GetEntry, Goto, IdlerLocals
  <2>2. CASE NextIdle \/ Check
    BY <2>2 DEF NextIdle, Check, Round, vars, locals, IdlerLocals
  <2>3. CASE ScanEnd \/ LoadRead \/ Empty
    BY <2>3 DEF ScanEnd, LoadRead, Empty, vars, locals, IdlerLocals
  <2>4. CASE LoadWrite
    <3>1. CASE verdict' = None
      BY <1>0, <2>4, <3>1 DEF LoadWrite, Touch, Goto, IdlerLocals
    <3>2. CASE verdict' # None
      BY <2>4, <3>2 DEF LoadWrite, vars, locals, IdlerLocals
    <3>3. QED BY <3>1, <3>2
  <2>5. CASE Collect
    BY <1>0, <2>5 DEF Collect, Touch, Goto, IdlerLocals
  <2>6. CASE Handle
    BY <2>6 DEF Handle, RemoveRoute, vars, locals, IdlerLocals
  <2>7. CASE Wake
    BY <2>7 DEF Wake, Park, vars, locals, IdlerLocals
  <2>8. CASE TableStep(Idler)
    <3>1. at' = at
      BY <2>8 DEF TableStep
    <3>2. new'[Idler] = None
      BY <1>0, <2>8 DEF TableStep, Lock, Insert, Take, Find, Retain, Unlink, Lookup,
         Push, Unlock, Unpark, RouteToId, Return, IdlerLocals
    <3>3. pc[Idler] \notin {"idle", "holding"}
      BY <2>8 DEF TableStep, Lock, Insert, Take, Find, Retain, Unlink, Lookup,
         Push, Unlock, Unpark, RouteToId
    <3>4. QED BY <3>1, <3>2, <3>3 DEF IdlerLocals
  <2>9. QED
    BY <1>2, <2>1, <2>2, <2>3, <2>4, <2>5, <2>6, <2>7, <2>8 DEF IdleStep
<1>3. ASSUME NEW t \in Users, TableCall(t) \/ UserStep(t)
      PROVE  IdlerLocals'
  <2>0. t \in Threads /\ t # Idler
    BY DEF Users
  <2>1. at' = at
    BY <1>3 DEF TableCall, UserStep, TableStep, ReadClock, StoreRead, StoreWrite,
       CreateStamped
  <2>2. new'[Idler] = new[Idler] /\ pc'[Idler] = pc[Idler]
    <3>1. CASE TableCall(t)
      BY <1>0, <2>0, <3>1 DEF TableCall, Call, AddRoute, RemoveRoute, UpdateRoute,
         GetEntry, Goto, locals
    <3>2. CASE TableStep(t)
      BY <1>0, <2>0, <3>2 DEF TableStep, Lock, Insert, Take, Find, Retain, Unlink,
         Lookup, Push, Unlock, Unpark, RouteToId, Return, Goto
    <3>3. CASE ReadClock(t)
      BY <3>3 DEF ReadClock, vars, locals
    <3>4. CASE \/ StoreRead(t) \/ StoreWrite(t)
               \/ \E e \in Entries : CreateStamped(t, e)
      BY <1>0, <2>0, <3>4 DEF StoreRead, StoreWrite, Touch, CreateStamped, Create,
         Goto
    <3>5. QED BY <1>3, <3>1, <3>2, <3>3, <3>4 DEF UserStep
  <2>3. QED BY <2>1, <2>2 DEF IdlerLocals
<1>4. CASE CloseStatus \/ CloseUnpark \/ Tick
  BY <1>4 DEF CloseStatus, CloseUnpark, Tick, vars, locals, IdlerLocals
<1>5. QED BY <1>1, <1>2, <1>3, <1>4 DEF IdleNext

-----------------------------------------------------------------------------
LEMMA CloseTokensStep ==
  ASSUME IdleTypeOK, CloseTokens, [IdleNext]_idleVars
  PROVE  CloseTokens'
<1>1. CASE UNCHANGED idleVars
  BY <1>1 DEF idleVars, vars, CloseTokens
<1>2. CASE IdleStep
  <2>1. CASE Wake
    BY <2>1 DEF Wake, CloseTokens
  <2>2. CASE Check
    BY <2>2 DEF Check, vars, CloseTokens
  <2>3. ASSUME NEW k \in Keys, Advance(k) PROVE CloseTokens'
    BY <2>3 DEF Advance, GetEntry, CloseTokens
  <2>4. CASE NextIdle \/ ScanEnd \/ LoadRead \/ Empty
    BY <2>4 DEF NextIdle, ScanEnd, LoadRead, Empty, vars, CloseTokens
  <2>5. CASE LoadWrite \/ Collect
    BY <2>5 DEF LoadWrite, Collect, Touch, vars, CloseTokens
  <2>6. CASE Handle
    BY <2>6 DEF Handle, RemoveRoute, vars, CloseTokens
  <2>7. CASE TableStep(Idler)
    BY <2>7 DEF TableStep, Lock, Insert, Take, Find, Retain, Unlink, Lookup, Push,
       Unlock, Unpark, RouteToId, CloseTokens
  <2>8. QED
    BY <1>2, <2>1, <2>2, <2>3, <2>4, <2>5, <2>6, <2>7 DEF IdleStep
<1>3. ASSUME NEW t \in Users, TableCall(t) \/ UserStep(t)
      PROVE  CloseTokens'
  <2>1. UNCHANGED <<status, closing, at>>
    BY <1>3 DEF TableCall, UserStep, TableStep, ReadClock, StoreRead, StoreWrite,
       CreateStamped
  <2>2. un_parker' = un_parker \/ un_parker'
    <3>1. CASE TableCall(t)
      BY <3>1 DEF TableCall, Call, AddRoute, RemoveRoute, UpdateRoute, GetEntry
    <3>2. CASE TableStep(t)
      BY <3>2 DEF TableStep, Lock, Insert, Take, Find, Retain, Unlink, Lookup, Push,
         Unlock, Unpark, RouteToId
    <3>3. CASE ReadClock(t)
      BY <3>3 DEF ReadClock, vars
    <3>4. CASE \/ StoreRead(t) \/ StoreWrite(t)
               \/ \E e \in Entries : CreateStamped(t, e)
      BY <3>4 DEF StoreRead, StoreWrite, Touch, CreateStamped, Create
    <3>5. QED BY <1>3, <3>1, <3>2, <3>3, <3>4 DEF UserStep
  <2>3. QED BY <2>1, <2>2 DEF CloseTokens
<1>4. CASE CloseStatus \/ CloseUnpark \/ Tick
  BY <1>4 DEF CloseStatus, CloseUnpark, Tick, vars, CloseTokens
<1>5. QED BY <1>1, <1>2, <1>3, <1>4 DEF IdleNext

-----------------------------------------------------------------------------
(* A writer that has added a route and has not reached unpark() yet. *)
OnItsWay(t) == pc[t] \in {"unlock", "unpark"} /\ new[t] # None

(* Only the step that ends with the token, or one that begins the wait,    *)
(* could break NoLostWake.                                                 *)
LEMMA WakeKept ==
  ASSUME NoLostWake,
         at' = "parked" => at = "parked",
         un_parker => un_parker',
         (\E k \in Keys : Linked(k)') =>
            (\E k \in Keys : Linked(k)) \/ (\E t \in Users : OnItsWay(t)'),
         \A t \in Users : OnItsWay(t) => OnItsWay(t)' \/ un_parker'
  PROVE  NoLostWake'
BY DEF NoLostWake, OnItsWay

LEMMA WriterWakes ==
  ASSUME IInv, NoLostWake, NEW t \in Users, UNCHANGED at,
         Step(t) \/ Call(t)
  PROVE  NoLostWake'
<1> USE NoneAssumption
<1>0. /\ t \in Threads
      /\ pc \in [Threads -> Points]
      /\ new \in [Threads -> Routes \cup {None}]
      /\ direct_route_table_time \in [Keys -> Entries \cup {None}]
      /\ pc[t] = "create" => new[t] \in Routes
      /\ gone \in [Threads -> Keys \cup {None}]
  BY DEF IInv, TypeOK, LocalsSet, Users
<1>1. \A u \in Users \ {t} : pc'[u] = pc[u] /\ new'[u] = new[u]
  <2>1. CASE Call(t)
    BY <1>0, <2>1 DEF Call, AddRoute, RemoveRoute, UpdateRoute, GetEntry, Goto,
       locals, Users
  <2>2. CASE Step(t)
    BY <1>0, <2>2 DEF Step, Lock, Insert, Take, Find, Retain, Unlink, Lookup, Push,
       Create, Unlock, Unpark, RouteToId, Touch, Return, Goto, Users
  <2>3. QED BY <2>1, <2>2
<1>2. CASE \E e \in Entries : Create(t, e)
  <2>1. OnItsWay(t)' /\ UNCHANGED un_parker
    BY <1>0, <1>2 DEF Create, Goto, OnItsWay
  <2>2. ~OnItsWay(t)
    BY <1>2 DEF Create, OnItsWay
  <2>3. QED BY <1>1, <2>1, <2>2, WakeKept DEF OnItsWay
<1>3. CASE Unlink(t)
  <2>1. ~OnItsWay(t) /\ UNCHANGED un_parker
    BY <1>3 DEF Unlink, OnItsWay
  <2>2. \A k \in Keys : Linked(k)' => Linked(k)
    BY <1>0, <1>3 DEF Unlink, Linked
  <2>3. QED BY <1>1, <2>1, <2>2, WakeKept DEF OnItsWay
<1>4. CASE Unlock(t)
  <2>1. UNCHANGED <<un_parker, direct_route_table_time>>
    BY <1>4 DEF Unlock, tables
  <2>2. OnItsWay(t) => OnItsWay(t)'
    BY <1>0, <1>4 DEF Unlock, Unparks, OnItsWay, Goto
  <2>3. QED BY <1>1, <2>1, <2>2, WakeKept DEF OnItsWay, Linked
<1>5. CASE Unpark(t)
  BY <1>5 DEF Unpark, NoLostWake
<1>6. ASSUME ~OnItsWay(t), UNCHANGED <<un_parker, direct_route_table_time>>
      PROVE  NoLostWake'
  BY <1>1, <1>6, WakeKept DEF OnItsWay, Linked
<1>7. CASE Call(t)
  BY <1>6, <1>7 DEF Call, AddRoute, RemoveRoute, UpdateRoute, GetEntry, tables,
     OnItsWay
<1>8. CASE Lock(t) \/ Insert(t) \/ Take(t) \/ Find(t)
  BY <1>6, <1>8 DEF Lock, Insert, Take, Find, tables, OnItsWay
<1>9. CASE Retain(t) \/ Lookup(t) \/ Push(t) \/ RouteToId(t) \/ Touch(t)
  BY <1>6, <1>9 DEF Retain, Lookup, Push, RouteToId, Touch, tables, OnItsWay
<1>10. QED
  BY <1>2, <1>3, <1>4, <1>5, <1>7, <1>8, <1>9 DEF Step

LEMMA NoLostWakeStep ==
  ASSUME IInv, IdleTypeOK, IdlerLocals, NoLostWake, [IdleNext]_idleVars
  PROVE  NoLostWake'
<1> USE IdleAssumption, NoneAssumption
<1>1. ASSUME NEW t \in Users, TableCall(t) \/ UserStep(t)
      PROVE  NoLostWake'
  <2>1. CASE ReadClock(t)
    BY <2>1 DEF ReadClock, vars, tables, locals, NoLostWake, Linked
  <2>2. CASE ~ReadClock(t)
    <3>1. UNCHANGED at /\ (Call(t) \/ Step(t))
      BY <1>1, <2>2 DEF TableCall, UserStep, TableStep, StoreRead, StoreWrite,
         CreateStamped, Step
    <3>2. QED BY <3>1, WriterWakes
  <2>3. QED BY <2>1, <2>2
<1>2. CASE UNCHANGED vars /\ (at' = "parked" => at = "parked")
  BY <1>2 DEF vars, tables, locals, NoLostWake, Linked
<1>3. CASE at' # "parked"
  BY <1>3 DEF NoLostWake
<1>4. CASE Empty
  BY <1>4 DEF Empty, vars, tables, NoLostWake, Linked
<1>5. CASE TableStep(Idler)
  <2>1. at = "parked" => FALSE
    BY <1>5 DEF IdlerLocals, TableStep, Lock, Insert, Take, Find, Retain, Unlink,
       Lookup, Push, Unlock, Unpark, RouteToId
  <2>2. at' = at
    BY <1>5 DEF TableStep
  <2>3. QED BY <1>3, <2>1, <2>2
<1>6. CASE IdleStep /\ ~Empty /\ ~TableStep(Idler)
  BY <1>3, <1>6 DEF IdleStep, NextIdle, Round, Advance, ScanEnd, LoadRead, LoadWrite,
     Collect, Handle, Wake, Check
<1>7. CASE CloseUnpark
  BY <1>7 DEF CloseUnpark, NoLostWake
<1>8. CASE CloseStatus \/ Tick \/ UNCHANGED idleVars
  BY <1>2, <1>8 DEF CloseStatus, Tick, idleVars
<1>9. QED
  BY <1>1, <1>4, <1>5, <1>6, <1>7, <1>8 DEF IdleNext

-----------------------------------------------------------------------------
LEMMA InitIdleIInv == IdleInit => IdleIInv
<1> SUFFICES ASSUME IdleInit PROVE IdleIInv
  OBVIOUS
<1> USE IdleAssumption, NoneAssumption
<1>1. IInv /\ TypeOK
  BY InitIInv DEF IdleInit, IInv
<1>2. IdleTypeOK
  <2>1. report \in Seq(IDs) /\ at \in IdlePoints
    BY DEF IdleInit, IdlePoints
  <2>2. /\ last_read \in [Entries -> 0 .. MaxTime]
        /\ last_write \in [Entries -> 0 .. MaxTime]
        /\ stamp \in [Threads -> 0 .. MaxTime \cup {None}]
    BY DEF IdleInit
  <2>3. /\ now \in 0 .. MaxTime /\ start \in 0 .. MaxTime
        /\ min \in 0 .. Never /\ deadline \in 0 .. 2 * MaxTime
    BY DEF IdleInit, Never
  <2>4. QED BY <1>1, <2>1, <2>2, <2>3 DEF IdleInit, IdleTypeOK
<1>3. IdlerLocals /\ CloseTokens
  BY DEF IdleInit, Init, IdlerLocals, CloseTokens
<1>4. NoLostWake
  BY DEF IdleInit, NoLostWake
<1>5. QED BY <1>1, <1>2, <1>3, <1>4 DEF IdleIInv

LEMMA NextIdleIInv == IdleIInv /\ [IdleNext]_idleVars => IdleIInv'
<1> SUFFICES ASSUME IdleIInv, [IdleNext]_idleVars PROVE IdleIInv'
  OBVIOUS
<1>1. IInv'
  BY TableInvariant DEF IdleIInv, IdleTypeOK
<1>2. QED
  BY <1>1, IdleTypes, IdlerLocalsStep, NoLostWakeStep, CloseTokensStep DEF IdleIInv

(* The inductive invariant of the table and of the idle detector together, *)
(* for any number of threads, any idle times and any clock.                *)
THEOREM IdleInductive == IdleSpec => []IdleIInv
BY InitIdleIInv, NextIdleIInv, PTL DEF IdleSpec

(* The variables of the idle detector keep their types. *)
THEOREM IdleTypeCorrect == IdleSpec => []IdleTypeOK
<1>1. IdleIInv => IdleTypeOK BY DEF IdleIInv
<1>2. QED BY <1>1, IdleInductive, PTL

(* The idle thread is never parked without a time limit over a route that  *)
(* add_route has linked, unless the token is there or on its way.          *)
THEOREM NoLostWakeHolds == IdleSpec => []NoLostWake
<1>1. IdleIInv => NoLostWake BY DEF IdleIInv
<1>2. QED BY <1>1, IdleInductive, PTL

(* An idle thread that waits in a closed channel is about to be woken.     *)
THEOREM CloseWakesHolds == IdleSpec => []CloseWakes
<1>1. IdleIInv => CloseWakes BY DEF IdleIInv, CloseTokens, CloseWakes
<1>2. QED BY <1>1, IdleInductive, PTL

(* An answer of next_idle without a peer is about an entry that no key     *)
(* leads to any more.                                                      *)
THEOREM EmptyReportIsGoneHolds == IdleSpec => EmptyReportIsGone
<1>1. ASSUME IdleIInv, [IdleNext]_idleVars,
             at = "collect" /\ at' = "return" /\ report' = <<>>
      PROVE  \A k \in Keys : direct_route_table_time[k] # ref[Idler]
  <2>1. Collect
    BY <1>1 DEF IdleNext, IdleStep, NextIdle, Round, Advance, ScanEnd, LoadRead,
       LoadWrite, Handle, Empty, Wake, Check, TableStep, TableCall, UserStep,
       ReadClock, StoreRead, StoreWrite, CreateStamped, CloseStatus, CloseUnpark,
       Tick, idleVars
  <2>2. ListFree(ref[Idler]) /\ ids[ref[Idler]] = <<>>
    BY <1>1, <2>1 DEF Collect
  <2>3. ref[Idler] # None
    BY <1>1, IdleAssumption DEF IdleIInv, IInv, LocalsSet, IdlerLocals
  <2>4. EmptyMeansUnlinked
    BY <1>1, NoneAssumption
    DEF IdleIInv, IInv, TypeOK, ListsSound, ListFree, EmptyMeansUnlinked
  <2>5. QED BY <2>2, <2>3, <2>4 DEF EmptyMeansUnlinked
<1>2. IdleIInv /\ [IdleNext]_idleVars =>
        [at = "collect" /\ at' = "return" /\ report' = <<>> =>
           \A k \in Keys : direct_route_table_time[k] # ref[Idler]]_idleVars
  BY <1>1
<1>3. QED BY <1>2, IdleInductive, PTL DEF IdleSpec, EmptyReportIsGone

-----------------------------------------------------------------------------
(* The routing table beside the idle detector, which scans it, removes     *)
(* routes from it and shares its parker with close().                      *)

(* What a step of any thread is to the table. *)
LEMMA TableSteps ==
  ASSUME IdleIInv, [IdleNext]_idleVars
  PROVE  [Next]_vars \/ UNCHANGED <<tables, locals>>
<1>1. CASE UNCHANGED idleVars
  BY <1>1 DEF idleVars
<1>2. CASE CloseUnpark
  BY <1>2 DEF CloseUnpark
<1>3. CASE IdleNext
  BY <1>2, <1>3, StepOfTable DEF IdleIInv, IdleTypeOK
<1>4. QED BY <1>1, <1>3

(* Also when the idle thread works on it, the table is always what its     *)
(* users and the readers that take no mutex expect, and whoever waits for  *)
(* a mutex waits for a writer that waits for nobody.                       *)
THEOREM IdleKeepsTable ==
  IdleSpec => [](/\ Agreement /\ OneListing /\ StaleOnlyInFlight
                 /\ EmptyMeansUnlinked /\ WaitsForWriter)
<1>1. IdleIInv => /\ Agreement /\ OneListing /\ StaleOnlyInFlight
                  /\ EmptyMeansUnlinked /\ WaitsForWriter
  BY AgreementLemma, OneListingLemma, StaleOnlyInFlightLemma, EmptyMeansUnlinkedLemma,
     WaitsForWriterLemma DEF IdleIInv
<1>2. QED BY <1>1, IdleInductive, PTL

(* Neither the idle thread's removals nor its scan hide a peer that is     *)
(* still routed by a key, or change the answer of route_to_id meanwhile.   *)
THEOREM IdleKeepsRoutes == IdleSpec => UnlistAfterReroute /\ FirstIsStable
<1>1. ASSUME IdleIInv, [IdleNext]_idleVars, NEW i \in IDs, NEW k \in Keys,
             Listed(i, k), ~Listed(i, k)'
      PROVE  ~Routed(i, k)
  <2>1. CASE [Next]_vars
    BY <1>1, <2>1, UnlistStep DEF IdleIInv
  <2>2. CASE UNCHANGED tables
    BY <1>1, <2>2 DEF tables, Listed
  <2>3. QED BY <1>1, <2>1, <2>2, TableSteps
<1>2. ASSUME IdleIInv, [IdleNext]_idleVars PROVE FirstKept
  <2>1. CASE [Next]_vars
    BY <1>2, <2>1, FirstStep DEF IdleIInv
  <2>2. CASE UNCHANGED tables
    BY <2>2 DEF tables, FirstKept
  <2>3. QED BY <1>2, <2>1, <2>2, TableSteps
<1>3. IdleIInv /\ [IdleNext]_idleVars =>
        [\A i \in IDs, k \in Keys : Listed(i, k) /\ ~Listed(i, k)'
                                    => ~Routed(i, k)]_vars
  BY <1>1
<1>4. IdleIInv /\ [IdleNext]_idleVars => [FirstKept]_vars
  BY <1>2
<1>5. QED
  BY <1>3, <1>4, IdleInductive, PTL
  DEF IdleSpec, UnlistAfterReroute, FirstIsStable, FirstKept

(* The whole of add_route, remove_route, update_route, route_to_id, the    *)
(* scan of next_idle and its caller's remove_route, and close(), however   *)
(* they interleave, is a behaviour of the registry.                        *)
THEOREM IdleImplementsRegistry == IdleSpec => RegistrySpec
<1>1. IdleInit => R!Init
  BY InitImplements DEF IdleInit
<1>2. IdleIInv /\ IdleIInv' /\ [IdleNext]_idleVars => [R!Next]_(R!vars)
  <2> SUFFICES ASSUME IdleIInv, IdleIInv', [IdleNext]_idleVars
               PROVE  [R!Next]_(R!vars)
    OBVIOUS
  <2>1. IInv /\ IInv'
    BY DEF IdleIInv
  <2>2. CASE [Next]_vars
    BY <2>1, <2>2, StepImplements
  <2>3. CASE UNCHANGED <<tables, locals>>
    <3>1. UNCHANGED tables /\ UNCHANGED <<pc, id, new>>
      BY <2>3 DEF locals
    <3>2. UNCHANGED R!vars
      BY <2>1, <3>1, SameShown
    <3>3. QED BY <3>2
  <2>4. QED BY <2>2, <2>3, TableSteps
<1>3. QED BY <1>1, <1>2, IdleInductive, PTL DEF IdleSpec, RegistrySpec, R!Spec

-----------------------------------------------------------------------------
(* How late an idle route is noticed, when the idle thread is prompt.      *)

Young(e) ==
  /\ read_idle > 0 => now <= last_read[e] + read_idle
  /\ write_idle > 0 => now <= last_write[e] + write_idle

(* The end of the sleep is not too late for an entry.                      *)
InTime(e) ==
  /\ read_idle > 0 => deadline <= last_read[e] + read_idle + Slack
  /\ write_idle > 0 => deadline <= last_write[e] + write_idle + Slack

(* The scan is past what key k leads to; the entry at hand counts only if  *)
(* it is no longer the one of its key.                                     *)
Seen(k) ==
  \/ at = "scan" /\ k <= cursor
  \/ at \in {"read", "write"} /\ k <= cursor
       /\ (k = cursor => direct_route_table_time[k] # ref[Idler])
  \/ at = "empty"

Scanning == {"scan", "read", "write", "empty"}

PromptInv ==
  /\ \A t \in Threads : stamp[t] # None => stamp[t] = now
  /\ at \in Scanning => start = now /\ now <= min + Slack
  /\ at = "write" /\ verdict = None /\ read_idle > 0 =>
       now <= last_read[ref[Idler]] + read_idle
  /\ \A k \in Keys : Linked(k) /\ Seen(k) => Young(direct_route_table_time[k])
  /\ at = "sleep" =>
       /\ now <= deadline /\ deadline <= now + Slack
       /\ \A k \in Keys : Linked(k) => InTime(direct_route_table_time[k])

LEMMA SlackBounds ==
  /\ Slack \in Nat /\ read_idle \in Nat /\ write_idle \in Nat
  /\ read_idle <= Slack /\ write_idle <= Slack
BY IdleAssumption DEF Slack

(* Steps that leave the clock, the timestamps and the scan alone, and link *)
(* no entry.                                                               *)
LEMMA PromptKept ==
  ASSUME PromptInv,
         UNCHANGED <<at, now, stamp, start, cursor, min, verdict, deadline,
                     last_read, last_write>>,
         \A k \in Keys : direct_route_table_time'[k] # None =>
           direct_route_table_time'[k] = direct_route_table_time[k],
         at \in {"read", "write"} => ref'[Idler] = ref[Idler]
  PROVE  PromptInv'
BY DEF PromptInv, Young, InTime, Seen, Linked, Slack, Scanning

LEMMA PromptScan ==
  ASSUME IdleIInv, PromptInv,
         \/ NextIdle \/ (\E k \in Keys : Advance(k)) \/ ScanEnd \/ LoadRead
         \/ LoadWrite \/ Collect \/ Handle \/ Empty \/ Wake \/ Check
  PROVE  PromptInv'
<1> USE IdleAssumption, NoneAssumption, SlackBounds
<1>0. /\ now \in Nat /\ start \in Nat /\ min \in Nat /\ cursor \in Nat
      /\ now <= MaxTime /\ Keys \subseteq Nat \ {0}
      /\ ref \in [Threads -> Entries \cup {None}]
      /\ pc \in [Threads -> Points]
      /\ direct_route_table_time \in [Keys -> Entries \cup {None}]
      /\ \A e \in Entries : last_read[e] \in Nat /\ last_write[e] \in Nat
  BY DEF IdleIInv, IdleTypeOK, TypeOK, Never
<1>01. at \in {"read", "write"} => ref[Idler] \in Entries
  BY <1>0 DEF IdleIInv, IInv, IdlerLocals, LocalsSet
<1>02. \A k \in Keys : k \in Nat /\ k > 0
  BY <1>0
<1>1. CASE NextIdle \/ (Check /\ status # "Close")
  <2>1. /\ at' = "scan" /\ start' = now /\ cursor' = 0 /\ min' = Never
        /\ UNCHANGED <<now, stamp>>
    BY <1>1 DEF NextIdle, Check, Round, clock
  <2>2. ASSUME NEW k \in Keys PROVE ~Seen(k)'
    <3>1. k \in Nat /\ k > 0
      BY <1>02
    <3>2. QED BY <2>1, <3>1 DEF Seen
  <2>3. QED BY <1>0, <2>1, <2>2 DEF PromptInv, Scanning, Never, Slack
<1>2. CASE Check /\ status = "Close"
  <2>1. at' = "stopped" /\ UNCHANGED <<now, stamp>>
    BY <1>2 DEF Check, clock
  <2>2. QED BY <2>1 DEF PromptInv, Seen, Scanning
<1>3. CASE Collect \/ Handle \/ Wake
  <2>1. at' \in {"return", "out", "panicked", "check"} /\ UNCHANGED <<now, stamp>>
    BY <1>3 DEF Collect, Handle, Wake, clock
  <2>2. QED BY <2>1 DEF PromptInv, Seen, Scanning
<1>4. ASSUME NEW k \in Keys, Advance(k) PROVE PromptInv'
  <2>1. /\ at = "scan" /\ at' = "read" /\ cursor' = k /\ k \in Ahead
        /\ \A l \in Ahead : k <= l
        /\ ref'[Idler] = direct_route_table_time[k]
        /\ UNCHANGED <<now, stamp, start, min, verdict, deadline, last_read,
                       last_write, direct_route_table_time>>
    BY <1>0, <1>4 DEF Advance, GetEntry, Hold, clock, stamps, tables
  <2>2. ASSUME NEW l \in Keys, Linked(l), Seen(l)' PROVE Seen(l)
    <3>0. l \in Nat /\ k \in Nat
      BY <1>02
    <3>1. l < k
      <4>1. l <= k
        BY <2>1, <2>2 DEF Seen
      <4>2. l # k
        BY <2>1, <2>2 DEF Seen
      <4>3. QED BY <3>0, <4>1, <4>2
    <3>2. l \notin Ahead
      BY <2>1, <3>0, <3>1
    <3>3. QED BY <1>0, <2>1, <2>2, <3>0, <3>2 DEF Ahead, Linked, Seen
  <2>3. QED BY <2>1, <2>2 DEF PromptInv, Scanning, Linked, Young, Slack
<1>5. CASE ScanEnd
  <2>1. /\ at = "scan" /\ at' = "empty" /\ Ahead = {}
        /\ UNCHANGED <<now, stamp, start, min, cursor, verdict, deadline, last_read,
                       last_write, direct_route_table_time>>
    BY <1>5 DEF ScanEnd, clock, stamps, scan, vars, tables
  <2>2. ASSUME NEW l \in Keys, Linked(l) PROVE Seen(l)
    <3>1. l \in Nat /\ ~(l > cursor)
      BY <1>02, <2>1, <2>2 DEF Ahead, Linked
    <3>2. QED BY <1>0, <2>1, <3>1 DEF Seen
  <2>3. QED BY <2>1, <2>2 DEF PromptInv, Scanning, Linked, Young, Slack
<1>6. CASE LoadRead
  <2>1. /\ at = "read" /\ at' = "write"
        /\ UNCHANGED <<now, stamp, start, cursor, deadline, last_read, last_write,
                       direct_route_table_time, ref>>
    BY <1>6 DEF LoadRead, clock, stamps, vars, tables, locals
  <2>2. last_read[ref[Idler]] \in Nat
    BY <1>0, <1>01, <2>1
  <2>3. start = now /\ now <= min + Slack
    BY <2>1 DEF PromptInv, Scanning
  <2>4. /\ now <= min' + Slack
        /\ verdict' = None /\ read_idle > 0 => now <= last_read[ref[Idler]] + read_idle
    <3>1. CASE read_idle = 0
      BY <1>6, <2>3, <3>1 DEF LoadRead
    <3>2. CASE read_idle # 0 /\ last_read[ref[Idler]] + read_idle < start
      BY <1>6, <2>3, <3>2 DEF LoadRead
    <3>3. CASE read_idle # 0 /\ ~(last_read[ref[Idler]] + read_idle < start)
      BY <1>0, <1>6, <2>2, <2>3, <3>3 DEF LoadRead, Older
    <3>4. QED BY <3>1, <3>2, <3>3
  <2>5. \A k \in Keys : Seen(k)' => Seen(k)
    BY <2>1 DEF Seen
  <2>6. QED BY <2>1, <2>3, <2>4, <2>5 DEF PromptInv, Scanning, Linked, Young, Slack
<1>7. CASE LoadWrite
  <2> DEFINE s == last_write[ref[Idler]]
             late == write_idle > 0 /\ s + write_idle < start
  <2>1. /\ at = "write" /\ at' \in {"scan", "collect"}
        /\ verdict' = None <=> at' = "scan"
        /\ verdict' = None => verdict = None /\ ~late
        /\ min' = (IF write_idle > 0 /\ ~late /\ s < min THEN s ELSE min)
        /\ UNCHANGED <<now, stamp, start, cursor, deadline, last_read, last_write,
                       direct_route_table_time>>
    <3>1. UNCHANGED direct_route_table_time
      BY <1>7 DEF LoadWrite, Touch, vars, tables
    <3>2. verdict' = None => verdict = None /\ ~late
      BY <1>7 DEF LoadWrite
    <3>3. min' = (IF write_idle > 0 /\ ~late /\ s < min THEN s ELSE min)
      BY <1>7 DEF LoadWrite, Older
    <3>4. QED BY <1>7, <3>1, <3>2, <3>3 DEF LoadWrite, clock, stamps
  <2>2. s \in Nat /\ last_read[ref[Idler]] \in Nat
    BY <1>0, <1>01, <2>1
  <2>3. start = now /\ now <= min + Slack
    BY <2>1 DEF PromptInv, Scanning
  <2>4. now <= min' + Slack
    BY <1>0, <2>1, <2>2, <2>3
  <2>5. CASE at' = "collect"
    BY <2>1, <2>5 DEF PromptInv, Scanning, Seen
  <2>6. CASE at' = "scan"
    <3>1. Young(ref[Idler])
      <4>1. read_idle > 0 => now <= last_read[ref[Idler]] + read_idle
        BY <2>1, <2>6 DEF PromptInv
      <4>2. write_idle > 0 => now <= s + write_idle
        BY <1>0, <2>1, <2>2, <2>3, <2>6
      <4>3. QED BY <4>1, <4>2 DEF Young
    <3>2. ASSUME NEW k \in Keys, Linked(k), Seen(k)'
          PROVE  Young(direct_route_table_time[k])
      <4>1. k <= cursor
        BY <2>1, <2>6, <3>2 DEF Seen
      <4>2. direct_route_table_time[k] = ref[Idler] \/ Seen(k)
        BY <2>1, <4>1 DEF Seen
      <4>3. QED BY <3>1, <3>2, <4>2 DEF PromptInv
    <3>3. QED
      BY <2>1, <2>3, <2>4, <2>6, <3>2 DEF PromptInv, Scanning, Linked, Young, Slack
  <2>7. QED BY <2>1, <2>5, <2>6
<1>8. CASE Empty
  <2>1. /\ at = "empty" /\ at' \in {"parked", "sleep", "check"}
        /\ at' = "sleep" => deadline' = now + (now - min) /\ now > min
        /\ UNCHANGED <<now, stamp, last_read, last_write, direct_route_table_time>>
    BY <1>8 DEF Empty, clock, stamps, vars, tables
  <2>2. now <= min + Slack
    BY <2>1 DEF PromptInv, Scanning
  <2>3. CASE at' = "sleep"
    <3>1. now <= deadline' /\ deadline' <= now + Slack /\ deadline' \in Nat
      BY <1>0, <2>1, <2>2, <2>3
    <3>2. ASSUME NEW k \in Keys, Linked(k)
          PROVE  /\ read_idle > 0 => deadline' <= last_read[direct_route_table_time[k]]
                                                  + read_idle + Slack
                 /\ write_idle > 0 => deadline' <= last_write[direct_route_table_time[k]]
                                                   + write_idle + Slack
      <4>1. Young(direct_route_table_time[k])
        BY <2>1, <3>2 DEF PromptInv, Seen
      <4>2. /\ last_read[direct_route_table_time[k]] \in Nat
            /\ last_write[direct_route_table_time[k]] \in Nat
        BY <1>0, <3>2 DEF Linked
      <4>3. QED BY <1>0, <3>1, <4>1, <4>2 DEF Young
    <3>3. QED
      BY <2>1, <2>3, <3>1, <3>2 DEF PromptInv, Scanning, Seen, Linked, InTime, Slack
  <2>4. CASE at' # "sleep"
    BY <2>1, <2>4 DEF PromptInv, Scanning, Seen
  <2>5. QED BY <2>3, <2>4
<1>9. QED
  BY <1>1, <1>2, <1>3, <1>4, <1>5, <1>6, <1>7, <1>8

(* The steps of the table that store no timestamp.                         *)
LEMMA PromptTable ==
  ASSUME IdleIInv, PromptInv, NEW t \in Threads, TableStep(t) \/ TableCall(t),
         t = Idler => TableStep(t)
  PROVE  PromptInv'
<1> USE IdleAssumption, NoneAssumption
<1>0. /\ ref \in [Threads -> Entries \cup {None}]
      /\ direct_route_table_time \in [Keys -> Entries \cup {None}]
  BY DEF IdleIInv, IdleTypeOK, TypeOK
<1>1. UNCHANGED <<at, now, stamp, start, cursor, min, verdict, deadline,
                  last_read, last_write>>
  BY DEF TableStep, TableCall, clock, stamps, scan
<1>2. ASSUME NEW k \in Keys, direct_route_table_time'[k] # None
      PROVE  direct_route_table_time'[k] = direct_route_table_time[k]
  <2>1. CASE Unlink(t)
    BY <1>0, <1>2, <2>1 DEF Unlink
  <2>2. CASE TableStep(t) /\ ~Unlink(t)
    BY <2>2 DEF TableStep, Lock, Insert, Take, Find, Retain, Lookup, Push, Unlock,
       Unpark, RouteToId, tables
  <2>3. CASE TableCall(t)
    BY <2>3 DEF TableCall, Call, AddRoute, RemoveRoute, UpdateRoute, GetEntry, tables
  <2>4. QED BY <2>1, <2>2, <2>3
<1>3. ASSUME at \in {"read", "write"} PROVE ref'[Idler] = ref[Idler]
  <2>1. pc[Idler] = "holding"
    BY <1>3 DEF IdleIInv, IdlerLocals
  <2>2. t # Idler
    BY <2>1 DEF TableStep, Lock, Insert, Take, Find, Retain, Unlink, Lookup, Push,
       Unlock, Unpark, RouteToId
  <2>3. CASE TableStep(t)
    BY <1>0, <2>2, <2>3 DEF TableStep, Lock, Insert, Take, Find, Retain, Unlink,
       Lookup, Push, Unlock, Unpark, RouteToId, Hold, Release
  <2>4. CASE TableCall(t)
    BY <1>0, <2>2, <2>4 DEF TableCall, Call, AddRoute, RemoveRoute, UpdateRoute,
       GetEntry, Hold, locals
  <2>5. QED BY <2>3, <2>4
<1>4. QED BY <1>1, <1>2, <1>3, PromptKept

(* An entry that has just been stamped is in time for everything.          *)
LEMMA Stamped ==
  ASSUME IdleIInv, PromptInv, NEW t \in Users, stamp[t] # None,
         NEW e \in Entries,
         UNCHANGED <<at, now, start, cursor, min, verdict, deadline>>,
         stamp' = [stamp EXCEPT ![t] = None],
         \A f \in Entries \ {e} : last_read'[f] = last_read[f]
                                 /\ last_write'[f] = last_write[f],
         last_read'[e] \in {last_read[e], now},
         last_write'[e] \in {last_write[e], now},
         at \in {"read", "write"} => ref'[Idler] = ref[Idler],
         \A k \in Keys : direct_route_table_time'[k] # None =>
           \/ direct_route_table_time'[k] = direct_route_table_time[k]
           \/ /\ direct_route_table_time'[k] = e
              /\ last_read'[e] = now /\ last_write'[e] = now
  PROVE  PromptInv'
<1> USE IdleAssumption, NoneAssumption, SlackBounds
<1>0. /\ now \in Nat /\ min \in Nat /\ deadline \in Nat
      /\ stamp \in [Threads -> 0 .. MaxTime \cup {None}]
      /\ direct_route_table_time \in [Keys -> Entries \cup {None}]
      /\ \A f \in Entries : last_read[f] \in Nat /\ last_write[f] \in Nat
  BY DEF IdleIInv, IdleTypeOK, TypeOK, Never
<1>1. \A u \in Threads : stamp'[u] # None => stamp'[u] = now
  BY <1>0 DEF PromptInv, Users
<1>2. at = "write" => ref[Idler] \in Entries
  BY DEF IdleIInv, IInv, TypeOK, IdlerLocals, LocalsSet
<1>3. at = "write" /\ verdict = None /\ read_idle > 0 =>
        now <= last_read'[ref[Idler]] + read_idle
  BY <1>0, <1>2 DEF PromptInv
<1>4. ASSUME NEW f \in Entries, Young(f) PROVE Young(f)'
  BY <1>0, <1>4 DEF Young
<1>5. ASSUME NEW f \in Entries, InTime(f), deadline <= now + Slack PROVE InTime(f)'
  BY <1>0, <1>5 DEF InTime, Slack
<1>6. ASSUME last_read'[e] = now, last_write'[e] = now PROVE Young(e)'
  BY <1>0, <1>6 DEF Young
<1>7. ASSUME last_read'[e] = now, last_write'[e] = now, deadline <= now + Slack
      PROVE  InTime(e)'
  BY <1>0, <1>7 DEF InTime, Slack
<1>8. ASSUME NEW k \in Keys, Linked(k)', Seen(k)'
      PROVE  Young(direct_route_table_time[k])'
  <2>1. direct_route_table_time'[k] # None
    BY <1>8 DEF Linked
  <2>2. CASE direct_route_table_time'[k] = direct_route_table_time[k]
    <3>1. Linked(k) /\ direct_route_table_time[k] \in Entries
      BY <1>0, <2>1, <2>2 DEF Linked
    <3>2. Seen(k)
      BY <1>8, <2>2 DEF Seen
    <3>3. Young(direct_route_table_time[k])
      BY <3>1, <3>2 DEF PromptInv
    <3>4. QED BY <1>4, <2>2, <3>1, <3>3 DEF Young
  <2>3. CASE /\ direct_route_table_time'[k] = e
             /\ last_read'[e] = now /\ last_write'[e] = now
    BY <1>6, <2>3 DEF Young
  <2>4. QED BY <2>1, <2>2, <2>3
<1>9. ASSUME at = "sleep", NEW k \in Keys, Linked(k)'
      PROVE  InTime(direct_route_table_time[k])'
  <2>1. direct_route_table_time'[k] # None /\ deadline <= now + Slack
    BY <1>9 DEF Linked, PromptInv
  <2>2. CASE direct_route_table_time'[k] = direct_route_table_time[k]
    <3>1. Linked(k) /\ direct_route_table_time[k] \in Entries
      BY <1>0, <2>1, <2>2 DEF Linked
    <3>2. InTime(direct_route_table_time[k])
      BY <1>9, <3>1 DEF PromptInv
    <3>3. QED BY <1>5, <2>1, <2>2, <3>1, <3>2 DEF InTime
  <2>3. CASE /\ direct_route_table_time'[k] = e
             /\ last_read'[e] = now /\ last_write'[e] = now
    BY <1>7, <2>1, <2>3 DEF InTime
  <2>4. QED BY <2>1, <2>2, <2>3
<1>10. at \in Scanning => start' = now' /\ now' <= min' + Slack'
  BY DEF PromptInv, Slack
<1>11. at = "sleep" => now' <= deadline' /\ deadline' <= now' + Slack'
  BY DEF PromptInv, Slack
<1>12. at \in {"read", "write"} => ref'[Idler] = ref[Idler]
  OBVIOUS
<1>13. QED
  BY <1>1, <1>3, <1>8, <1>9, <1>10, <1>11, <1>12 DEF PromptInv, Scanning

LEMMA PromptUser ==
  ASSUME IdleIInv, PromptInv, NEW t \in Users, UserStep(t)
  PROVE  PromptInv'
<1> USE IdleAssumption, NoneAssumption
<1>0. /\ t \in Threads /\ t # Idler
      /\ stamp \in [Threads -> 0 .. MaxTime \cup {None}]
      /\ ref \in [Threads -> Entries \cup {None}]
      /\ direct_route_table_time \in [Keys -> Entries \cup {None}]
      /\ last_read \in [Entries -> 0 .. MaxTime]
      /\ last_write \in [Entries -> 0 .. MaxTime]
      /\ stamp[t] # None => stamp[t] = now
      /\ pc[t] = "holding" => ref[t] \in Entries
  BY DEF Users, IdleIInv, IInv, IdleTypeOK, TypeOK, PromptInv, LocalsSet
<1>1. CASE TableStep(t)
  BY <1>0, <1>1, PromptTable
<1>2. CASE ReadClock(t)
  <2>1. \A u \in Threads : stamp'[u] # None => stamp'[u] = now
    BY <1>0, <1>2 DEF ReadClock, PromptInv
  <2>2. UNCHANGED <<at, now, start, cursor, min, verdict, deadline, last_read,
                    last_write, direct_route_table_time, ref>>
    BY <1>2 DEF ReadClock, stamps, scan, vars, tables, locals
  <2>3. QED
    BY <2>1, <2>2 DEF PromptInv, Scanning, Seen, Linked, Young, InTime, Slack
<1>3. CASE StoreRead(t) \/ StoreWrite(t)
  <2> DEFINE e == ref[t]
  <2>1. stamp[t] = now /\ stamp[t] # None /\ e \in Entries
    BY <1>0, <1>3 DEF StoreRead, StoreWrite, Touch
  <2>2. /\ UNCHANGED <<at, now, start, cursor, min, verdict, deadline,
                       direct_route_table_time>>
        /\ stamp' = [stamp EXCEPT ![t] = None]
        /\ ref'[Idler] = ref[Idler]
    BY <1>0, <1>3 DEF StoreRead, StoreWrite, Touch, scan, tables, Release, Hold
  <2>3. /\ \A f \in Entries \ {e} : last_read'[f] = last_read[f]
                                    /\ last_write'[f] = last_write[f]
        /\ last_read'[e] \in {last_read[e], now}
        /\ last_write'[e] \in {last_write[e], now}
    BY <1>0, <1>3, <2>1 DEF StoreRead, StoreWrite
  <2> HIDE DEF e
  <2>4. QED BY <2>1, <2>2, <2>3, Stamped
<1>4. ASSUME NEW e \in Entries, CreateStamped(t, e) PROVE PromptInv'
  <2>1. stamp[t] = now /\ stamp[t] # None
    BY <1>0, <1>4 DEF CreateStamped
  <2>2. /\ UNCHANGED <<at, now, start, cursor, min, verdict, deadline, ref>>
        /\ stamp' = [stamp EXCEPT ![t] = None]
    BY <1>4 DEF CreateStamped, Create, scan
  <2>3. /\ \A f \in Entries \ {e} : last_read'[f] = last_read[f]
                                    /\ last_write'[f] = last_write[f]
        /\ last_read'[e] = now /\ last_write'[e] = now
    BY <1>0, <1>4, <2>1 DEF CreateStamped
  <2>4. \A k \in Keys : direct_route_table_time'[k] \in {direct_route_table_time[k], e}
    BY <1>0, <1>4 DEF CreateStamped, Create
  <2>5. QED BY <2>1, <2>2, <2>3, <2>4, Stamped
<1>5. QED BY <1>1, <1>2, <1>3, <1>4 DEF UserStep

(* Time passes only while the idle thread waits, and not past its deadline. *)
LEMMA PromptTick ==
  ASSUME IdleIInv, PromptInv, Prompt, Tick
  PROVE  PromptInv'
<1> USE IdleAssumption, SlackBounds
<1>1. /\ Waiting /\ now' = now + 1 /\ \A t \in Threads : stamp[t] = None
      /\ UNCHANGED <<at, stamp, start, cursor, min, verdict, deadline, last_read,
                     last_write, direct_route_table_time, ref>>
  BY DEF Tick, stamps, scan, vars, tables, locals
<1>2. at \notin Scanning
  BY <1>1 DEF Waiting, Scanning
<1>3. now \in Nat /\ deadline \in Nat
  BY DEF IdleIInv, IdleTypeOK
<1>4. at = "sleep" => now' <= deadline' /\ deadline' <= now' + Slack'
  BY <1>1, <1>3 DEF PromptInv, Waiting, Slack
<1>5. \A k \in Keys : ~Seen(k)'
  BY <1>1, <1>2 DEF Seen, Scanning
<1>6. QED
  BY <1>1, <1>2, <1>4, <1>5 DEF PromptInv, Scanning, Linked, InTime, Slack

LEMMA NextPrompt ==
  Prompt /\ IdleIInv /\ PromptInv /\ [IdleNext]_idleVars => PromptInv'
<1> SUFFICES ASSUME Prompt, IdleIInv, PromptInv, [IdleNext]_idleVars
             PROVE  PromptInv'
  OBVIOUS
<1> USE IdleAssumption
<1>1. CASE IdleStep
  BY <1>1, PromptScan, PromptTable DEF IdleStep
<1>2. ASSUME NEW t \in Users, TableCall(t) \/ UserStep(t) PROVE PromptInv'
  BY <1>2, PromptTable, PromptUser DEF Users
<1>3. CASE CloseStatus \/ CloseUnpark \/ UNCHANGED idleVars
  <2>1. UNCHANGED <<at, now, stamp, start, cursor, min, verdict, deadline, last_read,
                    last_write, direct_route_table_time, ref>>
    BY <1>3 DEF CloseStatus, CloseUnpark, idleVars, clock, stamps, scan, vars, tables,
       locals
  <2>2. QED BY <2>1, PromptKept
<1>4. QED BY <1>1, <1>2, <1>3, PromptTick DEF IdleNext

(* A route whose idle time has run out is found after at most the larger   *)
(* of the two idle times more, however long the idle times are.            *)
THEOREM DetectedInTimeHolds == IdleSpec => []DetectedInTime
<1>1. IdleInit => PromptInv
  BY DEF IdleInit, Init, PromptInv, Scanning, Seen
<1>2. (Prompt => PromptInv) /\ IdleIInv /\ [IdleNext]_idleVars
        => (Prompt => PromptInv)'
  BY NextPrompt
<1>3. ASSUME Prompt => PromptInv, IdleIInv PROVE DetectedInTime
  <2> SUFFICES ASSUME Prompt, at = "sleep", NEW k \in Keys, Linked(k)
               PROVE  ~Overdue(k, Slack)
    BY DEF DetectedInTime
  <2> DEFINE e == direct_route_table_time[k]
  <2>1. now <= deadline /\ InTime(e)
    BY <1>3 DEF PromptInv
  <2>2. /\ now \in Nat /\ deadline \in Nat
        /\ last_read[e] \in Nat /\ last_write[e] \in Nat
    BY <1>3 DEF IdleIInv, IdleTypeOK, TypeOK, Linked
  <2>3. QED BY <2>1, <2>2, SlackBounds DEF InTime, Overdue
<1>4. QED BY <1>1, <1>2, <1>3, IdleInductive, PTL DEF IdleSpec
=============================================================================
