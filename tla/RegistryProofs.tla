----------------------------- MODULE RegistryProofs -----------------------------
(***************************************************************************)
(* The routing table implements the atomic Registry, for any number of     *)
(* threads, peers, keys and entries.                                       *)
(***************************************************************************)
EXTENDS RouteTableProofs

(* The registry's list operators are the table's. *)
LEMMA SameOperators ==
  ASSUME NEW s, NEW i
  PROVE  R!With(s, i) = With(s, i) /\ R!Without(s, i) = Without(s, i)
BY DEF With, Without, R!With, R!Without, Range, R!Range

LEMMA WithoutAbsent ==
  ASSUME NEW s, NEW i, i \notin Range(s)
  PROVE  Without(s, i) = s
BY DEF Without, Range

(* The list the table shows for a key: as the thread in the mutex will     *)
(* leave it, if that thread has begun to change the table.                 *)
SettledIs ==
  \A t \in Threads : pc[t] \in Settling =>
    \A k \in Keys :
      Settled(k) = IF new[t] # None /\ new[t].key = k
                   THEN With(ListOf(k), id[t]) ELSE Without(ListOf(k), id[t])

LEMMA SettledByWriter == IInv => SettledIs
<1> SUFFICES ASSUME IInv, NEW t \in Threads, pc[t] \in Settling, NEW k \in Keys
             PROVE  Settled(k) = IF new[t] # None /\ new[t].key = k
                                 THEN With(ListOf(k), id[t])
                                 ELSE Without(ListOf(k), id[t])
  BY DEF SettledIs
<1>1. \A u \in Threads : pc[u] \in Settling => u = t
  BY DEF IInv, LockOwner, Settling, Critical
<1>2. (CHOOSE u \in Threads : pc[u] \in Settling) = t
  BY <1>1
<1>3. QED BY <1>2 DEF Settled

LEMMA SettledNow ==
  (\A t \in Threads : pc[t] \notin Settling) => \A k \in Keys : Settled(k) = ListOf(k)
BY DEF Settled

LEMMA SettledNext == IInv' => SettledIs'
BY SettledByWriter, PTL

LEMMA SettledNoneNext ==
  (\A t \in Threads : pc'[t] \notin Settling)
    => \A k \in Keys : Settled(k)' = ListOf(k)'
BY DEF Settled

-----------------------------------------------------------------------------
(* Steps that leave the tables alone, and each writer in the same part of  *)
(* its call, show the same registry.                                       *)
LEMMA SameShown ==
  ASSUME IInv, IInv', UNCHANGED tables,
         \A u \in Threads :
           /\ pc'[u] \in Settling <=> pc[u] \in Settling
           /\ pc[u] \in Settling => id'[u] = id[u] /\ new'[u] = new[u]
  PROVE  UNCHANGED R!vars
<1>1. \A k \in Keys : ListOf(k)' = ListOf(k)
  BY DEF tables, ListOf
<1>2. ASSUME NEW t \in Threads, pc[t] \in Settling, NEW k \in Keys
      PROVE  Settled(k)' = Settled(k)
  <2>1. SettledIs /\ SettledIs'
    BY SettledByWriter, SettledNext
  <2>2. QED BY <1>1, <1>2, <2>1 DEF SettledIs
<1>3. ASSUME \A t \in Threads : pc[t] \notin Settling, NEW k \in Keys
      PROVE  Settled(k)' = Settled(k)
  <2>1. \A t \in Threads : pc'[t] \notin Settling
    BY <1>3
  <2>2. QED BY <1>1, <1>3, <2>1, SettledNow, SettledNoneNext
<1>4. \A k \in Keys : Settled(k)' = Settled(k)
  BY <1>2, <1>3
<1>5. QED BY <1>4 DEF R!vars, tables

(* A writer that changes the lists and goes on settles what it had shown.  *)
LEMMA SameSettling ==
  ASSUME IInv, IInv', NEW t \in Threads, pc[t] \in Settling, pc'[t] \in Settling,
         id'[t] = id[t], new'[t] = new[t],
         direct_route_table' = direct_route_table,
         \A k \in Keys :
           /\ new[t] # None /\ new[t].key = k => ListOf(k)' = ListOf(k)
           /\ Without(ListOf(k)', id[t]) = Without(ListOf(k), id[t])
  PROVE  UNCHANGED R!vars
<1>1. SettledIs /\ SettledIs'
  BY SettledByWriter, SettledNext
<1>2. \A k \in Keys : Settled(k)' = Settled(k)
  BY <1>1 DEF SettledIs
<1>3. QED BY <1>2 DEF R!vars

(* A writer that is done has brought the lists in line with what it showed. *)
LEMMA SettledLists ==
  ASSUME IInv, IInv', NEW t \in Threads, pc[t] \in Settling,
         \A u \in Threads : pc'[u] \notin Settling,
         direct_route_table' = direct_route_table,
         \A k \in Keys :
           ListOf(k)' = IF new[t] # None /\ new[t].key = k
                        THEN With(ListOf(k), id[t]) ELSE Without(ListOf(k), id[t])
  PROVE  UNCHANGED R!vars
<1>1. SettledIs
  BY SettledByWriter
<1>2. \A k \in Keys : Settled(k)' = Settled(k)
  BY <1>1, SettledNoneNext DEF SettledIs
<1>3. QED BY <1>2 DEF R!vars

(* A writer that has changed the map of routes shows the whole operation.  *)
LEMMA Begun ==
  ASSUME IInv, IInv', NEW t \in Threads, pc'[t] \in Settling,
         \A u \in Threads : pc[u] \notin Settling,
         UNCHANGED <<direct_route_table_time, ids>>,
         id'[t] = id[t], new'[t] = new[t]
  PROVE  \A k \in Keys :
           Settled(k)' = IF new[t] # None /\ new[t].key = k
                         THEN R!With(Settled(k), id[t])
                         ELSE R!Without(Settled(k), id[t])
<1>1. \A k \in Keys : ListOf(k)' = ListOf(k) /\ Settled(k) = ListOf(k)
  BY SettledNow DEF ListOf
<1>2. SettledIs'
  BY SettledNext
<1>3. QED BY <1>1, <1>2, SameOperators DEF SettledIs

-----------------------------------------------------------------------------
(* The calls, and the steps that only lock, look up or release.            *)
LEMMA QuietStep ==
  ASSUME IInv, IInv', NEW t \in Threads,
         \/ \E i \in IDs, r \in Routes : AddRoute(t, i, r)
         \/ \E i \in IDs : RemoveRoute(t, i)
         \/ \E k \in Keys, purpose \in {"reading", "holding"} : GetEntry(t, k, purpose)
         \/ Lock(t) \/ Lookup(t) \/ Unlock(t) \/ Unpark(t) \/ RouteToId(t) \/ Touch(t)
  PROVE  UNCHANGED R!vars
<1> USE DEF IInv, TypeOK, Settling, Goto
<1>1. UNCHANGED tables
  BY DEF tables, AddRoute, RemoveRoute, GetEntry, Lock, Lookup, Unlock, Unpark,
         RouteToId, Touch
<1>2. \A u \in Threads : u # t => pc'[u] = pc[u] /\ id'[u] = id[u] /\ new'[u] = new[u]
  BY DEF AddRoute, RemoveRoute, GetEntry, Lock, Lookup, Unlock, Unpark, RouteToId,
         Touch, Return, locals
<1>3. /\ pc'[t] \in Settling <=> pc[t] \in Settling
      /\ pc[t] \in Settling => id'[t] = id[t] /\ new'[t] = new[t]
  BY DEF AddRoute, RemoveRoute, GetEntry, Lock, Lookup, Unlock, Unpark, RouteToId,
         Touch, Return, Unparks
<1>4. QED BY <1>1, <1>2, <1>3, SameShown

LEMMA FindQuiet ==
  ASSUME IInv, IInv', NEW t \in Threads, Find(t)
  PROVE  UNCHANGED R!vars
<1> USE DEF IInv, TypeOK, Settling, Goto, Find, KeyToLeave, AfterUnlist, Hold
<1>1. direct_route_table_time[gone[t]] # None
  <2>1. id[t] \in IDs /\ gone[t] \in Keys
    BY DEF LocalsSet, Critical
  <2>2. Listed(id[t], gone[t])
    BY <2>1 DEF MapsAgree
  <2>3. QED BY <2>2 DEF Listed
<1>2. \A u \in Threads : /\ pc'[u] \in Settling <=> pc[u] \in Settling
                         /\ pc[u] \in Settling => id'[u] = id[u] /\ new'[u] = new[u]
  BY <1>1
<1>3. QED BY <1>2, SameShown DEF tables

(* insert() in the DashMap is where add_route happens. *)
LEMMA InsertAdds ==
  ASSUME IInv, IInv', NEW t \in Threads, Insert(t)
  PROVE  R!Add(id[t], new[t]) /\ id[t] \in IDs /\ new[t] \in Routes
<1> USE DEF IInv, TypeOK, Insert, Goto
<1>1. id[t] \in IDs /\ new[t] \in Routes /\ new[t] # None
  BY DEF LocalsSet, Critical
<1>2. \A u \in Threads : pc[u] \notin Settling
  <2>1. \A u \in Threads : u # t => pc[u] \notin Critical
    BY Alone DEF Critical
  <2>2. QED BY <2>1 DEF Settling, Critical
<1>3. pc'[t] \in Settling /\ id'[t] = id[t] /\ new'[t] = new[t]
  BY DEF Settling
<1>4. \A k \in Keys : Settled(k)' = IF k = new[t].key THEN R!With(Settled(k), id[t])
                                    ELSE R!Without(Settled(k), id[t])
  BY <1>1, <1>2, <1>3, Begun
<1>5. direct_route_table' = [direct_route_table EXCEPT ![id[t]] = new[t]]
  OBVIOUS
<1>6. QED BY <1>1, <1>4, <1>5 DEF R!Add

(* remove() from the DashMap is where remove_route happens, if it does.    *)
LEMMA TakeRemoves ==
  ASSUME IInv, IInv', NEW t \in Threads, Take(t)
  PROVE  \/ R!Remove(id[t]) /\ id[t] \in IDs
         \/ UNCHANGED R!vars
<1> USE DEF IInv, TypeOK, Take, Unrouted, Goto
<1>1. id[t] \in IDs /\ new[t] = None
  BY DEF LocalsSet, Critical
<1>2. \A u \in Threads : pc[u] \notin Settling
  <2>1. \A u \in Threads : u # t => pc[u] \notin Critical
    BY Alone DEF Critical
  <2>2. QED BY <2>1 DEF Settling, Critical
<1>3. CASE direct_route_table[id[t]] # None
  <2>1. pc'[t] \in Settling /\ id'[t] = id[t] /\ new'[t] = new[t]
    BY <1>3 DEF Settling
  <2>2. \A k \in Keys : Settled(k)' = R!Without(Settled(k), id[t])
    BY <1>1, <1>2, <2>1, Begun
  <2>3. QED BY <1>1, <2>2 DEF R!Remove
<1>4. CASE direct_route_table[id[t]] = None
  <2>1. direct_route_table' = direct_route_table
    BY <1>1, <1>4
  <2>2. \A u \in Threads : pc'[u] \notin Settling
    BY <1>2, <1>4 DEF Settling
  <2>3. QED BY <1>2, <2>1, <2>2, SameShown DEF tables
<1>5. QED BY <1>3, <1>4

-----------------------------------------------------------------------------
(* A list that does not hold the writer's peer stays as it is.             *)
LEMMA WithoutUnlisted ==
  ASSUME NEW i \in IDs, NEW k \in Keys, ~Listed(i, k)
  PROVE  Without(ListOf(k), i) = ListOf(k)
<1>1. i \notin Range(ListOf(k))
  <2>1. Range(<<>>) = {}
    BY DEF Range
  <2>2. QED BY <2>1 DEF Listed, ListOf
<1>2. QED BY <1>1, WithoutAbsent

LEMMA RetainShown ==
  ASSUME IInv, IInv', NEW t \in Threads, Retain(t)
  PROVE  UNCHANGED R!vars
<1> USE DEF Retain, Deserted, Goto, Hold, Release, AfterUnlist
<1> DEFINE e == ref[t]
           i == id[t]
           rest == Without(ids[e], i)
<1>1. /\ i \in IDs /\ e \in Entries /\ e # None /\ gone[t] \in Keys
      /\ direct_route_table_time[gone[t]] = e
      /\ new[t] # None => new[t].key # gone[t]
  BY NoneAssumption DEF IInv, TypeOK, LocalsSet, EntryOfKey, Critical
<1>2. /\ ids[e] \in Seq(IDs) /\ IsInjective(ids[e])
      /\ ids' = [ids EXCEPT ![e] = rest]
  BY <1>1 DEF IInv, TypeOK, ListsSound
<1>3. rest \in Seq(IDs) /\ i \notin Range(rest)
  BY <1>1, <1>2, WithoutProperties
<1>4. Without(rest, i) = rest
  BY <1>3, WithoutAbsent
<1> HIDE DEF rest
<1>5. ASSUME NEW k \in Keys
      PROVE  ListOf(k)' = IF k = gone[t] THEN rest ELSE ListOf(k)
  <2>1. k # gone[t] => direct_route_table_time[k] # e
    BY <1>1 DEF IInv, EntryOfKey
  <2>2. QED BY <1>1, <1>2, <2>1 DEF IInv, TypeOK, ListOf
<1>6. ListOf(gone[t]) = ids[e]
  BY <1>1 DEF ListOf
<1>7. \A k \in Keys : k # gone[t] => ~Listed(i, k)
  BY <1>1 DEF IInv, MapsAgree
<1>8. CASE pc'[t] \in Settling
  <2>1. \A k \in Keys :
          /\ new[t] # None /\ new[t].key = k => ListOf(k)' = ListOf(k)
          /\ Without(ListOf(k)', i) = Without(ListOf(k), i)
    BY <1>1, <1>4, <1>5, <1>6 DEF rest
  <2>2. pc[t] \in Settling
    BY DEF Settling
  <2>3. QED BY <1>8, <2>1, <2>2, SameSettling
<1>9. CASE pc'[t] \notin Settling
  <2>1. new[t] = None
    BY <1>9 DEF IInv, TypeOK, Settling
  <2>2. \A u \in Threads : pc'[u] \notin Settling
    BY <1>9, Alone DEF IInv, TypeOK, Settling, Critical
  <2>3. \A k \in Keys : ListOf(k)' = Without(ListOf(k), i)
    BY <1>1, <1>5, <1>6, <1>7, WithoutUnlisted DEF rest
  <2>4. pc[t] \in Settling
    BY DEF Settling
  <2>5. QED BY <2>1, <2>2, <2>3, <2>4, SettledLists
<1>10. QED BY <1>8, <1>9

LEMMA UnlinkShown ==
  ASSUME IInv, IInv', NEW t \in Threads, Unlink(t)
  PROVE  UNCHANGED R!vars
<1> USE DEF Unlink, Goto, Hold, Release, AfterUnlist
<1>1. /\ id[t] \in IDs /\ gone[t] \in Keys /\ ref[t] # None
      /\ direct_route_table_time[gone[t]] = ref[t]
      /\ ids[ref[t]] = <<>>
  BY DEF IInv, TypeOK, LocalsSet, EntryOfKey, ListsSound, Critical
<1>2. \A k \in Keys : ListOf(k)' = ListOf(k)
  BY <1>1 DEF IInv, TypeOK, ListOf
<1>3. \A k \in Keys : ~Listed(id[t], k)
  BY <1>1 DEF IInv, MapsAgree
<1>4. pc[t] \in Settling
  BY DEF Settling
<1>5. CASE pc'[t] \in Settling
  BY <1>2, <1>4, <1>5, SameSettling
<1>6. CASE pc'[t] \notin Settling
  <2>1. new[t] = None
    BY <1>6 DEF IInv, TypeOK, Settling
  <2>2. \A u \in Threads : pc'[u] \notin Settling
    BY <1>6, Alone DEF IInv, TypeOK, Settling, Critical
  <2>3. \A k \in Keys : ListOf(k)' = Without(ListOf(k), id[t])
    BY <1>1, <1>2, <1>3, WithoutUnlisted
  <2>4. QED BY <1>4, <2>1, <2>2, <2>3, SettledLists
<1>7. QED BY <1>5, <1>6

(* Both ways to join the new key put the peer at the end of its list.      *)
LEMMA Joined ==
  ASSUME IInv, IInv', NEW t \in Threads, pc[t] \in {"push", "create"},
         pc' = [pc EXCEPT ![t] = "unlock"],
         direct_route_table' = direct_route_table,
         \A k \in Keys : ListOf(k)' = IF new[t].key = k THEN With(ListOf(k), id[t])
                                      ELSE ListOf(k)
  PROVE  UNCHANGED R!vars
<1>1. id[t] \in IDs /\ new[t] # None /\ pc[t] \in Settling
  BY DEF IInv, TypeOK, LocalsSet, Settling, Critical
<1>2. \A k \in Keys : k # new[t].key => ~Listed(id[t], k)
  BY <1>1 DEF IInv, MapsAgree
<1>3. \A u \in Threads : pc'[u] \notin Settling
  BY Alone DEF IInv, TypeOK, Settling, Critical
<1>4. \A k \in Keys :
        ListOf(k)' = IF new[t] # None /\ new[t].key = k
                     THEN With(ListOf(k), id[t]) ELSE Without(ListOf(k), id[t])
  BY <1>1, <1>2, WithoutUnlisted
<1>5. QED BY <1>1, <1>3, <1>4, SettledLists

LEMMA PushShown ==
  ASSUME IInv, IInv', NEW t \in Threads, Push(t)
  PROVE  UNCHANGED R!vars
<1> USE DEF Push, Goto
<1>1. /\ ref[t] \in Entries /\ ref[t] # None /\ new[t].key \in Keys
      /\ direct_route_table_time[new[t].key] = ref[t]
  BY NoneAssumption DEF IInv, TypeOK, LocalsSet, EntryOfKey, Critical, Routes
<1>2. \A k \in Keys : k # new[t].key => direct_route_table_time[k] # ref[t]
  BY <1>1 DEF IInv, EntryOfKey
<1>3. \A k \in Keys : ListOf(k)' = IF new[t].key = k THEN With(ListOf(k), id[t])
                                   ELSE ListOf(k)
  BY <1>1, <1>2 DEF IInv, TypeOK, ListOf
<1>4. QED BY <1>3, Joined

LEMMA CreateShown ==
  ASSUME IInv, IInv', NEW t \in Threads, NEW e \in Entries, Create(t, e)
  PROVE  UNCHANGED R!vars
<1> USE DEF Create, Fresh, Goto
<1>1. /\ e # None /\ new[t].key \in Keys /\ id[t] \in IDs
      /\ direct_route_table_time[new[t].key] = None
  BY NoneAssumption DEF IInv, TypeOK, LocalsSet, EntryOfKey, Critical, Routes
<1>2. With(<<>>, id[t]) = <<id[t]>>
  BY <1>1 DEF With, Range
<1>3. \A k \in Keys : ListOf(k)' = IF new[t].key = k THEN With(ListOf(k), id[t])
                                   ELSE ListOf(k)
  BY <1>1, <1>2 DEF IInv, TypeOK, ListOf
<1>4. QED BY <1>3, Joined

LEMMA UpdateUpdates ==
  ASSUME IInv, IInv', NEW t \in Threads, NEW i \in IDs, NEW m \in Metrics,
         UpdateRoute(t, i, m)
  PROVE  R!Update(i, m)
<1>1. \A k \in Keys : Settled(k)' = Settled(k)
  BY DEF UpdateRoute, locals, Settled, ListOf
<1>2. QED BY <1>1 DEF UpdateRoute, R!Update

-----------------------------------------------------------------------------
LEMMA StepImplements == IInv /\ IInv' /\ [Next]_vars => [R!Next]_(R!vars)
<1> SUFFICES ASSUME IInv, IInv', [Next]_vars
             PROVE  R!Next \/ UNCHANGED R!vars
  OBVIOUS
<1> USE DEF R!Next
<1>1. ASSUME NEW t \in Threads, Step(t)
      PROVE  R!Next \/ UNCHANGED R!vars
  <2>1. CASE Insert(t)
    <3>1. R!Add(id[t], new[t]) /\ id[t] \in IDs /\ new[t] \in R!Routes
      BY <2>1, InsertAdds DEF Routes, R!Routes
    <3>2. QED BY <3>1
  <2>2. CASE Take(t)
    BY <2>2, TakeRemoves
  <2>3. CASE Find(t)
    BY <2>3, FindQuiet
  <2>4. CASE Retain(t)
    BY <2>4, RetainShown
  <2>5. CASE Unlink(t)
    BY <2>5, UnlinkShown
  <2>6. CASE Push(t)
    BY <2>6, PushShown
  <2>7. CASE \E e \in Entries : Create(t, e)
    BY <2>7, CreateShown
  <2>8. CASE Lock(t) \/ Lookup(t) \/ Unlock(t) \/ Unpark(t) \/ RouteToId(t) \/ Touch(t)
    BY <2>8, QuietStep
  <2>9. QED BY <1>1, <2>1, <2>2, <2>3, <2>4, <2>5, <2>6, <2>7, <2>8 DEF Step
<1>2. ASSUME NEW t \in Threads, Call(t)
      PROVE  R!Next \/ UNCHANGED R!vars
  <2>1. CASE \E i \in IDs, m \in Metrics : UpdateRoute(t, i, m)
    <3>1. \E i \in IDs, m \in Metrics : R!Update(i, m)
      BY <2>1, UpdateUpdates
    <3>2. QED BY <3>1
  <2>2. CASE ~ \E i \in IDs, m \in Metrics : UpdateRoute(t, i, m)
    BY <1>2, <2>2, QuietStep DEF Call
  <2>3. QED BY <2>1, <2>2
<1>3. CASE Park \/ UNCHANGED vars
  <2>1. UNCHANGED <<tables, locals>>
    BY <1>3 DEF Park, vars
  <2>2. UNCHANGED <<pc, id, new>> /\ UNCHANGED tables
    BY <2>1 DEF locals
  <2>3. QED BY <2>2, SameShown
<1>4. QED BY <1>1, <1>2, <1>3 DEF Next

LEMMA InitImplements == Init => R!Init
<1> SUFFICES ASSUME Init PROVE R!Init
  OBVIOUS
<1>1. \A k \in Keys : Settled(k) = <<>>
  BY DEF Init, Settled, Settling, ListOf
<1>2. QED BY <1>1 DEF Init, R!Init

(* Every behaviour of the table, in which add_route and remove_route take  *)
(* up to ten steps each and interleave with readers, is a behaviour of the *)
(* registry, in which they take one.                                       *)
THEOREM ImplementsRegistry == Spec => RegistrySpec
<1>1. Init => R!Init
  BY InitImplements
<1>2. IInv /\ IInv' /\ [Next]_vars => [R!Next]_(R!vars)
  BY StepImplements
<1>3. QED BY <1>1, <1>2, Inductive, PTL DEF Spec, RegistrySpec, R!Spec
=============================================================================
