-------------------------- MODULE RouteTableProofs --------------------------
(***************************************************************************)
(* Proofs about RouteTable for any number of threads, peers, keys and      *)
(* entries.                                                                *)
(***************************************************************************)
EXTENDS RouteTable, TLAPS

(* Vec::retain keeps the list free of repetitions and drops one peer. *)
LEMMA WithoutProperties ==
  ASSUME NEW s \in Seq(IDs), NEW i, IsInjective(s)
  PROVE  /\ Without(s, i) \in Seq(IDs)
         /\ IsInjective(Without(s, i))
         /\ Range(Without(s, i)) = Range(s) \ {i}
<1>1. CASE ~ \E j \in DOMAIN s : s[j] = i
  BY <1>1 DEF Without, Range
<1>2. CASE \E j \in DOMAIN s : s[j] = i
  <2> DEFINE p == CHOOSE j \in DOMAIN s : s[j] = i
             w == [j \in 1 .. (Len(s) - 1) |-> IF j < p THEN s[j] ELSE s[j + 1]]
  <2>1. p \in 1 .. Len(s) /\ s[p] = i
    BY <1>2
  <2>2. Without(s, i) = w
    BY <1>2 DEF Without
  <2> HIDE DEF p
  <2>3. w \in Seq(IDs) /\ Len(w) = Len(s) - 1 /\ DOMAIN w = 1 .. (Len(s) - 1)
    BY <2>1
  <2>4. IsInjective(w)
    BY <2>1, <2>3 DEF IsInjective
  <2>5. Range(w) \subseteq Range(s) \ {i}
    BY <2>1, <2>3 DEF IsInjective, Range
  <2>6. ASSUME NEW v \in Range(s) \ {i}
        PROVE  v \in Range(w)
    <3>1. PICK j \in 1 .. Len(s) : s[j] = v
      BY DEF Range
    <3>2. CASE j < p
      <4>1. j \in DOMAIN w /\ w[j] = v
        BY <2>1, <2>3, <3>1, <3>2
      <4>2. QED BY <4>1 DEF Range
    <3>3. CASE j > p
      <4>1. j - 1 \in DOMAIN w /\ w[j - 1] = v
        BY <2>1, <2>3, <3>1, <3>3
      <4>2. QED BY <4>1 DEF Range
    <3>4. QED BY <2>1, <3>1, <3>2, <3>3
  <2>7. QED BY <2>2, <2>3, <2>4, <2>5, <2>6
<1>3. QED BY <1>1, <1>2

(* Pushing a peer that is not in the list keeps it free of repetitions. *)
LEMMA WithProperties ==
  ASSUME NEW s \in Seq(IDs), NEW i \in IDs, IsInjective(s)
  PROVE  /\ With(s, i) \in Seq(IDs)
         /\ IsInjective(With(s, i))
         /\ Range(With(s, i)) = Range(s) \cup {i}
         /\ With(s, i) # <<>>
<1>1. CASE i \in Range(s)
  BY <1>1 DEF With, Range
<1>2. CASE i \notin Range(s)
  <2> DEFINE w == Append(s, i)
  <2>1. /\ With(s, i) = w
        /\ w \in Seq(IDs)
        /\ DOMAIN w = 1 .. (Len(s) + 1)
        /\ \A j \in 1 .. Len(s) : w[j] = s[j]
        /\ w[Len(s) + 1] = i
    BY <1>2 DEF With
  <2> HIDE DEF w
  <2>2. \A j \in 1 .. Len(s) : w[j] \in Range(s)
    BY <2>1 DEF Range
  <2>3. IsInjective(w)
    BY <1>2, <2>1, <2>2 DEF IsInjective
  <2>4. Range(w) = Range(s) \cup {i}
    BY <2>1 DEF Range
  <2>5. w # <<>>
    BY <2>1
  <2>6. QED BY <2>1, <2>3, <2>4, <2>5
<1>3. QED BY <1>1, <1>2

-----------------------------------------------------------------------------
LEMMA InitIInv == Init => IInv
<1> SUFFICES ASSUME Init PROVE IInv
  OBVIOUS
<1> USE NoneAssumption DEF Init
<1>1. TypeOK
  <2>1. ids \in [Entries -> Seq(IDs)]
    OBVIOUS
  <2>2. pc \in [Threads -> Points]
    BY DEF Points
  <2>3. QED BY <2>1, <2>2 DEF TypeOK
<1>2. LockOwner BY DEF LockOwner, Critical
<1>3. LocalsSet BY DEF LocalsSet, Critical
<1>4. EntryOfKey BY DEF EntryOfKey
<1>5. ListsSound BY DEF ListsSound, IsInjective
<1>6. MapsAgree BY DEF MapsAgree, Listed, Routed, Settling
<1>7. QED BY <1>1, <1>2, <1>3, <1>4, <1>5, <1>6 DEF IInv

-----------------------------------------------------------------------------
(* Steps that leave both maps and every list alone keep MapsAgree if each  *)
(* writer stays in the same stage of its call.                             *)
LEMMA SameTables ==
  ASSUME UNCHANGED tables, NEW i \in IDs, NEW k \in Keys
  PROVE  /\ Listed(i, k)' = Listed(i, k)
         /\ Routed(i, k)' = Routed(i, k)
BY DEF tables, Listed, Routed

Stage(p) ==
  IF p \in {"find", "retain"} THEN "leaving"
  ELSE IF p = "unlink" THEN "left"
  ELSE IF p \in {"lookup", "push", "create"} THEN "joining" ELSE "none"

LEMMA SameStage ==
  ASSUME MapsAgree, UNCHANGED tables,
         \A u \in Threads :
           /\ Stage(pc'[u]) = Stage(pc[u])
           /\ pc[u] \in Settling =>
                id'[u] = id[u] /\ new'[u] = new[u] /\ gone'[u] = gone[u]
  PROVE  MapsAgree'
<1>1. \A i \in IDs, k \in Keys : /\ Listed(i, k)' = Listed(i, k)
                                 /\ Routed(i, k)' = Routed(i, k)
  BY SameTables
<1>2. \A u \in Threads :
        /\ pc'[u] \in Settling <=> pc[u] \in Settling
        /\ pc'[u] \in {"find", "retain"} <=> pc[u] \in {"find", "retain"}
        /\ pc'[u] = "unlink" <=> pc[u] = "unlink"
        /\ pc'[u] \in {"lookup", "push", "create"}
             <=> pc[u] \in {"lookup", "push", "create"}
  BY DEF Stage, Settling
<1>3. \A i \in IDs : (\A t \in Threads : pc'[t] \in Settling => id'[t] # i)
                     => \A k \in Keys : Listed(i, k)' <=> Routed(i, k)'
  BY <1>1, <1>2 DEF MapsAgree
<1>4. ASSUME NEW t \in Threads, NEW i \in IDs, NEW k \in Keys, id'[t] = i
      PROVE  /\ pc'[t] \in Settling =>
                  (Routed(i, k)' <=> new'[t] # None /\ new'[t].key = k)
             /\ pc'[t] \in {"find", "retain"} =>
                  (Listed(i, k)' <=> k = gone'[t])
             /\ pc'[t] = "unlink" => ~Listed(i, k)'
             /\ pc'[t] \in {"lookup", "push", "create"} =>
                  (Listed(i, k)' => k = new'[t].key)
  <2>1. CASE pc[t] \in Settling
    <3>1. id[t] = i /\ new'[t] = new[t] /\ gone'[t] = gone[t]
      BY <1>4, <2>1
    <3>2. QED BY <1>1, <1>2, <3>1 DEF MapsAgree
  <2>2. CASE pc[t] \notin Settling
    BY <1>2, <2>2 DEF Settling
  <2>3. QED BY <2>1, <2>2
<1>5. QED BY <1>3, <1>4 DEF MapsAgree

LEMMA AddRouteStep ==
  ASSUME IInv, NEW t \in Threads, NEW i \in IDs, NEW r \in Routes, AddRoute(t, i, r)
  PROVE  IInv'
<1> USE NoneAssumption DEF IInv, AddRoute, Goto, tables
<1>1. TypeOK'
  <2>1. pc' \in [Threads -> Points]
    BY DEF TypeOK, Points, Critical
  <2>2. QED BY <2>1 DEF TypeOK, locals
<1>2. LockOwner'
  BY DEF TypeOK, LockOwner, Critical
<1>3. LocalsSet'
  BY DEF TypeOK, LocalsSet, Critical, Routes
<1>4. EntryOfKey'
  BY DEF TypeOK, EntryOfKey, LocalsSet, Critical
<1>5. ListsSound'
  BY DEF TypeOK, ListsSound, LocalsSet, Critical
<1>6. MapsAgree'
  <2>1. \A u \in Threads :
          /\ Stage(pc'[u]) = Stage(pc[u])
          /\ pc[u] \in Settling =>
               id'[u] = id[u] /\ new'[u] = new[u] /\ gone'[u] = gone[u]
    BY DEF TypeOK, Stage, Settling, LocalsSet, Critical
  <2>2. QED BY <2>1, SameStage
<1>7. QED BY <1>1, <1>2, <1>3, <1>4, <1>5, <1>6

LEMMA RemoveRouteStep ==
  ASSUME IInv, NEW t \in Threads, NEW i \in IDs, RemoveRoute(t, i)
  PROVE  IInv'
<1> USE NoneAssumption DEF IInv, RemoveRoute, Goto, tables
<1>1. TypeOK'
  <2>1. pc' \in [Threads -> Points]
    BY DEF TypeOK, Points, Critical
  <2>2. QED BY <2>1 DEF TypeOK, locals
<1>2. LockOwner'
  BY DEF TypeOK, LockOwner, Critical
<1>3. LocalsSet'
  BY DEF TypeOK, LocalsSet, Critical, Routes
<1>4. EntryOfKey'
  BY DEF TypeOK, EntryOfKey, LocalsSet, Critical
<1>5. ListsSound'
  BY DEF TypeOK, ListsSound, LocalsSet, Critical
<1>6. MapsAgree'
  <2>1. \A u \in Threads :
          /\ Stage(pc'[u]) = Stage(pc[u])
          /\ pc[u] \in Settling =>
               id'[u] = id[u] /\ new'[u] = new[u] /\ gone'[u] = gone[u]
    BY DEF TypeOK, Stage, Settling, LocalsSet, Critical
  <2>2. QED BY <2>1, SameStage
<1>7. QED BY <1>1, <1>2, <1>3, <1>4, <1>5, <1>6

LEMMA LockStep ==
  ASSUME IInv, NEW t \in Threads, Lock(t)
  PROVE  IInv'
<1> USE NoneAssumption DEF IInv, Lock, TableFree, Goto, tables
<1>1. TypeOK'
  <2>1. pc' \in [Threads -> Points]
    BY DEF TypeOK, Points, Critical
  <2>2. QED BY <2>1 DEF TypeOK, locals
<1>2. LockOwner'
  BY DEF TypeOK, LockOwner, Critical
<1>3. LocalsSet'
  BY DEF TypeOK, LocalsSet, Critical, Routes
<1>4. EntryOfKey'
  BY DEF TypeOK, EntryOfKey, LocalsSet, Critical
<1>5. ListsSound'
  BY DEF TypeOK, ListsSound, LocalsSet, Critical
<1>6. MapsAgree'
  <2>1. \A u \in Threads :
          /\ Stage(pc'[u]) = Stage(pc[u])
          /\ pc[u] \in Settling =>
               id'[u] = id[u] /\ new'[u] = new[u] /\ gone'[u] = gone[u]
    BY DEF TypeOK, Stage, Settling, LocalsSet, Critical
  <2>2. QED BY <2>1, SameStage
<1>7. QED BY <1>1, <1>2, <1>3, <1>4, <1>5, <1>6

LEMMA FindStep ==
  ASSUME IInv, NEW t \in Threads, Find(t)
  PROVE  IInv'
<1> USE NoneAssumption DEF IInv, Find, KeyToLeave, Goto, Hold, AfterUnlist, tables
<1>1. TypeOK'
  <2>1. pc' \in [Threads -> Points]
    BY DEF TypeOK, Points, Critical
  <2>2. direct_route_table_time[gone[t]] \in Entries \cup {None}
    BY DEF TypeOK, LocalsSet
  <2>3. QED BY <2>1, <2>2 DEF TypeOK
<1>2. LockOwner'
  BY DEF TypeOK, LockOwner, Critical
<1>3. LocalsSet'
  BY DEF TypeOK, LocalsSet, Critical, Routes
<1>4. EntryOfKey'
  BY DEF TypeOK, EntryOfKey, LocalsSet, Critical
<1>5. ListsSound'
  BY DEF TypeOK, ListsSound, LocalsSet, Critical
<1>6. MapsAgree'
  <2>0. direct_route_table_time[gone[t]] # None
    <3>1. id[t] \in IDs /\ gone[t] \in Keys
      BY DEF TypeOK, LocalsSet, Critical
    <3>2. Listed(id[t], gone[t])
      BY <3>1 DEF MapsAgree
    <3>3. QED BY <3>2 DEF Listed
  <2>1. \A u \in Threads :
          /\ Stage(pc'[u]) = Stage(pc[u])
          /\ pc[u] \in Settling =>
               id'[u] = id[u] /\ new'[u] = new[u] /\ gone'[u] = gone[u]
    BY <2>0 DEF TypeOK, Stage, Settling, LocalsSet, Critical
  <2>2. QED BY <2>1, SameStage
<1>7. QED BY <1>1, <1>2, <1>3, <1>4, <1>5, <1>6

LEMMA LookupStep ==
  ASSUME IInv, NEW t \in Threads, Lookup(t)
  PROVE  IInv'
<1> USE NoneAssumption DEF IInv, Lookup, Goto, Hold, tables
<1>1. TypeOK'
  <2>1. pc' \in [Threads -> Points]
    BY DEF TypeOK, Points, Critical
  <2>2. direct_route_table_time[new[t].key] \in Entries \cup {None}
    BY DEF TypeOK, LocalsSet, Routes
  <2>3. QED BY <2>1, <2>2 DEF TypeOK
<1>2. LockOwner'
  BY DEF TypeOK, LockOwner, Critical
<1>3. LocalsSet'
  BY DEF TypeOK, LocalsSet, Critical, Routes
<1>4. EntryOfKey'
  BY DEF TypeOK, EntryOfKey, LocalsSet, Critical
<1>5. ListsSound'
  BY DEF TypeOK, ListsSound, LocalsSet, Critical
<1>6. MapsAgree'
  <2>1. \A u \in Threads :
          /\ Stage(pc'[u]) = Stage(pc[u])
          /\ pc[u] \in Settling =>
               id'[u] = id[u] /\ new'[u] = new[u] /\ gone'[u] = gone[u]
    BY DEF TypeOK, Stage, Settling, LocalsSet, Critical
  <2>2. QED BY <2>1, SameStage
<1>7. QED BY <1>1, <1>2, <1>3, <1>4, <1>5, <1>6

LEMMA UnlockStep ==
  ASSUME IInv, NEW t \in Threads, Unlock(t)
  PROVE  IInv'
<1> USE NoneAssumption DEF IInv, Unlock, Unparks, Goto, Return, tables
<1>1. TypeOK'
  <2>1. pc' \in [Threads -> Points]
    BY DEF TypeOK, Points, Critical
  <2>2. QED BY <2>1 DEF TypeOK, locals
<1>2. LockOwner'
  BY DEF TypeOK, LockOwner, Critical
<1>3. LocalsSet'
  BY DEF TypeOK, LocalsSet, Critical, Routes
<1>4. EntryOfKey'
  BY DEF TypeOK, EntryOfKey, LocalsSet, Critical
<1>5. ListsSound'
  BY DEF TypeOK, ListsSound, LocalsSet, Critical
<1>6. MapsAgree'
  <2>1. \A u \in Threads :
          /\ Stage(pc'[u]) = Stage(pc[u])
          /\ pc[u] \in Settling =>
               id'[u] = id[u] /\ new'[u] = new[u] /\ gone'[u] = gone[u]
    BY DEF TypeOK, Stage, Settling, LocalsSet, Critical
  <2>2. QED BY <2>1, SameStage
<1>7. QED BY <1>1, <1>2, <1>3, <1>4, <1>5, <1>6

LEMMA UnparkStep ==
  ASSUME IInv, NEW t \in Threads, Unpark(t)
  PROVE  IInv'
<1> USE NoneAssumption DEF IInv, Unpark, Goto, Return, tables
<1>1. TypeOK'
  <2>1. pc' \in [Threads -> Points]
    BY DEF TypeOK, Points, Critical
  <2>2. QED BY <2>1 DEF TypeOK, locals
<1>2. LockOwner'
  BY DEF TypeOK, LockOwner, Critical
<1>3. LocalsSet'
  BY DEF TypeOK, LocalsSet, Critical, Routes
<1>4. EntryOfKey'
  BY DEF TypeOK, EntryOfKey, LocalsSet, Critical
<1>5. ListsSound'
  BY DEF TypeOK, ListsSound, LocalsSet, Critical
<1>6. MapsAgree'
  <2>1. \A u \in Threads :
          /\ Stage(pc'[u]) = Stage(pc[u])
          /\ pc[u] \in Settling =>
               id'[u] = id[u] /\ new'[u] = new[u] /\ gone'[u] = gone[u]
    BY DEF TypeOK, Stage, Settling, LocalsSet, Critical
  <2>2. QED BY <2>1, SameStage
<1>7. QED BY <1>1, <1>2, <1>3, <1>4, <1>5, <1>6

LEMMA GetEntryStep ==
  ASSUME IInv, NEW t \in Threads, NEW k \in Keys,
         NEW purpose \in {"reading", "holding"}, GetEntry(t, k, purpose)
  PROVE  IInv'
<1> USE NoneAssumption DEF IInv, GetEntry, Goto, Hold, tables
<1>1. TypeOK'
  <2>1. pc' \in [Threads -> Points]
    BY DEF TypeOK, Points, Critical
  <2>2. QED BY <2>1 DEF TypeOK, locals
<1>2. LockOwner'
  BY DEF TypeOK, LockOwner, Critical
<1>3. LocalsSet'
  BY DEF TypeOK, LocalsSet, Critical, Routes
<1>4. EntryOfKey'
  BY DEF TypeOK, EntryOfKey, LocalsSet, Critical
<1>5. ListsSound'
  BY DEF TypeOK, ListsSound, LocalsSet, Critical
<1>6. MapsAgree'
  <2>1. \A u \in Threads :
          /\ Stage(pc'[u]) = Stage(pc[u])
          /\ pc[u] \in Settling =>
               id'[u] = id[u] /\ new'[u] = new[u] /\ gone'[u] = gone[u]
    BY DEF TypeOK, Stage, Settling, LocalsSet, Critical
  <2>2. QED BY <2>1, SameStage
<1>7. QED BY <1>1, <1>2, <1>3, <1>4, <1>5, <1>6

LEMMA RouteToIdStep ==
  ASSUME IInv, NEW t \in Threads, RouteToId(t)
  PROVE  IInv'
<1> USE NoneAssumption DEF IInv, RouteToId, Goto, Hold, Release, tables
<1>1. TypeOK'
  <2>1. pc' \in [Threads -> Points]
    BY DEF TypeOK, Points, Critical
  <2>2. QED BY <2>1 DEF TypeOK, locals
<1>2. LockOwner'
  BY DEF TypeOK, LockOwner, Critical
<1>3. LocalsSet'
  BY DEF TypeOK, LocalsSet, Critical, Routes
<1>4. EntryOfKey'
  BY DEF TypeOK, EntryOfKey, LocalsSet, Critical
<1>5. ListsSound'
  BY DEF TypeOK, ListsSound, LocalsSet, Critical
<1>6. MapsAgree'
  <2>1. \A u \in Threads :
          /\ Stage(pc'[u]) = Stage(pc[u])
          /\ pc[u] \in Settling =>
               id'[u] = id[u] /\ new'[u] = new[u] /\ gone'[u] = gone[u]
    BY DEF TypeOK, Stage, Settling, LocalsSet, Critical
  <2>2. QED BY <2>1, SameStage
<1>7. QED BY <1>1, <1>2, <1>3, <1>4, <1>5, <1>6

LEMMA TouchStep ==
  ASSUME IInv, NEW t \in Threads, Touch(t)
  PROVE  IInv'
<1> USE NoneAssumption DEF IInv, Touch, Goto, Hold, Release, tables
<1>1. TypeOK'
  <2>1. pc' \in [Threads -> Points]
    BY DEF TypeOK, Points, Critical
  <2>2. QED BY <2>1 DEF TypeOK, locals
<1>2. LockOwner'
  BY DEF TypeOK, LockOwner, Critical
<1>3. LocalsSet'
  BY DEF TypeOK, LocalsSet, Critical, Routes
<1>4. EntryOfKey'
  BY DEF TypeOK, EntryOfKey, LocalsSet, Critical
<1>5. ListsSound'
  BY DEF TypeOK, ListsSound, LocalsSet, Critical
<1>6. MapsAgree'
  <2>1. \A u \in Threads :
          /\ Stage(pc'[u]) = Stage(pc[u])
          /\ pc[u] \in Settling =>
               id'[u] = id[u] /\ new'[u] = new[u] /\ gone'[u] = gone[u]
    BY DEF TypeOK, Stage, Settling, LocalsSet, Critical
  <2>2. QED BY <2>1, SameStage
<1>7. QED BY <1>1, <1>2, <1>3, <1>4, <1>5, <1>6

-----------------------------------------------------------------------------
(* The writer inside the mutex is alone there. *)
LEMMA Alone ==
  ASSUME IInv, NEW t \in Threads, pc[t] \in Critical
  PROVE  \A u \in Threads : u # t => pc[u] \notin Critical
BY DEF IInv, LockOwner

(* After a step of that writer only its own peer can be out of line. *)
LEMMA WriterStep ==
  ASSUME NEW t \in Threads, NEW j \in IDs, id'[t] = j,
         \A u \in Threads : u # t => pc'[u] \notin Settling,
         \A i \in IDs, k \in Keys :
           i # j \/ pc'[t] \notin Settling => (Listed(i, k)' <=> Routed(i, k)'),
         \A k \in Keys :
           /\ pc'[t] \in Settling =>
                (Routed(j, k)' <=> new'[t] # None /\ new'[t].key = k)
           /\ pc'[t] \in {"find", "retain"} =>
                (Listed(j, k)' <=> k = gone'[t])
           /\ pc'[t] = "unlink" => ~Listed(j, k)'
           /\ pc'[t] \in {"lookup", "push", "create"} =>
                (Listed(j, k)' => k = new'[t].key)
  PROVE  MapsAgree'
<1>1. \A u \in Threads : pc'[u] \in Settling => u = t
  OBVIOUS
<1>2. \A p : p \in {"find", "retain"} \/ p = "unlink"
             \/ p \in {"lookup", "push", "create"} => p \in Settling
  BY DEF Settling
<1>3. ASSUME NEW i \in IDs, \A u \in Threads : pc'[u] \in Settling => id'[u] # i
      PROVE  \A k \in Keys : Listed(i, k)' <=> Routed(i, k)'
  BY <1>3
<1>4. QED BY <1>1, <1>2, <1>3 DEF MapsAgree

LEMMA InsertStep ==
  ASSUME IInv, NEW t \in Threads, Insert(t)
  PROVE  IInv'
<1> USE NoneAssumption DEF IInv, Insert, Replaces, Goto
<1>0. id[t] \in IDs /\ new[t] \in Routes /\ new[t].key \in Keys
  BY DEF TypeOK, LocalsSet, Critical, Routes
<1>01. \A u \in Threads : u # t => pc[u] \notin Critical
  BY Alone DEF Critical
<1>1. TypeOK'
  <2>1. pc' \in [Threads -> Points]
    BY DEF TypeOK, Points, Critical
  <2>2. direct_route_table' \in [IDs -> Routes \cup {None}]
    BY <1>0 DEF TypeOK
  <2>3. gone' \in [Threads -> Keys \cup {None}]
    BY <1>0 DEF TypeOK, Routes
  <2>4. QED BY <2>1, <2>2, <2>3 DEF TypeOK
<1>2. LockOwner'
  BY DEF TypeOK, LockOwner, Critical
<1>3. LocalsSet'
  BY <1>0 DEF TypeOK, LocalsSet, Critical, Routes
<1>4. EntryOfKey'
  BY <1>01 DEF TypeOK, EntryOfKey, LocalsSet, Critical
<1>5. ListsSound'
  BY DEF TypeOK, ListsSound, LocalsSet, Critical
<1>6. MapsAgree'
  <2>1. \A i \in IDs, k \in Keys : Listed(i, k)' = Listed(i, k)
    BY DEF Listed
  <2>2. \A i \in IDs, k \in Keys : i # id[t] => Routed(i, k)' = Routed(i, k)
    BY <1>0 DEF TypeOK, Routed
  <2>3. \A k \in Keys : Routed(id[t], k)' <=> k = new[t].key
    BY <1>0 DEF TypeOK, Routed
  <2>4. \A i \in IDs, k \in Keys : Listed(i, k) <=> Routed(i, k)
    BY <1>01 DEF MapsAgree, Settling, Critical
  <2>5. \A u \in Threads : u # t => pc'[u] \notin Settling
    BY <1>01 DEF TypeOK, Settling, Critical
  <2>6. /\ pc'[t] \in Settling /\ id'[t] = id[t] /\ new'[t] = new[t]
        /\ \/ /\ pc'[t] = "find"
              /\ \A k \in Keys : Routed(id[t], k) <=> k = gone'[t]
           \/ /\ pc'[t] = "lookup"
              /\ \A k \in Keys : Routed(id[t], k) => k = new[t].key
    BY DEF TypeOK, Settling, Routed
  <2>7. new[t] # None
    BY DEF LocalsSet
  <2>8. QED
    BY <1>0, <2>1, <2>2, <2>3, <2>4, <2>5, <2>6, <2>7, WriterStep
<1>7. QED BY <1>1, <1>2, <1>3, <1>4, <1>5, <1>6

LEMMA TakeStep ==
  ASSUME IInv, NEW t \in Threads, Take(t)
  PROVE  IInv'
<1> USE NoneAssumption DEF IInv, Take, Unrouted, Goto
<1>0. id[t] \in IDs /\ new[t] = None
  BY DEF TypeOK, LocalsSet, Critical
<1>01. \A u \in Threads : u # t => pc[u] \notin Critical
  BY Alone DEF Critical
<1>1. TypeOK'
  <2>1. pc' \in [Threads -> Points]
    BY DEF TypeOK, Points, Critical
  <2>2. direct_route_table' \in [IDs -> Routes \cup {None}]
    BY <1>0 DEF TypeOK
  <2>3. gone' \in [Threads -> Keys \cup {None}]
    BY <1>0 DEF TypeOK, Routes
  <2>4. QED BY <2>1, <2>2, <2>3 DEF TypeOK
<1>2. LockOwner'
  BY DEF TypeOK, LockOwner, Critical
<1>3. LocalsSet'
  BY <1>0 DEF TypeOK, LocalsSet, Critical, Routes
<1>4. EntryOfKey'
  BY <1>01 DEF TypeOK, EntryOfKey, LocalsSet, Critical
<1>5. ListsSound'
  BY DEF TypeOK, ListsSound, LocalsSet, Critical
<1>6. MapsAgree'
  <2>1. \A i \in IDs, k \in Keys : Listed(i, k)' = Listed(i, k)
    BY DEF Listed
  <2>2. \A i \in IDs, k \in Keys : i # id[t] => Routed(i, k)' = Routed(i, k)
    BY <1>0 DEF TypeOK, Routed
  <2>3. \A k \in Keys : ~Routed(id[t], k)'
    BY <1>0 DEF TypeOK, Routed
  <2>4. \A i \in IDs, k \in Keys : Listed(i, k) <=> Routed(i, k)
    BY <1>01 DEF MapsAgree, Settling, Critical
  <2>5. \A u \in Threads : u # t => pc'[u] \notin Settling
    BY <1>01 DEF TypeOK, Settling, Critical
  <2>6. /\ id'[t] = id[t] /\ new'[t] = None
        /\ \/ /\ pc'[t] = "find"
              /\ \A k \in Keys : Routed(id[t], k) <=> k = gone'[t]
           \/ /\ pc'[t] = "unlock"
              /\ \A k \in Keys : ~Routed(id[t], k)
    BY <1>0 DEF TypeOK, Routed
  <2>7. "find" \in Settling /\ "unlock" \notin Settling
    BY DEF Settling
  <2>8. QED
    BY <1>0, <2>1, <2>2, <2>3, <2>4, <2>5, <2>6, <2>7, WriterStep
<1>7. QED BY <1>1, <1>2, <1>3, <1>4, <1>5, <1>6

LEMMA RetainStep ==
  ASSUME IInv, NEW t \in Threads, Retain(t)
  PROVE  IInv'
<1> USE NoneAssumption DEF IInv, Retain, Deserted, Goto, Hold, Release,
             AfterUnlist
<1> DEFINE e == ref[t]
           rest == Without(ids[e], id[t])
<1>0. /\ id[t] \in IDs /\ e \in Entries /\ gone[t] \in Keys
      /\ direct_route_table_time[gone[t]] = e
      /\ new[t] # None => new[t] \in Routes /\ new[t].key \in Keys
                         /\ new[t].key # gone[t]
  BY DEF TypeOK, LocalsSet, EntryOfKey, Critical, Routes
<1>01. \A u \in Threads : u # t => pc[u] \notin Critical
  BY Alone DEF Critical
<1>02. /\ ids[e] \in Seq(IDs) /\ IsInjective(ids[e])
       /\ ids' = [ids EXCEPT ![e] = rest]
  BY <1>0 DEF TypeOK, ListsSound
<1>03. /\ rest \in Seq(IDs) /\ IsInjective(rest)
       /\ Range(rest) = Range(ids[e]) \ {id[t]}
  BY <1>02, WithoutProperties
<1>04. pc'[t] = IF rest = <<>> THEN "unlink"
                ELSE IF new[t] = None THEN "unlock" ELSE "lookup"
  BY DEF TypeOK
<1> HIDE DEF rest
<1>1. TypeOK'
  <2>1. pc' \in [Threads -> Points]
    BY DEF TypeOK, Points, Critical
  <2>2. ids' \in [Entries -> Seq(IDs)]
    BY <1>0, <1>02, <1>03 DEF TypeOK
  <2>3. QED BY <2>1, <2>2 DEF TypeOK
<1>2. LockOwner'
  BY DEF TypeOK, LockOwner, Critical
<1>3. LocalsSet'
  BY <1>0 DEF TypeOK, LocalsSet, Critical, Routes
<1>4. EntryOfKey'
  BY <1>01 DEF TypeOK, EntryOfKey, LocalsSet, Critical
<1>5. ListsSound'
  <2>1. \A f \in Entries : ids'[f] = IF f = e THEN rest ELSE ids[f]
    BY <1>0, <1>02 DEF TypeOK
  <2>2. \A f \in Entries : IsInjective(ids'[f])
    BY <1>03, <2>1 DEF ListsSound
  <2>3. \A f \in Entries :
          (\A k \in Keys : direct_route_table_time[k] # f) => ids'[f] = <<>>
    BY <1>0, <2>1 DEF ListsSound
  <2>4. \A u \in Threads : pc'[u] = "unlink" => ids'[ref'[u]] = <<>>
    <3>1. \A u \in Threads : pc'[u] = "unlink" => u = t
      BY <1>01 DEF TypeOK, Critical
    <3>2. pc'[t] = "unlink" => rest = <<>> /\ ref'[t] = e
      BY <1>04 DEF rest
    <3>3. QED BY <1>0, <2>1, <3>1, <3>2
  <2>5. ASSUME NEW k \in Keys, direct_route_table_time[k] # None,
               ids'[direct_route_table_time[k]] = <<>>
        PROVE  \E u \in Threads : /\ pc'[u] = "unlink"
                                   /\ ref'[u] = direct_route_table_time[k]
    <3>1. direct_route_table_time[k] \in Entries
      BY <2>5 DEF TypeOK
    <3>2. CASE direct_route_table_time[k] = e
      <4>1. rest = <<>>
        BY <1>0, <2>1, <2>5, <3>2
      <4>2. pc'[t] = "unlink" /\ ref'[t] = e
        BY <1>04, <4>1 DEF rest
      <4>3. QED BY <3>2, <4>2
    <3>3. CASE direct_route_table_time[k] # e
      <4>1. ids[direct_route_table_time[k]] = <<>>
        BY <2>1, <2>5, <3>1, <3>3
      <4>2. QED BY <1>01, <2>5, <4>1 DEF ListsSound, Critical
    <3>4. QED BY <3>2, <3>3
  <2>6. QED BY <2>2, <2>3, <2>4, <2>5 DEF ListsSound
<1>6. MapsAgree'
  <2>1. \A i \in IDs, k \in Keys : Routed(i, k)' = Routed(i, k)
    BY DEF Routed
  <2>2. \A i \in IDs, k \in Keys :
          Listed(i, k)' <=> Listed(i, k) /\ ~(k = gone[t] /\ i = id[t])
    <3> SUFFICES ASSUME NEW i \in IDs, NEW k \in Keys
                 PROVE  Listed(i, k)' <=> Listed(i, k) /\ ~(k = gone[t] /\ i = id[t])
      OBVIOUS
    <3>1. CASE k = gone[t]
      BY <1>0, <1>02, <1>03, <3>1 DEF TypeOK, Listed
    <3>2. CASE k # gone[t]
      <4>1. direct_route_table_time[k] # None =>
              direct_route_table_time[k] # e
        BY <1>0, <3>2 DEF EntryOfKey
      <4>2. QED BY <1>02, <3>2, <4>1 DEF TypeOK, Listed
    <3>3. QED BY <3>1, <3>2
  <2>3. \A i \in IDs, k \in Keys : i # id[t] => (Listed(i, k) <=> Routed(i, k))
    BY <1>01 DEF MapsAgree, Settling, Critical
  <2>4. \A k \in Keys : /\ Routed(id[t], k) <=> new[t] # None /\ new[t].key = k
                        /\ ~Listed(id[t], k)'
    BY <1>0, <2>2 DEF MapsAgree, Settling
  <2>5. \A u \in Threads : u # t => pc'[u] \notin Settling
    BY <1>01 DEF TypeOK, Settling, Critical
  <2>6. id'[t] = id[t] /\ new'[t] = new[t]
    OBVIOUS
  <2>7. /\ pc'[t] \in {"unlink", "unlock", "lookup"}
        /\ pc'[t] = "unlock" => new[t] = None
        /\ "unlock" \notin Settling
        /\ "unlink" \in Settling /\ "lookup" \in Settling
    BY <1>04 DEF Settling
  <2>8. QED
    BY <1>0, <2>1, <2>2, <2>3, <2>4, <2>5, <2>6, <2>7, WriterStep
<1>7. QED BY <1>1, <1>2, <1>3, <1>4, <1>5, <1>6

LEMMA UnlinkStep ==
  ASSUME IInv, NEW t \in Threads, Unlink(t)
  PROVE  IInv'
<1> USE NoneAssumption DEF IInv, Unlink, Goto, Hold, Release, AfterUnlist
<1>0. /\ id[t] \in IDs /\ ref[t] \in Entries /\ gone[t] \in Keys
      /\ direct_route_table_time[gone[t]] = ref[t]
      /\ ids[ref[t]] = <<>>
      /\ new[t] # None => new[t] \in Routes /\ new[t].key \in Keys
                         /\ new[t].key # gone[t]
  BY DEF TypeOK, LocalsSet, EntryOfKey, ListsSound, Critical, Routes
<1>01. \A u \in Threads : u # t => pc[u] \notin Critical
  BY Alone DEF Critical
<1>02. \A k \in Keys : direct_route_table_time'[k] =
         IF k = gone[t] THEN None ELSE direct_route_table_time[k]
  BY <1>0 DEF TypeOK
<1>1. TypeOK'
  <2>1. pc' \in [Threads -> Points]
    BY DEF TypeOK, Points, Critical
  <2>2. QED BY <2>1 DEF TypeOK
<1>2. LockOwner'
  BY DEF TypeOK, LockOwner, Critical
<1>3. LocalsSet'
  BY <1>0 DEF TypeOK, LocalsSet, Critical, Routes
<1>4. EntryOfKey'
  <2>1. \A u \in Threads : pc'[u] \notin {"retain", "unlink", "push", "create"}
    BY <1>01 DEF TypeOK, Critical
  <2>2. \A k, l \in Keys :
          direct_route_table_time'[k] # None
            /\ direct_route_table_time'[k] = direct_route_table_time'[l] => k = l
    BY <1>02 DEF EntryOfKey
  <2>3. QED BY <2>1, <2>2 DEF EntryOfKey
<1>5. ListsSound'
  <2>1. \A f \in Entries :
          (\A k \in Keys : direct_route_table_time'[k] # f) => ids[f] = <<>>
    <3> SUFFICES ASSUME NEW f \in Entries,
                        \A k \in Keys : direct_route_table_time'[k] # f
                 PROVE  ids[f] = <<>>
      OBVIOUS
    <3>1. CASE f = ref[t]
      BY <1>0, <3>1
    <3>2. CASE f # ref[t]
      <4>1. \A k \in Keys : direct_route_table_time[k] # f
        BY <1>0, <1>02, <3>2
      <4>2. QED BY <4>1 DEF ListsSound
    <3>3. QED BY <3>1, <3>2
  <2>2. \A u \in Threads : pc'[u] # "unlink"
    BY <1>01 DEF TypeOK, Critical
  <2>3. \A k \in Keys : direct_route_table_time'[k] # None
                         => ids[direct_route_table_time'[k]] # <<>>
    <3> SUFFICES ASSUME NEW k \in Keys, direct_route_table_time'[k] # None,
                        ids[direct_route_table_time'[k]] = <<>>
                 PROVE  FALSE
      OBVIOUS
    <3>1. k # gone[t] /\ direct_route_table_time'[k] = direct_route_table_time[k]
      BY <1>02
    <3>2. PICK u \in Threads : pc[u] = "unlink"
                               /\ ref[u] = direct_route_table_time[k]
      BY <3>1 DEF ListsSound
    <3>3. u = t
      BY <1>01, <3>2 DEF Critical
    <3>4. QED BY <1>0, <3>1, <3>2, <3>3 DEF EntryOfKey
  <2>4. QED BY <2>1, <2>2, <2>3 DEF ListsSound
<1>6. MapsAgree'
  <2>1. \A i \in IDs, k \in Keys : Routed(i, k)' = Routed(i, k)
    BY DEF Routed
  <2>2. \A i \in IDs, k \in Keys : Listed(i, k)' <=> Listed(i, k)
    BY <1>0, <1>02 DEF Listed, Range
  <2>3. \A i \in IDs, k \in Keys : i # id[t] => (Listed(i, k) <=> Routed(i, k))
    BY <1>01 DEF MapsAgree, Settling, Critical
  <2>4. \A k \in Keys : /\ Routed(id[t], k) <=> new[t] # None /\ new[t].key = k
                        /\ ~Listed(id[t], k)
    BY <1>0, <2>2 DEF MapsAgree, Settling
  <2>5. \A u \in Threads : u # t => pc'[u] \notin Settling
    BY <1>01 DEF TypeOK, Settling, Critical
  <2>6. id'[t] = id[t] /\ new'[t] = new[t]
    OBVIOUS
  <2>7. /\ pc'[t] \in {"unlock", "lookup"}
        /\ pc'[t] = "unlock" => new[t] = None
        /\ "unlock" \notin Settling /\ "lookup" \in Settling
    BY DEF TypeOK, Settling
  <2>8. QED
    BY <1>0, <2>1, <2>2, <2>3, <2>4, <2>5, <2>6, <2>7, WriterStep
<1>7. QED BY <1>1, <1>2, <1>3, <1>4, <1>5, <1>6

LEMMA PushStep ==
  ASSUME IInv, NEW t \in Threads, Push(t)
  PROVE  IInv'
<1> USE NoneAssumption DEF IInv, Push, Goto, Hold, Release
<1> DEFINE e == ref[t]
           more == With(ids[e], id[t])
<1>0. /\ id[t] \in IDs /\ e \in Entries
      /\ new[t] \in Routes /\ new[t].key \in Keys
      /\ direct_route_table_time[new[t].key] = e
  BY DEF TypeOK, LocalsSet, EntryOfKey, Critical, Routes
<1>01. \A u \in Threads : u # t => pc[u] \notin Critical
  BY Alone DEF Critical
<1>02. /\ ids[e] \in Seq(IDs) /\ IsInjective(ids[e])
       /\ ids' = [ids EXCEPT ![e] = more]
  BY <1>0 DEF TypeOK, ListsSound
<1>03. /\ more \in Seq(IDs) /\ IsInjective(more) /\ more # <<>>
       /\ Range(more) = Range(ids[e]) \cup {id[t]}
  <2>1. ids[e] \in Seq(IDs) /\ id[t] \in IDs /\ IsInjective(ids[e])
    BY <1>0, <1>02
  <2>2. QED BY <2>1, WithProperties
<1> HIDE DEF more
<1>1. TypeOK'
  <2>1. pc' \in [Threads -> Points]
    BY DEF TypeOK, Points, Critical
  <2>2. ids' \in [Entries -> Seq(IDs)]
    BY <1>0, <1>02, <1>03 DEF TypeOK
  <2>3. QED BY <2>1, <2>2 DEF TypeOK
<1>2. LockOwner'
  BY DEF TypeOK, LockOwner, Critical
<1>3. LocalsSet'
  BY <1>0 DEF TypeOK, LocalsSet, Critical, Routes
<1>4. EntryOfKey'
  BY <1>01 DEF TypeOK, EntryOfKey, LocalsSet, Critical
<1>5. ListsSound'
  <2>1. \A f \in Entries : ids'[f] = IF f = e THEN more ELSE ids[f]
    BY <1>0, <1>02 DEF TypeOK
  <2>2. \A f \in Entries : IsInjective(ids'[f])
    BY <1>03, <2>1 DEF ListsSound
  <2>3. \A f \in Entries :
          (\A k \in Keys : direct_route_table_time[k] # f) => ids'[f] = <<>>
    BY <1>0, <2>1 DEF ListsSound
  <2>4. \A u \in Threads : pc'[u] # "unlink" /\ pc[u] # "unlink"
    BY <1>01 DEF TypeOK, Critical
  <2>5. \A k \in Keys : direct_route_table_time[k] # None
                         => ids'[direct_route_table_time[k]] # <<>>
    BY <1>03, <2>1, <2>4 DEF TypeOK, ListsSound
  <2>6. QED BY <2>2, <2>3, <2>4, <2>5 DEF ListsSound
<1>6. MapsAgree'
  <2>1. \A i \in IDs, k \in Keys : Routed(i, k)' = Routed(i, k)
    BY DEF Routed
  <2>2. \A i \in IDs, k \in Keys :
          Listed(i, k)' <=> Listed(i, k) \/ (k = new[t].key /\ i = id[t])
    <3> SUFFICES ASSUME NEW i \in IDs, NEW k \in Keys
                 PROVE  Listed(i, k)' <=> Listed(i, k)
                                          \/ (k = new[t].key /\ i = id[t])
      OBVIOUS
    <3>1. CASE k = new[t].key
      BY <1>0, <1>02, <1>03, <3>1 DEF TypeOK, Listed
    <3>2. CASE k # new[t].key
      <4>1. direct_route_table_time[k] # None =>
              direct_route_table_time[k] # e
        BY <1>0, <3>2 DEF EntryOfKey
      <4>2. QED BY <1>02, <3>2, <4>1 DEF TypeOK, Listed
    <3>3. QED BY <3>1, <3>2
  <2>3. \A i \in IDs, k \in Keys : i # id[t] => (Listed(i, k) <=> Routed(i, k))
    BY <1>01 DEF MapsAgree, Settling, Critical
  <2>4. \A k \in Keys : /\ Routed(id[t], k) <=> new[t].key = k
                        /\ Listed(id[t], k) => k = new[t].key
    BY <1>0 DEF MapsAgree, Settling
  <2>5. \A u \in Threads : u # t => pc'[u] \notin Settling
    BY <1>01 DEF TypeOK, Settling, Critical
  <2>6. id'[t] = id[t] /\ pc'[t] = "unlock" /\ "unlock" \notin Settling
    BY DEF TypeOK, Settling
  <2>7. QED
    BY <1>0, <2>1, <2>2, <2>3, <2>4, <2>5, <2>6, WriterStep
<1>7. QED BY <1>1, <1>2, <1>3, <1>4, <1>5, <1>6

LEMMA CreateStep ==
  ASSUME IInv, NEW t \in Threads, NEW e \in Entries, Create(t, e)
  PROVE  IInv'
<1> USE NoneAssumption DEF IInv, Create, Goto, Fresh
<1>0. /\ id[t] \in IDs /\ new[t] \in Routes /\ new[t].key \in Keys
      /\ direct_route_table_time[new[t].key] = None
      /\ \A k \in Keys : direct_route_table_time[k] # e
      /\ ids[e] = <<>>
  BY DEF TypeOK, LocalsSet, EntryOfKey, ListsSound, Critical, Routes
<1>01. \A u \in Threads : u # t => pc[u] \notin Critical
  BY Alone DEF Critical
<1>02. \A k \in Keys : direct_route_table_time'[k] =
         IF k = new[t].key THEN e ELSE direct_route_table_time[k]
  BY <1>0 DEF TypeOK
<1>03. \A f \in Entries : ids'[f] = IF f = e THEN <<id[t]>> ELSE ids[f]
  BY <1>0 DEF TypeOK
<1>04. /\ <<id[t]>> \in Seq(IDs) /\ IsInjective(<<id[t]>>)
       /\ <<id[t]>> # <<>> /\ Range(<<id[t]>>) = {id[t]}
  BY <1>0 DEF IsInjective, Range
<1>1. TypeOK'
  <2>1. pc' \in [Threads -> Points]
    BY DEF TypeOK, Points, Critical
  <2>2. ids' \in [Entries -> Seq(IDs)]
    BY <1>04 DEF TypeOK
  <2>3. direct_route_table_time' \in [Keys -> Entries \cup {None}]
    BY <1>0 DEF TypeOK
  <2>4. QED BY <2>1, <2>2, <2>3 DEF TypeOK
<1>2. LockOwner'
  BY DEF TypeOK, LockOwner, Critical
<1>3. LocalsSet'
  BY <1>0 DEF TypeOK, LocalsSet, Critical, Routes
<1>4. EntryOfKey'
  <2>1. \A u \in Threads : pc'[u] \notin {"retain", "unlink", "push", "create"}
    BY <1>01 DEF TypeOK, Critical
  <2>2. \A k, l \in Keys :
          direct_route_table_time'[k] # None
            /\ direct_route_table_time'[k] = direct_route_table_time'[l] => k = l
    BY <1>0, <1>02 DEF EntryOfKey
  <2>3. QED BY <2>1, <2>2 DEF EntryOfKey
<1>5. ListsSound'
  <2>1. \A f \in Entries : IsInjective(ids'[f])
    BY <1>03, <1>04 DEF ListsSound
  <2>2. \A f \in Entries :
          (\A k \in Keys : direct_route_table_time'[k] # f) => ids'[f] = <<>>
    <3> SUFFICES ASSUME NEW f \in Entries,
                        \A k \in Keys : direct_route_table_time'[k] # f
                 PROVE  ids'[f] = <<>>
      OBVIOUS
    <3>1. f # e
      BY <1>0, <1>02
    <3>2. \A k \in Keys : direct_route_table_time[k] # f
      BY <1>0, <1>02
    <3>3. QED BY <1>03, <3>1, <3>2 DEF ListsSound
  <2>3. \A u \in Threads : pc'[u] # "unlink" /\ pc[u] # "unlink"
    BY <1>01 DEF TypeOK, Critical
  <2>4. \A k \in Keys : direct_route_table_time'[k] # None
                         => ids'[direct_route_table_time'[k]] # <<>>
    BY <1>0, <1>02, <1>03, <1>04, <2>3 DEF TypeOK, ListsSound
  <2>5. QED BY <2>1, <2>2, <2>3, <2>4 DEF ListsSound
<1>6. MapsAgree'
  <2>1. \A i \in IDs, k \in Keys : Routed(i, k)' = Routed(i, k)
    BY DEF Routed
  <2>2. \A i \in IDs, k \in Keys :
          Listed(i, k)' <=> Listed(i, k) \/ (k = new[t].key /\ i = id[t])
    BY <1>0, <1>02, <1>03, <1>04 DEF TypeOK, Listed
  <2>3. \A i \in IDs, k \in Keys : i # id[t] => (Listed(i, k) <=> Routed(i, k))
    BY <1>01 DEF MapsAgree, Settling, Critical
  <2>4. \A k \in Keys : /\ Routed(id[t], k) <=> new[t].key = k
                        /\ Listed(id[t], k) => k = new[t].key
    BY <1>0 DEF MapsAgree, Settling
  <2>5. \A u \in Threads : u # t => pc'[u] \notin Settling
    BY <1>01 DEF TypeOK, Settling, Critical
  <2>6. id'[t] = id[t] /\ pc'[t] = "unlock" /\ "unlock" \notin Settling
    BY DEF TypeOK, Settling
  <2>7. QED
    BY <1>0, <2>1, <2>2, <2>3, <2>4, <2>5, <2>6, WriterStep
<1>7. QED BY <1>1, <1>2, <1>3, <1>4, <1>5, <1>6

(* update_route_ changes a metric and no key. *)
LEMMA UpdateRouteStep ==
  ASSUME IInv, NEW t \in Threads, NEW i \in IDs, NEW m \in Metrics,
         UpdateRoute(t, i, m)
  PROVE  IInv'
<1> USE NoneAssumption DEF IInv, UpdateRoute, locals
<1>1. /\ direct_route_table' \in [IDs -> Routes \cup {None}]
      /\ \A j \in IDs : /\ direct_route_table'[j] = None
                           <=> direct_route_table[j] = None
                        /\ direct_route_table[j] # None =>
                             direct_route_table'[j].key = direct_route_table[j].key
  BY DEF TypeOK, Routes
<1>2. TypeOK' /\ LockOwner' /\ LocalsSet' /\ EntryOfKey' /\ ListsSound'
  BY <1>1 DEF TypeOK, LockOwner, LocalsSet, EntryOfKey, ListsSound
<1>3. \A j \in IDs, k \in Keys : /\ Routed(j, k)' <=> Routed(j, k)
                                 /\ Listed(j, k)' = Listed(j, k)
  BY <1>1 DEF Routed, Listed
<1>4. MapsAgree'
  BY <1>3 DEF MapsAgree, Routed, Listed
<1>5. QED BY <1>2, <1>4

LEMMA UnchangedStep ==
  ASSUME IInv, UNCHANGED <<tables, lock, locals>>, un_parker' \in BOOLEAN
  PROVE  IInv'
<1> USE DEF IInv, tables, locals
<1>1. TypeOK' /\ LockOwner' /\ LocalsSet' /\ EntryOfKey' /\ ListsSound'
  BY DEF TypeOK, LockOwner, LocalsSet, EntryOfKey, ListsSound
<1>2. MapsAgree'
  BY SameStage
<1>3. QED BY <1>1, <1>2

-----------------------------------------------------------------------------
LEMMA NextIInv == IInv /\ [Next]_vars => IInv'
<1> SUFFICES ASSUME IInv, [Next]_vars PROVE IInv'
  OBVIOUS
<1>1. CASE Park
  BY <1>1, UnchangedStep DEF Park
<1>2. ASSUME NEW t \in Threads, Call(t)
      PROVE  IInv'
  BY <1>2, AddRouteStep, RemoveRouteStep, UpdateRouteStep, GetEntryStep DEF Call
<1>3. ASSUME NEW t \in Threads, Step(t)
      PROVE  IInv'
  BY <1>3, LockStep, InsertStep, TakeStep, FindStep, RetainStep, UnlinkStep,
     LookupStep, PushStep, CreateStep, UnlockStep, UnparkStep, RouteToIdStep,
     TouchStep
  DEF Step
<1>4. CASE UNCHANGED vars
  BY <1>4, UnchangedStep DEF vars, IInv, TypeOK
<1>5. QED BY <1>1, <1>2, <1>3, <1>4 DEF Next

(* The strengthened invariant holds in every reachable state, for any      *)
(* number of threads, peers, keys and entries: however the calls of        *)
(* add_route, remove_route, update_route and route_to_id interleave.       *)
THEOREM Inductive == Spec => []IInv
BY InitIInv, NextIInv, PTL DEF Spec

(* The variables of the table keep their types. *)
THEOREM TypeCorrect == Spec => []TypeOK
<1>1. IInv => TypeOK BY DEF IInv
<1>2. QED BY <1>1, Inductive, PTL

LEMMA AgreementLemma == IInv => Agreement
<1> SUFFICES ASSUME IInv, lock = None PROVE Agreement
  BY DEF Agreement
<1>1. \A t \in Threads : pc[t] \notin Critical
  BY NoneAssumption DEF IInv, LockOwner
<1>2. \A t \in Threads : pc[t] \notin Settling /\ pc[t] # "unlink"
  BY <1>1 DEF Critical, Settling
<1>3. \A i \in IDs, k \in Keys : Listed(i, k) <=> Routed(i, k)
  BY <1>2 DEF IInv, MapsAgree
<1>4. \A k \in Keys : direct_route_table_time[k] # None
                       => ids[direct_route_table_time[k]] # <<>>
  BY <1>2 DEF IInv, ListsSound
<1>5. QED BY <1>3, <1>4 DEF Agreement

(* Whenever the table's mutex is free, the map of routes and the lists of  *)
(* peers agree, and no entry with an empty list is left in the skip map.   *)
THEOREM AgreementHolds == Spec => []Agreement
BY AgreementLemma, Inductive, PTL

LEMMA OneListingLemma == IInv => OneListing
<1> SUFFICES ASSUME IInv PROVE OneListing
  OBVIOUS
<1>1. ASSUME NEW i \in IDs, NEW k \in Keys, NEW l \in Keys,
             Listed(i, k), Listed(i, l)
      PROVE  k = l
  <2>1. CASE \A t \in Threads : pc[t] \in Settling => id[t] # i
    <3>1. Routed(i, k) /\ Routed(i, l)
      BY <1>1, <2>1 DEF IInv, MapsAgree
    <3>2. QED BY <3>1 DEF Routed
  <2>2. ASSUME NEW t \in Threads, pc[t] \in Settling, id[t] = i
        PROVE  k = l
    BY <1>1, <2>2 DEF IInv, MapsAgree, Settling
  <2>3. QED BY <2>1, <2>2
<1>2. \A k \in Keys : direct_route_table_time[k] # None
                       => IsInjective(ids[direct_route_table_time[k]])
  BY DEF IInv, TypeOK, ListsSound
<1>3. QED BY <1>1, <1>2 DEF OneListing

(* Also for the readers that take no mutex: a peer is listed at most once, *)
(* and under at most one key.                                              *)
THEOREM OneListingHolds == Spec => []OneListing
BY OneListingLemma, Inductive, PTL

LEMMA StaleOnlyInFlightLemma == IInv => StaleOnlyInFlight
<1> SUFFICES ASSUME IInv, NEW i \in IDs, NEW k \in Keys, Listed(i, k), ~Routed(i, k)
             PROVE  \E t \in Threads : /\ pc[t] \in {"find", "retain"}
                                       /\ id[t] = i
                                       /\ gone[t] = k
  BY DEF StaleOnlyInFlight
<1>1. PICK t \in Threads : pc[t] \in Settling /\ id[t] = i
  BY DEF IInv, MapsAgree
<1>2. /\ ~(new[t] # None /\ new[t].key = k)
      /\ pc[t] \in {"find", "retain"} => k = gone[t]
      /\ pc[t] # "unlink"
      /\ pc[t] \in {"lookup", "push", "create"} => k = new[t].key
  BY <1>1 DEF IInv, MapsAgree
<1>3. pc[t] \in {"lookup", "push", "create"} => new[t] # None
  BY DEF IInv, LocalsSet
<1>4. QED BY <1>1, <1>2, <1>3 DEF Settling

(* A peer is listed under a key that is not its route's only while a       *)
(* writer is between the change of its route and the clean-up of the list. *)
THEOREM StaleOnlyInFlightHolds == Spec => []StaleOnlyInFlight
BY StaleOnlyInFlightLemma, Inductive, PTL

LEMMA EmptyMeansUnlinkedLemma == IInv => EmptyMeansUnlinked
BY NoneAssumption
DEF IInv, TypeOK, ListsSound, ListFree, EmptyMeansUnlinked

(* A linked entry whose list nobody holds has a peer in it, and an entry   *)
(* that was unlinked under a reader stays empty.                           *)
THEOREM EmptyMeansUnlinkedHolds == Spec => []EmptyMeansUnlinked
BY EmptyMeansUnlinkedLemma, Inductive, PTL

-----------------------------------------------------------------------------
(* The first peer of a list stays in front until it is itself taken off.   *)
LEMMA WithHead ==
  ASSUME NEW s \in Seq(IDs), NEW i \in IDs, s # <<>>
  PROVE  With(s, i) # <<>> /\ Head(With(s, i)) = Head(s)
BY DEF With

LEMMA WithoutHead ==
  ASSUME NEW s \in Seq(IDs), NEW i, IsInjective(s), s # <<>>, Head(s) # i
  PROVE  Without(s, i) # <<>> /\ Head(Without(s, i)) = Head(s)
<1>1. CASE ~ \E j \in DOMAIN s : s[j] = i
  BY <1>1 DEF Without
<1>2. CASE \E j \in DOMAIN s : s[j] = i
  <2> DEFINE p == CHOOSE j \in DOMAIN s : s[j] = i
             w == [j \in 1 .. (Len(s) - 1) |-> IF j < p THEN s[j] ELSE s[j + 1]]
  <2>1. p \in 1 .. Len(s) /\ s[p] = i
    BY <1>2
  <2>2. Without(s, i) = w
    BY <1>2 DEF Without
  <2> HIDE DEF p
  <2>3. p > 1 /\ Head(s) = s[1]
    BY <2>1
  <2>4. w \in Seq(IDs) /\ Len(w) = Len(s) - 1 /\ w[1] = s[1]
    BY <2>1, <2>3
  <2>5. Len(s) > 1
    BY <2>1, <2>3
  <2> HIDE DEF w
  <2>6. w # <<>> /\ Head(w) = w[1]
    BY <2>4, <2>5
  <2>7. QED BY <2>2, <2>3, <2>4, <2>6
<1>3. QED BY <1>1, <1>2

(* What a step does to the list of a key: nothing, unless the writer takes *)
(* off a peer whose route has left the key, unlinks an entry whose list is *)
(* empty, adds a peer, or links an entry where there was none.             *)
LEMMA ListSteps ==
  ASSUME IInv, [Next]_vars, NEW k \in Keys, direct_route_table_time[k] # None,
         ids[direct_route_table_time[k]] # <<>>
  PROVE  LET e == direct_route_table_time[k] IN
         /\ direct_route_table_time'[k] = e
         /\ \/ ids'[e] = ids[e]
            \/ \E i \in IDs : ids'[e] = With(ids[e], i)
            \/ \E i \in IDs : ~Routed(i, k) /\ ids'[e] = Without(ids[e], i)
<1> USE NoneAssumption
<1> DEFINE e == direct_route_table_time[k]
<1>0. /\ e \in Entries
      /\ direct_route_table_time \in [Keys -> Entries \cup {None}]
      /\ ids \in [Entries -> Seq(IDs)]
  BY DEF IInv, TypeOK
<1>1. ASSUME NEW t \in Threads, Retain(t)
      PROVE  /\ direct_route_table_time'[k] = e
             /\ \/ ids'[e] = ids[e]
                \/ \E i \in IDs : ~Routed(i, k) /\ ids'[e] = Without(ids[e], i)
  <2>1. /\ id[t] \in IDs /\ ref[t] \in Entries /\ gone[t] \in Keys
        /\ direct_route_table_time[gone[t]] = ref[t]
        /\ new[t] # None => new[t].key # gone[t]
        /\ Routed(id[t], gone[t]) <=> new[t] # None /\ new[t].key = gone[t]
    BY <1>1 DEF IInv, TypeOK, LocalsSet, EntryOfKey, MapsAgree, Retain, Critical,
       Settling
  <2>2. /\ direct_route_table_time' = direct_route_table_time
        /\ ids' = [ids EXCEPT ![ref[t]] = Without(ids[ref[t]], id[t])]
    BY <1>1 DEF Retain
  <2>3. CASE e = ref[t]
    <3>1. k = gone[t]
      BY <1>0, <2>1, <2>3 DEF IInv, EntryOfKey
    <3>2. QED BY <1>0, <2>1, <2>2, <2>3, <3>1
  <2>4. CASE e # ref[t]
    BY <1>0, <2>2, <2>4
  <2>5. QED BY <2>3, <2>4
<1>2. ASSUME NEW t \in Threads, Unlink(t)
      PROVE  direct_route_table_time'[k] = e /\ ids' = ids
  <2>1. /\ gone[t] \in Keys
        /\ direct_route_table_time[gone[t]] = ref[t]
        /\ ids[ref[t]] = <<>>
    BY <1>2 DEF IInv, TypeOK, LocalsSet, EntryOfKey, ListsSound, Unlink
  <2>2. k # gone[t]
    BY <2>1
  <2>3. QED BY <1>0, <1>2, <2>2 DEF Unlink
<1>3. ASSUME NEW t \in Threads, Push(t)
      PROVE  /\ direct_route_table_time'[k] = e
             /\ \/ ids'[e] = ids[e]
                \/ \E i \in IDs : ids'[e] = With(ids[e], i)
  <2>1. id[t] \in IDs /\ ref[t] \in Entries
    BY <1>3 DEF IInv, TypeOK, LocalsSet, Push, Critical
  <2>2. QED BY <1>0, <1>3, <2>1 DEF Push
<1>4. ASSUME NEW t \in Threads, NEW f \in Entries, Create(t, f)
      PROVE  direct_route_table_time'[k] = e /\ ids'[e] = ids[e]
  <2>1. /\ new[t] \in Routes /\ direct_route_table_time[new[t].key] = None
        /\ e # f
    BY <1>4 DEF IInv, TypeOK, LocalsSet, EntryOfKey, Create, Fresh
  <2>2. QED BY <1>0, <1>4, <2>1 DEF Create
<1>5. ASSUME UNCHANGED <<direct_route_table_time, ids>>
      PROVE  direct_route_table_time'[k] = e /\ ids'[e] = ids[e]
  BY <1>5
<1>6. CASE Park \/ UNCHANGED vars
  BY <1>5, <1>6 DEF Park, vars, tables
<1>7. ASSUME NEW t \in Threads, Call(t)
      PROVE  UNCHANGED <<direct_route_table_time, ids>>
  BY <1>7 DEF Call, AddRoute, RemoveRoute, UpdateRoute, GetEntry, tables
<1>8. ASSUME NEW t \in Threads,
             \/ Lock(t) \/ Insert(t) \/ Take(t) \/ Find(t) \/ Lookup(t)
             \/ Unlock(t) \/ Unpark(t) \/ RouteToId(t) \/ Touch(t)
      PROVE  UNCHANGED <<direct_route_table_time, ids>>
  BY <1>8 DEF Lock, Insert, Take, Find, Lookup, Unlock, Unpark, RouteToId, Touch,
     tables
<1>9. QED
  BY <1>1, <1>2, <1>3, <1>4, <1>5, <1>6, <1>7, <1>8 DEF Next, Step

LEMMA UnlistStep ==
  IInv /\ [Next]_vars =>
    \A i \in IDs, k \in Keys : Listed(i, k) /\ ~Listed(i, k)' => ~Routed(i, k)
<1>1. ASSUME IInv, [Next]_vars, NEW i \in IDs, NEW k \in Keys,
             Listed(i, k), ~Listed(i, k)'
      PROVE  ~Routed(i, k)
  <2> DEFINE e == direct_route_table_time[k]
  <2>1. /\ e # None /\ ids[e] \in Seq(IDs) /\ IsInjective(ids[e])
        /\ i \in Range(ids[e])
    BY <1>1, NoneAssumption DEF IInv, TypeOK, ListsSound, Listed
  <2>2. ids[e] # <<>>
    BY <2>1 DEF Range
  <2>3. /\ direct_route_table_time'[k] = e
        /\ \/ ids'[e] = ids[e]
           \/ \E j \in IDs : ids'[e] = With(ids[e], j)
           \/ \E j \in IDs : ~Routed(j, k) /\ ids'[e] = Without(ids[e], j)
    BY <1>1, <2>1, <2>2, ListSteps
  <2>4. i \notin Range(ids'[e])
    BY <1>1, <2>1, <2>3 DEF Listed
  <2>5. PICK j \in IDs : ~Routed(j, k) /\ ids'[e] = Without(ids[e], j)
    BY <2>1, <2>3, <2>4, WithProperties
  <2>6. j = i
    BY <2>1, <2>4, <2>5, WithoutProperties
  <2>7. QED BY <2>5, <2>6
<1>2. QED BY <1>1

(* A peer is taken off the list of a key only when its route has left the  *)
(* key: neither a refresh nor the move of another peer hides it.           *)
THEOREM UnlistAfterRerouteHolds == Spec => UnlistAfterReroute
<1>1. IInv /\ [Next]_vars =>
        [\A i \in IDs, k \in Keys : Listed(i, k) /\ ~Listed(i, k)'
                                    => ~Routed(i, k)]_vars
  BY UnlistStep
<1>2. QED BY <1>1, Inductive, PTL DEF Spec, UnlistAfterReroute

(* The head of each list is the one it was, or has left. *)
FirstKept ==
  \A k \in Keys :
    LET e == direct_route_table_time[k]
        f == direct_route_table_time'[k]
    IN  e # None /\ ids[e] # <<>> =>
          \/ f # None /\ ids'[f] # <<>> /\ Head(ids'[f]) = Head(ids[e])
          \/ ~Routed(Head(ids[e]), k)

LEMMA FirstStep == IInv /\ [Next]_vars => FirstKept
<1> SUFFICES ASSUME IInv, [Next]_vars, NEW k \in Keys, direct_route_table_time[k] # None,
                    ids[direct_route_table_time[k]] # <<>>,
                    Routed(Head(ids[direct_route_table_time[k]]), k)
             PROVE  LET f == direct_route_table_time'[k] IN
                    /\ f # None /\ ids'[f] # <<>>
                    /\ Head(ids'[f]) = Head(ids[direct_route_table_time[k]])
  BY DEF FirstKept
<1> DEFINE e == direct_route_table_time[k]
<1>1. ids[e] \in Seq(IDs) /\ IsInjective(ids[e])
  BY DEF IInv, TypeOK, ListsSound
<1>2. /\ direct_route_table_time'[k] = e
      /\ \/ ids'[e] = ids[e]
         \/ \E j \in IDs : ids'[e] = With(ids[e], j)
         \/ \E j \in IDs : ~Routed(j, k) /\ ids'[e] = Without(ids[e], j)
  BY ListSteps
<1>3. QED BY <1>1, <1>2, WithHead, WithoutHead

(* The first peer of a list, the answer of route_to_id, changes only when  *)
(* the route of that peer has left the key.                                *)
THEOREM FirstIsStableHolds == Spec => FirstIsStable
<1>1. IInv /\ [Next]_vars => [FirstKept]_vars
  BY FirstStep
<1>2. QED BY <1>1, Inductive, PTL DEF Spec, FirstIsStable, FirstKept

-----------------------------------------------------------------------------
(* Why the calls return: what a thread waits for, and how many steps of    *)
(* its call are left.                                                      *)
Blocked(t) ==
  \/ pc[t] = "lock" /\ ~TableFree
  \/ pc[t] \in {"retain", "push", "reading"} /\ ~ListFree(ref[t])

CallLeft(point) ==
  CASE point = "idle" -> 0
    [] point \in {"unpark", "reading", "holding"} -> 1
    [] point = "unlock" -> 2
    [] point \in {"push", "create"} -> 3
    [] point = "lookup" -> 4
    [] point = "unlink" -> 5
    [] point = "retain" -> 6
    [] point = "find" -> 7
    [] point \in {"insert", "take"} -> 8
    [] point = "lock" -> 9

WaitsForWriter ==
  \A t \in Threads : Blocked(t) =>
    \E u \in Threads \ {t} : pc[u] \in Critical /\ ~Blocked(u)

LEMMA WaitsForWriterLemma == IInv => WaitsForWriter
<1> SUFFICES ASSUME IInv, NEW t \in Threads, Blocked(t)
             PROVE  \E u \in Threads \ {t} : pc[u] \in Critical /\ ~Blocked(u)
  BY DEF WaitsForWriter
<1>1. ASSUME NEW u \in Threads, pc[u] \in Critical PROVE ~Blocked(u)
  <2>1. \A v \in Threads : v # u => pc[v] # "unlink"
    BY <1>1, Alone DEF Critical
  <2>2. pc[u] # "unlink" => \A e \in Entries : ListFree(e)
    BY <2>1 DEF ListFree
  <2>3. pc[u] \in {"retain", "push"} => ref[u] \in Entries
    BY DEF IInv, TypeOK, LocalsSet
  <2>4. QED BY <1>1, <2>2, <2>3 DEF Blocked, Critical
<1>2. CASE pc[t] = "lock" /\ ~TableFree
  <2>1. PICK u \in Threads : lock = u
    BY <1>2 DEF TableFree, IInv, TypeOK
  <2>2. pc[u] \in Critical
    BY <2>1 DEF IInv, LockOwner
  <2>3. u # t
    BY <1>2, <2>2 DEF Critical
  <2>4. QED BY <1>1, <2>2, <2>3
<1>3. CASE pc[t] \in {"retain", "push", "reading"} /\ ~ListFree(ref[t])
  <2>1. PICK u \in Threads : pc[u] = "unlink"
    BY <1>3 DEF ListFree
  <2>2. u # t /\ pc[u] \in Critical
    BY <1>3, <2>1 DEF Critical
  <2>3. QED BY <1>1, <2>2
<1>4. QED BY <1>2, <1>3 DEF Blocked

(* Two mutexes are taken one inside the other, and readers take the inner  *)
(* one alone: whoever waits, waits for a writer inside the table's mutex,  *)
(* and that writer waits for nobody.                                       *)
THEOREM WaitsForWriterHolds == Spec => []WaitsForWriter
BY WaitsForWriterLemma, Inductive, PTL

LEMMA StepShrinks ==
  ASSUME IInv, NEW t \in Threads, Step(t)
  PROVE  /\ CallLeft(pc'[t]) < CallLeft(pc[t])
         /\ \A u \in Threads \ {t} : pc'[u] = pc[u]
<1> USE DEF IInv, TypeOK, Goto, CallLeft
<1>1. CASE Lock(t) \/ Insert(t) \/ Take(t)
  BY <1>1 DEF Lock, Insert, Take
<1>2. CASE Find(t) \/ Retain(t) \/ Unlink(t)
  BY <1>2 DEF Find, Retain, Unlink, AfterUnlist
<1>3. CASE Lookup(t) \/ Push(t) \/ \E e \in Entries : Create(t, e)
  BY <1>3 DEF Lookup, Push, Create
<1>4. CASE Unlock(t) \/ Unpark(t) \/ RouteToId(t) \/ Touch(t)
  BY <1>4 DEF Unlock, Unpark, RouteToId, Touch
<1>5. QED BY <1>1, <1>2, <1>3, <1>4 DEF Step

(* No call goes round in a circle: each step of a call, and no step of     *)
(* another thread, makes what is left of it less.                          *)
THEOREM CallsAreFinite ==
  Spec => [][\A t \in Threads : Step(t) =>
               /\ CallLeft(pc'[t]) < CallLeft(pc[t])
               /\ \A u \in Threads \ {t} : pc'[u] = pc[u]]_vars
<1>1. IInv /\ [Next]_vars =>
        [\A t \in Threads : Step(t) =>
           /\ CallLeft(pc'[t]) < CallLeft(pc[t])
           /\ \A u \in Threads \ {t} : pc'[u] = pc[u]]_vars
  BY StepShrinks
<1>2. QED BY <1>1, Inductive, PTL DEF Spec
=============================================================================
