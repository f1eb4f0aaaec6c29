------------------------------ MODULE RouteTable ------------------------------
(***************************************************************************)
(* The routing table shared by every clone of a Channel and every Sender:  *)
(* two concurrent maps and the mutex that serialises their writers.        *)
(*                                                                         *)
(*   direct_route_table       DashMap<ID, Route>: the route of each peer   *)
(*   direct_route_table_time  SkipMap<RouteKey, (Mutex<Vec<ID>>, ..)>: for *)
(*                            each route the peers that use it             *)
(*   lock                     held by add_route and remove_route           *)
(*                                                                         *)
(* Readers do not take the lock.  They look an entry of the skip map up    *)
(* and keep a reference to it; the entry may be unlinked meanwhile, so an  *)
(* entry is an object of its own (Entries) that outlives its key.          *)
(* The timestamps of an entry belong to module Idle.                       *)
(***************************************************************************)
EXTENDS Naturals, Sequences, Functions, PeerList

CONSTANTS
  Threads,   \* threads that call into the library
  IDs,       \* peer identifiers
  Keys,      \* route keys: (socket index, peer address)
  Metrics,   \* (metric, rt) of a route, always written together
  Entries,   \* nodes of the skip map
  None       \* Rust's Option::None

Routes == [key : Keys, metric : Metrics]

ASSUME NoneAssumption ==
  None \notin Threads \cup IDs \cup Keys \cup Entries \cup Routes

VARIABLES
  direct_route_table,       \* [IDs -> Routes \cup {None}]
  direct_route_table_time,  \* [Keys -> Entries \cup {None}]
  ids,                      \* the Vec<ID> of each entry
  lock,                     \* owner of the table's mutex
  un_parker,                \* token of the idle thread's parker is available
  pc,                       \* control point of each thread
  id,                       \* argument: the peer a call is about
  new,                      \* argument of add_route, None in remove_route
  gone,                     \* key whose list still has to lose the peer
  ref                       \* entry a thread holds a reference to

tables == <<direct_route_table, direct_route_table_time, ids>>
locals == <<pc, id, new, gone, ref>>
vars   == <<tables, lock, un_parker, locals>>

(***************************************************************************)
(* Control points.  "insert" .. "unlock" are inside the mutex, "unpark" is *)
(* after drop(lock); "reading" and "holding" are readers of an entry, with *)
(* and without the mutex of its list.                                      *)
(***************************************************************************)
Critical == {"insert", "take", "find", "retain", "unlink",
             "lookup", "push", "create", "unlock"}
Points   == Critical \cup {"idle", "lock", "unpark", "reading", "holding"}

TypeOK ==
  /\ direct_route_table \in [IDs -> Routes \cup {None}]
  /\ direct_route_table_time \in [Keys -> Entries \cup {None}]
  /\ ids \in [Entries -> Seq(IDs)]
  /\ lock \in Threads \cup {None}
  /\ un_parker \in BOOLEAN
  /\ pc \in [Threads -> Points]
  /\ id \in [Threads -> IDs \cup {None}]
  /\ new \in [Threads -> Routes \cup {None}]
  /\ gone \in [Threads -> Keys \cup {None}]
  /\ ref \in [Threads -> Entries \cup {None}]

Init ==
  /\ direct_route_table = [i \in IDs |-> None]
  /\ direct_route_table_time = [k \in Keys |-> None]
  /\ ids = [e \in Entries |-> <<>>]
  /\ lock = None
  /\ un_parker = FALSE
  /\ pc = [t \in Threads |-> "idle"]
  /\ id = [t \in Threads |-> None]
  /\ new = [t \in Threads |-> None]
  /\ gone = [t \in Threads |-> None]
  /\ ref = [t \in Threads |-> None]

-----------------------------------------------------------------------------
Goto(t, point) == pc' = [pc EXCEPT ![t] = point]

Hold(t, e) == ref' = [ref EXCEPT ![t] = e]

Release(t) == Hold(t, None)

(* Mutation: remove_id_route_ drops the guard after retain().              *)
ListAlwaysFree(e) == e \in Entries

(* The mutex of an entry's list.  A guard outlives a step in one place:    *)
(* remove_id_route_ keeps it from retain() until the entry is unlinked.    *)
ListFree(e) == \A t \in Threads : ~(pc[t] = "unlink" /\ ref[t] = e)

(* An entry no key and no thread refers to: what insert() may allocate.    *)
Fresh(e) ==
  /\ \A k \in Keys : direct_route_table_time[k] # e
  /\ \A t \in Threads : ref[t] # e

-----------------------------------------------------------------------------
(* Calls of add_route and remove_route.                                    *)

AddRoute(t, i, r) ==
  /\ pc[t] = "idle"
  /\ Goto(t, "lock")
  /\ id' = [id EXCEPT ![t] = i]
  /\ new' = [new EXCEPT ![t] = r]
  /\ UNCHANGED <<tables, lock, un_parker, gone, ref>>

RemoveRoute(t, i) ==
  /\ pc[t] = "idle"
  /\ Goto(t, "lock")
  /\ id' = [id EXCEPT ![t] = i]
  /\ UNCHANGED <<tables, lock, un_parker, new, gone, ref>>

(* Mutation: add_route and remove_route do not exclude each other.         *)
TableAlwaysFree == TRUE

TableFree == lock = None

Lock(t) ==
  /\ pc[t] = "lock"
  /\ TableFree
  /\ lock' = t
  /\ Goto(t, IF new[t] = None THEN "take" ELSE "insert")
  /\ UNCHANGED <<tables, un_parker, id, new, gone, ref>>

(* Mutations: the old key is never left; it is left also when it is the    *)
(* new one.                                                                *)
NeverReplaces(old, r) == FALSE

AlwaysReplaces(old, r) == old # None

(* The route that insert() returns used another key. *)
Replaces(old, r) == old # None /\ old.key # r.key

(* add_route_: direct_route_table.insert(id, route), and whether the route *)
(* it replaces used another key.                                           *)
Insert(t) ==
  LET old == direct_route_table[id[t]] IN
  /\ pc[t] = "insert"
  /\ direct_route_table' = [direct_route_table EXCEPT ![id[t]] = new[t]]
  /\ IF Replaces(old, new[t])
     THEN Goto(t, "find") /\ gone' = [gone EXCEPT ![t] = old.key]
     ELSE Goto(t, "lookup") /\ UNCHANGED gone
  /\ UNCHANGED <<direct_route_table_time, ids, lock, un_parker, id, new, ref>>

(* Mutation: get in the place of remove.                                   *)
StillRouted(i) == direct_route_table

Unrouted(i) == [direct_route_table EXCEPT ![i] = None]

(* remove_route_: direct_route_table.remove(id).                           *)
Take(t) ==
  LET old == direct_route_table[id[t]] IN
  /\ pc[t] = "take"
  /\ direct_route_table' = Unrouted(id[t])
  /\ IF old # None
     THEN Goto(t, "find") /\ gone' = [gone EXCEPT ![t] = old.key]
     ELSE Goto(t, "unlock") /\ UNCHANGED gone
  /\ UNCHANGED <<direct_route_table_time, ids, lock, un_parker, id, new, ref>>

(* remove_id_route_: get the entry, retain the others, unlink if empty.    *)
AfterUnlist(t) == IF new[t] = None THEN "unlock" ELSE "lookup"

(* Mutation: add_route_ passes the new key to remove_id_route_.            *)
KeyToJoin(t) == IF new[t] = None THEN gone[t] ELSE new[t].key

KeyToLeave(t) == gone[t]

Find(t) ==
  LET e == direct_route_table_time[KeyToLeave(t)] IN
  /\ pc[t] = "find"
  /\ Hold(t, e)
  /\ Goto(t, IF e = None THEN AfterUnlist(t) ELSE "retain")
  /\ UNCHANGED <<tables, lock, un_parker, id, new, gone>>

(* Mutation: the entry stays when its list is empty.                       *)
NeverDeserted(list) == FALSE

Deserted(list) == list = <<>>

Retain(t) ==
  LET rest == Without(ids[ref[t]], id[t]) IN
  /\ pc[t] = "retain"
  /\ ListFree(ref[t])
  /\ ids' = [ids EXCEPT ![ref[t]] = rest]
  /\ IF Deserted(rest)
     THEN Goto(t, "unlink") /\ UNCHANGED ref
     ELSE Goto(t, AfterUnlist(t)) /\ Release(t)
  /\ UNCHANGED <<direct_route_table, direct_route_table_time, lock, un_parker,
                 id, new, gone>>

(* Mutation: the mutex of the list is taken again before the entry goes.   *)
UnlinkRelocks(t) ==
  /\ pc[t] = "unlink"
  /\ ListFree(ref[t])
  /\ direct_route_table_time' =
       [direct_route_table_time EXCEPT ![gone[t]] = None]
  /\ Release(t)
  /\ Goto(t, AfterUnlist(t))
  /\ UNCHANGED <<direct_route_table, ids, lock, un_parker, id, new, gone>>

Unlink(t) ==
  /\ pc[t] = "unlink"
  /\ direct_route_table_time' =
       [direct_route_table_time EXCEPT ![gone[t]] = None]
  /\ Release(t)
  /\ Goto(t, AfterUnlist(t))
  /\ UNCHANGED <<direct_route_table, ids, lock, un_parker, id, new, gone>>

(* The rest of add_route_: list the peer under its key.                    *)
Lookup(t) ==
  LET e == direct_route_table_time[new[t].key] IN
  /\ pc[t] = "lookup"
  /\ Hold(t, e)
  /\ Goto(t, IF e = None THEN "create" ELSE "push")
  /\ UNCHANGED <<tables, lock, un_parker, id, new, gone>>

Push(t) ==
  /\ pc[t] = "push"
  /\ ListFree(ref[t])
  /\ ids' = [ids EXCEPT ![ref[t]] = With(@, id[t])]
  /\ Release(t)
  /\ Goto(t, "unlock")
  /\ UNCHANGED <<direct_route_table, direct_route_table_time, lock, un_parker,
                 id, new, gone>>

Create(t, e) ==
  /\ pc[t] = "create"
  /\ Fresh(e)
  /\ direct_route_table_time' =
       [direct_route_table_time EXCEPT ![new[t].key] = e]
  /\ ids' = [ids EXCEPT ![e] = <<id[t]>>]
  /\ Goto(t, "unlock")
  /\ UNCHANGED <<direct_route_table, lock, un_parker, id, new, gone, ref>>

(* The call is over: its locals go out of scope.                           *)
Return(t) ==
  /\ id' = [id EXCEPT ![t] = None]
  /\ new' = [new EXCEPT ![t] = None]
  /\ gone' = [gone EXCEPT ![t] = None]

(* Mutation: add_route_ ends without unpark().                             *)
NeverUnparks(t) == FALSE

Unparks(t) == new[t] # None

Unlock(t) ==
  /\ pc[t] = "unlock"
  /\ lock' = None
  /\ IF Unparks(t)
     THEN Goto(t, "unpark") /\ UNCHANGED <<id, new, gone>>
     ELSE Goto(t, "idle") /\ Return(t)
  /\ UNCHANGED <<tables, un_parker, ref>>

Unpark(t) ==
  /\ pc[t] = "unpark"
  /\ un_parker' = TRUE
  /\ Goto(t, "idle")
  /\ Return(t)
  /\ UNCHANGED <<tables, lock, ref>>

-----------------------------------------------------------------------------
(* Calls that do not take the mutex.                                       *)

(* Mutation: update_route_ inserts a route where there is none.            *)
UpdateOrInsert(t, i, m) ==
  /\ pc[t] = "idle"
  /\ direct_route_table' = [direct_route_table EXCEPT ![i] =
       IF @ = None THEN [metric |-> m] ELSE [@ EXCEPT !.metric = m]]
  /\ UNCHANGED <<direct_route_table_time, ids, lock, un_parker, locals>>

(* update_route_ writes under the shard guard of get_mut: one step.        *)
UpdateRoute(t, i, m) ==
  /\ pc[t] = "idle"
  /\ direct_route_table[i] # None
  /\ direct_route_table' = [direct_route_table EXCEPT ![i].metric = m]
  /\ UNCHANGED <<direct_route_table_time, ids, lock, un_parker, locals>>

(* direct_route_table_time.get(route_key), the first step of route_to_id   *)
(* ("reading") and of whatever uses an entry's timestamps ("holding").     *)
GetEntry(t, k, purpose) ==
  /\ pc[t] = "idle"
  /\ direct_route_table_time[k] # None
  /\ Hold(t, direct_route_table_time[k])
  /\ Goto(t, purpose)
  /\ UNCHANGED <<tables, lock, un_parker, id, new, gone>>

(* route_to_id_: the first peer of the list, read under the list's mutex.  *)
RouteToId(t) ==
  /\ pc[t] = "reading"
  /\ ListFree(ref[t])
  /\ Release(t)
  /\ Goto(t, "idle")
  /\ UNCHANGED <<tables, lock, un_parker, id, new, gone>>

(* The end of a use of the entry's timestamps, which needs no mutex.       *)
Touch(t) ==
  /\ pc[t] = "holding"
  /\ Release(t)
  /\ Goto(t, "idle")
  /\ UNCHANGED <<tables, lock, un_parker, id, new, gone>>

(* The idle thread's park() consumes the token.                            *)
Park ==
  /\ un_parker
  /\ un_parker' = FALSE
  /\ UNCHANGED <<tables, lock, locals>>

-----------------------------------------------------------------------------
(* The steps of a call that has begun. *)
Step(t) ==
  \/ Lock(t) \/ Insert(t) \/ Take(t) \/ Find(t) \/ Retain(t) \/ Unlink(t)
  \/ Lookup(t) \/ Push(t) \/ (\E e \in Entries : Create(t, e))
  \/ Unlock(t) \/ Unpark(t)
  \/ RouteToId(t) \/ Touch(t)

Call(t) ==
  \/ \E i \in IDs, r \in Routes : AddRoute(t, i, r)
  \/ \E i \in IDs : RemoveRoute(t, i)
  \/ \E i \in IDs, m \in Metrics : UpdateRoute(t, i, m)
  \/ \E k \in Keys, purpose \in {"reading", "holding"} :
       GetEntry(t, k, purpose)

Next == Park \/ \E t \in Threads : Call(t) \/ Step(t)

Spec == Init /\ [][Next]_vars

-----------------------------------------------------------------------------
(* Peer i is in the list of key k; the route of peer i uses key k. *)
Listed(i, k) ==
  /\ direct_route_table_time[k] # None
  /\ i \in Range(ids[direct_route_table_time[k]])

Routed(i, k) ==
  /\ direct_route_table[i] # None
  /\ direct_route_table[i].key = k

(* add_route_ and remove_route_ update two maps one after the other.  When *)
(* the mutex is free the maps agree: a peer is listed under exactly the    *)
(* key of its route, and no entry with an empty list is left behind.       *)
Agreement ==
  lock = None =>
    /\ \A i \in IDs, k \in Keys : Listed(i, k) <=> Routed(i, k)
    /\ \A k \in Keys : direct_route_table_time[k] # None
                          => ids[direct_route_table_time[k]] # <<>>

(* At every instant, so also for the readers that take no lock, a peer is  *)
(* listed at most once and under at most one key: add_route_ leaves the    *)
(* old key before it joins the new one.                                    *)
OneListing ==
  /\ \A i \in IDs, k, l \in Keys : Listed(i, k) /\ Listed(i, l) => k = l
  /\ \A k \in Keys : direct_route_table_time[k] # None
                        => IsInjective(ids[direct_route_table_time[k]])

(* route_to_id is wrong about a peer only while a writer that has changed  *)
(* the peer's route is on its way to take it off the old list.             *)
StaleOnlyInFlight ==
  \A i \in IDs, k \in Keys :
    Listed(i, k) /\ ~Routed(i, k) =>
      \E t \in Threads : /\ pc[t] \in {"find", "retain"}
                          /\ id[t] = i
                          /\ gone[t] = k

(* Whoever gets the list's mutex of an entry that is still in the skip map *)
(* finds a peer in it, and whoever still refers to an unlinked entry finds *)
(* none: an unlinked entry is never brought back to life.                  *)
EmptyMeansUnlinked ==
  /\ \A k \in Keys :
       LET e == direct_route_table_time[k]
       IN  e # None /\ ListFree(e) => ids[e] # <<>>
  /\ \A t \in Threads :
       ref[t] # None /\ (\A k \in Keys : direct_route_table_time[k] # ref[t])
         => ids[ref[t]] = <<>>

(* A peer leaves a list only after its route has left the key: refreshing  *)
(* a route, or adding another peer to it, never hides it from route_to_id  *)
(* and next_idle.                                                          *)
UnlistAfterReroute ==
  [][\A i \in IDs, k \in Keys : Listed(i, k) /\ ~Listed(i, k)'
                                 => ~Routed(i, k)]_vars

(* The answer of route_to_id for a key, the first peer of its list, stays  *)
(* the same until that peer's own route leaves the key.                    *)
FirstIsStable ==
  [][\A k \in Keys :
       LET e == direct_route_table_time[k]
           f == direct_route_table_time'[k]
       IN  e # None /\ ids[e] # <<>> =>
             \/ f # None /\ ids'[f] # <<>> /\ Head(ids'[f]) = Head(ids[e])
             \/ ~Routed(Head(ids[e]), k)]_vars

-----------------------------------------------------------------------------
(* The inductive invariant: what is true between any two steps of any      *)
(* threads.  Agreement speaks of a free mutex only; its proof needs to say *)
(* how far the writer inside the mutex has come.                           *)
Settling == {"find", "retain", "unlink", "lookup", "push", "create"}

(* The mutex excludes, and each step finds the locals it uses. *)
LockOwner == \A t \in Threads : pc[t] \in Critical <=> lock = t

LocalsSet ==
  \A t \in Threads :
    /\ pc[t] \in Critical \cup {"lock", "unpark"} => id[t] # None
    /\ pc[t] \in {"insert", "lookup", "push", "create"} => new[t] # None
    /\ pc[t] = "take" => new[t] = None
    /\ pc[t] \in {"find", "retain", "unlink"} =>
         gone[t] # None /\ (new[t] # None => new[t].key # gone[t])
    /\ pc[t] \in {"retain", "unlink", "push", "reading", "holding"}
         <=> ref[t] # None

(* The entry a writer refers to is the one its key leads to, and no two    *)
(* keys lead to one entry.                                                 *)
EntryOfKey ==
  /\ \A t \in Threads :
       /\ pc[t] \in {"retain", "unlink"} =>
            direct_route_table_time[gone[t]] = ref[t]
       /\ pc[t] = "push" => direct_route_table_time[new[t].key] = ref[t]
       /\ pc[t] = "create" => direct_route_table_time[new[t].key] = None
  /\ \A k, l \in Keys :
       direct_route_table_time[k] # None
         /\ direct_route_table_time[k] = direct_route_table_time[l] => k = l

(* Lists hold a peer once; the list of an unlinked entry is empty, and a   *)
(* linked entry with an empty list is about to be unlinked.                *)
ListsSound ==
  /\ \A e \in Entries : IsInjective(ids[e])
  /\ \A e \in Entries :
       (\A k \in Keys : direct_route_table_time[k] # e) => ids[e] = <<>>
  /\ \A t \in Threads : pc[t] = "unlink" => ids[ref[t]] = <<>>
  /\ \A k \in Keys :
       LET e == direct_route_table_time[k]
       IN  e # None /\ ids[e] = <<>> =>
             \E t \in Threads : pc[t] = "unlink" /\ ref[t] = e

(* The maps agree on every peer but the one a writer is moving, and about  *)
(* that one they differ exactly by the steps the writer has still to do.   *)
MapsAgree ==
  /\ \A i \in IDs :
       (\A t \in Threads : pc[t] \in Settling => id[t] # i) =>
         \A k \in Keys : Listed(i, k) <=> Routed(i, k)
  /\ \A t \in Threads, i \in IDs, k \in Keys : id[t] = i =>
       /\ pc[t] \in Settling =>
            (Routed(i, k) <=> new[t] # None /\ new[t].key = k)
       /\ pc[t] \in {"find", "retain"} => (Listed(i, k) <=> k = gone[t])
       /\ pc[t] = "unlink" => ~Listed(i, k)
       /\ pc[t] \in {"lookup", "push", "create"} =>
            (Listed(i, k) => k = new[t].key)

IInv ==
  TypeOK /\ LockOwner /\ LocalsSet /\ EntryOfKey /\ ListsSound /\ MapsAgree

-----------------------------------------------------------------------------
(* The table implements the registry.  Its users see an operation happen   *)
(* when the DashMap changes; the lists the writer has still to bring in    *)
(* line are read as it will leave them.                                    *)
ListOf(k) ==
  IF direct_route_table_time[k] = None THEN <<>>
  ELSE ids[direct_route_table_time[k]]

Settled(k) ==
  IF \E t \in Threads : pc[t] \in Settling
  THEN LET t == CHOOSE u \in Threads : pc[u] \in Settling
       IN  IF new[t] # None /\ new[t].key = k THEN With(ListOf(k), id[t])
           ELSE Without(ListOf(k), id[t])
  ELSE ListOf(k)

R == INSTANCE Registry WITH route <- direct_route_table,
                            users <- [k \in Keys |-> Settled(k)]

(* Every behaviour of the table, with its interleaved steps, is one of the *)
(* registry, in which add_route and remove_route are atomic.               *)
RegistrySpec == R!Spec
=============================================================================
