--------------------------------- MODULE Idle ---------------------------------
(***************************************************************************)
(* The idle detector.  One thread calls next_idle in a loop: it scans the  *)
(* entries of the routing table, returns the first whose read or write     *)
(* timestamp is too old, and otherwise parks, for as long as the oldest    *)
(* timestamp it has seen is old, until a new route is added or the channel *)
(* is closed.  Its caller is the one of examples/peer.rs, which removes    *)
(* the first peer of the list it is given.  The other threads receive and  *)
(* send datagrams, which stores timestamps, and add and remove routes.     *)
(*                                                                         *)
(* The scan holds an entry ("holding") between two loads, as any reader    *)
(* does: to the table every step here is one of RouteTable, or none, or    *)
(* the token that close() makes available.                                 *)
(***************************************************************************)
EXTENDS RouteTable

CONSTANTS
  Idler,       \* the thread that calls next_idle
  read_idle,   \* 0 switches a check off
  write_idle,
  MaxTime,     \* bound of the clock
  Prompt       \* the idle thread and the stores of timestamps take no time

ASSUME IdleAssumption ==
  /\ Idler \in Threads
  /\ read_idle \in Nat /\ write_idle \in Nat
  /\ MaxTime \in Nat
  /\ Prompt \in BOOLEAN
  /\ Keys \subseteq Nat \ {0}     \* the order of the skip map
  /\ None \notin {"Read", "Write", "Both"}

VARIABLES
  status,      \* Status: Cone and Symmetric are "Open" here, or "Close"
  closing,     \* close() has stored Close and not yet called unpark
  now,         \* chrono::Local::now(), in units of the idle times
  last_read,   \* timestamps of each entry
  last_write,
  stamp,       \* clock value a thread has read and not yet stored
  at,          \* control point of the idle thread
  start,       \* `now` of this round of next_idle
  cursor,      \* key the scan has reached
  min,         \* oldest timestamp seen in this round
  verdict,     \* IdleStatus of the entry at hand, None while not idle
  report,      \* peers in the answer of next_idle
  deadline     \* end of park_timeout

clock    == <<now, stamp>>
stamps   == <<last_read, last_write>>
scan     == <<start, cursor, min, verdict, report, deadline>>
idleVars == <<vars, status, closing, clock, stamps, at, scan>>

Never == MaxTime + 1     \* i64::MAX

(* "out": in the caller; "panicked": the caller indexed an empty list.     *)
IdlePoints == {"out", "scan", "read", "write", "collect", "return", "empty",
               "parked", "sleep", "check", "stopped", "panicked"}

IdleTypeOK ==
  /\ TypeOK
  /\ status \in {"Open", "Close"}
  /\ closing \in BOOLEAN
  /\ now \in 0 .. MaxTime
  /\ last_read \in [Entries -> 0 .. MaxTime]
  /\ last_write \in [Entries -> 0 .. MaxTime]
  /\ stamp \in [Threads -> 0 .. MaxTime \cup {None}]
  /\ at \in IdlePoints
  /\ start \in 0 .. MaxTime
  /\ cursor \in Keys \cup {0}
  /\ min \in 0 .. Never
  /\ verdict \in {None, "Read", "Write", "Both"}
  /\ report \in Seq(IDs)
  /\ deadline \in 0 .. 2 * MaxTime

IdleInit ==
  /\ Init
  /\ status = "Open"
  /\ closing = FALSE
  /\ now = 0
  /\ last_read = [e \in Entries |-> 0]
  /\ last_write = [e \in Entries |-> 0]
  /\ stamp = [t \in Threads |-> None]
  /\ at = "out"
  /\ start = 0
  /\ cursor = 0
  /\ min = Never
  /\ verdict = None
  /\ report = <<>>
  /\ deadline = 0

-----------------------------------------------------------------------------
(* next_idle *)

(* The head of the loop. *)
Round ==
  /\ at' = "scan"
  /\ start' = now
  /\ cursor' = 0
  /\ min' = Never

NextIdle ==
  /\ at = "out"
  /\ pc[Idler] = "idle"
  /\ Round
  /\ UNCHANGED <<vars, status, closing, clock, stamps, verdict, report, deadline>>

(* The locals of a round go out of scope. *)
Forget == cursor' = 0 /\ min' = Never

(* The iterator moves to the next key that is linked now.                  *)
Ahead == {k \in Keys : k > cursor /\ direct_route_table_time[k] # None}

Advance(k) ==
  /\ at = "scan"
  /\ k \in Ahead
  /\ \A l \in Ahead : k <= l
  /\ GetEntry(Idler, k, "holding")
  /\ at' = "read"
  /\ cursor' = k
  /\ UNCHANGED <<status, closing, clock, stamps, start, min, verdict, report, deadline>>

(* Mutation: the loop over the entries ends after one of them.             *)
ScanEndsEarly ==
  /\ at = "scan"
  /\ Ahead = {} \/ cursor # 0
  /\ at' = "empty"
  /\ UNCHANGED <<vars, status, closing, clock, stamps, scan>>

ScanEnd ==
  /\ at = "scan"
  /\ Ahead = {}
  /\ at' = "empty"
  /\ UNCHANGED <<vars, status, closing, clock, stamps, scan>>

Older(s) == min' = IF s < min THEN s ELSE min

LoadRead ==
  LET s == last_read[ref[Idler]] IN
  /\ at = "read"
  /\ at' = "write"
  /\ IF read_idle = 0 THEN UNCHANGED <<min, verdict>>
     ELSE IF s + read_idle < start THEN verdict' = "Read" /\ UNCHANGED min
     ELSE Older(s) /\ UNCHANGED verdict
  /\ UNCHANGED <<vars, status, closing, clock, stamps, start, cursor, report, deadline>>

LoadWrite ==
  LET s    == last_write[ref[Idler]]
      late == write_idle > 0 /\ s + write_idle < start
  IN
  /\ at = "write"
  /\ IF write_idle > 0 /\ ~late THEN Older(s) ELSE UNCHANGED min
  /\ verdict' = IF late THEN IF verdict = None THEN "Write" ELSE "Both"
                ELSE verdict
  /\ IF verdict' = None THEN at' = "scan" /\ Touch(Idler)
     ELSE at' = "collect" /\ UNCHANGED vars
  /\ UNCHANGED <<status, closing, clock, stamps, start, cursor, report, deadline>>

(* entry.value().0.lock().clone(), and the answer to the caller.           *)
Collect ==
  /\ at = "collect"
  /\ ListFree(ref[Idler])
  /\ report' = ids[ref[Idler]]
  /\ Touch(Idler)
  /\ at' = "return"
  /\ Forget
  /\ UNCHANGED <<status, closing, clock, stamps, start, verdict, deadline>>

(* The caller: remove_route(&id[0]).                                       *)
Handle ==
  /\ at = "return"
  /\ IF report = <<>>
     THEN at' = "panicked" /\ UNCHANGED vars
     ELSE at' = "out" /\ RemoveRoute(Idler, Head(report))
  /\ report' = <<>>
  /\ verdict' = None
  /\ UNCHANGED <<status, closing, clock, stamps, start, cursor, min, deadline>>

(* Mutation: no test of sleep_time > 0.                                    *)
EmptyUnguarded ==
  /\ at = "empty"
  /\ IF \A k \in Keys : direct_route_table_time[k] = None
     THEN at' = "parked" /\ UNCHANGED deadline
     ELSE at' = "sleep" /\ deadline' = now + (now - min)
  /\ Forget
  /\ UNCHANGED <<vars, status, closing, clock, stamps, start, verdict, report>>

(* is_empty() and what to do about it: sleep_time is now - min.            *)
Empty ==
  /\ at = "empty"
  /\ IF \A k \in Keys : direct_route_table_time[k] = None
     THEN at' = "parked" /\ UNCHANGED deadline
     ELSE IF now > min
     THEN at' = "sleep" /\ deadline' = now + (now - min)
     ELSE at' = "check" /\ UNCHANGED deadline
  /\ Forget
  /\ UNCHANGED <<vars, status, closing, clock, stamps, start, verdict, report>>

Wake ==
  /\ \/ at \in {"parked", "sleep"} /\ Park
     \/ at = "sleep" /\ now >= deadline /\ ~un_parker /\ UNCHANGED vars
  /\ at' = "check"
  /\ deadline' = 0
  /\ UNCHANGED <<status, closing, clock, stamps, start, cursor, min, verdict, report>>

Check ==
  /\ at = "check"
  /\ IF status = "Close"
     THEN at' = "stopped" /\ UNCHANGED <<start, cursor, min>>
     ELSE Round
  /\ UNCHANGED <<vars, status, closing, clock, stamps, verdict, report, deadline>>

-----------------------------------------------------------------------------
(* The other threads. *)

(* Mutations: unpark before the store; no unpark.                          *)
CloseUnparkFirst ==
  /\ status = "Open"
  /\ status' = "Close"
  /\ UNCHANGED <<vars, closing, clock, stamps, at, scan>>

CloseQuietly ==
  /\ closing
  /\ closing' = FALSE
  /\ UNCHANGED <<vars, status, clock, stamps, at, scan>>

(* close(): the store of the status, then unpark.                          *)
CloseStatus ==
  /\ status = "Open"
  /\ status' = "Close"
  /\ closing' = TRUE
  /\ UNCHANGED <<vars, clock, stamps, at, scan>>

CloseUnpark ==
  /\ closing
  /\ closing' = FALSE
  /\ un_parker' = TRUE
  /\ UNCHANGED <<tables, lock, locals, status, clock, stamps, at, scan>>

(* update_time and send_to_route: the clock is read with the entry already *)
(* looked up, and stored later.  add_route_ reads it before insert().      *)
ReadClock(t) ==
  /\ pc[t] \in {"holding", "create"}
  /\ stamp[t] = None
  /\ stamp' = [stamp EXCEPT ![t] = now]
  /\ UNCHANGED <<vars, status, closing, now, stamps, at, scan>>

StoreRead(t) ==
  /\ read_idle > 0      \* nobody loads it otherwise
  /\ stamp[t] # None
  /\ Touch(t)
  /\ last_read' = [last_read EXCEPT ![ref[t]] = stamp[t]]
  /\ stamp' = [stamp EXCEPT ![t] = None]
  /\ UNCHANGED <<status, closing, now, last_write, at, scan>>

StoreWrite(t) ==
  /\ write_idle > 0     \* nobody loads it otherwise
  /\ stamp[t] # None
  /\ Touch(t)
  /\ last_write' = [last_write EXCEPT ![ref[t]] = stamp[t]]
  /\ stamp' = [stamp EXCEPT ![t] = None]
  /\ UNCHANGED <<status, closing, now, last_read, at, scan>>

CreateStamped(t, e) ==
  /\ stamp[t] # None
  /\ Create(t, e)
  /\ last_read' = [last_read EXCEPT ![e] = stamp[t]]
  /\ last_write' = [last_write EXCEPT ![e] = stamp[t]]
  /\ stamp' = [stamp EXCEPT ![t] = None]
  /\ UNCHANGED <<status, closing, now, at, scan>>

(* The steps of add_route and remove_route that deal with no timestamp.    *)
TableStep(t) ==
  /\ \/ Lock(t) \/ Insert(t) \/ Take(t) \/ Find(t) \/ Retain(t) \/ Unlink(t)
     \/ Lookup(t) \/ Push(t) \/ Unlock(t) \/ Unpark(t) \/ RouteToId(t)
  /\ UNCHANGED <<status, closing, clock, stamps, at, scan>>

TableCall(t) ==
  /\ Call(t)
  /\ UNCHANGED <<status, closing, clock, stamps, at, scan>>

(* The idle thread waits: parked, or asleep, or spinning in next_idle      *)
(* because the oldest timestamp is not a unit old.                         *)
Waiting ==
  \/ at \in {"stopped", "panicked"}
  \/ at = "parked" /\ ~un_parker
  \/ at = "sleep" /\ ~un_parker /\ now < deadline
  \/ at = "check" /\ now = start

Tick ==
  /\ now < MaxTime
  /\ Prompt => Waiting /\ \A t \in Threads : stamp[t] = None
  /\ now' = now + 1
  /\ UNCHANGED <<vars, status, closing, stamps, stamp, at, scan>>

-----------------------------------------------------------------------------
IdleStep ==
  \/ NextIdle \/ (\E k \in Keys : Advance(k)) \/ ScanEnd
  \/ LoadRead \/ LoadWrite \/ Collect \/ Handle
  \/ Empty \/ Wake \/ Check
  \/ TableStep(Idler)

UserStep(t) ==
  \/ TableStep(t)
  \/ ReadClock(t) \/ StoreRead(t) \/ StoreWrite(t)
  \/ \E e \in Entries : CreateStamped(t, e)

Users == Threads \ {Idler}

IdleNext ==
  \/ IdleStep
  \/ \E t \in Users : TableCall(t) \/ UserStep(t)
  \/ CloseStatus \/ CloseUnpark
  \/ Tick

IdleSpec == IdleInit /\ [][IdleNext]_idleVars

(* Each thread runs; parking_lot's mutexes are eventually fair, so one that *)
(* waits for the table's mutex gets it.                                    *)
IdleFairness ==
  /\ WF_idleVars(IdleStep) /\ SF_idleVars(Lock(Idler) /\ IdleStep)
  /\ \A t \in Users : WF_idleVars(UserStep(t))
                      /\ SF_idleVars(Lock(t) /\ UserStep(t))
  /\ WF_idleVars(CloseUnpark)

IdleFairSpec == IdleSpec /\ IdleFairness

-----------------------------------------------------------------------------
Linked(k) == direct_route_table_time[k] # None

(* next_idle tests is_empty() and parks without a time limit.  An          *)
(* add_route that links an entry in between must not be missed: while the  *)
(* thread is parked with a route in the table, the token is there or the   *)
(* writer is on its way to unpark().                                       *)
NoLostWake ==
  at = "parked" /\ (\E k \in Keys : Linked(k)) =>
    \/ un_parker
    \/ \E t \in Users : pc[t] \in {"unlock", "unpark"} /\ new[t] # None

(* The same for close(): an idle thread that waits after Close was stored  *)
(* is about to be woken.                                                   *)
CloseWakes ==
  at \in {"parked", "sleep"} /\ status = "Close" => un_parker \/ closing

(* How late an idle route is noticed.  The thread sleeps for the age of    *)
(* the oldest timestamp, so a route is found at most the larger of the two *)
(* idle times after its own has run out, and no later.                     *)
Slack == IF read_idle > write_idle THEN read_idle ELSE write_idle

Overdue(k, extra) ==
  LET e == direct_route_table_time[k]
  IN  \/ read_idle > 0 /\ now > last_read[e] + read_idle + extra
      \/ write_idle > 0 /\ now > last_write[e] + write_idle + extra

DetectedInTime ==
  Prompt /\ at = "sleep" =>
    \A k \in Keys : Linked(k) => ~Overdue(k, Slack)

(* examples/peer.rs takes id[0] of every answer.                           *)
ReportsAPeer == at = "return" => report # <<>>

(* An answer without a peer is about a route that has left the table: a    *)
(* caller that ignores it loses nothing.                                   *)
EmptyReportIsGone ==
  [][at = "collect" /\ at' = "return" /\ report' = <<>> =>
       \A k \in Keys : direct_route_table_time[k] # ref[Idler]]_idleVars

(* Every call returns: no thread waits forever for the table's mutex or    *)
(* for the mutex of a list.                                                *)
EveryCallReturns ==
  \A t \in Threads : pc[t] # "idle" ~> pc[t] = "idle"

(* After close() the idle thread stops, whatever it was doing, once nobody *)
(* adds routes any more.                                                   *)
Quiet == \A t \in Threads : new[t] = None

CloseStopsIdle ==
  <>[]Quiet => (status = "Close" ~> at \in {"stopped", "panicked"})
=============================================================================
