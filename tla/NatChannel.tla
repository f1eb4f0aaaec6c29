------------------------------ MODULE NatChannel ------------------------------
(***************************************************************************)
(* The clones of a Channel and the change of the NAT type under them.      *)
(*                                                                         *)
(* Every clone has a poll of its own and is read by one thread, in a loop  *)
(* of recv_from that ends with the first error.  All clones share the      *)
(* status, the list of wakers and share_info, the group of sockets that a  *)
(* symmetric NAT needs; each keeps in udp_list its copy of the group.      *)
(* set_nat_type and close store the status and wake the polls; a clone     *)
(* that handles its CHANGE event brings udp_list in line.                  *)
(*                                                                         *)
(* A poll is an edge-triggered epoll: its ready list has each token once,  *)
(* in the order the sockets became readable, and poll() takes the first    *)
(* tokens whose socket still is.  A socket buffers one datagram.           *)
(*                                                                         *)
(* A clone nobody receives from (a sender's, say) is one that stays "out". *)
(***************************************************************************)
EXTENDS Integers, Sequences, FiniteSets, Functions

CONSTANTS
  Clones,       \* the Channel objects there may ever be
  First,        \* the one Boot::new makes
  Controllers,  \* threads that call set_nat_type or close
  Gens,         \* names for the groups of sockets bind makes
  size,         \* sockets of a group
  capacity,     \* of Events: 256
  Traffic,      \* groups that peers send to; 0 is the default socket
  CanFail,      \* bind, the copy of a socket and wake() may fail
  None

ASSUME NatAssumption ==
  /\ First \in Clones
  /\ Gens \subseteq Nat \ {0}
  /\ \A used \in [Clones -> Gens \cup {0}] : Gens \ Range(used) # {}
  /\ size \in Nat \ {0}
  /\ size <= 100000             \* the tokens of a group end at DEFAULT_TOKEN
  /\ capacity \in Nat \ {0}
  /\ Traffic \subseteq Gens \cup {0}
  /\ CanFail \in BOOLEAN
  /\ None \notin Controllers \cup {"Cone", "Symmetric", "Close"}

VARIABLES
  status,             \* Status
  change_waker_list,  \* clones whose waker is in the list
  list_lock,          \* owner of the mutex of that list
  share_info,         \* the group the next clone will copy
  udp_list,           \* the group each clone listens on
  ready,              \* ready list of each clone's poll
  events,             \* events of the last poll() still to be looked at
  pending,            \* sockets with a datagram in their buffer
  at,                 \* control point of each clone
  index,              \* loop variable of recv_from
  seen,               \* status a change has loaded
  ctl,                \* control point of each controller
  want,               \* status it is asked to set
  to_wake,            \* clones it has not woken yet
  stale,              \* (ghost) the status was set since the clone loaded it,
                      \* or since it was dropped
  lost                \* (ghost) the clone threw a CHANGE event away, or was
                      \* never sent it because wake() failed

shared   == <<status, change_waker_list, list_lock, share_info>>
polls    == <<ready, events, pending>>
receiver == <<at, index, seen>>
control  == <<ctl, want, to_wake>>
ghosts   == <<stale, lost>>
vars     == <<shared, udp_list, polls, receiver, control, ghosts>>

-----------------------------------------------------------------------------
DEFAULT_TOKEN == 100000
CHANGE_TOKEN  == 100001

Types == {"Cone", "Symmetric"}

(* A group: its generation and how many sockets it has.  Its sockets are   *)
(* the pairs <<gen, i>>; the default socket is <<0, 0>>.                   *)
Groups == [gen : Gens \cup {0}, len : 0 .. size]
Empty  == [gen |-> 0, len |-> 0]

SocketsOf(g) == {<<g.gen, i>> : i \in 0 .. (g.len - 1)}
Default      == <<0, 0>>
Sockets      == {Default} \cup (Gens \X (0 .. (size - 1)))

Tokens == (0 .. (size - 1)) \cup {DEFAULT_TOKEN, CHANGE_TOKEN}
TokenOf(s) == IF s = Default THEN DEFAULT_TOKEN ELSE s[2]

(* "unborn" .. "gone": not receiving.  "cloning", "cloned", "copying": in  *)
(* try_clone.  "failed": try_clone has returned an error.                  *)
Receiving == {"out", "udp", "poll", "event", "apply"}
Points == Receiving \cup {"unborn", "cloning", "cloned", "copying", "failed",
                          "dropping", "gone"}

(* Clones whose poll exists, and what is registered with it.               *)
HasPoll(c) == at[c] \in Receiving \cup {"cloned", "copying", "dropping"}

Registered(c) == IF HasPoll(c) \/ at[c] = "cloning"
                 THEN {Default} \cup SocketsOf(udp_list[c]) ELSE {}

Open == {Default} \cup SocketsOf(share_info)
                  \cup UNION {SocketsOf(udp_list[c]) : c \in Clones}

(* The elements of s that are in S, in their order.                        *)
Only(s, S) ==
  LET D      == {j \in DOMAIN s : s[j] \in S}
      Nth(n) == CHOOSE j \in D : Cardinality({i \in D : i < j}) + 1 = n
  IN  [n \in 1 .. Cardinality(D) |-> s[Nth(n)]]

Raise(q, token) == IF token \in Range(q) THEN q ELSE Append(q, token)

(* The tokens poll() would return to clone c. *)
Readable(c, token) ==
  CASE token = CHANGE_TOKEN  -> TRUE
    [] token = DEFAULT_TOKEN -> Default \in pending
    [] OTHER -> <<udp_list[c].gen, token>> \in pending

Live(c) == Only(ready[c], {token \in Tokens : Readable(c, token)})

TypeOK ==
  /\ status \in Types \cup {"Close"}
  /\ change_waker_list \subseteq Clones
  /\ list_lock \in Controllers \cup {None}
  /\ share_info \in Groups
  /\ udp_list \in [Clones -> Groups]
  /\ ready \in [Clones -> Seq(Tokens)]
  /\ events \in [Clones -> Seq(Tokens)]
  /\ pending \subseteq Sockets
  /\ at \in [Clones -> Points]
  /\ index \in [Clones -> 0 .. (size - 1)]
  /\ seen \in [Clones -> Types \cup {None}]
  /\ ctl \in [Controllers -> {"idle", "lock", "load", "store", "wake"}]
  /\ want \in [Controllers -> Types \cup {"Close", None}]
  /\ to_wake \in [Controllers -> SUBSET Clones]
  /\ stale \in [Clones -> BOOLEAN]
  /\ lost \in [Clones -> BOOLEAN]

Init ==
  /\ status = "Cone"
  /\ change_waker_list = {First}
  /\ list_lock = None
  /\ share_info = Empty
  /\ udp_list = [c \in Clones |-> Empty]
  /\ ready = [c \in Clones |-> <<>>]
  /\ events = [c \in Clones |-> <<>>]
  /\ pending = {}
  /\ at = [c \in Clones |-> IF c = First THEN "out" ELSE "unborn"]
  /\ index = [c \in Clones |-> 0]
  /\ seen = [c \in Clones |-> None]
  /\ ctl = [k \in Controllers |-> "idle"]
  /\ want = [k \in Controllers |-> None]
  /\ to_wake = [k \in Controllers |-> {}]
  /\ stale = [c \in Clones |-> FALSE]
  /\ lost = [c \in Clones |-> FALSE]

-----------------------------------------------------------------------------
Goto(c, point) == at' = [at EXCEPT ![c] = point]

(* A datagram arrives at a socket with room for it.                        *)
Arrive(s) ==
  /\ s \in Open \ pending
  /\ s[1] \in Traffic
  /\ pending' = pending \cup {s}
  /\ ready' = [c \in Clones |-> IF s \in Registered(c)
                                THEN Raise(ready[c], TokenOf(s)) ELSE ready[c]]
  /\ UNCHANGED <<shared, udp_list, events, receiver, control, ghosts>>

-----------------------------------------------------------------------------
(* recv_from.  A thread between two calls is about to try the default      *)
(* socket, as it is at the head of the loop.                               *)

(* A datagram is returned: the events not looked at are forgotten.         *)
Deliver(c, s) ==
  /\ pending' = pending \ {s}
  /\ Goto(c, "out")
  /\ index' = [index EXCEPT ![c] = 0]
  /\ events' = [events EXCEPT ![c] = <<>>]
  /\ lost' = [lost EXCEPT ![c] = @ \/ CHANGE_TOKEN \in Range(events[c])]

(* Mutation: for index in 0..=udp_list.len().                              *)
TryOneMore(c, i) ==
  /\ Goto(c, IF i <= udp_list[c].len THEN "udp" ELSE "poll")
  /\ index' = [index EXCEPT ![c] = IF i <= udp_list[c].len THEN i ELSE 0]
  /\ UNCHANGED <<events, pending, lost>>

(* The sockets from index i on are tried next, then poll().                *)
Try(c, i) ==
  /\ Goto(c, IF i < udp_list[c].len THEN "udp" ELSE "poll")
  /\ index' = [index EXCEPT ![c] = IF i < udp_list[c].len THEN i ELSE 0]
  /\ UNCHANGED <<events, pending, lost>>

(* Mutation: poll() before any socket is tried.                            *)
PollFirst(c) ==
  /\ at[c] = "out"
  /\ Goto(c, "poll")
  /\ UNCHANGED <<shared, udp_list, polls, index, seen, control, ghosts>>

TryDefault(c) ==
  /\ at[c] = "out"
  /\ IF Default \in pending THEN Deliver(c, Default) ELSE Try(c, 0)
  /\ UNCHANGED <<shared, udp_list, ready, seen, control, stale>>

TryUdp(c) ==
  LET s == <<udp_list[c].gen, index[c]>> IN
  /\ at[c] = "udp"
  /\ IF s \in pending THEN Deliver(c, s) ELSE Try(c, index[c] + 1)
  /\ UNCHANGED <<shared, udp_list, ready, seen, control, stale>>

(* poll() fills the batch; what has no room in it stays for the next poll. *)
Poll(c) ==
  LET n == IF Len(Live(c)) > capacity THEN capacity ELSE Len(Live(c)) IN
  /\ at[c] = "poll"
  /\ n > 0
  /\ events' = [events EXCEPT ![c] = SubSeq(Live(c), 1, n)]
  /\ ready' = [ready EXCEPT ![c] = SubSeq(Live(c), n + 1, Len(Live(c)))]
  /\ Goto(c, "event")
  /\ UNCHANGED <<shared, udp_list, pending, index, seen, control, ghosts>>

(* poll() with a timeout comes back without events: "timeout".             *)
PollTimeout(c) ==
  /\ at[c] = "poll"
  /\ Live(c) = <<>>
  /\ Goto(c, "out")
  /\ UNCHANGED <<shared, udp_list, polls, index, seen, control, ghosts>>

(* The loop over the events goes on with the rest of them, or is over.     *)
NextEvent(c, rest) ==
  /\ events' = [events EXCEPT ![c] = rest]
  /\ Goto(c, IF rest = <<>> THEN "out" ELSE "event")

(* An event of a socket; its token may by now mean another socket, or none *)
(* if a CHANGE event came before it.                                       *)
Event(c) ==
  LET token == Head(events[c])
      s     == IF token = DEFAULT_TOKEN THEN Default
               ELSE <<udp_list[c].gen, token>>
  IN
  /\ at[c] = "event"
  /\ token # CHANGE_TOKEN
  /\ IF s \in Registered(c) \cap pending THEN Deliver(c, s)
     ELSE NextEvent(c, Tail(events[c])) /\ UNCHANGED <<pending, index, lost>>
  /\ UNCHANGED <<shared, udp_list, ready, seen, control, stale>>

-----------------------------------------------------------------------------
(* change(), called for a CHANGE event and by try_clone.                   *)
Called(c) == at[c] = "event" /\ Head(events[c]) = CHANGE_TOKEN

Applying(c) == at[c] \in {"apply", "copying"}

(* An error of change() ends the loop of recv_from, and try_clone.         *)
Fail(c) ==
  /\ Goto(c, IF at[c] \in {"event", "apply"} THEN "dropping" ELSE "failed")
  /\ events' = [events EXCEPT ![c] = <<>>]

Succeed(c) ==
  IF at[c] = "apply" THEN NextEvent(c, events[c])
  ELSE Goto(c, "out") /\ UNCHANGED events

(* Mutation: change() has no arm for a closed channel.                     *)
NeverClosed == FALSE

Closed == status = "Close"

(* status.load() is made before the lock of share_info is taken.           *)
ChangeLoad(c) ==
  /\ Called(c) \/ at[c] = "cloned"
  /\ stale' = [stale EXCEPT ![c] = FALSE]
  /\ lost' = [lost EXCEPT ![c] = FALSE]
  /\ IF Closed
     THEN Fail(c) /\ UNCHANGED seen
     ELSE /\ Goto(c, IF at[c] = "event" THEN "apply" ELSE "copying")
          /\ seen' = [seen EXCEPT ![c] = status]
          /\ events' = [events EXCEPT ![c] = IF @ = <<>> THEN @ ELSE Tail(@)]
  /\ UNCHANGED <<shared, udp_list, ready, pending, index, control>>

(* Under that lock: the clone drops its group, and with it the events of   *)
(* the group, and for a symmetric NAT registers the shared one.            *)
Relisten(c, g) ==
  /\ udp_list' = [udp_list EXCEPT ![c] = g]
  /\ LET kept == Only(ready[c], {DEFAULT_TOKEN, CHANGE_TOKEN})
         new  == Only([i \in 1 .. g.len |-> i - 1],
                      {token \in Tokens : <<g.gen, token>> \in pending})
     IN  ready' = [ready EXCEPT ![c] = kept \o new]

Used == {share_info.gen} \cup {udp_list[c].gen : c \in Clones}

FreshGen == CHOOSE g \in Gens : g \notin Used

Leave(c) == seen' = [seen EXCEPT ![c] = None]

(* Mutation: udp_list is cleared, share_info is not.                       *)
NotCleared(g) == g

Cleared(g) == Empty

ChangeCone(c) ==
  /\ Applying(c)
  /\ seen[c] = "Cone"
  /\ Relisten(c, Empty)
  /\ share_info' = Cleared(share_info)
  /\ pending' = pending \cap Open'
  /\ Succeed(c)
  /\ Leave(c)
  /\ UNCHANGED <<status, change_waker_list, list_lock, index, control, ghosts>>

ChangeSymmetric(c) ==
  /\ Applying(c)
  /\ seen[c] = "Symmetric"
  /\ share_info' = IF share_info.len = 0 THEN [gen |-> FreshGen, len |-> size]
                   ELSE share_info
  /\ Relisten(c, share_info')
  /\ Succeed(c)
  /\ Leave(c)
  /\ pending' = pending \cap Open'
  /\ UNCHANGED <<status, change_waker_list, list_lock, index, control, ghosts>>

(* A `?`: bind fails after n sockets, which stay in share_info, or a socket *)
(* of the group cannot be copied.                                          *)
ChangeFails(c, n) ==
  /\ CanFail
  /\ Applying(c)
  /\ seen[c] = "Symmetric"
  /\ share_info' = IF share_info.len # 0 THEN share_info
                   ELSE IF n = 0 THEN Empty
                   ELSE [gen |-> FreshGen, len |-> n]
  /\ Relisten(c, Empty)
  /\ Fail(c)
  /\ Leave(c)
  /\ pending' = pending \cap Open'
  /\ UNCHANGED <<status, change_waker_list, list_lock, index, control, ghosts>>

-----------------------------------------------------------------------------
(* try_clone: the poll and its registration, the waker, then change().     *)

TryClone(c) ==
  /\ at[c] = "unborn"
  /\ \E d \in Clones : at[d] = "out"
  /\ Goto(c, "cloning")
  /\ ready' = [ready EXCEPT ![c] = IF Default \in pending
                                   THEN <<DEFAULT_TOKEN>> ELSE <<>>]
  /\ stale' = [stale EXCEPT ![c] = TRUE]
  /\ UNCHANGED <<shared, udp_list, events, pending, index, seen, control, lost>>

(* Mutations: the mutex of the list excludes nobody; the waker of the      *)
(* clone is not put into the list.                                         *)
AlwaysUnlocked == TRUE

PushNoWaker(c) == change_waker_list

Unlocked == list_lock = None

WithWaker(c) == change_waker_list \cup {c}

PushWaker(c) ==
  /\ at[c] = "cloning"
  /\ Unlocked
  /\ change_waker_list' = WithWaker(c)
  /\ Goto(c, "cloned")
  /\ UNCHANGED <<status, list_lock, share_info, udp_list, polls, index, seen,
                 control, ghosts>>

(* The owner of a clone drops it, between two calls or after an error.     *)
Discard(c) ==
  /\ at[c] = "out"
  /\ Goto(c, "dropping")
  /\ UNCHANGED <<shared, udp_list, polls, index, seen, control, ghosts>>

Drop(c) ==
  /\ at[c] = "dropping"
  /\ Unlocked
  /\ change_waker_list' = change_waker_list \ {c}
  /\ udp_list' = [udp_list EXCEPT ![c] = Empty]
  /\ ready' = [ready EXCEPT ![c] = <<>>]
  /\ events' = [events EXCEPT ![c] = <<>>]
  /\ Goto(c, "gone")
  /\ UNCHANGED <<status, list_lock, share_info, index, seen, control, ghosts>>
  /\ pending' = pending \cap Open'

-----------------------------------------------------------------------------
(* set_nat_type and close *)

At(k, point) == ctl' = [ctl EXCEPT ![k] = point]

Call(k, s) ==
  /\ ctl[k] = "idle"
  /\ At(k, "lock")
  /\ want' = [want EXCEPT ![k] = s]
  /\ UNCHANGED <<shared, udp_list, polls, receiver, to_wake, ghosts>>

LockList(k) ==
  /\ ctl[k] = "lock"
  /\ Unlocked
  /\ list_lock' = k
  /\ At(k, IF want[k] = "Close" THEN "store" ELSE "load")
  /\ UNCHANGED <<status, change_waker_list, share_info, udp_list, polls, receiver,
                 want, to_wake, ghosts>>

Unlock(k) ==
  /\ list_lock' = None
  /\ At(k, "idle")
  /\ want' = [want EXCEPT ![k] = None]

LoadStatus(k) ==
  /\ ctl[k] = "load"
  /\ IF status \in {want[k], "Close"} THEN Unlock(k)
     ELSE At(k, "store") /\ UNCHANGED <<list_lock, want>>
  /\ UNCHANGED <<status, change_waker_list, share_info, udp_list, polls, receiver,
                 to_wake, ghosts>>

StoreStatus(k) ==
  /\ ctl[k] = "store"
  /\ status' = want[k]
  /\ to_wake' = [to_wake EXCEPT ![k] = change_waker_list]
  /\ stale' = [c \in Clones |-> at[c] \notin {"failed", "gone"}]
  /\ At(k, "wake")
  /\ UNCHANGED <<change_waker_list, list_lock, share_info, udp_list, polls,
                 receiver, want, lost>>

Wake(k) ==
  /\ ctl[k] = "wake"
  /\ \/ \E c \in to_wake[k] :
          /\ to_wake' = [to_wake EXCEPT ![k] = @ \ {c}]
          /\ ready' = [ready EXCEPT ![c] = IF HasPoll(c)
                                           THEN Raise(@, CHANGE_TOKEN) ELSE @]
          /\ UNCHANGED <<list_lock, ctl, want>>
     \/ to_wake[k] = {} /\ Unlock(k) /\ UNCHANGED <<to_wake, ready>>
  /\ UNCHANGED <<status, change_waker_list, share_info, udp_list, events, pending,
                 receiver, ghosts>>

(* A `?`: the first waker that fails ends the loop over the rest.          *)
WakeFails(k) ==
  /\ CanFail
  /\ ctl[k] = "wake"
  /\ to_wake[k] # {}
  /\ lost' = [c \in Clones |-> lost[c] \/ c \in to_wake[k]]
  /\ to_wake' = [to_wake EXCEPT ![k] = {}]
  /\ Unlock(k)
  /\ UNCHANGED <<status, change_waker_list, share_info, udp_list, polls, receiver,
                 stale>>

-----------------------------------------------------------------------------
(* What the thread of a clone, and a controller that was called, do next.  *)
CloneStep(c) ==
  \/ TryDefault(c) \/ TryUdp(c) \/ Poll(c) \/ Event(c)
  \/ ChangeLoad(c) \/ ChangeCone(c) \/ ChangeSymmetric(c)
  \/ \E n \in 0 .. size : ChangeFails(c, n)
  \/ PushWaker(c) \/ Drop(c)

ControlStep(k) ==
  LockList(k) \/ LoadStatus(k) \/ StoreStatus(k) \/ Wake(k) \/ WakeFails(k)

Next ==
  \/ \E s \in Sockets : Arrive(s)
  \/ \E c \in Clones : TryClone(c) \/ CloneStep(c) \/ PollTimeout(c) \/ Discard(c)
  \/ \E k \in Controllers :
       ControlStep(k) \/ \E s \in Types \cup {"Close"} : Call(k, s)

Spec == Init /\ [][Next]_vars

(* Threads run; the mutex of the waker list is eventually fair.            *)
Fairness ==
  /\ \A c \in Clones : WF_vars(CloneStep(c)) /\ SF_vars(PushWaker(c))
                       /\ SF_vars(Drop(c))
  /\ \A k \in Controllers : WF_vars(ControlStep(k)) /\ SF_vars(LockList(k))

FairSpec == Spec /\ Fairness

-----------------------------------------------------------------------------
Asleep(c) == at[c] = "poll" /\ Live(c) = <<>>

(* The polls are edge-triggered and recv_from leaves a batch of events at  *)
(* the first datagram.  No datagram is stranded: a receiver sleeps only    *)
(* while every socket it listens on is empty.                              *)
NoStrandedDatagram ==
  \A c \in Clones : Asleep(c) => Registered(c) \cap pending = {}

(* A clone that has not looked at the status since it was last set will be *)
(* told to, unless it threw that very event away: also a clone that        *)
(* try_clone is still making.                                              *)
NothingMissed ==
  \A c \in Clones :
    stale[c] /\ ~lost[c] /\ at[c] \in Receiving \cup {"copying"} =>
      \/ CHANGE_TOKEN \in Range(ready[c]) \cup Range(events[c])
      \/ \E k \in Controllers : c \in to_wake[k]

(* The change is over: nobody sets the status, every clone has handled its *)
(* last CHANGE event.                                                      *)
Settled ==
  /\ list_lock = None
  /\ \A c \in Clones : ~stale[c] \/ at[c] \in {"unborn", "failed", "gone"}
  /\ \A c \in Clones : ~Applying(c) /\ at[c] # "dropping"

(* change() loads the status before it takes the lock of share_info, so a  *)
(* clone may apply a status that is no longer set, even undo what another  *)
(* clone has just done.  It is always woken again: when the changes are    *)
(* over every clone listens on what the status asks for.  So is the shared *)
(* group, unless a clone was dropped with a change still to handle.        *)
Asked == IF status = "Symmetric" THEN size ELSE 0

GroupsSettle ==
  ~CanFail /\ status # "Close" /\ Settled =>
    /\ \A c \in Clones : at[c] \in Receiving => udp_list[c].len = Asked
    /\ (\E c \in Clones : at[c] \in Receiving)
         /\ (\A c \in Clones : stale[c] => at[c] = "unborn")
         => share_info.len = Asked

(* set_nat_type loads the status and stores it later; it never reopens a   *)
(* channel that was closed in between.                                     *)
CloseIsFinal == [][status = "Close" => status' = "Close"]_vars

(* channel/mod.rs: "close the channel, recv will return Err".              *)
CloseReachesSleepers ==
  status = "Close" /\ list_lock = None => \A c \in Clones : ~Asleep(c)

(* That promise is broken in one way only: a receiver that sleeps in       *)
(* poll() after close() is done, also one try_clone was making meanwhile,  *)
(* is one that threw its CHANGE event away or whose waker failed.          *)
SleeperLostEvent ==
  status = "Close" /\ list_lock = None => \A c \in Clones : Asleep(c) => lost[c]

(* Once the peers fall silent every receiver does stop after close(), but  *)
(* for those that lost the event.  (While the default socket always has a  *)
(* datagram ready, recv_from never gets as far as poll().)                 *)
CloseStops ==
  <>[](pending = {}) =>
    \A c \in Clones :
      status = "Close" /\ at[c] \in Receiving ~> at[c] = "gone" \/ lost[c]

(* send_to_route: the socket a route key's index names, in the group given. *)
SocketAt(g, i) ==
  IF i = DEFAULT_TOKEN THEN Default
  ELSE IF i < g.len THEN <<g.gen, i>> ELSE None

(* channel/sender.rs: "send to the given route".  When the changes are     *)
(* over, a Sender sends by a route, from the group in share_info, out of   *)
(* the socket on which the clone listens that has learnt the route.        *)
RouteNamesOneSocket ==
  Settled =>
    \A c \in Clones : at[c] \in Receiving =>
      \A i \in 0 .. (size - 1) :
        SocketAt(udp_list[c], i) = SocketAt(share_info, i)
=============================================================================
