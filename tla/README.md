# A TLA+ model of p2p_channel

This directory specifies `p2p_channel`, a Rust library for UDP hole punching, in
TLA+. It contains modules that follow the code step by step, TLC configurations
that check them on small instances, and theorems that TLAPS has proved for every
instance. Source paths below are relative to
`src/src/` unless they begin with `src/`.

## 1. The system

`Boot::new` (boot/mod.rs) makes three objects that share state: a `Channel`,
which can be cloned, a `Punch`, and an `Idle`. `Channel::sender` makes a `Sender`.

| Component | State | Operations | Talks to |
|---|---|---|---|
| Routing table (`channel/sender.rs`, `channel/mod.rs`) | `direct_route_table` (peer to route), `direct_route_table_time` (route key to list of peers and two timestamps), a mutex for writers, a mutex in each list | `add_route`, `remove_route`, `update_route`, `route`, `route_to_id`, `route_table` | shared by all channels, senders and, through the skip map, the idle detector; `add_route` unparks the idle thread |
| Idle detector (`idle/mod.rs`) | the idle times, a parker, locals of one scan | `next_idle` | reads lists and timestamps; its caller (`src/examples/peer.rs`) removes the route of the first peer it is given |
| Channel (`channel/mod.rs`) | status (cone, symmetric, close), the shared group of sockets, per clone a poll, a copy of the group and a batch of events, the list of wakers | `recv_from`, `try_clone`, drop, `set_nat_type`, `close`, `send_to_*`, `punch` | wakes the polls of all clones, the idle thread, and the punch threads by the queues |
| Sender (`channel/sender.rs`) | references to the shared state | `send_to_addr`, `send_to_addr_all`, `send_to_route`, `send_to_id` | used by `Punch` |
| Punch (`punch/mod.rs`) | two queues of capacity one, a shuffled vector of ports, a cursor for each peer | `next_cone`, `next_symmetric`, `punch` | takes what `Channel::punch` queues, sends through a `Sender` |
| STUN test (`stun/mod.rs`) | locals of a run | `stun_test_nat` | its result is what `set_nat_type_with_stun` sets |
| Socket binding (`stun/socket/`) | none | `bind_udp` and the like | system calls |
| Examples (`src/examples/`) | the threads of a peer; a rendezvous server | | drive the library |

The repository has no tests; the doc comments and the example peer say what the
library is meant to do.

**What is hard.** Writers of the routing table update two maps and a list in
several steps under one mutex, while readers take only the mutex of a list, or
none, and may hold an entry that has been unlinked. The idle thread decides and
then parks, while others add routes and close. Every receiver has an
edge-triggered poll and may forget events; the NAT type changes under it, and
clones appear and go in the meantime. A punch sends for seconds while the NAT
type changes. STUN answers are lost, late and not told apart. `PROJECT.json` lists
these hazards at their lines, with the properties that cover them.

**What makes each part correct.** The table: its maps agree whenever nobody
writes, and differ otherwise only by what the writer has still to do; a reader is
never led to a wrong peer for longer. The idle detector: no wake-up is lost, no
idle route goes unnoticed for longer than a bound, it stops after close. The
channel: all clones end as the last change asks, no datagram is stranded, closed
is closed, and receivers stop. Punch: bounded traffic, all ports in turn, every
accepted request taken. STUN: a cone NAT is not taken for a symmetric one, and
the test ends.

## 2. Modules

| Module | Models | Read with |
|---|---|---|
| `RouteTable` | the routing table | channel/sender.rs 141-257 |
| `PeerList` | a list of peers with a peer added or taken out; used by the two modules next to it | channel/sender.rs 157-160, 238 |
| `Registry` | what the table promises: atomic operations on two abstract maps | |
| `Idle` | `next_idle` and everything that stores timestamps or wakes it; extends `RouteTable` | idle/mod.rs, src/examples/peer.rs 79-92 |
| `NatChannel` | clones, `recv_from`, `change`, `try_clone`, drop, `set_nat_type`, `close` | channel/mod.rs 96-505 |
| `Punch` | queues, punch threads, `punch`, `punch_` | punch/mod.rs, channel/mod.rs 430-447 |
| `Stun` | `stun_test_nat` and the network around it | stun/mod.rs 14-179 |
| `Peer` | the threads of the example program and its shutdown | src/examples/peer.rs 76-288 |
| `RouteTableProofs`, `RegistryProofs`, `IdleProofs`, `NatChannelProofs`, `PunchProofs`, `StunProofs`, `PeerProofs` | theorems about the modules they are named after | |
| `MC...` | model values, symmetry, and checks of hand-written operators, for TLC | |

Variables have the names of the fields and locals they stand for. A thread has a
control point (`pc`, `at`, `ctl`); an action is what happens between two accesses
to shared state, and is named for the call or the piece of the function it does.
Definitions under a comment that begins with *Mutation* are the code with a bug in
it; nothing refers to them. `PROJECT.json` pairs each with the property that must
fail when it replaces the real definition.

**RouteTable.** An entry of the skip map is an object (`Entries`) apart from its
key, because a reader's reference outlives the removal of the key. `Insert`,
`Find`, `Retain`, `Unlink`, `Lookup`, `Push`, `Create`, `Unlock`, `Unpark` are the
steps of `add_route_`; `Take` begins `remove_route_`. `remove_id_route_` keeps the
list's guard until the entry is unlinked: `ListFree` is false for the entry of a
thread at `"unlink"`. Operations on a DashMap are one step each, as they run under
the guard of a shard. `Metrics` stands for the pair (metric, rt). `route`,
`route_table` and `send_to_id` read one map once and change nothing: their results are
covered by the invariants on that map.

**Registry.** `users[k]` is the order in which peers joined key `k`.
`R!Spec` in `RouteTable` is the refinement: the route map is mapped to itself and
each list to what it will be when the running writer has finished (`Settled`).

**Idle.** Extends the table's state with the clock, the timestamps, and the locals
of the one idle thread. A scan holds an entry as any reader of the table does.
Every step of `Idle` is a step of `RouteTable` or leaves its variables alone, except
that `close` gives the idle thread its token without a writer (`CloseUnpark`); the
table's invariant survives that too, so its theorems hold of `IdleSpec`. Reading the
clock and storing it are two steps. `Prompt = TRUE` makes time pass only while the
idle thread waits, which is what a bound on its latency needs; with `FALSE` time
passes at any point.

**NatChannel.** A generation names each group of sockets that `change` binds; the
default socket is `<<0, 0>>`. A poll is its ready list: a token enters it when a
datagram arrives or a waker fires, and `poll()` takes the first `capacity` of those
still readable. A socket buffers one datagram. A thread in `recv_from` forgets the
batch of events when it returns a datagram (`Deliver`); with a timeout it may return
without one (`PollTimeout`). `change` is two steps, the load of the status and the
rest, which runs under the lock of `share_info`. `ChangeFails` and `WakeFails` are the
errors of `bind`, of the copy of a socket, and of `wake()`. An owner may drop its
clone between two calls (`Discard`); a handle that only sends is a clone that stays
`"out"`. `stale` and `lost` are history variables. A controller calls
`set_nat_type` or `close`. `Only` filters a queue without recursion; `MCNatChannel`
compares it with `SelectSeq` on every queue of the instance.

**Punch.** Ports are positions in `port_vec`, which is a permutation, and ranks
in the shuffled prediction; limits depend on `is_cone` as in the code. The width of
the predicted range is computed in `u16`: the difference that underflows stops the
thread or wraps to a prediction without ports, as the build has it. A datagram is an
increment of `io`, a history variable; a send may fail. `open` ends when the last
channel is dropped, which in `src/examples/peer.rs` happens after `close`.

**Stun.** The NAT gives each socket an address by destination, chosen when the
round's socket is bound. Requests are answered once or never, at any later moment
while the socket is connected there, with or without each of the attributes the
code asks for; what is in the receive buffer survives the next `connect`. `told` is a
history variable: the addresses servers have told of their own accord. `Left` is
what was too late to count.

**Peer.** The whole of one program built on the library, seen from outside the
calls: main with its signal, `close`, drop and joins in their order; the idle,
heartbeat, receive, trigger and punch threads; the retry threads the trigger
thread spawns, one for each message of the server. What a call does is reduced to
what ends a thread or makes it wait: the queues of capacity one, the channels that are
alive, the status, and the CHANGE event at the poll of the receiver, which a
datagram may push out (`"lost"`), as `NatChannel` shows in detail. Threads may
also end early, by the panics and errors the program has.

## 3. Runs

| Run | Shows | Bounds |
|---|---|---|
| `RouteTable` | `TypeOK`, `Agreement`, `OneListing`, `StaleOnlyInFlight`, `EmptyMeansUnlinked`, `IInv`, `UnlistAfterReroute`, `FirstIsStable`, implementation of `Registry` (`RegistrySpec`) | 3 threads, 2 peers, 2 keys, 2 metrics, 4 entries, symmetric |
| `Idle` | `IdleTypeOK`, `NoLostWake`, `CloseWakes`, `EmptyReportIsGone`, `CloseStopsIdle`, `EveryCallReturns`, implementation of `Registry` (`RegistrySpec`) | idle thread and one other, 1 peer, 1 key, 2 entries, both idle times 1, clock to 2, time passes at any point |
| `Idle_latency` | `DetectedInTime` | idle thread and one other, 2 peers, 2 keys, read idle time 1, clock to 3, prompt |
| `NatChannel_clones` | `TypeOK`, `GroupsSettle`, `NothingMissed`, `SleeperLostEvent` | 2 clones, 1 controller, groups of 1, batches of 2, traffic on the default socket, nothing fails |
| `NatChannel_live` | `NoStrandedDatagram`, `CloseIsFinal`, `CloseStops` | 1 clone, 2 controllers, groups of 1, batches of 2, traffic on the default socket and one generation, `bind`, copies and `wake()` may fail |
| `Punch` | `TypeOK`, `IoBounded`, `SlicesInBounds`, `CursorFollowsPorts`, `RequestTaken`, `ThreadsEnd` | 9 ports, limits 3 and 4 for cone, 2 and 2 otherwise, groups of 5, 4 requests, 2 peers |
| `Stun` | `TypeOK`, `ConeIsCone`, `ToldIsAnswered`, `TestEnds`, `TestShrinks` | 2 servers, 2 rounds, 2 tries, 3 addresses of which one IPv6 |
| `Peer` | `TypeOK`, `NoCircle`, `MainEnds`, `ShutdownShrinks`, `RetriesEnd` | 2 retry threads |

The bounds are chosen so that each race has all its parties. Three threads make
two that wait or read while one writes (and the proofs do away with the bound);
four entries are enough for them: each of the two others may keep an unlinked one,
one is linked to the other key, one is being made. Two peers and two keys give a
move with and without another peer staying behind. The idle thread is also a
writer, since its caller removes routes, so one thread beside it makes every
race on an entry; two keys give its scan an order. One clone applies an old status
after another has applied the new one; one controller may be called again and
again. Two controllers make a close fall between the load and the store of
`set_nat_type`. The default socket and a group of one make a batch of two
datagrams, or of a datagram and a CHANGE event in either order; three tokens and
batches of two leave one behind. Nine ports are more than two chunks of the larger
limit, so the cursor wraps and meets a short last chunk, and groups of five make
sending many datagrams from every socket a larger number than either limit allows;
among the requests are a range cut off at both ends of the ports, and a port of zero.
Of two retry threads one can fill a queue before the other, so that a call of theirs
is refused while the punch threads live. The clock goes as far as a route takes to
be made, to be seen fresh, and to be slept past. `MaxTime` is the bound of `Tick`; `Gens`
bounds the groups that exist at one time, not how many are ever bound. The retry
threads not yet born bound the messages of the server in `Peer`. Nothing else in the
modules is bounded by hand.

`CHECK_DEADLOCK FALSE` is set where the system may stop: a closed channel, an
ended thread, the end of the clock, the end of the STUN test. The routing table
never stops, and its runs check for deadlock.

### Disagreements the runs show

| Run | Violated | What happens |
|---|---|---|
| `Idle_empty` | `ReportsAPeer` | `next_idle` finds an entry idle, another thread empties and unlinks it, and the clone of the list is empty; src/examples/peer.rs 89 indexes it and panics. `EmptyReportIsGone` shows that ignoring such an answer loses nothing. |
| `NatChannel_close` | `CloseReachesSleepers` | `recv_from` returns a datagram and forgets the CHANGE event behind it; the receiver then sleeps in a closed channel, against channel/mod.rs 496. `SleeperLostEvent` shows that this, or a waker that fails, is the only way. |
| `NatChannel_group` | `RouteNamesOneSocket` | `change` loads the status before it takes the lock of `share_info` (channel/mod.rs 317). A clone that applies an outdated cone clears the group another clone has just joined, and the next clone binds a second one: the changes are over, each clone has sockets (`GroupsSettle` holds), but a route learnt by one clone names a socket of another group when a `Sender` uses it, against channel/sender.rs 50. |
| `Stun_second` | `SecondAddressCounts` | stun/mod.rs 104 inserts the first address again in the place of the second. |

## 4. Fairness

Weak fairness is assumed for every thread that has something to do: the operating
system schedules it. Strong fairness is assumed for taking a `parking_lot` mutex
several threads compete for (`Lock`, `LockList`, `PushWaker`, `Drop`): these
mutexes hand over after at most half a millisecond of barging. No fairness is
assumed of callers (nobody has to call anything), of peers and servers (a datagram
need not come), of the clock, or of anything that fails.

`CloseStopsIdle` is conditional on routes no longer being added for ever, and
`CloseStops` on the peers falling silent: `next_idle` looks at the status only after
a scan without a result, and `recv_from` returns what the default socket has before
it polls. `CloseStops` is about clones somebody receives from: weak fairness of
`CloneStep` is the loop of `recv_from`.

In `Peer` the idle and heartbeat threads are only fair once the channel is closed,
when their calls fail; before, they may run for ever. The receive thread is fair
once the traffic has stopped, and `MainEnds` says no more than that: with datagrams
for ever, or with the event of `close` thrown away, main may wait for ever. `RetriesEnd`
needs neither.

## 5. Proofs

All theorems hold for every set of threads, clones, controllers, peers, keys,
entries, servers, requests and addresses, and for any limits, idle times and sizes
that meet the assumptions of the module.

| Module | Theorem | States |
|---|---|---|
| `RouteTableProofs` | `Inductive` | `Spec => []IInv` |
| | `TypeCorrect`, `AgreementHolds`, `OneListingHolds`, `StaleOnlyInFlightHolds`, `EmptyMeansUnlinkedHolds` | the invariants of run `RouteTable` |
| | `UnlistAfterRerouteHolds`, `FirstIsStableHolds` | its action properties |
| | `WaitsForWriterHolds`, `CallsAreFinite` | no deadlock between its mutexes; no call goes round in a circle |
| `RegistryProofs` | `ImplementsRegistry` | `Spec => RegistrySpec`: the refinement |
| `IdleProofs` | `IdleTypeCorrect`, `NoLostWakeHolds`, `CloseWakesHolds`, `EmptyReportIsGoneHolds`, `DetectedInTimeHolds` | the safety properties of runs `Idle`, `Idle_latency` |
| | `IdleKeepsTable`, `IdleKeepsRoutes` | the properties of `RouteTable`, for `IdleSpec` |
| | `IdleImplementsRegistry` | `IdleSpec => RegistrySpec` |
| `NatChannelProofs` | `CloneInductive` | `Spec => []CloneInv` |
| | `NatTypeCorrect`, `NothingMissedHolds`, `NoStrandedDatagramHolds`, `GroupsSettleHolds`, `SleeperLostEventHolds`, `CloseIsFinalHolds` | the safety properties of runs `NatChannel_clones`, `NatChannel_live` |
| `PunchProofs` | `PunchTypeCorrect`, `SlicesInBoundsHolds`, `IoBoundedHolds`, `CursorFollowsPortsHolds` | the safety properties of run `Punch` |
| `StunProofs` | `StunTypeCorrect`, `ConeIsConeHolds`, `ToldIsAnsweredHolds`, `TestShrinksHolds` | the safety properties of run `Stun` |
| `PeerProofs` | `PeerTypeCorrect`, `NoCircleHolds`, `ShutdownShrinksHolds` | the safety properties of run `Peer` |

**Assumptions.** `NoneAssumption`, and the last part of some others: `None` is none of
the values it is used beside. `IdleAssumption`: the idle thread is one of the threads,
the idle times are numbers. `NatAssumption`: the first clone exists, a group has
between 1 and 100000 sockets (beyond that its tokens would meet `DEFAULT_TOKEN`), and
there is always a name for a group that no clone uses. `PunchAssumption`: positive
limits, and requests whose ports and ranges are at most `PortMax`.
`StunAssumption`: ports are 16-bit numbers, there is a server, a round and a try.
`PeerAssumption`: the server sends finitely many messages, so that there are finitely
many retry threads.

**The routing table.** `Agreement` is not inductive: it says nothing while the mutex
is taken. `IInv` adds what a writer has done so far. `LockOwner` makes the mutex
exclude. `LocalsSet` gives each control point the locals its step needs. `EntryOfKey`
says that the entry a writer refers to is still the one its key leads to, and that
two keys never lead to one entry. `ListsSound` says that lists have no duplicates,
that unlinked entries are empty, and that an empty linked entry is about to be
unlinked by a writer who holds its mutex. `MapsAgree` says that the maps agree on
all peers but the one being moved, and for that one, at each control point, which
keys list it. There is a lemma for the initial states and one for each action;
`WithProperties` and `WithoutProperties` say what the two operators on lists do, so
that no step reasons about sequences. The safety theorems follow from `IInv` state by
state, the action properties from `IInv` and `ListSteps`, what each step does to a list.

**The registry.** The list a key is mapped to is what the writer in the mutex will
leave (`Settled`). `SettledIs` says that without a choice: with the mutex taken and
the write begun, it is the list with the writer's peer added at its new key and
taken out elsewhere. Given `IInv`, the first write of a call is the step of the
registry and every later one leaves the mapped lists alone.

**The mutexes.** A writer takes the mutex of a list inside the table's mutex, and readers
take the mutex of a list alone. Only `remove_id_route_` keeps the inner one from one step
to the next, at `"unlink"`, where it waits for nothing; and `IInv` says that a
thread there is in the outer one. So whoever waits, waits for a writer that can go on
(`WaitsForWriter`). `CallLeft` counts the control points a call has still to pass; every
step moves on to one with less (`CallsAreFinite`). With fair mutexes these two are why
`EveryCallReturns`; that last inference is TLC's.

**The idle detector.** `IdleIInv` is `IInv`, the types, the idle thread's use of the
table (`IdlerLocals`), `NoLostWake`, which is inductive together with them, and
`CloseTokens`: from the store of Close to the end of the thread there is a token, a
`close` still under way, or a check of the status still to come. `StepOfTable` is the
argument that lets `NextIInv` of the table be used, and with it (`TableSteps`) every
property of the table, its refinement of `Registry` included, carries over to
`IdleSpec`: a step of the idle thread or of `close` is one of the table's or leaves
the tables and the mapped lists as they are. `DetectedInTime` needs
`PromptInv` besides: entries the scan has passed are young, the minimum it
has kept is no older than the oldest of them, and a deadline is in time for each.

**The channel.** Three invariants. `ControlInv`: whoever is between the lock and the
unlock of the waker list owns it, and whoever is about to store has found the channel
open or closes it. `CloneInv`: each datagram a clone could take has its token in the
ready list or in the batch, or its socket is still to be tried (`Covered`: it is what
makes edge-triggering safe although a batch is abandoned, since every socket is tried
before the next poll); each change a clone has not seen has its event in one of them
or a controller about to send it, unless the event was thrown away (`Told`), which needs
the waker to be in the list before the status is loaded (`InList`). `SettleInv`: a
clone that is not stale applies, or has applied, the status of now (`Follows`), and
the shared group is the same unless somebody has still a change to handle.
`SleeperInv` is for `SleeperLostEvent`: after the store of Close whoever still receives has
not looked at the status since (`ClosedInv`), so it has, by `Told`, an event, has lost
it, or is on the list of a controller; and a controller with wakers left is still in its
loop and holds the list (`WakerInv`).

**Punch.** `PunchIInv` adds to the types that a working thread has a request, that
`count` never jumps over its limit, how far a `punch_` over one address has come
(`OneAddress`), and the datagrams sent so far at each control point (`IoSoFar`).

**STUN.** `StunInv`: any address on its way to `pub_addrs`, in the buffer or in a
local, is one the NAT has given this round's socket. `AnswerInv`: what was told and is
not left in the buffer is in `pub_addrs` or in `mapped_addr1`. That the spread of the
ports is the largest minus the smallest needs that a finite set of ports has both
(`Extremes`). `TestShrinks` is by a measure of three levels: two steps for each
request still to be sent to the address at hand, those for the second address if the
first is at work, `PerServer` for each server left, `PerRound` for each round. The lemmas
`LeftTypes`, `LessOfServer`, `LessOfConnect`, `LessOfRound` and `LessOfEnd` say that
less on one level is less altogether; each action then needs one comparison on its own
level. The measure starts at no more than `Rounds * PerRound + 1`, so the test takes no
more steps of its own than that.

**The example peer.** `PeerIInv` adds `Heard` to the types: the status is Close exactly
from main's second step on, and from then on a receive thread that lives has the event
or has lost it. `NoCircle` then follows by main's position: each join waits for a
thread that can go on, or for one that waits for the retry threads, and these wait for
nobody, as a full queue refuses a request and does not keep it waiting.
`ShutdownShrinks` needs that two parties do not feed each other for ever: a retry
thread fills a queue, which wakes the punch thread, which empties it and finds the
channel closed. `Room` counts this: a queue takes one request more only while it is
empty or its thread will ask once more. The retry threads enter as a cardinality, hence
`PeerAssumption`. Together the two are the safety core of `MainEnds`.

`Without` and `Only` are written with function constructors rather than `SelectSeq`,
which is recursive; assumptions of `MCRouteTable` and `MCNatChannel` compare them on all
lists and queues of the instances. `Without` is proved about, and checked, for lists
that hold a peer at most once, which is all the table ever has.

**Model-checked only.** Liveness: `EveryCallReturns`, `CloseStopsIdle`, `CloseStops`,
`RequestTaken`, `ThreadsEnd`, `TestEnds`, `MainEnds`, `RetriesEnd`. It needs fairness and
`ENABLED` and is out of the prover's reach; proved are the measures and the absence of
deadlock behind `EveryCallReturns`, `TestEnds` and `MainEnds`. Every other property of a
passing run is a theorem.

## 6. Not modelled

- `stun/socket/`, `send_all`, `local_addr`, the accessors: system calls and reads
  without state of their own. `send_stun_request` and `recv_stun_response` build
  and parse a message and keep no state.
- Errors of a socket or of `poll()` in `recv_from`: they end the thread and drop its
  clone, which is what `Discard` before that call amounts to.
- More than 100000 sockets in a group (`NatAssumption`).
- The exchange of the example with its server before the loop (src/examples/peer.rs
  142-165): one datagram, one answer within 5 seconds, or a panic of main, with which
  the process ends. `Peer` begins when it has succeeded.
- `src/examples/server.rs`, a loop of one thread over one map that talks to nothing
  modelled but that exchange and the messages `Peer` takes as inputs; and
  `check_nat.rs`, which prints the result of the STUN test.
- Three hazards have no property. A scan with both idle times zero and routes in the
  table never sleeps (idle/mod.rs 97): it makes progress as the model sees it. A route
  added again keeps its old timestamps and may be reported idle at once
  (channel/sender.rs 156), and a STUN test without any answer is a success that says
  cone (stun/mod.rs 35): the repository promises nothing else.

## 7. Plan

Done, in this order: `RouteTable` and its proof; `Idle`, `NatChannel`, `Punch`, `Stun`;
route keys against sockets, receive time-outs and handles that only send, in
`NatChannel`; the shutdown of a peer, in `Peer`; the implementation of `Registry`; the
proofs of `Idle`, `NatChannel`, `Punch` and `Stun`; the refinement of `Registry` with the
idle thread; the safety cores of the liveness of `RouteTable`, `Stun` and `Peer`.

Left:

1. *Two peers and the server.* A module for `src/examples/server.rs` with its map
   of waiting peers, composed with two peers: that each report is answered with at
   most one introduction, and what becomes of a peer whose introduction is lost.
2. *Peer on the library.* `Peer` abstracts the calls of the library by hand. That
   `NatChannel` and `Punch` implement what it assumes of them could be stated as
   refinements.
3. *More safety cores of liveness.* For `ThreadsEnd`, a measure of one punch after the
   last channel is gone; for `CloseStopsIdle` and `CloseStops`, that a thread not yet
   stopped has a step to take or an event to come.
