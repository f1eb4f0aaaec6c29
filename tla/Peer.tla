---------------------------------- MODULE Peer ----------------------------------
(***************************************************************************)
(* The threads of examples/peer.rs, one program built on the library, and  *)
(* how it shuts down.  Nobody tells the threads to stop: main closes the   *)
(* channel, drops its own handle of it and joins the others, which end     *)
(* because a call of theirs fails.  A punch thread ends when its queue has *)
(* no sender left, that is when every Channel is dropped; the thread that  *)
(* started a retry thread waits for it, with a Channel in its hands; and a *)
(* retry thread ends when a queue is full or has no receiver left.         *)
(*                                                                         *)
(* What the library does inside a call is the matter of the other modules. *)
(***************************************************************************)
EXTENDS Integers, Sequences, FiniteSets

CONSTANTS Retries   \* retry threads: one for each message of the server

ASSUME PeerAssumption == IsFiniteSet(Retries)

VARIABLES
  status,   \* Status, "Open" unless it is "Close"
  event,    \* the CHANGE event of close() at the poll of `channel`
  traffic,  \* datagrams still come
  main,     \* control point of main
  at,       \* control points of the threads main has spawned
  retry,    \* those of the threads the trigger thread has spawned
  rx,       \* messages of the server on their way to the trigger thread
  queue     \* requests in cone_sender and in symmetric_sender: bounded(1)

vars == <<status, event, traffic, main, at, retry, rx, queue>>

Punchers == {"punch_cone", "punch_sym"}
Threads  == Punchers \cup {"idle", "receive", "trigger", "heart"}

(* What main does after the signal: its joins are in this order.           *)
Steps == <<"run", "close", "drop", "idle", "punch_cone", "punch_sym", "receive",
           "trigger", "heart", "end">>

TypeOK ==
  /\ status \in {"Open", "Close"}
  /\ event \in {"none", "raised", "lost"}
  /\ traffic \in BOOLEAN
  /\ main \in {Steps[i] : i \in DOMAIN Steps}
  /\ at \in [Threads -> {"run", "join", "begin", "send", "ended"}]
  /\ \A x \in {"idle", "receive", "heart"} : at[x] \in {"run", "ended"}
  /\ \A p \in Punchers : at[p] \in {"run", "begin", "send", "ended"}
  /\ at["trigger"] \in {"run", "join", "ended"}
  /\ retry \in [Retries -> {"unborn", "punch_cone", "punch_sym", "ended"}]
  /\ rx \in 0 .. Cardinality(Retries)
  /\ queue \in [Punchers -> 0 .. 1]

(* The server has confirmed the report, and every thread is spawned.       *)
Init ==
  /\ status = "Open"
  /\ event = "none"
  /\ traffic = TRUE
  /\ main = "run"
  /\ at = [x \in Threads |-> "run"]
  /\ retry = [c \in Retries |-> "unborn"]
  /\ rx = 0
  /\ queue = [p \in Punchers |-> 0]

-----------------------------------------------------------------------------
Goto(x, point) == at' = [at EXCEPT ![x] = point]

Ended(x) == at[x] = "ended"

Retrying(c) == retry[c] \in Punchers

(* Mutation: chanel3 lives to the end of main.                             *)
ChannelAlways ==
  \/ \E x \in {"idle", "receive", "trigger", "heart"} : ~Ended(x)
  \/ main # "end"
  \/ \E c \in Retries : Retrying(c)

(* Some Channel is alive: the two in main's closures, chanel2 and chanel1, *)
(* chanel3 and those of the retry threads.                                 *)
ChannelAlive ==
  \/ \E x \in {"idle", "receive", "trigger", "heart"} : ~Ended(x)
  \/ main \in {"run", "close", "drop"}
  \/ \E c \in Retries : Retrying(c)

(* Each Punch holds the receivers of both queues. *)
PunchAlive == \E p \in Punchers : ~Ended(p)

-----------------------------------------------------------------------------
(* main *)

After(step) == Steps[(CHOOSE i \in DOMAIN Steps : Steps[i] = step) + 1]

Signal ==
  /\ main = "run"
  /\ main' = After(main)
  /\ UNCHANGED <<status, event, traffic, at, retry, rx, queue>>

(* Mutation: close() stores the status and wakes nobody.                   *)
CloseUnheard ==
  /\ main = "close"
  /\ status' = "Close"
  /\ main' = After(main)
  /\ UNCHANGED <<event, traffic, at, retry, rx, queue>>

(* chanel3.close(): `channel` is woken if it has not been dropped.         *)
Close ==
  /\ main = "close"
  /\ status' = "Close"
  /\ event' = IF Ended("receive") THEN event ELSE "raised"
  /\ main' = After(main)
  /\ UNCHANGED <<traffic, at, retry, rx, queue>>

(* drop(chanel3) *)
DropChanel3 ==
  /\ main = "drop"
  /\ main' = After(main)
  /\ UNCHANGED <<status, event, traffic, at, retry, rx, queue>>

Join ==
  /\ main \in Threads
  /\ Ended(main)
  /\ main' = After(main)
  /\ UNCHANGED <<status, event, traffic, at, retry, rx, queue>>

-----------------------------------------------------------------------------
(* The idle thread and the heartbeat.                                      *)

(* next_idle fails once the channel is closed; before, the thread panics   *)
(* on an answer without a peer (ReportsAPeer of module Idle).              *)
IdleEnds ==
  /\ at["idle"] = "run"
  /\ Goto("idle", "ended")
  /\ UNCHANGED <<status, event, traffic, main, retry, rx, queue>>

(* send_to_addr fails in a closed channel; before, when the socket does.   *)
HeartEnds ==
  /\ at["heart"] = "run"
  /\ Goto("heart", "ended")
  /\ UNCHANGED <<status, event, traffic, main, retry, rx, queue>>

-----------------------------------------------------------------------------
(* The receive thread: it owns `channel`, and tx, the sender of rx.        *)

(* recv_from returns the error of change(). *)
ReceiveClose ==
  /\ at["receive"] = "run"
  /\ event = "raised"
  /\ event' = "none"
  /\ Goto("receive", "ended")
  /\ UNCHANGED <<status, traffic, main, retry, rx, queue>>

(* A datagram is returned; a CHANGE event behind it in the batch is lost.  *)
Datagram ==
  /\ traffic
  /\ at["receive"] = "run"
  /\ event' \in {event} \cup (IF event = "raised" THEN {"lost"} ELSE {})
  /\ UNCHANGED <<status, traffic, main, retry, queue>>

(* From the server: the peer's address is passed on, and unwrap() panics   *)
(* if the trigger thread is gone.                                          *)
Unused == {c \in Retries : retry[c] = "unborn"}

ReceiveAddress ==
  /\ Datagram
  /\ rx < Cardinality(Unused)     \* bounds the messages of the server
  /\ IF Ended("trigger") THEN Goto("receive", "ended") /\ UNCHANGED rx
     ELSE rx' = rx + 1 /\ UNCHANGED at

(* From a peer, or a heartbeat: the thread goes on, or panics when it is   *)
(* too short or there is no route to answer by.                            *)
ReceiveOther ==
  /\ Datagram
  /\ UNCHANGED at \/ Goto("receive", "ended")
  /\ UNCHANGED rx

Silence ==
  /\ traffic
  /\ traffic' = FALSE
  /\ UNCHANGED <<status, event, main, at, retry, rx, queue>>

-----------------------------------------------------------------------------
(* The trigger thread: it owns rx and chanel2.                             *)

(* chanel2.try_clone().unwrap(): a panic once the channel is closed.       *)
Spawn ==
  /\ at["trigger"] = "run"
  /\ rx > 0
  /\ IF status = "Close" THEN Goto("trigger", "ended") /\ rx' = 0 /\ UNCHANGED retry
     ELSE /\ rx' = rx - 1
          /\ \E c \in Unused : retry' = [retry EXCEPT ![c] = "punch_cone"]
          /\ UNCHANGED at
  /\ UNCHANGED <<status, event, traffic, main, queue>>

(* tx is dropped: the loop is over, and the retry threads are joined.      *)
StopSpawning ==
  /\ at["trigger"] = "run"
  /\ rx = 0
  /\ Ended("receive")
  /\ Goto("trigger", "join")
  /\ UNCHANGED <<status, event, traffic, main, retry, rx, queue>>

JoinRetries ==
  /\ at["trigger"] = "join"
  /\ \A c \in Retries : ~Retrying(c)
  /\ Goto("trigger", "ended")
  /\ UNCHANGED <<status, event, traffic, main, retry, rx, queue>>

-----------------------------------------------------------------------------
(* Mutation: the queues are not bounded.                                   *)
AcceptsAlways(p) == PunchAlive

(* A retry thread asks for a punch of each kind in turn, until one of the  *)
(* calls fails: "busy" or "closed".                                        *)
Accepts(p) == PunchAlive /\ queue[p] = 0

Other(p) == IF p = "punch_cone" THEN "punch_sym" ELSE "punch_cone"

Retry(c) ==
  LET p == retry[c] IN
  /\ Retrying(c)
  /\ IF Accepts(p)
     THEN /\ queue' = [queue EXCEPT ![p] = @ + 1]
          /\ retry' = [retry EXCEPT ![c] = Other(p)]
     ELSE retry' = [retry EXCEPT ![c] = "ended"] /\ UNCHANGED queue
  /\ UNCHANGED <<status, event, traffic, main, at, rx>>

-----------------------------------------------------------------------------
(* The punch threads *)

NextRequest(p) ==
  /\ at[p] = "run"
  /\ IF queue[p] > 0 THEN queue' = [queue EXCEPT ![p] = @ - 1] /\ Goto(p, "begin")
     ELSE ~ChannelAlive /\ Goto(p, "ended") /\ UNCHANGED queue
  /\ UNCHANGED <<status, event, traffic, main, retry, rx>>

(* Mutation: punch does not ask whether the channel is closed.             *)
NeverRefuses == FALSE

Refuses == status = "Close"

Begin(p) ==
  /\ at[p] = "begin"
  /\ Goto(p, IF Refuses THEN "ended" ELSE "send")
  /\ UNCHANGED <<status, event, traffic, main, retry, rx, queue>>

(* The datagrams of a punch; an error of the socket ends the thread.       *)
Send(p) ==
  /\ at[p] = "send"
  /\ Goto(p, "run") \/ Goto(p, "ended")
  /\ UNCHANGED <<status, event, traffic, main, retry, rx, queue>>

-----------------------------------------------------------------------------
MainStep == Close \/ DropChanel3 \/ Join

PunchStep(p) == NextRequest(p) \/ Begin(p) \/ Send(p)

TriggerStep == Spawn \/ StopSpawning \/ JoinRetries

(* The process is gone when main returns. *)
Next ==
  /\ main # "end"
  /\ \/ Signal \/ MainStep \/ IdleEnds \/ HeartEnds \/ TriggerStep
     \/ ReceiveClose \/ ReceiveAddress \/ ReceiveOther \/ Silence
     \/ \E c \in Retries : Retry(c)
     \/ \E p \in Punchers : PunchStep(p)

Spec == Init /\ [][Next]_vars

(* The threads run.  next_idle and send_to_addr fail when the channel is   *)
(* closed; recv_from looks at its events when no datagram comes.           *)
FairSpec ==
  /\ Spec
  /\ WF_vars(MainStep)
  /\ WF_vars(TriggerStep)
  /\ WF_vars(status = "Close" /\ IdleEnds)
  /\ WF_vars(status = "Close" /\ HeartEnds)
  /\ WF_vars(~traffic /\ ReceiveClose)
  /\ \A p \in Punchers : WF_vars(PunchStep(p))
  /\ \A c \in Retries : WF_vars(Retry(c))

-----------------------------------------------------------------------------
(* The threads wait for each other in a circle of channels, queues and     *)
(* joins, but it opens: once the channel is closed and no more datagrams   *)
(* come, main joins every thread, unless the receive thread has thrown the *)
(* event of close() away.                                                  *)
MainEnds == status = "Close" /\ ~traffic ~> main = "end" \/ event = "lost"

(* The circle as such: after close(), with the event not thrown away, and  *)
(* with no datagram to come, there is at every moment somebody who waits   *)
(* for nobody.                                                             *)
MainMoves == main = "drop" \/ (main \in Threads /\ Ended(main))

TriggerMoves ==
  \/ at["trigger"] = "run" /\ (rx > 0 \/ Ended("receive"))
  \/ at["trigger"] = "join" /\ \A c \in Retries : ~Retrying(c)

PunchMoves(p) ==
  \/ at[p] \in {"begin", "send"}
  \/ at[p] = "run" /\ (queue[p] > 0 \/ ~ChannelAlive)

NoCircle ==
  status = "Close" /\ main # "end" /\ event # "lost" =>
    \/ MainMoves \/ TriggerMoves
    \/ ~Ended("idle") \/ ~Ended("heart")
    \/ ~Ended("receive") /\ event = "raised"
    \/ \E p \in Punchers : PunchMoves(p)
    \/ \E c \in Retries : Retrying(c)

(* What is left to do after close(): the steps to the end of each thread,  *)
(* and the requests the queues will still accept, for which they need room *)
(* or a punch thread that will ask for one once more.                      *)
StepsLeft(point) ==
  CASE point = "ended" -> 0
    [] point \in {"begin", "join"} -> 1
    [] point = "run" -> 2
    [] point = "send" -> 3

MainLeft == Len(Steps) - (CHOOSE i \in DOMAIN Steps : Steps[i] = main)

Room(p) == 1 - queue[p] + (IF at[p] \in {"run", "send"} THEN 1 ELSE 0)

PunchLeft(p) == StepsLeft(at[p]) + Room(p)

Work ==
  MainLeft + StepsLeft(at["idle"]) + StepsLeft(at["heart"])
    + StepsLeft(at["receive"]) + StepsLeft(at["trigger"])
    + PunchLeft("punch_cone") + PunchLeft("punch_sym")
    + Cardinality({c \in Retries : Retrying(c)})

(* Nothing goes on for ever after close(): whatever a thread does, there   *)
(* is less to do afterwards, and the datagrams that come add nothing.      *)
ShutdownShrinks ==
  [][status = "Close" =>
       \/ 0 <= Work' /\ Work' < Work
       \/ UNCHANGED <<main, at, retry, queue>>]_vars

(* Nobody stops the retry threads.  After close() their own requests make  *)
(* both punch threads fail, and that makes them fail: all of them end,     *)
(* also with the event lost, datagrams coming, or the trigger thread dead. *)
RetriesEnd ==
  status = "Close" ~> main = "end" \/ \A c \in Retries : ~Retrying(c)
=============================================================================
