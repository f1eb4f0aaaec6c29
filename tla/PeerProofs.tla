------------------------------ MODULE PeerProofs ------------------------------
(***************************************************************************)
(* Proofs about Peer, for any number of retry threads: after close() the   *)
(* threads never wait for each other in a circle, and every step leaves    *)
(* less to do.                                                             *)
(***************************************************************************)
EXTENDS Peer, FiniteSetTheorems, TLAPS

(* close() is called once, by main, and wakes the receive thread.          *)
Heard ==
  /\ status = "Close" <=> main \notin {"run", "close"}
  /\ status = "Close" /\ ~Ended("receive") => event \in {"raised", "lost"}

(* The inductive invariant. *)
PeerIInv == TypeOK /\ Heard

-----------------------------------------------------------------------------
(* The order of main's steps *)

Order == {"run", "close", "drop", "idle", "punch_cone", "punch_sym", "receive",
          "trigger", "heart", "end"}

LEMMA StepsFacts ==
  /\ Len(Steps) = 10
  /\ {Steps[i] : i \in DOMAIN Steps} = Order
  /\ \A i, j \in DOMAIN Steps : Steps[i] = Steps[j] => i = j
<1>1. Len(Steps) = 10 /\ DOMAIN Steps = 1 .. 10
  BY DEF Steps
<1>2. /\ Steps[1] = "run" /\ Steps[2] = "close" /\ Steps[3] = "drop"
      /\ Steps[4] = "idle" /\ Steps[5] = "punch_cone" /\ Steps[6] = "punch_sym"
      /\ Steps[7] = "receive" /\ Steps[8] = "trigger" /\ Steps[9] = "heart"
      /\ Steps[10] = "end"
  BY DEF Steps
<1>3. 1 .. 10 = {1, 2, 3, 4, 5, 6, 7, 8, 9, 10}
  OBVIOUS
<1>4. QED BY <1>1, <1>2, <1>3 DEF Order

(* A step that is not the last leads to the next one. *)
LEMMA AfterFacts ==
  ASSUME main \in Order, main # "end"
  PROVE  /\ After(main) \in Order
         /\ main # "run" => After(main) \notin {"run", "close"}
         /\ main = "run" => After(main) = "close"
         /\ main' = After(main) => MainLeft' < MainLeft
<1>1. DOMAIN Steps = 1 .. 10 /\ Len(Steps) = 10
  BY DEF Steps
<1>2. PICK i \in 1 .. 10 : Steps[i] = main
  BY <1>1, StepsFacts
<1>3. (CHOOSE j \in DOMAIN Steps : Steps[j] = main) = i
  BY <1>1, <1>2, StepsFacts
<1>4. Steps[1] = "run" /\ Steps[2] = "close" /\ Steps[10] = "end"
  BY DEF Steps
<1>5. i + 1 \in 1 .. 10
  BY <1>2, <1>4
<1>6. After(main) = Steps[i + 1]
  BY <1>3 DEF After
<1>7. After(main) \in Order
  BY <1>1, <1>5, <1>6, StepsFacts
<1>8. main # "run" => After(main) \notin {"run", "close"}
  <2>1. main # "run" => i # 1
    BY <1>2, <1>4
  <2>2. main # "run" => i + 1 # 1 /\ i + 1 # 2
    BY <1>2, <2>1
  <2>3. {1, 2, i + 1} \subseteq DOMAIN Steps
    BY <1>1, <1>5
  <2>4. /\ After(main) = Steps[1] => i + 1 = 1
        /\ After(main) = Steps[2] => i + 1 = 2
    BY <1>6, <2>3, StepsFacts
  <2>5. QED BY <1>4, <2>2, <2>4
<1>9. main = "run" => After(main) = "close"
  <2>1. main = "run" => i = 1
    BY <1>1, <1>2, <1>4, StepsFacts
  <2>2. QED BY <1>4, <1>6, <2>1
<1>10. main' = After(main) => MainLeft' < MainLeft
  <2> SUFFICES ASSUME main' = After(main) PROVE MainLeft' < MainLeft
    OBVIOUS
  <2>1. (CHOOSE j \in DOMAIN Steps : Steps[j] = main') = i + 1
    <3>1. Steps[i + 1] = main'
      BY <1>6
    <3>2. QED BY <1>1, <1>5, <3>1, StepsFacts
  <2>2. MainLeft = 10 - i
    BY <1>1, <1>3 DEF MainLeft
  <2>3. MainLeft' = 10 - (i + 1)
    BY <1>1, <2>1 DEF MainLeft
  <2>4. QED BY <1>2, <2>2, <2>3
<1>11. QED BY <1>7, <1>8, <1>9, <1>10

LEMMA MainLeftType == main \in Order => MainLeft \in Nat
<1> SUFFICES ASSUME main \in Order PROVE MainLeft \in Nat
  OBVIOUS
<1>1. DOMAIN Steps = 1 .. 10 /\ Len(Steps) = 10
  BY DEF Steps
<1>2. PICK i \in 1 .. 10 : Steps[i] = main
  BY <1>1, StepsFacts
<1>3. (CHOOSE j \in DOMAIN Steps : Steps[j] = main) = i
  BY <1>1, <1>2, StepsFacts
<1>4. MainLeft = 10 - i
  BY <1>1, <1>3 DEF MainLeft
<1>5. QED BY <1>2, <1>4

-----------------------------------------------------------------------------
LEMMA InitPeer == Init => PeerIInv
<1> SUFFICES ASSUME Init PROVE PeerIInv
  OBVIOUS
<1>1. "run" \in Order
  BY DEF Order
<1>2. Cardinality(Retries) \in Nat
  BY PeerAssumption, FS_CardinalityType
<1>3. TypeOK
  BY <1>1, <1>2, StepsFacts DEF Init, TypeOK, Threads, Punchers
<1>4. Heard
  BY DEF Init, Heard
<1>5. QED BY <1>3, <1>4 DEF PeerIInv

LEMMA MainSteps ==
  ASSUME PeerIInv, Signal \/ MainStep
  PROVE  PeerIInv'
<1>1. main \in Order
  BY StepsFacts DEF PeerIInv, TypeOK
<1>2. main # "end"
  BY DEF Signal, MainStep, Close, DropChanel3, Join, Threads, Punchers
<1>3. main' = After(main)
  BY DEF Signal, MainStep, Close, DropChanel3, Join
<1>4. main' \in Order
  BY <1>1, <1>2, <1>3, AfterFacts
<1>5. TypeOK'
  BY <1>4, StepsFacts
  DEF PeerIInv, TypeOK, Signal, MainStep, Close, DropChanel3, Join
<1>6. Heard'
  <2>1. CASE Signal
    BY <1>1, <1>2, <1>3, <2>1, AfterFacts DEF PeerIInv, Heard, Ended, Signal
  <2>2. CASE Close
    BY <1>1, <1>2, <1>3, <2>2, AfterFacts DEF PeerIInv, Heard, Ended, Close
  <2>3. CASE DropChanel3 \/ Join
    BY <1>1, <1>2, <1>3, <2>3, AfterFacts
    DEF PeerIInv, Heard, Ended, DropChanel3, Join, Threads, Punchers
  <2>4. QED BY <2>1, <2>2, <2>3 DEF MainStep
<1>7. QED BY <1>5, <1>6 DEF PeerIInv

(* The messages of the server are at most as many as the retry threads.    *)
LEMMA RxBound ==
  rx \in Nat /\ rx < Cardinality(Unused) => rx + 1 \in 0 .. Cardinality(Retries)
<1>1. Unused \subseteq Retries
  BY DEF Unused
<1>2. /\ Cardinality(Unused) \in Nat /\ Cardinality(Retries) \in Nat
      /\ Cardinality(Unused) <= Cardinality(Retries)
  BY <1>1, PeerAssumption, FS_Subset, FS_CardinalityType
<1>3. QED BY <1>2

LEMMA ThreadSteps ==
  ASSUME PeerIInv,
         \/ IdleEnds \/ HeartEnds \/ TriggerStep \/ ReceiveClose
         \/ ReceiveAddress \/ ReceiveOther \/ Silence
  PROVE  PeerIInv'
<1> USE DEF PeerIInv, TypeOK, Heard, Ended, Goto, Threads, Punchers
<1>0. Cardinality(Retries) \in Nat
  BY PeerAssumption, FS_CardinalityType
<1>1. CASE IdleEnds \/ HeartEnds \/ Silence
  BY <1>1 DEF IdleEnds, HeartEnds, Silence
<1>2. CASE ReceiveClose \/ ReceiveOther
  BY <1>2 DEF ReceiveClose, ReceiveOther, Datagram
<1>3. CASE ReceiveAddress
  <2>1. rx' \in 0 .. Cardinality(Retries)
    BY <1>3, RxBound DEF ReceiveAddress, Datagram
  <2>2. QED BY <1>3, <2>1 DEF ReceiveAddress, Datagram
<1>4. CASE Spawn
  <2>1. rx' \in 0 .. Cardinality(Retries)
    BY <1>0, <1>4 DEF Spawn
  <2>2. QED BY <1>4, <2>1 DEF Spawn, Unused
<1>5. CASE StopSpawning \/ JoinRetries
  BY <1>5 DEF StopSpawning, JoinRetries
<1>6. QED BY <1>1, <1>2, <1>3, <1>4, <1>5 DEF TriggerStep

LEMMA QueueSteps ==
  ASSUME PeerIInv,
         \/ \E c \in Retries : Retry(c)
         \/ \E p \in Punchers : PunchStep(p)
  PROVE  PeerIInv'
<1> USE DEF PeerIInv, TypeOK, Heard, Ended, Goto, Threads, Punchers
<1>1. CASE \E c \in Retries : Retry(c)
  BY <1>1 DEF Retry, Retrying, Accepts, Other
<1>2. ASSUME NEW p \in Punchers, NextRequest(p) PROVE PeerIInv'
  BY <1>2 DEF NextRequest
<1>3. ASSUME NEW p \in Punchers, Begin(p) \/ Send(p) PROVE PeerIInv'
  BY <1>3 DEF Begin, Send
<1>4. QED BY <1>1, <1>2, <1>3 DEF PunchStep

LEMMA NextPeer == PeerIInv /\ [Next]_vars => PeerIInv'
<1>1. PeerIInv /\ Next => PeerIInv'
  BY MainSteps, ThreadSteps, QueueSteps DEF Next
<1>2. PeerIInv /\ UNCHANGED vars => PeerIInv'
  BY DEF PeerIInv, TypeOK, Heard, Ended, vars
<1>3. QED BY <1>1, <1>2

THEOREM PeerInductive == Spec => []PeerIInv
BY InitPeer, NextPeer, PTL DEF Spec

(* The variables of the program keep their types. *)
THEOREM PeerTypeCorrect == Spec => []TypeOK
<1>1. PeerIInv => TypeOK
  BY DEF PeerIInv
<1>2. QED BY <1>1, PeerInductive, PTL

-----------------------------------------------------------------------------
(* After close(), unless the receive thread has thrown the event away,     *)
(* somebody waits for nobody: joins, queues and channels form no circle.   *)
THEOREM NoCircleHolds == Spec => []NoCircle
<1>1. ASSUME PeerIInv, status = "Close", main # "end", event # "lost",
             ~(\/ MainMoves \/ TriggerMoves
               \/ ~Ended("idle") \/ ~Ended("heart")
               \/ ~Ended("receive") /\ event = "raised"
               \/ \E p \in Punchers : PunchMoves(p)
               \/ \E c \in Retries : Retrying(c))
      PROVE  FALSE
  <2>1. Ended("idle") /\ Ended("heart") /\ Ended("receive")
    BY <1>1 DEF PeerIInv, Heard
  <2>2. Ended("trigger")
    BY <1>1, <2>1 DEF TriggerMoves, PeerIInv, TypeOK, Ended
  <2>3. main \in Threads
    BY <1>1, StepsFacts
    DEF MainMoves, PeerIInv, TypeOK, Heard, Order, Threads, Punchers
  <2>4. ~ChannelAlive
    BY <1>1, <2>1, <2>2, <2>3 DEF ChannelAlive, Threads, Punchers
  <2>5. \A p \in Punchers : Ended(p)
    BY <1>1, <2>4 DEF PunchMoves, PeerIInv, TypeOK, Ended
  <2>6. Ended(main)
    BY <2>1, <2>2, <2>3, <2>5 DEF Threads, Punchers
  <2>7. QED BY <1>1, <2>3, <2>6 DEF MainMoves
<1>2. PeerIInv => NoCircle
  BY <1>1 DEF NoCircle
<1>3. QED BY <1>2, PeerInductive, PTL

-----------------------------------------------------------------------------
(* The measure: what is left to do is a natural number, and each step of a *)
(* thread after close() makes one of its parts smaller.                    *)
Active == {c \in Retries : Retrying(c)}

LEMMA ActiveFinite ==
  /\ IsFiniteSet(Active) /\ Cardinality(Active) \in Nat
  /\ \A c \in Active : Cardinality(Active \ {c}) = Cardinality(Active) - 1
<1>1. IsFiniteSet(Active)
  BY PeerAssumption, FS_Subset DEF Active
<1>2. QED BY <1>1, FS_CardinalityType, FS_RemoveElement

Alone == {"idle", "heart", "receive", "trigger"}

PartsOK ==
  /\ MainLeft \in Nat
  /\ \A x \in Threads : StepsLeft(at[x]) \in 0 .. 3
  /\ \A p \in Punchers : PunchLeft(p) \in Nat
  /\ Work \in Nat

LEMMA Parts == PeerIInv => PartsOK
<1> SUFFICES ASSUME PeerIInv PROVE PartsOK
  OBVIOUS
<1>1. MainLeft \in Nat
  BY MainLeftType, StepsFacts DEF PeerIInv, TypeOK
<1>2. \A x \in Threads : StepsLeft(at[x]) \in 0 .. 3
  BY DEF PeerIInv, TypeOK, StepsLeft
<1>3. ASSUME NEW p \in Punchers PROVE PunchLeft(p) \in Nat
  <2>1. queue[p] \in 0 .. 1 /\ StepsLeft(at[p]) \in 0 .. 3
    BY <1>2 DEF PeerIInv, TypeOK, Threads
  <2>2. QED BY <2>1 DEF PunchLeft, Room
<1>4. Work \in Nat
  <2>1. Alone \subseteq Threads /\ {"punch_cone", "punch_sym"} \subseteq Punchers
    BY DEF Alone, Threads, Punchers
  <2>2. QED
    BY <1>1, <1>2, <1>3, <2>1, ActiveFinite DEF Work, Active, Alone
<1>5. QED BY <1>1, <1>2, <1>3, <1>4 DEF PartsOK

LEMMA PartsNext == PeerIInv' => PartsOK'
BY Parts, PTL

LEMMA ActiveNext ==
  PeerIInv' => Cardinality(Active') \in Nat
<1>1. PeerIInv' => Active' \subseteq Retries
  BY DEF Active
<1>2. QED BY <1>1, PeerAssumption, FS_Subset, FS_CardinalityType

Less == 0 <= Work' /\ Work' < Work

(* A step of main. *)
LEMMA LessOfMain ==
  ASSUME PeerIInv, PeerIInv', MainLeft' < MainLeft, UNCHANGED <<at, retry, queue>>
  PROVE  Less
<1>1. PartsOK /\ PartsOK'
  BY Parts, PartsNext
<1>2. /\ \A x \in Threads : StepsLeft(at'[x]) = StepsLeft(at[x])
      /\ \A p \in Punchers : PunchLeft(p)' = PunchLeft(p)
      /\ Active' = Active
  BY DEF PunchLeft, Room, Active, Retrying
<1>3. Alone \subseteq Threads /\ {"punch_cone", "punch_sym"} = Punchers
  BY DEF Alone, Threads, Punchers
<1>4. QED
  BY <1>1, <1>2, <1>3, ActiveFinite DEF Less, Work, PartsOK, Active, Alone

(* A step of a thread that is not a punch thread. *)
LEMMA LessOfThread ==
  ASSUME PeerIInv, PeerIInv', NEW x \in Alone, NEW point,
         Goto(x, point), StepsLeft(point) < StepsLeft(at[x]),
         UNCHANGED <<main, queue>>, Active' = Active
  PROVE  Less
<1>1. PartsOK /\ PartsOK'
  BY Parts, PartsNext
<1>2. Alone \subseteq Threads /\ {"punch_cone", "punch_sym"} = Punchers
      /\ Alone \cap Punchers = {}
  BY DEF Alone, Threads, Punchers
<1>3. /\ at'[x] = point
      /\ \A y \in Threads \ {x} : at'[y] = at[y]
  BY <1>2 DEF Goto, PeerIInv, TypeOK
<1>4. /\ \A y \in Threads \ {x} : StepsLeft(at'[y]) = StepsLeft(at[y])
      /\ StepsLeft(at'[x]) < StepsLeft(at[x])
  BY <1>3
<1>5. MainLeft' = MainLeft
  BY DEF MainLeft
<1>6. \A p \in Punchers : PunchLeft(p)' = PunchLeft(p)
  BY <1>2, <1>3 DEF PunchLeft, Room, Threads
<1>7. QED
  BY <1>1, <1>2, <1>4, <1>5, <1>6, ActiveFinite DEF Less, Work, PartsOK, Active, Alone

(* A step of a punch thread, or a request that is accepted. *)
LEMMA LessOfPuncher ==
  ASSUME PeerIInv, PeerIInv', NEW p \in Punchers,
         PunchLeft(p)' < PunchLeft(p),
         \A x \in Threads \ {p} : at'[x] = at[x],
         \A q \in Punchers \ {p} : queue'[q] = queue[q],
         UNCHANGED main, Active' = Active
  PROVE  Less
<1>1. PartsOK /\ PartsOK'
  BY Parts, PartsNext
<1>2. Alone \subseteq Threads /\ {"punch_cone", "punch_sym"} = Punchers
      /\ Alone \cap Punchers = {} /\ Punchers \subseteq Threads
  BY DEF Alone, Threads, Punchers
<1>3. \A y \in Alone : StepsLeft(at'[y]) = StepsLeft(at[y])
  BY <1>2
<1>4. \A q \in Punchers \ {p} : PunchLeft(q)' = PunchLeft(q)
  BY <1>2 DEF PunchLeft, Room
<1>5. MainLeft' = MainLeft
  BY DEF MainLeft
<1>6. "punch_cone" # "punch_sym"
  OBVIOUS
<1>7. QED
  BY <1>1, <1>2, <1>3, <1>4, <1>5, <1>6, ActiveFinite
  DEF Less, Work, PartsOK, Active, Alone, Punchers

(* The end of a retry thread. *)
LEMMA LessOfRetry ==
  ASSUME PeerIInv, PeerIInv', NEW c \in Active,
         Active' = Active \ {c}, UNCHANGED <<main, at, queue>>
  PROVE  Less
<1>1. PartsOK /\ PartsOK'
  BY Parts, PartsNext
<1>2. /\ \A x \in Threads : StepsLeft(at'[x]) = StepsLeft(at[x])
      /\ \A p \in Punchers : PunchLeft(p)' = PunchLeft(p)
      /\ MainLeft' = MainLeft
  BY DEF PunchLeft, Room, MainLeft
<1>3. Alone \subseteq Threads /\ {"punch_cone", "punch_sym"} = Punchers
  BY DEF Alone, Threads, Punchers
<1>4. Cardinality(Active') = Cardinality(Active) - 1
  BY ActiveFinite
<1>5. QED
  BY <1>1, <1>2, <1>3, <1>4, ActiveFinite DEF Less, Work, PartsOK, Active, Alone

(* Every step after close() does some of what is left to do. *)
Shrinks == Less \/ UNCHANGED <<main, at, retry, queue>>

LEMMA MainShrinks ==
  ASSUME PeerIInv, PeerIInv', status = "Close", Signal \/ MainStep
  PROVE  Shrinks
<1>1. main \in Order /\ main # "run" /\ main # "close"
  BY StepsFacts DEF PeerIInv, TypeOK, Heard
<1>2. DropChanel3 \/ Join
  BY <1>1 DEF Signal, MainStep, Close
<1>3. /\ main # "end" /\ main' = After(main)
      /\ UNCHANGED <<at, retry, queue>>
  BY <1>2 DEF DropChanel3, Join, Threads, Punchers
<1>4. MainLeft' < MainLeft
  BY <1>1, <1>3, AfterFacts
<1>5. QED BY <1>3, <1>4, LessOfMain DEF Shrinks

LEMMA ThreadShrinks ==
  ASSUME PeerIInv, PeerIInv', status = "Close",
         \/ IdleEnds \/ HeartEnds \/ TriggerStep \/ ReceiveClose
         \/ ReceiveAddress \/ ReceiveOther \/ Silence
  PROVE  Shrinks
<1>1. \A x \in Alone : at[x] = "run" => StepsLeft("ended") < StepsLeft(at[x])
  BY DEF StepsLeft
<1>2. retry' = retry => Active' = Active
  BY DEF Active, Retrying
<1>3. CASE IdleEnds
  BY <1>1, <1>2, <1>3, LessOfThread DEF IdleEnds, Alone, Shrinks
<1>4. CASE HeartEnds
  BY <1>1, <1>2, <1>4, LessOfThread DEF HeartEnds, Alone, Shrinks
<1>5. CASE ReceiveClose
  BY <1>1, <1>2, <1>5, LessOfThread DEF ReceiveClose, Alone, Shrinks
<1>6. CASE ReceiveAddress \/ ReceiveOther
  <2>1. Goto("receive", "ended") \/ UNCHANGED at
    BY <1>6 DEF ReceiveAddress, ReceiveOther
  <2>2. at["receive"] = "run" /\ UNCHANGED <<main, retry, queue>>
    BY <1>6 DEF ReceiveAddress, ReceiveOther, Datagram
  <2>3. QED BY <1>1, <1>2, <2>1, <2>2, LessOfThread DEF Alone, Shrinks
<1>7. CASE Silence
  BY <1>7 DEF Silence, Shrinks
<1>8. CASE Spawn
  BY <1>1, <1>2, <1>8, LessOfThread DEF Spawn, Alone, Shrinks
<1>9. CASE StopSpawning
  <2>1. StepsLeft("join") < StepsLeft("run")
    BY DEF StepsLeft
  <2>2. QED BY <1>2, <1>9, <2>1, LessOfThread DEF StopSpawning, Alone, Shrinks
<1>10. CASE JoinRetries
  <2>1. StepsLeft("ended") < StepsLeft("join")
    BY DEF StepsLeft
  <2>2. QED BY <1>2, <1>10, <2>1, LessOfThread DEF JoinRetries, Alone, Shrinks
<1>11. QED
  BY <1>3, <1>4, <1>5, <1>6, <1>7, <1>8, <1>9, <1>10 DEF TriggerStep

(* A request is accepted while there is room, which it takes, and without  *)
(* room the thread that makes it ends.                                     *)
LEMMA RetryShrinks ==
  ASSUME PeerIInv, PeerIInv', NEW c \in Retries, Retry(c)
  PROVE  Shrinks
<1>0. PICK p \in Punchers : p = retry[c]
  BY DEF Retry, Retrying
<1>1. c \in Active /\ UNCHANGED <<main, at>>
  BY DEF Retry, Active
<1>2. /\ retry'[c] \in Punchers \cup {"ended"}
      /\ \A d \in Retries \ {c} : retry'[d] = retry[d]
  BY DEF Retry, Other, PeerIInv, TypeOK, Punchers
<1>3. CASE Accepts(p)
  <2>1. queue' = [queue EXCEPT ![p] = @ + 1] /\ queue[p] = 0
    BY <1>0, <1>3 DEF Retry, Accepts
  <2>2. queue'[p] = 1 /\ \A q \in Punchers \ {p} : queue'[q] = queue[q]
    BY <1>0, <2>1 DEF PeerIInv, TypeOK
  <2>3. retry'[c] \in Punchers
    BY <1>0, <1>3 DEF Retry, Other, PeerIInv, TypeOK, Punchers
  <2>4. Active' = Active
    BY <1>1, <1>2, <2>3 DEF Active, Retrying
  <2>5. StepsLeft(at[p]) \in 0 .. 3
    BY <1>0, Parts DEF PartsOK, Threads
  <2>6. PunchLeft(p)' < PunchLeft(p)
    BY <1>1, <2>1, <2>2, <2>5 DEF PunchLeft, Room
  <2>7. QED BY <1>1, <2>2, <2>4, <2>6, LessOfPuncher DEF Shrinks
<1>4. CASE ~Accepts(p)
  <2>1. retry'[c] = "ended" /\ UNCHANGED queue
    BY <1>0, <1>4 DEF Retry, PeerIInv, TypeOK
  <2>2. Active' = Active \ {c}
    BY <1>2, <2>1 DEF Active, Retrying, Punchers
  <2>3. QED BY <1>1, <2>1, <2>2, LessOfRetry DEF Shrinks
<1>5. QED BY <1>3, <1>4

LEMMA PunchShrinks ==
  ASSUME PeerIInv, PeerIInv', status = "Close", NEW p \in Punchers, PunchStep(p)
  PROVE  Shrinks
<1>1. UNCHANGED <<main, retry>> /\ Active' = Active
  BY DEF PunchStep, NextRequest, Begin, Send, Active, Retrying
<1>2. at \in [Threads -> {"run", "join", "begin", "send", "ended"}]
      /\ queue \in [Punchers -> 0 .. 1] /\ p \in Threads
  BY DEF PeerIInv, TypeOK, Threads
<1>3. /\ \A x \in Threads \ {p} : at'[x] = at[x]
      /\ \A q \in Punchers \ {p} : queue'[q] = queue[q]
  BY <1>2 DEF PunchStep, NextRequest, Begin, Send, Goto
<1>4. PunchLeft(p)' < PunchLeft(p)
  <2>1. CASE NextRequest(p)
    <3>1. at[p] = "run"
      BY <2>1 DEF NextRequest
    <3>2. CASE queue[p] > 0
      <4>1. at'[p] = "begin" /\ queue[p] = 1 /\ queue'[p] = 0
        BY <1>2, <2>1, <3>2 DEF NextRequest, Goto
      <4>2. QED BY <3>1, <4>1 DEF PunchLeft, Room, StepsLeft
    <3>3. CASE ~(queue[p] > 0)
      <4>1. at'[p] = "ended" /\ queue'[p] = queue[p]
        BY <1>2, <2>1, <3>3 DEF NextRequest, Goto
      <4>2. QED BY <1>2, <3>1, <4>1 DEF PunchLeft, Room, StepsLeft
    <3>4. QED BY <3>2, <3>3
  <2>2. CASE Begin(p)
    <3>1. at[p] = "begin" /\ at'[p] = "ended" /\ queue'[p] = queue[p]
      BY <1>2, <2>2 DEF Begin, Refuses, Goto
    <3>2. QED BY <1>2, <3>1 DEF PunchLeft, Room, StepsLeft
  <2>3. CASE Send(p)
    <3>1. at[p] = "send" /\ at'[p] \in {"run", "ended"} /\ queue'[p] = queue[p]
      BY <1>2, <2>3 DEF Send, Goto
    <3>2. QED BY <1>2, <3>1 DEF PunchLeft, Room, StepsLeft
  <2>4. QED BY <2>1, <2>2, <2>3 DEF PunchStep
<1>5. QED BY <1>1, <1>3, <1>4, LessOfPuncher DEF Shrinks

LEMMA StepShrinks ==
  PeerIInv /\ PeerIInv' /\ [Next]_vars /\ status = "Close" => Shrinks
<1>1. PeerIInv /\ PeerIInv' /\ Next /\ status = "Close" => Shrinks
  BY MainShrinks, ThreadShrinks, RetryShrinks, PunchShrinks DEF Next
<1>2. UNCHANGED vars => Shrinks
  BY DEF vars, Shrinks
<1>3. QED BY <1>1, <1>2

(* Nothing goes on for ever after close(): whatever a thread does, there   *)
(* is less to do afterwards, for any number of retry threads.              *)
THEOREM ShutdownShrinksHolds == Spec => ShutdownShrinks
<1>1. PeerIInv /\ PeerIInv' /\ [Next]_vars
        => [status = "Close" =>
              \/ 0 <= Work' /\ Work' < Work
              \/ UNCHANGED <<main, at, retry, queue>>]_vars
  BY StepShrinks DEF Shrinks, Less
<1>2. QED BY <1>1, PeerInductive, PTL DEF Spec, ShutdownShrinks

=============================================================================
