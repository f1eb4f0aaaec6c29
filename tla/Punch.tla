-------------------------------- MODULE Punch --------------------------------
(***************************************************************************)
(* Hole punching.  Channel::punch puts a request into one of two queues of *)
(* capacity one, by the NAT type of the remote peer; for each queue a      *)
(* thread takes requests out and punches, as in examples/peer.rs.          *)
(*                                                                         *)
(* Against a symmetric NAT a punch sends to ports near the predicted one,  *)
(* then to the next chunk of port_vec, a random permutation of all ports;  *)
(* port_index remembers for each peer where the next chunk starts.  A port *)
(* of port_vec is its position here, a predicted port its rank after the   *)
(* shuffle.  The NAT type of this side may change, and the channel may be  *)
(* closed, between any two datagrams.                                      *)
(***************************************************************************)
EXTENDS Integers, Sequences

CONSTANTS
  Punchers,   \* {"Cone", "Symmetric"}: the threads, named for their queue
  IDs,        \* peers
  Requests,   \* what Channel::punch may be called with: (ID, NatInfo)
  PortMax,    \* 65535: the largest u16, and the length of port_vec
  max_k1,     \* [TRUE |-> 60, FALSE |-> 5], by is_cone
  max_k2,     \* [TRUE |-> 800, FALSE |-> 10]
  size,       \* sockets of this side's group while its NAT is symmetric
  None

(* A request: the peer, how many public addresses it has, the port and its *)
(* range, and the type of its NAT.                                         *)
RequestType == [peer : IDs, ips : Nat, public_port : 0 .. PortMax,
                public_port_range : 0 .. PortMax, nat_type : Punchers]

ASSUME PunchAssumption ==
  /\ Punchers = {"Cone", "Symmetric"}
  /\ PortMax \in Nat \ {0}
  /\ \A b \in BOOLEAN : max_k1[b] \in Nat \ {0} /\ max_k2[b] \in Nat \ {0}
  /\ size \in Nat
  /\ Requests \subseteq RequestType
  /\ None \notin Requests

VARIABLES
  status,      \* Status
  open,        \* some Channel, and with it some end to send, is alive
  queue,       \* cone_sender and symmetric_sender: bounded(1)
  at,          \* control point of each thread
  job,         \* the request it works on
  is_cone,     \* NAT type of this side when the punch began
  ports,       \* ports of the running punch_ still to come
  ip,          \* addresses of the first of them already sent to
  count,       \* count in punch_
  port_index,  \* start of each peer's next chunk
  io           \* (ghost) datagrams this punch has sent

work == <<job, is_cone, ports, ip, count, port_index, io>>
vars == <<status, open, queue, at, work>>

PunchPoints == {"next", "begin", "cone", "predict", "near", "chunk", "far",
                "stopped"}

TypeOK ==
  /\ status \in {"Cone", "Symmetric", "Close"}
  /\ open \in BOOLEAN
  /\ queue \in [Punchers -> {<<>>} \cup {<<r>> : r \in Requests}]
  /\ at \in [Punchers -> PunchPoints]
  /\ job \in [Punchers -> Requests \cup {None}]
  /\ is_cone \in [Punchers -> BOOLEAN]
  /\ ports \in [Punchers -> 0 .. PortMax]
  /\ ip \in [Punchers -> Nat]
  /\ count \in [Punchers -> Nat]
  /\ port_index \in [Punchers -> [IDs -> 0 .. PortMax - 1]]
  /\ io \in [Punchers -> Nat]

Init ==
  /\ status = "Cone"
  /\ open = TRUE
  /\ queue = [p \in Punchers |-> <<>>]
  /\ at = [p \in Punchers |-> "next"]
  /\ job = [p \in Punchers |-> None]
  /\ is_cone = [p \in Punchers |-> FALSE]
  /\ ports = [p \in Punchers |-> 0]
  /\ ip = [p \in Punchers |-> 0]
  /\ count = [p \in Punchers |-> 0]
  /\ port_index = [p \in Punchers |-> [i \in IDs |-> 0]]
  /\ io = [p \in Punchers |-> 0]

-----------------------------------------------------------------------------
Goto(p, point) == at' = [at EXCEPT ![p] = point]

(* The call of punch returns; its locals go out of scope.                  *)
Return(p, point) ==
  /\ Goto(p, point)
  /\ job' = [job EXCEPT ![p] = None]
  /\ is_cone' = [is_cone EXCEPT ![p] = FALSE]
  /\ ports' = [ports EXCEPT ![p] = 0]
  /\ ip' = [ip EXCEPT ![p] = 0]
  /\ count' = [count EXCEPT ![p] = 0]
  /\ io' = [io EXCEPT ![p] = 0]

(* Channel::punch: try_send, and "busy" if the queue is full.              *)
Request(r) ==
  /\ open
  /\ queue[r.nat_type] = <<>>
  /\ queue' = [queue EXCEPT ![r.nat_type] = <<r>>]
  /\ UNCHANGED <<status, open, at, work>>

(* set_nat_type and close; the last Channel is dropped only after close.   *)
SetStatus(s) ==
  /\ status # "Close"
  /\ status' = s
  /\ UNCHANGED <<open, queue, at, work>>

DropChannels ==
  /\ status = "Close"
  /\ open
  /\ open' = FALSE
  /\ UNCHANGED <<status, queue, at, work>>

(* Mutations: next_symmetric reads the queue of next_cone; the error of a  *)
(* disconnected queue is taken for a timeout.                              *)
NextFromCone(p) ==
  /\ at[p] = "next"
  /\ IF queue["Cone"] # <<>>
     THEN /\ job' = [job EXCEPT ![p] = Head(queue["Cone"])]
          /\ queue' = [queue EXCEPT !["Cone"] = <<>>]
          /\ Goto(p, "begin")
     ELSE ~open /\ Goto(p, "stopped") /\ UNCHANGED <<job, queue>>
  /\ UNCHANGED <<status, open, is_cone, ports, ip, count, port_index, io>>

NextForever(p) ==
  /\ at[p] = "next"
  /\ queue[p] # <<>>
  /\ job' = [job EXCEPT ![p] = Head(queue[p])]
  /\ queue' = [queue EXCEPT ![p] = <<>>]
  /\ Goto(p, "begin")
  /\ UNCHANGED <<status, open, is_cone, ports, ip, count, port_index, io>>

(* next_cone and next_symmetric: what is in the queue comes first, then    *)
(* the error of a queue nobody can send to any more.                       *)
Next_(p) ==
  /\ at[p] = "next"
  /\ IF queue[p] # <<>>
     THEN /\ job' = [job EXCEPT ![p] = Head(queue[p])]
          /\ queue' = [queue EXCEPT ![p] = <<>>]
          /\ Goto(p, "begin")
     ELSE ~open /\ Goto(p, "stopped") /\ UNCHANGED <<job, queue>>
  /\ UNCHANGED <<status, open, is_cone, ports, ip, count, port_index, io>>

-----------------------------------------------------------------------------
(* punch *)

(* is_close() and the datagram to the local address, if there is one.      *)
Begin(p) ==
  /\ at[p] = "begin"
  /\ IF status = "Close" THEN Return(p, "stopped")
     ELSE /\ Goto(p, IF job[p].nat_type = "Cone" THEN "cone" ELSE "predict")
          /\ io' \in {io, [io EXCEPT ![p] = 1]}
          /\ UNCHANGED <<job, is_cone, ports, ip, count>>
  /\ UNCHANGED <<status, open, queue, port_index>>

(* One datagram to each public address of a cone NAT.                      *)
SendCone(p) ==
  /\ at[p] = "cone"
  /\ IF ip[p] = job[p].ips THEN Return(p, "next")
     ELSE \/ /\ ip' = [ip EXCEPT ![p] = @ + 1]
             /\ io' = [io EXCEPT ![p] = @ + 1]
             /\ UNCHANGED <<at, job, is_cone, ports, count>>
          \/ Return(p, "stopped")
  /\ UNCHANGED <<status, open, queue, port_index>>

(* The ports around the public one, in u16 arithmetic.                     *)
MinPort(r) == IF r.public_port > r.public_port_range
              THEN r.public_port - r.public_port_range ELSE 1

MaxPort(r) == LET sum == r.public_port + r.public_port_range
              IN  IF sum > PortMax THEN PortMax ELSE sum

(* max_port - min_port is below zero: a panic, or a wrap, by the build.     *)
Underflows(r) == MaxPort(r) < MinPort(r)

Near(r, k1) == LET n == (MaxPort(r) - MinPort(r) + 1) % (PortMax + 1)
               IN  IF n > k1 THEN k1 ELSE n

(* The length of nums: the ports from min_port to max_port, or max_port.   *)
NumsLen(r) == IF Underflows(r) THEN 1 ELSE MaxPort(r) - MinPort(r) + 1

(* A new run of punch_ over n ports. *)
Run(p, n) ==
  /\ ports' = [ports EXCEPT ![p] = n]
  /\ ip' = [ip EXCEPT ![p] = 0]
  /\ count' = [count EXCEPT ![p] = 0]

Narrow(r, cone) == r.public_port_range < max_k1[cone] * 4

(* is_cone() is asked once; a narrow range is punched first.               *)
Predict(p) ==
  LET cone == status = "Cone"
      r    == job[p]
  IN
  /\ at[p] = "predict"
  /\ \/ /\ is_cone' = [is_cone EXCEPT ![p] = cone]
        /\ IF Narrow(r, cone)
           THEN Goto(p, "near") /\ Run(p, Near(r, max_k1[cone]))
           ELSE Goto(p, "chunk") /\ UNCHANGED <<ports, ip, count>>
        /\ UNCHANGED <<job, io>>
     \/ Narrow(r, cone) /\ Underflows(r) /\ Return(p, "stopped")
  /\ UNCHANGED <<status, open, queue, port_index>>

(* punch_ stops when it has no more ports, or at count = max.              *)
Max(p) == IF at[p] = "near" THEN max_k1[is_cone[p]] ELSE max_k2[is_cone[p]]

(* Mutation: one datagram less than the limit asks for.                    *)
OverEarly(p) == ports[p] = 0 \/ job[p].ips = 0 \/ count[p] + 2 >= Max(p)

Over(p) == ports[p] = 0 \/ job[p].ips = 0 \/ count[p] + 1 = Max(p)

(* Mutation: is_cone() is asked for every datagram.                        *)
DatagramsNow(p) == IF status = "Cone" THEN {1} ELSE {1 + size}

(* send_to_addr, or send_to_addr_all: also from every socket of the group. *)
Datagrams(p) == IF is_cone[p] THEN {1}
                ELSE IF status = "Symmetric" THEN {1 + size}
                ELSE {1, 1 + size}     \* the group may still be there

Send(p) ==
  /\ at[p] \in {"near", "far"}
  /\ ~Over(p)
  /\ \/ /\ \E d \in Datagrams(p) : io' = [io EXCEPT ![p] = @ + d]
        /\ count' = [count EXCEPT ![p] = @ + 1]
        /\ IF ip[p] + 1 = job[p].ips
           THEN /\ ports' = [ports EXCEPT ![p] = @ - 1]
                /\ ip' = [ip EXCEPT ![p] = 0]
           ELSE ip' = [ip EXCEPT ![p] = @ + 1] /\ UNCHANGED ports
        /\ UNCHANGED <<at, job, is_cone>>
     \/ Return(p, "stopped")     \* a send fails
  /\ UNCHANGED <<status, open, queue, port_index>>

NearDone(p) ==
  /\ at[p] = "near"
  /\ Over(p)
  /\ Goto(p, "chunk")
  /\ UNCHANGED <<status, open, queue, work>>

(* port_vec[start .. end], and where the next chunk will start.            *)
ChunkEnd(p) == port_index[p][job[p].peer] + max_k2[is_cone[p]]

ChunkSize(p) == (IF ChunkEnd(p) >= PortMax THEN PortMax ELSE ChunkEnd(p))
                  - port_index[p][job[p].peer]

(* Mutations: the cursor never returns to the start; it stops at the end.  *)
NextChunkOnwards(p) == ChunkEnd(p)

NextChunkClamped(p) == port_index[p][job[p].peer] + ChunkSize(p)

NextChunk(p) == IF ChunkEnd(p) >= PortMax THEN 0 ELSE ChunkEnd(p)

Chunk(p) ==
  /\ at[p] = "chunk"
  /\ Goto(p, "far")
  /\ Run(p, ChunkSize(p))
  /\ UNCHANGED <<status, open, queue, job, is_cone, port_index, io>>

FarDone(p) ==
  /\ at[p] = "far"
  /\ Over(p)
  /\ port_index' = [port_index EXCEPT ![p][job[p].peer] = NextChunk(p)]
  /\ Return(p, "next")
  /\ UNCHANGED <<status, open, queue>>

-----------------------------------------------------------------------------
PunchStep(p) ==
  \/ Next_(p) \/ Begin(p) \/ SendCone(p) \/ Predict(p) \/ Send(p)
  \/ NearDone(p) \/ Chunk(p) \/ FarDone(p)

Next ==
  \/ \E r \in Requests : Request(r)
  \/ \E s \in {"Cone", "Symmetric", "Close"} : SetStatus(s)
  \/ DropChannels
  \/ \E p \in Punchers : PunchStep(p)

Spec == Init /\ [][Next]_vars

(* The punch threads run. *)
FairSpec == Spec /\ \A p \in Punchers : WF_vars(PunchStep(p))

-----------------------------------------------------------------------------
(* "Avoid a great deal of io when the NAT turns symmetric while sending"   *)
(* (punch/mod.rs): a punch sends many datagrams, or each of few from every *)
(* socket of the group, never many from every socket, whatever becomes of  *)
(* the NAT type while it runs.                                             *)
IoBound(cone) ==
  (max_k1[cone] + max_k2[cone] - 2) * (IF cone THEN 1 ELSE 1 + size)

IoBounded ==
  \A p \in Punchers :
    at[p] \in {"near", "chunk", "far"} =>
      io[p] <= 1 + IoBound(TRUE) \/ io[p] <= 1 + IoBound(FALSE)

(* A punch that returns normally against one address has sent to every     *)
(* port of its chunk, but for the last of a full one, before the peer's    *)
(* cursor moves on; a punch that fails leaves the cursor where it was.     *)
CursorFollowsPorts ==
  [][\A p \in Punchers, i \in IDs :
       port_index'[p][i] # port_index[p][i] =>
         /\ at[p] = "far"
         /\ job[p].peer = i
         /\ job[p].ips = 1 => count[p] >= ChunkSize(p) - 1]_vars

(* No slice of punch is out of bounds, and no chunk is empty: whatever port *)
(* a peer reports, nums has the k ports that are taken from it, and whatever *)
(* NAT types the earlier punches met, the cursor stays inside port_vec and *)
(* the next punch has ports to try.                                        *)
SlicesInBounds ==
  \A p \in Punchers :
    /\ at[p] = "predict" /\ Narrow(job[p], status = "Cone") =>
         Near(job[p], max_k1[status = "Cone"]) \in 0 .. NumsLen(job[p])
    /\ at[p] = "chunk" => /\ ChunkSize(p) > 0
                         /\ port_index[p][job[p].peer] + ChunkSize(p) <= PortMax

(* A request that was accepted is taken by its thread, unless the thread   *)
(* has ended on an error; and both threads end when the channels are gone. *)
RequestTaken ==
  \A p \in Punchers : queue[p] # <<>> ~> queue[p] = <<>> \/ at[p] = "stopped"

ThreadsEnd == ~open ~> \A p \in Punchers : at[p] = "stopped"
=============================================================================
