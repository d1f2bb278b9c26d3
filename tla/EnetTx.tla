------------------------------- MODULE EnetTx --------------------------------
(***************************************************************************)
(* How frames leave the board.  Core R0 collects the frames of its own     *)
(* sockets and of the other cores' rings in one queue and, once per        *)
(* interrupt, fills the cars of the trains that the FPGA fetches over      *)
(* PCIe: send_to_ethernet, ipc_scan_other_core_enet_txque_to_pcie_txque,   *)
(* push_enet_frm_to_pcie, and train_tx_update_header at the end.           *)
(*                                                                         *)
(* The rings of the other cores are taken as ShmRing shows them to be, one *)
(* sequence of frames per core, without the overruns.  The FPGA is         *)
(* external: it raises the interrupt, and fetches the train last published *)
(* at any moment before the next is published (FpgaInTime: this the code   *)
(* relies on and does not check).                                          *)
(***************************************************************************)
EXTENDS Integers, SequencesExt

CONSTANTS
    NumSockets,   \* MAX_METH_SOCKET_ID: sockets 0 .. NumSockets - 1, all of send_mode 0
    NumCores,     \* other cores with a ring to R0, scanned in the order 1 .. NumCores
    Ports,        \* bits of a destination mask
    Kinds,        \* the kinds of frames sent, a set of [type, mask]
    SocketMax,    \* frames in a socket's queue at most: TX_QUEUE_SIZE
    RingMax,      \* frames in another core's ring at most
    QueueMax,     \* frames in pcie_r0_tx_enetque at most: ENET_TX_MAX_NUM
    CarNum,       \* big cars of a train: CAR_NUM
    MaxFrames     \* bound on the number of frames sent

FrameSlots == 1 .. 4      \* dstport_en_slot1 .. dstport_en_slot4
Trains == {"slot0_1", "slot2", "slot3"}
FrameTypes == {"enet", "inet", "broadcast", "lan"}

ASSUME EnetTxAssumption ==
    /\ NumSockets \in Nat \ {0} /\ NumCores \in Nat
    /\ Kinds \subseteq [type : FrameTypes, mask : [FrameSlots -> SUBSET Ports]]
    /\ IsFiniteSet(Ports)
    /\ SocketMax \in Nat /\ RingMax \in Nat /\ QueueMax \in Nat \ {0} /\ CarNum \in Nat
    /\ MaxFrames \in Nat

\* Where a frame goes in practice, which the push of frames into cars relies on
\* without checking it: one of ENET_PORT_TYPE names the ports of one slot and not
\* the internal network's, and the others name the internal network only.
OneSlotEach ==
    \A kind \in Kinds :
       IF kind.type = "enet"
       THEN \E slot \in 2 .. 4 : \A k \in FrameSlots : kind.mask[k] # {} <=> k = slot
       ELSE \A k \in 2 .. 4 : kind.mask[k] = {}

\* A train has a car for each port and one for the internal network: with
\* CAR_NUM = 16, fifteen ports, one less than MAX_PORT_ID.
CarsForPorts == Cardinality(Ports) < CarNum

VARIABLES
    socket,   \* the transmit queues of R0's sockets
    ring,     \* the other cores' rings
    queue,    \* pcie_r0_tx_enetque
    train,    \* per train: the car sets, the write index, the header
    isr,      \* where R0's interrupt is, with the locals of push_enet_frm_to_pcie
    wire,     \* what the FPGA fetched from each train, and what went to other cores
    lost,     \* frames dropped on the way
    count     \* number of frames sent so far

vars == <<socket, ring, queue, train, isr, wire, lost, count>>

Sockets == 0 .. NumSockets - 1
Cores == 1 .. NumCores
Sources == {<<"socket", s>> : s \in Sockets} \cup {<<"core", c>> : c \in Cores}

Frames == [src : Sources, id : 1 .. MaxFrames, kind : Kinds]

NoPorts == [k \in FrameSlots |-> {}]
Locals == [used_ports : [FrameSlots -> SUBSET Ports], has_sent_inet_frame : BOOLEAN,
           tx_cfg : Trains]
FirstLocals == [used_ports |-> NoPorts, has_sent_inet_frame |-> FALSE, tx_cfg |-> "slot2"]

TrainState == [car : [{0, 1} -> Seq(Frames)], write_index : 0 .. CarNum,
               car_id : 0 .. 2, car_num : 0 .. CarNum, fetched : BOOLEAN]

\* The scan of the other cores' rings is at slot number RingMax - left of core's.
IsrState == [pc : {"idle", "scan", "push", "send"}, core : 1 .. NumCores + 1,
             left : 0 .. RingMax, locals : Locals]

TypeOK ==
    /\ socket \in [Sockets -> Seq(Frames)] /\ \A s \in Sockets : Len(socket[s]) <= SocketMax
    /\ ring \in [Cores -> Seq(Frames)] /\ \A c \in Cores : Len(ring[c]) <= RingMax
    /\ queue \in Seq(Frames) /\ Len(queue) <= QueueMax
    /\ train \in [Trains -> TrainState]
    /\ \A t \in Trains, set \in {0, 1} : Len(train[t].car[set]) <= CarNum
    /\ isr \in IsrState /\ (isr.pc = "scan" => isr.core \in Cores)
    /\ wire \in [Trains \cup {"cores"} -> Seq(Frames)]
    /\ lost \subseteq Frames
    /\ count \in 0 .. MaxFrames

Init ==
    /\ socket = [s \in Sockets |-> <<>>]
    /\ ring = [c \in Cores |-> <<>>]
    /\ queue = <<>>
    /\ train = [t \in Trains |-> [car |-> [set \in {0, 1} |-> <<>>], write_index |-> 0,
                                  car_id |-> 0, car_num |-> 0, fetched |-> TRUE]]
    /\ isr = [pc |-> "idle", core |-> 1, left |-> 0, locals |-> FirstLocals]
    /\ wire = [w \in Trains \cup {"cores"} |-> <<>>]
    /\ lost = {}
    /\ count = 0
-----------------------------------------------------------------------------
(* The applications.                                                       *)

NewFrame(src, kind) == [src |-> src, id |-> count + 1, kind |-> kind]

\* A call finding the queue full returns FALSE and changes nothing.
sendto_raw_socket(s, kind) ==
    /\ isr.pc = "idle"
    /\ count < MaxFrames
    /\ Len(socket[s]) < SocketMax
    /\ socket' = [socket EXCEPT ![s] = Append(@, NewFrame(<<"socket", s>>, kind))]
    /\ count' = count + 1
    /\ UNCHANGED <<ring, queue, train, isr, wire, lost>>

\* Another core puts a frame for the network in its ring, at any time.
OtherCoreSends(c, kind) ==
    /\ count < MaxFrames
    /\ kind.type \in {"enet", "broadcast"}
    /\ Len(ring[c]) < RingMax
    /\ ring' = [ring EXCEPT ![c] = Append(@, NewFrame(<<"core", c>>, kind))]
    /\ count' = count + 1
    /\ UNCHANGED <<socket, queue, train, isr, wire, lost>>
-----------------------------------------------------------------------------
(* R0's interrupt.                                                         *)

\* The sockets of the applications in order, socket 0 (arp, ip) after them.
Waiting == {s \in Sockets : socket[s] # <<>>}
NextSocket == IF Waiting \ {0} # {} THEN Min(Waiting \ {0}) ELSE 0

ToNetwork(f) == f.kind.type \in {"enet", "broadcast"}
ToCores(f) == f.kind.type \in {"inet", "broadcast"}

\* Core c's ring is scanned next, or after the last core the cars are filled;
\* a scan looks at a ring's frame_num slots at most.
ScanFrom(c, locals) ==
    isr' = IF c <= NumCores THEN [pc |-> "scan", core |-> c, left |-> RingMax, locals |-> isr.locals]
           ELSE [pc |-> "push", core |-> 1, left |-> 0, locals |-> locals]

\* (Mutants: the queue's room is not looked at; used_ports is not cleared.)
ScanIgnoresRoom ==
    /\ isr.pc = "scan" /\ isr.left > 0
    /\ ring[isr.core] # <<>>
    /\ queue' = Append(queue, Head(ring[isr.core]))
    /\ ring' = [ring EXCEPT ![isr.core] = Tail(@)]
    /\ isr' = [isr EXCEPT !.left = @ - 1]
    /\ UNCHANGED <<socket, train, wire, lost, count>>
ScanKeepsLocals(c) == ScanFrom(c, isr.locals)

EnterScan(c) == ScanFrom(c, FirstLocals)

\* One frame is taken out of its socket; when the queue is full it is lost, and
\* so is one of INET_PORT_TYPE whose address is neither broadcast nor a core's.
send_to_ethernet ==
    /\ isr.pc = "idle"
    /\ EnterScan(1)
    /\ IF Waiting = {} THEN UNCHANGED <<socket, queue, wire, lost>>
       ELSE LET f == Head(socket[NextSocket])
                room == Len(queue) < QueueMax
            IN  /\ socket' = [socket EXCEPT ![NextSocket] = Tail(@)]
                /\ queue' = IF ToNetwork(f) /\ room THEN Append(queue, f) ELSE queue
                /\ wire' = IF ToCores(f) THEN [wire EXCEPT !["cores"] = Append(@, f)] ELSE wire
                /\ lost' = IF (ToNetwork(f) /\ room) \/ (ToCores(f) /\ ~ ToNetwork(f))
                           THEN lost ELSE lost \cup {f}
    /\ UNCHANGED <<ring, train, count>>

\* One turn of ipc_scan_other_core_enet_txque_to_pcie_txque: the oldest frame
\* of the ring goes to the queue.
ScanTakesFrame ==
    /\ isr.pc = "scan" /\ isr.left > 0
    /\ ring[isr.core] # <<>> /\ Len(queue) < QueueMax
    /\ queue' = Append(queue, Head(ring[isr.core]))
    /\ ring' = [ring EXCEPT ![isr.core] = Tail(@)]
    /\ isr' = [isr EXCEPT !.left = @ - 1]
    /\ UNCHANGED <<socket, train, wire, lost, count>>

\* The ring is empty, or its slots have been looked at: the next core's.
ScanNextCore ==
    /\ isr.pc = "scan"
    /\ isr.left = 0 \/ ring[isr.core] = <<>>
    /\ EnterScan(isr.core + 1)
    /\ UNCHANGED <<socket, ring, queue, train, wire, lost, count>>

\* The queue is full: the frame stays in its ring, and so do all that follow.
ScanStops ==
    /\ isr.pc = "scan" /\ isr.left > 0
    /\ ring[isr.core] # <<>> /\ Len(queue) = QueueMax
    /\ EnterScan(NumCores + 1)
    /\ UNCHANGED <<socket, ring, queue, train, wire, lost, count>>

IsLan(f) == f.kind.type # "enet"

\* The mask a frame is checked against the ports used: the first not empty.
CheckedSlot(f) == IF \E k \in 1 .. 3 : f.kind.mask[k] # {}
                  THEN Min({k \in 1 .. 3 : f.kind.mask[k] # {}}) ELSE 4

\* (A mutant: ports used by an earlier frame of the cycle are not looked at.)
MayGoAnyPort(f) == IsLan(f) => ~ isr.locals.has_sent_inet_frame

\* dequeue_pcie_enet_frame: may f go in this cycle?
MayGo(f) ==
    IF IsLan(f) THEN ~ isr.locals.has_sent_inet_frame
    ELSE isr.locals.used_ports[CheckedSlot(f)] \cap f.kind.mask[CheckedSlot(f)] = {}

\* Of the slots 2, 3 and 4, only the first with a destination counts.
LaterSlot(f) == IF \E k \in 2 .. 4 : f.kind.mask[k] # {}
                THEN Min({k \in 2 .. 4 : f.kind.mask[k] # {}}) ELSE 1

TrainOfSlot == <<"slot2", "slot0_1", "slot2", "slot3">>

Noted(f) ==
    LET l == isr.locals IN
    [used_ports |-> [k \in FrameSlots |-> IF k \in {1, LaterSlot(f)}
                                          THEN l.used_ports[k] \cup f.kind.mask[k]
                                          ELSE l.used_ports[k]],
     has_sent_inet_frame |-> l.has_sent_inet_frame \/ IsLan(f),
     tx_cfg |-> IF LaterSlot(f) = 1 THEN l.tx_cfg ELSE TrainOfSlot[LaterSlot(f)]]

\* (A mutant: the set the FPGA fetches is the one filled.)
FilledSetSwapped(t) == IF train[t].car_id = 1 THEN 0 ELSE 1

\* train_tx_get_buff: the set being filled, told from the header's car_id.
FilledSet(t) == IF train[t].car_id = 1 THEN 1 ELSE 0

WriteCar(cars, i, f) == IF i <= Len(cars) THEN [cars EXCEPT ![i] = f] ELSE Append(cars, f)

\* One turn of the loop of push_enet_frm_to_pcie.  The frame has left the queue
\* when its train turns out to have no car left: it is lost, and the loop ends.
PushFrame ==
    /\ isr.pc = "push"
    /\ queue # <<>>
    /\ MayGo(Head(queue))
    /\ LET f == Head(queue)
           t == Noted(f).tx_cfg
           i == train[t].write_index
       IN  /\ queue' = Tail(queue)
           /\ IF i = CarNum
              THEN /\ isr' = [isr EXCEPT !.pc = "send", !.locals = Noted(f)]
                   /\ lost' = lost \cup {f}
                   /\ UNCHANGED train
              ELSE /\ isr' = [isr EXCEPT !.locals = Noted(f)]
                   /\ train' = [train EXCEPT ![t].car[FilledSet(t)] = WriteCar(@, i + 1, f),
                                             ![t].write_index = i + 1]
                   /\ UNCHANGED lost
    /\ UNCHANGED <<socket, ring, wire, count>>

\* The queue is empty, or the frame at its head has to wait for the next cycle.
PushEnds ==
    /\ isr.pc = "push"
    /\ ~ (queue # <<>> /\ MayGo(Head(queue)))
    /\ isr' = [isr EXCEPT !.pc = "send"]
    /\ UNCHANGED <<socket, ring, queue, train, wire, lost, count>>

\* (A mutant: the write index is not reset.)
HeadersKeepIndex ==
    /\ isr.pc = "send"
    /\ train' = [t \in Trains |->
                   [train[t] EXCEPT !.car_num = train[t].write_index,
                                    !.car_id = IF @ = 1 THEN 2 ELSE 1,
                                    !.fetched = train[t].write_index = 0]]
    /\ isr' = [isr EXCEPT !.pc = "idle"]
    /\ UNCHANGED <<socket, ring, queue, wire, lost, count>>

\* train_tx_update_header on every train: the set filled is published, and the
\* other is filled next.  An empty train needs no fetching.
train_tx_update_header ==
    /\ isr.pc = "send"
    /\ train' = [t \in Trains |->
                   [train[t] EXCEPT !.car_num = train[t].write_index,
                                    !.write_index = 0,
                                    !.car_id = IF @ = 1 THEN 2 ELSE 1,
                                    !.fetched = train[t].write_index = 0]]
    /\ isr' = [isr EXCEPT !.pc = "idle"]
    /\ UNCHANGED <<socket, ring, queue, wire, lost, count>>

\* The code updates the headers without looking at the FPGA.  That the trains
\* published in one interrupt have been fetched before the next is over is up
\* to the FPGA, which raises the interrupts: the environment's part of Isr.
FpgaInTime == \A t \in Trains : train[t].fetched

\* The first n cars of a set; one never written holds no frame.
FirstCars(cars, n) == SubSeq(cars, 1, Min({n, Len(cars)}))

\* The FPGA fetches car_num cars of the set car_id names.
FpgaFetches(t) ==
    /\ ~ train[t].fetched
    /\ wire' = [wire EXCEPT ![t] =
                  @ \o FirstCars(train[t].car[IF train[t].car_id = 1 THEN 0 ELSE 1], train[t].car_num)]
    /\ train' = [train EXCEPT ![t].fetched = TRUE]
    /\ UNCHANGED <<socket, ring, queue, isr, lost, count>>

App == \/ \E s \in Sockets, kind \in Kinds : sendto_raw_socket(s, kind)
       \/ \E c \in Cores, kind \in Kinds : OtherCoreSends(c, kind)
Isr == \/ send_to_ethernet \/ ScanTakesFrame \/ ScanNextCore \/ ScanStops \/ PushFrame
       \/ PushEnds \/ (FpgaInTime /\ train_tx_update_header)
Fpga == \E t \in Trains : FpgaFetches(t)
Next == App \/ Isr \/ Fpga

Spec == Init /\ [][Next]_vars

\* The interrupt recurs, and the FPGA fetches every train.
FairSpec == Spec /\ WF_vars(Isr) /\ \A t \in Trains : WF_vars(FpgaFetches(t))
-----------------------------------------------------------------------------
(* Properties.                                                             *)

\* The frames put in cars since the headers were last updated.
FilledCars(t) == FirstCars(train[t].car[FilledSet(t)], train[t].write_index)
Filled == UNION {{[train |-> t, i |-> i, f |-> FilledCars(t)[i]] : i \in DOMAIN FilledCars(t)} :
                   t \in Trains}

\* "In each cycle the same port sends one frame only" (push_enet_frm_to_pcie):
\* no two frames of a cycle have a destination port in common, and one frame at
\* most is for the internal network.
OneFramePerPort ==
    \A x, y \in Filled :
       x # y => /\ \A k \in FrameSlots : x.f.kind.mask[k] \cap y.f.kind.mask[k] = {}
                /\ ~ (IsLan(x.f) /\ IsLan(y.f))

\* The frames of one source leave each train in the order they were sent, none
\* twice: what the FPGA fetches is never a car filled for another cycle, and no
\* retry, full queue or full train lets a later frame overtake.
WireInOrder ==
    \A w \in Trains \cup {"cores"} :
       \A i, j \in 1 .. Len(wire[w]) :
          i < j /\ wire[w][i].src = wire[w][j].src => wire[w][i].id < wire[w][j].id

\* Nothing that has an address is lost: each cycle takes one frame of R0's
\* sockets and pushes at least one, so that the queue always has room for it;
\* the other cores' frames wait in their rings; and no train runs out of cars
\* when it has one for each port and one for the internal network.
NothingLost == \A f \in lost : f.kind.type = "lan"

\* All frames sent are accounted for: waiting, in a car, fetched or lost.
Everywhere ==
    UNION ({ToSet(socket[s]) : s \in Sockets} \cup {ToSet(ring[c]) : c \in Cores}
           \cup {ToSet(queue), lost} \cup {ToSet(wire[w]) : w \in DOMAIN wire}
           \cup {ToSet(FilledCars(t)) : t \in Trains}
           \cup {ToSet(FirstCars(train[t].car[1 - FilledSet(t)], train[t].car_num)) : t \in Trains})

AllAccountedFor == {f.id : f \in Everywhere} = 1 .. count

\* When no more is sent, everything leaves: no frame waits for ever behind one
\* whose port was used.
Drains == <>[](count = MaxFrames) =>
             <>[](Waiting = {} /\ queue = <<>> /\ \A c \in Cores : ring[c] = <<>>)
=============================================================================
