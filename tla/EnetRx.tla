------------------------------- MODULE EnetRx --------------------------------
(***************************************************************************)
(* How frames from the network reach a core's applications.  Core R0 takes *)
(* the cars of the FPGA's trains, several trains in each interrupt         *)
(* (intr_recv_handler, train_recv), and copies them to a ring in shared    *)
(* memory, with no flow control, publishing the write position after the   *)
(* last car of a train (pcie_to_enet_rxque).  Once per interrupt each      *)
(* reading core sorts the ring's frames by their Ethernet type into the    *)
(* queues of its sockets (inet_fpga_to_rxfifo, enqueueRxPacket), from      *)
(* which the applications take them (dequeueRxPacket).                     *)
(*                                                                         *)
(* A frame has a head line, with its header and Ethernet type, and a body  *)
(* line for the rest and the checksum, each carrying the frame's number:   *)
(* the checksum fits when the two agree.  The reader here is core R1, at   *)
(* any pace; R0 reading its own ring is the case in which one pass of the  *)
(* reader runs after each of R0's interrupts.                              *)
(***************************************************************************)
EXTENDS Integers, Sequences, FiniteSets

CONSTANTS
    Sockets,      \* the reading core's sockets that are configured
    Types,        \* Ethernet types
    Accepts,      \* the types each socket is configured for (reportTypes)
    RingNum,      \* RX_CAR_MAX_NUM, slots of the ring
    ReadMax,      \* frames handled in one call of inet_fpga_to_rxfifo at most
    QueueMax,     \* frames in a socket's queue at most: RX_QUEUE_SIZE
    TrainNum,     \* entries of core_train_rx: trains taken in one interrupt
    TrainMax,     \* Ethernet frames of one train at most
    MaxFrames     \* bound on the number of frames received

ASSUME EnetRxAssumption ==
    /\ Accepts \in [Sockets -> SUBSET Types]
    /\ RingNum \in Nat \ {0} /\ ReadMax \in Nat \ {0} /\ QueueMax \in Nat \ {0}
    /\ TrainNum \in Nat \ {0} /\ TrainMax \in Nat \ {0}
    /\ MaxFrames \in Nat

\* One call handles more than a third of the ring (16 of 32).
ASSUME ReadMaxAssumption == RingNum <= 3 * ReadMax

VARIABLES
    shm,        \* enet_rx_shm_que
    write_pos,  \* ipc_shm_info.rx_ctrl_info.enet_write_pos
    writer,     \* R0: write_idx_local, the interrupt's trains to come and frames
                \* so far, frames left of the train, lines to write
    reader,     \* the reading core: where it is, read_idx_local and its locals
    queue,      \* the receive queues of its sockets
    sent,       \* number of frames R0 has begun to write
    matched,    \* per socket: frames written that it is configured for
    dropped,    \* per socket: frames its full queue had no room for
    got,        \* per socket: what the application got
    ran,        \* a pass of the reader has ended since the last interrupt began
    paced,      \* so far one has between any two interrupts
    light       \* so far no interrupt brought a third of the ring or more

vars == <<shm, write_pos, writer, reader, queue, sent, matched, dropped, got, ran, paced, light>>

Slots == 0 .. RingNum - 1
Lines == {"head", "body"}
Frames == [head : Nat, type : Types \cup {"none"}, body : Nat]
NoFrame == [head |-> 0, type |-> "none", body |-> 0]

TypeOK ==
    /\ shm \in [Slots -> Frames] /\ write_pos \in Slots
    /\ writer \in [idx : Slots, trains : 0 .. TrainNum, load : Nat, left : 0 .. TrainMax,
                   todo : SUBSET Lines, type : Types \cup {"none"}]
    /\ reader \in [pc : {"idle", "test", "copy"}, idx : Slots, pos : Slots,
                   budget : 0 .. ReadMax, from : Slots, frame : Frames]
    /\ queue \in [Sockets -> Seq(Frames)] /\ \A s \in Sockets : Len(queue[s]) <= QueueMax
    /\ sent \in 0 .. MaxFrames
    /\ matched \in [Sockets -> Nat] /\ dropped \in [Sockets -> Nat]
    /\ got \in [Sockets -> [num : Nat, head : Nat, body : Nat]]
    /\ ran \in BOOLEAN /\ paced \in BOOLEAN /\ light \in BOOLEAN

Init ==
    /\ shm = [i \in Slots |-> NoFrame] /\ write_pos = 0
    /\ writer = [idx |-> 0, trains |-> 0, load |-> 0, left |-> 0, todo |-> {}, type |-> "none"]
    /\ reader = [pc |-> "idle", idx |-> 0, pos |-> 0, budget |-> 0, from |-> 0, frame |-> NoFrame]
    /\ queue = [s \in Sockets |-> <<>>]
    /\ sent = 0
    /\ matched = [s \in Sockets |-> 0] /\ dropped = [s \in Sockets |-> 0]
    /\ got = [s \in Sockets |-> [num |-> 0, head |-> 0, body |-> 0]]
    /\ ran = TRUE /\ paced = TRUE /\ light = TRUE

NextSlot(i) == (i + 1) % RingNum       \* & 0x1F, & (RX_CAR_MAX_NUM - 1)
-----------------------------------------------------------------------------
(* R0.                                                                     *)

\* intr_recv_handler starts on the trains of core_train_rx.
IntrBegin ==
    /\ writer.trains = 0 /\ writer.left = 0 /\ writer.todo = {}
    /\ writer' = [writer EXCEPT !.trains = TrainNum, !.load = 0]
    /\ ran' = FALSE
    /\ paced' = (paced /\ ran)
    /\ UNCHANGED <<shm, write_pos, reader, queue, sent, matched, dropped, got, light>>

\* train_recv: n cars of the next train hold a good Ethernet frame.
TrainArrives(n) ==
    /\ writer.trains > 0 /\ writer.left = 0 /\ writer.todo = {}
    /\ sent + n <= MaxFrames
    /\ writer' = [writer EXCEPT !.trains = @ - 1, !.load = @ + n, !.left = n]
    /\ light' = (light /\ 3 * (writer.load + n) < RingNum)
    /\ UNCHANGED <<shm, write_pos, reader, queue, sent, matched, dropped, got, ran, paced>>

WriteBegin(type) ==
    /\ writer.left > 0 /\ writer.todo = {}
    /\ sent' = sent + 1
    /\ matched' = [s \in Sockets |-> IF type \in Accepts[s] THEN matched[s] + 1 ELSE matched[s]]
    /\ writer' = [writer EXCEPT !.todo = Lines, !.type = type]
    /\ UNCHANGED <<shm, write_pos, reader, queue, dropped, got, ran, paced, light>>

\* memcpy, the new checksum and cache_wb_com: the lines reach memory in some
\* order.  With the last line of the last frame the write position is published.
WriteLine(line) ==
    LET done == writer.todo = {line} IN
    /\ line \in writer.todo
    /\ shm' = [shm EXCEPT ![writer.idx] =
                 IF line = "head" THEN [@ EXCEPT !.head = sent, !.type = writer.type]
                 ELSE [@ EXCEPT !.body = sent]]
    /\ writer' = IF done
                 THEN [writer EXCEPT !.idx = NextSlot(@), !.left = @ - 1, !.todo = {}, !.type = "none"]
                 ELSE [writer EXCEPT !.todo = @ \ {line}]
    /\ write_pos' = IF done /\ writer.left = 1 THEN NextSlot(writer.idx) ELSE write_pos
    /\ UNCHANGED <<reader, queue, sent, matched, dropped, got, ran, paced, light>>
-----------------------------------------------------------------------------
(* The reading core's interrupt: inet_fpga_to_rxfifo.                      *)

ReadBegin ==
    /\ reader.pc = "idle"
    /\ reader' = [reader EXCEPT !.pc = "test", !.pos = write_pos, !.budget = ReadMax]
    /\ UNCHANGED <<shm, write_pos, writer, queue, sent, matched, dropped, got, ran, paced, light>>

\* The write position was invalidated once; later tests of it see the cached
\* value, or the one in memory if the line has left the cache.
Positions == {reader.pos, write_pos}

\* (A mutant: a pass cut short skips to the write position.)
ReadEndSkips(pos) ==
    /\ reader.pc = "test"
    /\ reader.budget = 0 \/ reader.idx = pos
    /\ reader' = [reader EXCEPT !.pc = "idle", !.idx = pos, !.pos = pos, !.budget = 0]
    /\ ran' = TRUE
    /\ UNCHANGED <<shm, write_pos, writer, queue, sent, matched, dropped, got, paced, light>>

ReadEnd(pos) ==
    /\ reader.pc = "test"
    /\ reader.budget = 0 \/ reader.idx = pos
    /\ reader' = [reader EXCEPT !.pc = "idle", !.pos = pos, !.budget = 0]
    /\ ran' = TRUE
    /\ UNCHANGED <<shm, write_pos, writer, queue, sent, matched, dropped, got, paced, light>>

\* (A mutant: the index is not advanced.)
ReadHeadStays(pos) ==
    /\ reader.pc = "test"
    /\ reader.budget > 0 /\ reader.idx # pos
    /\ reader' = [reader EXCEPT !.pc = "copy", !.pos = pos, !.budget = @ - 1,
                                !.from = reader.idx, !.frame = shm[reader.idx]]
    /\ UNCHANGED <<shm, write_pos, writer, queue, sent, matched, dropped, got, ran, paced, light>>

ReadHead(pos) ==
    /\ reader.pc = "test"
    /\ reader.budget > 0 /\ reader.idx # pos
    /\ reader' = [reader EXCEPT !.pc = "copy", !.pos = pos, !.budget = @ - 1,
                                !.from = reader.idx, !.idx = NextSlot(@),
                                !.frame = shm[reader.idx]]
    /\ UNCHANGED <<shm, write_pos, writer, queue, sent, matched, dropped, got, ran, paced, light>>

Matching(type) == {s \in Sockets : type \in Accepts[s]}

\* (A mutant: the full test is one too late.)
FullTooLate(s) == Len(queue[s]) = QueueMax + 1

Full(s) == Len(queue[s]) = QueueMax

\* enqueueRxPacket for each socket of the frame's type; the body line is read
\* by the first copy, and is in the cache for the others.
ReadBody ==
    LET f == [reader.frame EXCEPT !.body = shm[reader.from].body]
        takers == Matching(f.type)
    IN  /\ reader.pc = "copy"
        /\ queue' = [s \in Sockets |-> IF s \in takers /\ ~ Full(s) THEN Append(queue[s], f)
                                       ELSE queue[s]]
        /\ dropped' = [s \in Sockets |-> IF s \in takers /\ Full(s) THEN dropped[s] + 1
                                         ELSE dropped[s]]
        /\ reader' = [reader EXCEPT !.pc = "test", !.frame = NoFrame]
        /\ UNCHANGED <<shm, write_pos, writer, sent, matched, got, ran, paced, light>>
-----------------------------------------------------------------------------
(* The application: dequeueRxPacket, through recvfrom.                     *)

\* (A mutant: the checksum is not looked at.)
NoChecksum(f) == TRUE

ChecksumFits(f) == f.head = f.body

dequeueRxPacket(s) ==
    /\ queue[s] # <<>>
    /\ LET f == Head(queue[s])
       IN  got' = IF ChecksumFits(f)
                  THEN [got EXCEPT ![s] = [num |-> @.num + 1, head |-> f.head, body |-> f.body]]
                  ELSE got
    /\ queue' = [queue EXCEPT ![s] = Tail(@)]
    /\ UNCHANGED <<shm, write_pos, writer, reader, sent, matched, dropped, ran, paced, light>>

Writer == \/ IntrBegin
          \/ \E n \in 0 .. TrainMax : TrainArrives(n)
          \/ \E type \in Types : WriteBegin(type)
          \/ \E line \in Lines : WriteLine(line)
Reader == \/ ReadBegin \/ ReadBody
          \/ \E pos \in Positions : ReadEnd(pos) \/ ReadHead(pos)
App == \E s \in Sockets : dequeueRxPacket(s)
Next == Writer \/ Reader \/ App

Spec == Init /\ [][Next]_vars
-----------------------------------------------------------------------------
(* Properties.                                                             *)

\* No application gets a frame made of parts of two, however far R0 laps the
\* reader and in whatever order the lines are written and read.
DeliveredWhole == \A s \in Sockets : got[s].head = got[s].body

\* The reader keeps step: a pass of it ends between any two interrupts, and no
\* interrupt brings a third of the ring (11 of 32 frames), over all its trains.
InStep == paced /\ light

\* As inet_fpga_to_rxfifo sees it the ring is empty, and R0 is not writing.
CaughtUp == /\ reader.pc = "idle" /\ reader.idx = writer.idx
            /\ writer.left = 0 /\ writer.todo = {}

AllHandled == \A s \in Sockets : got[s].num + Len(queue[s]) + dropped[s] = matched[s]

\* As long as the reader keeps step, a frame is missing only where a socket's
\* queue was full: when it finds the ring empty (inet_fpga_to_rxfifo), every
\* socket has had all frames of its types.
NoneMissed == InStep /\ CaughtUp => AllHandled

\* What a socket has had, as the receiving end of a channel.
Had(s) == [num |-> got[s].num, head |-> got[s].head]

Channel(s) == INSTANCE LossyChannel WITH delivered <- Had(s)

\* To each socket the path from R0's receive interrupt (pcie_to_enet_rxque) to
\* recvfrom is a lossy channel for as long as the reader keeps step: frames come
\* once each and in the order R0 received them.  (This is Channel(s)!Spec for
\* all sockets s, with the quantifier inside, up to the step that breaks it.)
SocketsAreLossyChannels ==
    /\ \A s \in Sockets : Channel(s)!Init
    /\ [][InStep' => \A s \in Sockets : [Channel(s)!Next]_<<sent, Had(s)>>]_vars
=============================================================================
