---------------------------- MODULE EnetRx_proofs ----------------------------
(***************************************************************************)
(* For every size of the ring, of the queues and of the trains, any number *)
(* of sockets and any configuration of them: the variables keep their      *)
(* types, no application gets parts of two frames, and for as long as the  *)
(* reader keeps step it misses nothing and gets everything in order.       *)
(***************************************************************************)
EXTENDS EnetRx, FiniteSetTheorems, TLAPS

WriterStates == [idx : Slots, trains : 0 .. TrainNum, load : Nat, left : 0 .. TrainMax,
                 todo : SUBSET Lines, type : Types \cup {"none"}]
ReaderStates == [pc : {"idle", "test", "copy"}, idx : Slots, pos : Slots,
                 budget : 0 .. ReadMax, from : Slots, frame : Frames]

\* Slots from a forward to b.
Ahead(a, b) == IF b >= a THEN b - a ELSE b - a + RingNum

LEMMA NextSlotIs ==
    ASSUME NEW i \in Slots
    PROVE  NextSlot(i) = IF i = RingNum - 1 THEN 0 ELSE i + 1
  BY EnetRxAssumption DEF NextSlot, Slots

LEMMA NextSlotInRing == \A i \in Slots : NextSlot(i) \in Slots
  BY NextSlotIs, EnetRxAssumption DEF Slots

LEMMA AheadInRing == \A a, b \in Slots : Ahead(a, b) \in Nat /\ Ahead(a, b) < RingNum
  BY EnetRxAssumption DEF Slots, Ahead

LEMMA AheadIsZero == \A a, b \in Slots : (a = b => Ahead(a, b) = 0) /\ (Ahead(a, b) = 0 => a = b)
  BY EnetRxAssumption DEF Slots, Ahead

LEMMA AheadAdds ==
    \A a, b, c \in Slots :
      Ahead(b, c) <= Ahead(a, c) \/ Ahead(a, b) <= Ahead(a, c) =>
        Ahead(a, b) + Ahead(b, c) = Ahead(a, c)
  BY EnetRxAssumption DEF Slots, Ahead

LEMMA AheadAdvances ==
    \A a, b \in Slots :
      /\ Ahead(a, NextSlot(b)) = IF Ahead(a, b) = RingNum - 1 THEN 0 ELSE Ahead(a, b) + 1
      /\ Ahead(NextSlot(a), b) = IF a = b THEN RingNum - 1 ELSE Ahead(a, b) - 1
  BY NextSlotIs, EnetRxAssumption DEF Slots, Ahead

-----------------------------------------------------------------------------
(* Types.  A train's frames are counted, so that the bound on the number   *)
(* of frames holds to its end.                                             *)
Written == IF writer.todo = {} THEN sent ELSE sent - 1

TrainCounted == /\ writer.left = 0 => writer.todo = {}
                /\ Written + writer.left <= MaxFrames

TypeInv == TypeOK /\ TrainCounted

\* The reader's record keeps its type in the updates of its steps.
LEMMA Updated ==
    ASSUME NEW r \in ReaderStates, NEW pos \in Slots, NEW n \in 0 .. ReadMax
    PROVE  /\ [r EXCEPT !.pc = "test", !.pos = pos, !.budget = n] \in ReaderStates
           /\ [r EXCEPT !.pc = "idle", !.pos = pos, !.budget = n] \in ReaderStates
           /\ \A from, idx \in Slots, frame \in Frames :
                [r EXCEPT !.pc = "copy", !.pos = pos, !.budget = n, !.from = from,
                          !.idx = idx, !.frame = frame] \in ReaderStates
  <1> DEFINE b == 0 .. ReadMax
  <1>1. n \in b
    OBVIOUS
  <1>2. ReaderStates = [pc : {"idle", "test", "copy"}, idx : Slots, pos : Slots,
                        budget : b, from : Slots, frame : Frames]
    BY DEF ReaderStates
  <1> HIDE DEF b
  <1> QED
    BY <1>1, <1>2

LEMMA TypeInit == Init => TypeInv
  <1> SUFFICES ASSUME Init PROVE TypeInv
    OBVIOUS
  <1>1. 0 \in Slots /\ NoFrame \in Frames
    BY EnetRxAssumption DEF Slots, NoFrame, Frames
  <1>2. TypeOK
    BY <1>1, EnetRxAssumption DEF Init, TypeOK
  <1>3. TrainCounted
    BY EnetRxAssumption DEF Init, TrainCounted, Written
  <1> QED
    BY <1>2, <1>3 DEF TypeInv

LEMMA TypeStep == TypeInv /\ [Next]_vars => TypeInv'
  <1> SUFFICES ASSUME TypeInv, [Next]_vars PROVE TypeInv'
    OBVIOUS
  <1> USE EnetRxAssumption
  <1>0. TypeOK /\ TrainCounted
    BY DEF TypeInv
  <1>w. writer \in WriterStates
    BY <1>0 DEF TypeOK, WriterStates
  <1>r. reader \in ReaderStates
    BY <1>0 DEF TypeOK, ReaderStates
  <1>b. 0 \in 0 .. ReadMax /\ ReadMax \in 0 .. ReadMax
    OBVIOUS
  <1>s. shm \in [Slots -> Frames] /\ write_pos \in Slots
    BY <1>0 DEF TypeOK
  <1>0a. CASE IntrBegin
    <2>1. writer' \in WriterStates
      <3>1. TrainNum \in 0 .. TrainNum /\ 0 \in Nat
        OBVIOUS
      <3>2. \A k \in 0 .. TrainNum : [writer EXCEPT !.trains = k, !.load = 0] \in WriterStates
        BY <1>w DEF WriterStates
      <3> QED
        BY <1>0a, <3>1, <3>2 DEF IntrBegin
    <2>2. TypeOK'
      BY <1>0, <1>0a, <2>1 DEF IntrBegin, TypeOK, WriterStates
    <2>3. TrainCounted'
      <3>1. writer'.left = writer.left /\ writer'.todo = writer.todo /\ sent' = sent
        BY <1>w, <1>0a DEF IntrBegin, WriterStates
      <3> QED
        BY <1>0, <3>1 DEF TrainCounted, Written
    <2> QED
      BY <2>2, <2>3 DEF TypeInv
  <1>1. ASSUME NEW n \in 0 .. TrainMax, TrainArrives(n) PROVE TypeInv'
    <2>1. writer' \in WriterStates
      <3>1. writer.trains - 1 \in 0 .. TrainNum /\ writer.load + n \in Nat
        BY <1>w, <1>1 DEF TrainArrives, WriterStates
      <3>2. \A k \in 0 .. TrainNum, m \in Nat, l \in 0 .. TrainMax :
              [writer EXCEPT !.trains = k, !.load = m, !.left = l] \in WriterStates
        BY <1>w DEF WriterStates
      <3> QED
        BY <1>1, <3>1, <3>2 DEF TrainArrives
    <2>2. TypeOK'
      BY <1>0, <1>1, <2>1 DEF TrainArrives, TypeOK, WriterStates
    <2>3. TrainCounted'
      <3>1. writer'.left = n /\ writer'.todo = {} /\ sent' = sent
        BY <1>0, <1>1 DEF TrainArrives, TypeOK
      <3> QED
        BY <1>0, <1>1, <3>1 DEF TrainArrives, TypeOK, TrainCounted, Written
    <2> QED
      BY <2>2, <2>3 DEF TypeInv
  <1>2. ASSUME NEW type \in Types, WriteBegin(type) PROVE TypeInv'
    <2>1. writer' \in WriterStates
      BY <1>w, <1>2 DEF WriteBegin, WriterStates
    <2>2. matched' \in [Sockets -> Nat]
      BY <1>0, <1>2 DEF WriteBegin, TypeOK
    <2>3. sent' \in 0 .. MaxFrames
      BY <1>0, <1>2 DEF WriteBegin, TypeOK, TrainCounted, Written
    <2>4. TypeOK'
      BY <1>0, <1>2, <2>1, <2>2, <2>3 DEF WriteBegin, TypeOK, WriterStates
    <2>5. TrainCounted'
      <3>1. writer'.left = writer.left /\ writer'.todo # {} /\ sent' = sent + 1
        BY <1>0, <1>2 DEF WriteBegin, TypeOK, Lines
      <3> QED
        BY <1>0, <1>2, <3>1 DEF WriteBegin, TypeOK, TrainCounted, Written
    <2> QED
      BY <2>4, <2>5 DEF TypeInv
  <1>3. ASSUME NEW line \in Lines, WriteLine(line) PROVE TypeInv'
    <2>1. writer.left > 0 /\ writer.left - 1 \in 0 .. TrainMax /\ NextSlot(writer.idx) \in Slots
      BY <1>0, <1>w, <1>3, NextSlotInRing DEF WriterStates, TrainCounted, WriteLine
    <2>2. shm' \in [Slots -> Frames]
      <3>1. shm[writer.idx] \in Frames /\ sent \in Nat
        BY <1>0 DEF TypeOK
      <3>2. [shm[writer.idx] EXCEPT !.head = sent, !.type = writer.type] \in Frames
        BY <1>0, <3>1 DEF TypeOK, Frames
      <3>3. [shm[writer.idx] EXCEPT !.body = sent] \in Frames
        BY <3>1 DEF Frames
      <3> QED
        BY <1>0, <1>3, <3>2, <3>3 DEF TypeOK, WriteLine
    <2>3. writer' \in WriterStates
      <3>1. \A i \in Slots, l \in 0 .. TrainMax :
              [writer EXCEPT !.idx = i, !.left = l, !.todo = {}, !.type = "none"] \in WriterStates
        BY <1>w DEF WriterStates
      <3>2. [writer EXCEPT !.todo = @ \ {line}] \in WriterStates
        BY <1>w DEF WriterStates
      <3> QED
        BY <1>3, <2>1, <3>1, <3>2 DEF WriteLine
    <2>4. write_pos' \in Slots
      BY <1>0, <1>3, <2>1 DEF TypeOK, WriteLine
    <2>5. TypeOK'
      BY <1>0, <1>3, <2>2, <2>3, <2>4 DEF TypeOK, WriteLine, WriterStates
    <2>6. TrainCounted'
      <3>1. CASE writer.todo = {line}
        BY <1>0, <1>3, <2>1, <3>1 DEF TypeOK, TrainCounted, Written, WriteLine
      <3>2. CASE writer.todo # {line}
        BY <1>0, <1>3, <2>1, <3>2 DEF TypeOK, TrainCounted, Written, WriteLine
      <3> QED
        BY <3>1, <3>2
    <2> QED
      BY <2>5, <2>6 DEF TypeInv
  <1>4. CASE ReadBegin
    <2>1. reader' \in ReaderStates
      BY <1>r, <1>s, <1>b, <1>4, Updated DEF ReadBegin
    <2> QED
      BY <1>0, <1>4, <2>1 DEF ReadBegin, TypeInv, TypeOK, ReaderStates, TrainCounted, Written
  <1>5. CASE ReadBody
    <2>1. NoFrame \in Frames
      BY DEF NoFrame, Frames
    <2>2. [reader.frame EXCEPT !.body = shm[reader.from].body] \in Frames
      BY <1>0 DEF TypeOK, Frames
    <2>3. queue' \in [Sockets -> Seq(Frames)]
      <3> DEFINE f == [reader.frame EXCEPT !.body = shm[reader.from].body]
      <3>1. \A s \in Sockets : Append(queue[s], f) \in Seq(Frames)
        BY <1>0, <2>2 DEF TypeOK
      <3> HIDE DEF f
      <3>2. queue' = [s \in Sockets |-> IF s \in Matching(f.type) /\ ~ Full(s) THEN Append(queue[s], f)
                                        ELSE queue[s]]
        BY <1>5 DEF ReadBody, f
      <3> QED
        BY <1>0, <3>1, <3>2 DEF TypeOK
    <2>4. \A s \in Sockets : Len(queue'[s]) <= QueueMax
      <3> DEFINE f == [reader.frame EXCEPT !.body = shm[reader.from].body]
      <3>1. \A s \in Sockets : Len(Append(queue[s], f)) = Len(queue[s]) + 1
        BY <1>0, <2>2 DEF TypeOK
      <3> HIDE DEF f
      <3>2. queue' = [s \in Sockets |-> IF s \in Matching(f.type) /\ ~ Full(s) THEN Append(queue[s], f)
                                        ELSE queue[s]]
        BY <1>5 DEF ReadBody, f
      <3>3. \A s \in Sockets : Len(queue[s]) \in Nat /\ Len(queue[s]) <= QueueMax
        BY <1>0 DEF TypeOK
      <3> QED
        BY <3>1, <3>2, <3>3 DEF Full
    <2>5. dropped' \in [Sockets -> Nat]
      BY <1>0, <1>5 DEF ReadBody, TypeOK
    <2>6. reader' \in ReaderStates
      BY <1>r, <1>5, <2>1 DEF ReadBody, ReaderStates
    <2> QED
      BY <1>0, <1>5, <2>3, <2>4, <2>5, <2>6 DEF ReadBody, TypeInv, TypeOK, ReaderStates, TrainCounted, Written
  <1>6. ASSUME NEW pos \in Positions, ReadEnd(pos) PROVE TypeInv'
    <2>1. pos \in Slots
      BY <1>r, <1>s DEF Positions, ReaderStates
    <2>2. reader' \in ReaderStates
      BY <1>r, <1>b, <1>6, <2>1, Updated DEF ReadEnd
    <2> QED
      BY <1>0, <1>6, <2>2 DEF ReadEnd, TypeInv, TypeOK, ReaderStates, TrainCounted, Written
  <1>7. ASSUME NEW pos \in Positions, ReadHead(pos) PROVE TypeInv'
    <2>1. pos \in Slots /\ NextSlot(reader.idx) \in Slots /\ shm[reader.idx] \in Frames
      BY <1>r, <1>s, NextSlotInRing DEF Positions, ReaderStates
    <2>2. reader.budget - 1 \in 0 .. ReadMax
      BY <1>r, <1>7 DEF ReadHead, ReaderStates
    <2>3. reader.idx \in Slots
      BY <1>r DEF ReaderStates
    <2>4. reader' \in ReaderStates
      BY <1>r, <1>7, <2>1, <2>2, <2>3, Updated DEF ReadHead
    <2> QED
      BY <1>0, <1>7, <2>4 DEF ReadHead, TypeInv, TypeOK, ReaderStates, TrainCounted, Written
  <1>8. ASSUME NEW s \in Sockets, dequeueRxPacket(s) PROVE TypeInv'
    <2>1. queue[s] \in Seq(Frames) /\ Head(queue[s]) \in Frames /\ Tail(queue[s]) \in Seq(Frames)
          /\ Len(Tail(queue[s])) <= QueueMax
      BY <1>0, <1>8 DEF TypeOK, dequeueRxPacket
    <2>2. got[s].num + 1 \in Nat /\ Head(queue[s]).head \in Nat /\ Head(queue[s]).body \in Nat
      <3>1. got[s] \in [num : Nat, head : Nat, body : Nat]
        BY <1>0 DEF TypeOK
      <3> QED
        BY <2>1, <3>1 DEF Frames
    <2>3. got' \in [Sockets -> [num : Nat, head : Nat, body : Nat]]
      BY <1>0, <1>8, <2>2 DEF TypeOK, dequeueRxPacket
    <2>4. queue' \in [Sockets -> Seq(Frames)] /\ \A q \in Sockets : Len(queue'[q]) <= QueueMax
      BY <1>0, <1>8, <2>1 DEF TypeOK, dequeueRxPacket
    <2> QED
      BY <1>0, <1>8, <2>3, <2>4 DEF dequeueRxPacket, TypeInv, TypeOK, TrainCounted, Written
  <1>9. CASE UNCHANGED vars
    BY <1>0, <1>9 DEF vars, TypeInv, TypeOK, TrainCounted, Written
  <1> QED
    BY <1>0a, <1>1, <1>2, <1>3, <1>4, <1>5, <1>6, <1>7, <1>8, <1>9 DEF Next, Writer, Reader, App

LEMMA TypeInvariant == Spec => []TypeInv
  BY TypeInit, TypeStep, PTL DEF Spec

\* The variables keep their types: the indices stay in the ring, no queue
\* passes RX_QUEUE_SIZE and no train more than its frames (inet_fpga_to_rxfifo,
\* enqueueRxPacket, pcie_to_enet_rxque).
THEOREM TypeCorrect == Spec => []TypeOK
  <1>1. TypeInv => TypeOK
    BY DEF TypeInv
  <1> QED
    BY <1>1, TypeInvariant, PTL

-----------------------------------------------------------------------------
(* Whole frames: dequeueRxPacket compares the checksum with the frame in   *)
(* the queue, so that no assumption on the ring is needed.                 *)
LEMMA WholeStep == TypeInv /\ DeliveredWhole /\ [Next]_vars => DeliveredWhole'
  <1> SUFFICES ASSUME TypeInv, DeliveredWhole, [Next]_vars PROVE DeliveredWhole'
    OBVIOUS
  <1>1. ASSUME NEW s \in Sockets, dequeueRxPacket(s) PROVE DeliveredWhole'
    BY <1>1 DEF dequeueRxPacket, ChecksumFits, DeliveredWhole, TypeInv, TypeOK
  <1>2. CASE UNCHANGED got
    BY <1>2 DEF DeliveredWhole
  <1>3. CASE Writer \/ Reader \/ UNCHANGED vars
    BY <1>2, <1>3 DEF Writer, IntrBegin, TrainArrives, WriteBegin, WriteLine,
                      Reader, ReadBegin, ReadBody, ReadEnd, ReadHead, vars
  <1> QED
    BY <1>1, <1>3 DEF Next, App

\* However far core R0 laps the reader, an application gets no frame made of
\* parts of two (the checksum test of dequeueRxPacket).
THEOREM FramesDeliveredWhole == Spec => []DeliveredWhole
  <1>1. Init => DeliveredWhole
    BY DEF Init, DeliveredWhole
  <1> QED
    BY <1>1, WholeStep, TypeInvariant, PTL DEF Spec
-----------------------------------------------------------------------------
(* The reader in step.  M frames come in one interrupt at most, three      *)
(* times M fit the ring, and what the reader is behind is less than the    *)
(* ring: at most M when its pass after the last interrupt has ended (ran), *)
(* M more before that, and M more from the interrupt now being served.     *)
M == (RingNum - 1) \div 3

Unread == Ahead(reader.idx, writer.idx)
Unpublished == Ahead(write_pos, writer.idx)

\* What the interrupt may still bring, while it has trains to come.
Rest == IF writer.trains > 0 THEN M - writer.load ELSE 0
Lag == Unread + writer.left + Rest
PassBound == IF ran THEN M ELSE 2 * M

\* The published position lies between the reader's and the writer's.
InPlace ==
    /\ writer.trains > 0 => writer.load <= M
    /\ Unpublished <= Unread
    /\ Unpublished + writer.left + Rest <= M
    /\ writer.left = 0 => write_pos = writer.idx
    /\ writer.todo = {} => writer.type = "none"

\* A pass in progress brings the lag down to PassBound before it ends.
LagBounded ==
    /\ Lag <= M + PassBound
    /\ reader.pc # "idle" =>
         /\ Ahead(reader.idx, reader.pos) <= Ahead(reader.idx, write_pos)
         /\ Lag <= PassBound + reader.budget
         /\ Lag <= PassBound + Ahead(reader.idx, reader.pos)

\* The unread slots hold the frames after the last one read, in order.
LastRead == Written - Unread
SlotsHold ==
    \A i \in Slots : Ahead(reader.idx, i) < Unread =>
      shm[i].head = LastRead + 1 + Ahead(reader.idx, i) /\ shm[i].body = shm[i].head

\* The lines of the frame being written that have reached memory.
LineWritten ==
    writer.todo # {} =>
      /\ "head" \notin writer.todo => shm[writer.idx].head = sent /\ shm[writer.idx].type = writer.type
      /\ "body" \notin writer.todo => shm[writer.idx].body = sent

\* The slot a frame is being copied from still holds it.
CopyHolds ==
    reader.pc = "copy" =>
      /\ reader.idx = NextSlot(reader.from)
      /\ reader.frame.head = LastRead /\ shm[reader.from].body = LastRead

RingInv == InPlace /\ LagBounded /\ SlotsHold /\ LineWritten /\ CopyHolds

LEMMA ThirdOfRing ==
    /\ M \in Nat /\ 3 * M < RingNum /\ M <= ReadMax
    /\ \A n \in Nat : 3 * n < RingNum => n <= M
  BY EnetRxAssumption, ReadMaxAssumption DEF M

LEMMA Fields ==
    ASSUME TypeInv
    PROVE  /\ writer.idx \in Slots /\ writer.left \in Nat /\ writer.todo \subseteq Lines
           /\ writer.left = 0 => writer.todo = {}
           /\ reader.idx \in Slots /\ reader.pos \in Slots /\ reader.from \in Slots
           /\ reader.budget \in Nat /\ reader.pc \in {"idle", "test", "copy"}
           /\ write_pos \in Slots /\ sent \in Nat /\ Written \in Int
           /\ writer.trains \in Nat /\ writer.load \in Nat
  BY DEF TypeInv, TypeOK, TrainCounted, Written

LEMMA Distances ==
    ASSUME TypeInv, InPlace, LagBounded
    PROVE  /\ Unread \in Nat /\ Unpublished \in Nat
           /\ Ahead(reader.idx, write_pos) \in Nat /\ Ahead(reader.idx, reader.pos) \in Nat
           /\ Ahead(reader.idx, write_pos) + Unpublished = Unread
           /\ M \in Nat /\ PassBound \in Nat /\ M <= PassBound /\ PassBound <= 2 * M
           /\ Rest \in Nat /\ Lag \in Nat /\ Lag = Unread + writer.left + Rest
           /\ Unread + writer.left < RingNum
           /\ LastRead \in Int
  <1>1. Unread \in Nat /\ Unpublished \in Nat
        /\ Ahead(reader.idx, write_pos) \in Nat /\ Ahead(reader.idx, reader.pos) \in Nat
    BY Fields, AheadInRing DEF Unread, Unpublished
  <1>2. Ahead(reader.idx, write_pos) + Unpublished = Unread
    BY Fields, AheadAdds DEF Unread, Unpublished, InPlace
  <1>3. M \in Nat /\ PassBound \in Nat /\ M <= PassBound /\ PassBound <= 2 * M
    BY ThirdOfRing DEF PassBound
  <1>r. Rest \in Nat
    BY <1>3, Fields DEF Rest, InPlace
  <1>4. Unread + writer.left < RingNum
    BY <1>1, <1>3, <1>r, Fields, ThirdOfRing, EnetRxAssumption DEF LagBounded, Lag
  <1>5. Lag \in Nat /\ Lag = Unread + writer.left + Rest
    BY <1>1, <1>r, Fields DEF Lag
  <1> QED
    BY <1>1, <1>2, <1>3, <1>r, <1>4, <1>5, Fields DEF LastRead

LEMMA RingInit == Init => RingInv
  <1> SUFFICES ASSUME Init PROVE RingInv
    OBVIOUS
  <1>1. 0 \in Slots /\ Ahead(0, 0) = 0 /\ M \in Nat
    BY EnetRxAssumption, ThirdOfRing DEF Slots, Ahead
  <1>2. \A i \in Slots : Ahead(0, i) \in Nat
    BY EnetRxAssumption DEF Slots, Ahead
  <1>3. writer.idx = 0 /\ writer.left = 0 /\ writer.todo = {} /\ writer.type = "none"
        /\ writer.trains = 0
        /\ reader.pc = "idle" /\ reader.idx = 0 /\ write_pos = 0 /\ ran
    BY DEF Init
  <1> QED
    BY <1>1, <1>2, <1>3 DEF RingInv, InPlace, LagBounded, SlotsHold, LineWritten, CopyHolds,
       Unread, Unpublished, Lag, Rest, PassBound, Written

\* An interrupt begins: it may bring M frames, and a pass has ended.
LEMMA RingIntrBegin ==
    ASSUME TypeInv, InStep', RingInv, IntrBegin
    PROVE  RingInv' /\ LastRead' = LastRead
  <1>1. /\ writer'.idx = writer.idx /\ writer'.left = 0 /\ writer'.todo = {}
        /\ writer'.type = writer.type /\ writer.left = 0 /\ writer.todo = {}
        /\ writer.trains = 0 /\ writer'.trains = TrainNum /\ writer'.load = 0
        /\ ran /\ ~ ran'
        /\ UNCHANGED <<shm, write_pos, reader, sent>>
    BY DEF IntrBegin, InStep, TypeInv, TypeOK
  <1>m. M' = M
    BY DEF M
  <1>r. Rest = 0 /\ Rest' = M
    BY <1>1, <1>m, ThirdOfRing, EnetRxAssumption DEF Rest
  <1>2. Unread' = Unread /\ Unpublished' = Unpublished /\ Lag' = Lag + M /\ Written' = Written
        /\ LastRead' = LastRead
    BY <1>1, <1>r, Distances DEF Unread, Unpublished, Lag, Written, LastRead, RingInv
  <1>3. PassBound = M /\ PassBound' = 2 * M
    BY <1>1, <1>m DEF PassBound
  <1>4. Unpublished = 0
    BY <1>1, Fields, AheadIsZero DEF RingInv, InPlace, Unpublished
  <1>5. InPlace'
    <2>1. InPlace /\ Unread \in Nat /\ M \in Nat
      BY Distances DEF RingInv
    <2> QED
      BY <1>1, <1>2, <1>m, <1>r, <1>4, <2>1 DEF InPlace
  <1>6. LagBounded'
    <2>1. LagBounded /\ Lag \in Nat /\ M \in Nat /\ reader.budget \in Nat
          /\ Ahead(reader.idx, reader.pos) \in Nat
      BY Distances, Fields DEF RingInv
    <2> QED
      BY <1>1, <1>2, <1>3, <1>m, <2>1 DEF LagBounded
  <1>7. SlotsHold' /\ LineWritten' /\ CopyHolds'
    BY <1>1, <1>2 DEF RingInv, SlotsHold, LineWritten, CopyHolds
  <1> QED
    BY <1>2, <1>5, <1>6, <1>7 DEF RingInv

\* A train takes its frames from what the interrupt may still bring.
LEMMA RingTrainArrives ==
    ASSUME TypeInv, InStep', RingInv, NEW n \in 0 .. TrainMax, TrainArrives(n)
    PROVE  RingInv' /\ LastRead' = LastRead
  <1>1. /\ writer'.idx = writer.idx /\ writer'.left = n /\ writer'.todo = {}
        /\ writer'.type = writer.type /\ writer.left = 0 /\ writer.todo = {}
        /\ writer.trains > 0 /\ writer'.trains = writer.trains - 1
        /\ writer'.load = writer.load + n /\ n \in Nat
        /\ UNCHANGED <<shm, write_pos, reader, sent, ran>>
    BY DEF TrainArrives, TypeInv, TypeOK
  <1>l. writer.load + n <= M
    <2>1. light' /\ (light' <=> light /\ 3 * (writer.load + n) < RingNum)
      BY Zenon DEF TrainArrives, InStep
    <2>2. 3 * (writer.load + n) < RingNum
      BY <2>1
    <2>3. writer.load + n \in Nat
      BY <1>1, Fields
    <2> QED
      BY <2>2, <2>3, ThirdOfRing
  <1>m. M' = M
    BY DEF M
  <1>r. Rest = M - writer.load /\ M \in Nat /\ writer.load \in Nat
        /\ Rest' = IF writer.trains > 1 THEN Rest - n ELSE 0
    BY <1>1, <1>m, Fields, ThirdOfRing DEF Rest
  <1>s. Rest' \in Nat /\ n + Rest' <= Rest /\ Rest \in Nat
    BY <1>1, <1>l, <1>r
  <1>u. Unread' = Unread /\ Unpublished' = Unpublished
        /\ Written' = Written /\ LastRead' = LastRead
    BY <1>1 DEF Unread, Unpublished, Written, LastRead
  <1>v. Lag' = Unread' + n + Rest' /\ Unread \in Nat /\ Lag = Unread + Rest
    BY <1>1, Distances DEF Lag, RingInv
  <1>2. Unread' = Unread /\ Unpublished' = Unpublished /\ Lag' <= Lag /\ Lag' \in Nat
        /\ Written' = Written /\ LastRead' = LastRead
    <2>1. PICK rest \in Nat : rest = Rest'
      BY <1>s
    <2>2. PICK lag : lag = Lag'
      OBVIOUS
    <2>3. n \in Nat /\ Rest \in Nat /\ Unread \in Nat /\ n + rest <= Rest /\ Lag = Unread + Rest
      BY <1>1, <1>s, <1>v, <2>1
    <2>4. lag = Unread + n + rest
      BY <1>u, <1>v, <2>1, <2>2
    <2>5. lag <= Lag /\ lag \in Nat
      BY <2>3, <2>4
    <2> QED
      BY <1>u, <2>2, <2>5
  <1>3. PassBound' = PassBound
    BY <1>1, <1>m DEF PassBound
  <1>4. Unpublished = 0
    BY <1>1, Fields, AheadIsZero DEF RingInv, InPlace, Unpublished
  <1>5. InPlace'
    <2>1. InPlace /\ Unread \in Nat
      BY Distances DEF RingInv
    <2>2. n + Rest' <= M
      BY <1>1, <1>r, <1>s
    <2> QED
      BY <1>1, <1>2, <1>l, <1>m, <1>s, <1>4, <2>1, <2>2 DEF InPlace
  <1>6. LagBounded'
    <2>1. LagBounded /\ Lag \in Nat /\ M \in Nat /\ reader.budget \in Nat
          /\ PassBound \in Nat /\ Ahead(reader.idx, reader.pos) \in Nat
      BY Distances, Fields DEF RingInv
    <2> QED
      BY <1>1, <1>2, <1>3, <1>m, <2>1 DEF LagBounded
  <1>7. SlotsHold' /\ LineWritten' /\ CopyHolds'
    BY <1>1, <1>2 DEF RingInv, SlotsHold, LineWritten, CopyHolds
  <1> QED
    BY <1>2, <1>5, <1>6, <1>7 DEF RingInv

LEMMA RingWriteBegin ==
    ASSUME TypeInv, InStep', RingInv, NEW type \in Types, WriteBegin(type)
    PROVE  RingInv' /\ LastRead' = LastRead
  <1>1. /\ writer'.idx = writer.idx /\ writer'.left = writer.left /\ writer'.todo = Lines
        /\ writer.left > 0 /\ writer.todo = {} /\ sent' = sent + 1
        /\ writer'.trains = writer.trains /\ writer'.load = writer.load
        /\ UNCHANGED <<shm, write_pos, reader, ran>>
    BY DEF WriteBegin, TypeInv, TypeOK
  <1>m. M' = M
    BY DEF M
  <1>2. Unread' = Unread /\ Unpublished' = Unpublished /\ Lag' = Lag /\ Written' = Written
        /\ LastRead' = LastRead /\ Rest' = Rest
    BY <1>1, <1>m, Fields DEF Unread, Unpublished, Lag, Rest, Written, LastRead, Lines
  <1>p. PassBound' = PassBound
    BY <1>1, <1>m DEF PassBound
  <1>3. InPlace'
    BY <1>1, <1>2, <1>m, Fields DEF RingInv, InPlace, Lines
  <1>4. LagBounded'
    BY <1>1, <1>2, <1>m, <1>p DEF RingInv, LagBounded
  <1>5. SlotsHold' /\ LineWritten' /\ CopyHolds'
    BY <1>1, <1>2 DEF RingInv, SlotsHold, LineWritten, CopyHolds, Lines
  <1> QED
    BY <1>2, <1>3, <1>4, <1>5 DEF RingInv

\* A line of the frame goes to a slot the reader has nothing to do with.
LEMMA WriteAside ==
    ASSUME TypeInv, RingInv, NEW line \in Lines, WriteLine(line)
    PROVE  /\ \A i \in Slots : Ahead(reader.idx, i) < Unread => i # writer.idx
           /\ reader.pc = "copy" => reader.from # writer.idx
           /\ \A i \in Slots : i # writer.idx => shm'[i] = shm[i]
           /\ Unread + 1 < RingNum /\ Unpublished + 1 < RingNum
  <1>1. writer.left > 0
    BY Fields DEF WriteLine
  <1>2. Unread + writer.left < RingNum /\ Unread \in Nat /\ Unpublished \in Nat /\ Unpublished <= Unread
    BY Distances DEF RingInv, InPlace
  <1>3. \A i \in Slots : Ahead(reader.idx, i) < Unread => i # writer.idx
    BY <1>2 DEF Unread
  <1>4. ASSUME reader.pc = "copy" PROVE reader.from # writer.idx
    <2>1. reader.idx = NextSlot(reader.from)
      BY <1>4 DEF RingInv, CopyHolds
    <2>2. Ahead(NextSlot(reader.from), reader.from) = RingNum - 1
      <3>1. \A a \in Slots : Ahead(NextSlot(a), a) = RingNum - 1
        BY AheadAdvances
      <3> QED
        BY <3>1, Fields
    <2> QED
      BY <1>1, <1>2, <2>1, <2>2, Fields, EnetRxAssumption DEF Unread
  <1>5. \A i \in Slots : i # writer.idx => shm'[i] = shm[i]
    <2>1. shm \in [Slots -> Frames]
      BY DEF TypeInv, TypeOK
    <2> QED
      BY <2>1 DEF WriteLine
  <1>6. Unread + 1 < RingNum /\ Unpublished + 1 < RingNum
    BY <1>1, <1>2, Fields, EnetRxAssumption
  <1> QED
    BY <1>3, <1>4, <1>5, <1>6

\* What reaches the slot.
LEMMA LineReaches ==
    ASSUME TypeInv, RingInv, NEW line \in Lines, WriteLine(line)
    PROVE  /\ line = "head" => shm'[writer.idx].head = sent /\ shm'[writer.idx].type = writer.type
                               /\ shm'[writer.idx].body = shm[writer.idx].body
           /\ line = "body" => shm'[writer.idx].body = sent
                               /\ shm'[writer.idx].head = shm[writer.idx].head
                               /\ shm'[writer.idx].type = shm[writer.idx].type
  <1>1. shm \in [Slots -> Frames] /\ writer.idx \in Slots
    BY DEF TypeInv, TypeOK
  <1>2. shm[writer.idx] \in Frames
    BY <1>1
  <1>3. CASE line = "head"
    <2>1. shm'[writer.idx] = [shm[writer.idx] EXCEPT !.head = sent, !.type = writer.type]
      BY <1>1, <1>3 DEF WriteLine
    <2> QED
      BY <1>2, <1>3, <2>1 DEF Frames
  <1>4. CASE line = "body"
    <2>1. shm'[writer.idx] = [shm[writer.idx] EXCEPT !.body = sent]
      BY <1>1, <1>4 DEF WriteLine
    <2> QED
      BY <1>2, <1>4, <2>1 DEF Frames
  <1> QED
    BY <1>3, <1>4

LEMMA RingLineNotLast ==
    ASSUME TypeInv, InStep', RingInv, NEW line \in Lines, WriteLine(line), writer.todo # {line}
    PROVE  RingInv' /\ LastRead' = LastRead
  <1>1. /\ writer'.idx = writer.idx /\ writer'.left = writer.left /\ writer'.todo = writer.todo \ {line}
        /\ writer'.type = writer.type /\ writer'.todo # {} /\ writer.todo # {}
        /\ writer'.trains = writer.trains /\ writer'.load = writer.load
        /\ line \in writer.todo
        /\ UNCHANGED <<write_pos, reader, sent, ran>>
    BY Fields DEF WriteLine, TypeInv, TypeOK
  <1>m. M' = M
    BY DEF M
  <1>2. Unread' = Unread /\ Unpublished' = Unpublished /\ Lag' = Lag /\ Written' = Written
        /\ LastRead' = LastRead /\ PassBound' = PassBound /\ Rest' = Rest
    BY <1>1, <1>m DEF Unread, Unpublished, Lag, Rest, Written, LastRead, PassBound
  <1>3. InPlace' /\ LagBounded'
    BY <1>1, <1>2, <1>m DEF RingInv, InPlace, LagBounded
  <1>4. SlotsHold'
    BY <1>1, <1>2, WriteAside DEF RingInv, SlotsHold
  <1>5. LineWritten'
    BY <1>1, LineReaches, Fields DEF RingInv, LineWritten, Lines
  <1>6. CopyHolds'
    BY <1>1, <1>2, WriteAside, Fields DEF RingInv, CopyHolds
  <1> QED
    BY <1>2, <1>3, <1>4, <1>5, <1>6 DEF RingInv

LEMMA RingLastLine ==
    ASSUME TypeInv, InStep', RingInv, NEW line \in Lines, WriteLine(line), writer.todo = {line}
    PROVE  /\ RingInv' /\ LastRead' = LastRead /\ Unread' = Unread + 1
           /\ shm'[writer.idx].type = writer.type
  <1>1. /\ writer'.idx = NextSlot(writer.idx) /\ writer'.left = writer.left - 1 /\ writer'.todo = {}
        /\ writer'.type = "none" /\ writer.left > 0
        /\ writer'.trains = writer.trains /\ writer'.load = writer.load
        /\ UNCHANGED <<reader, sent, ran>>
    BY Fields DEF WriteLine, TypeInv, TypeOK
  <1>2. write_pos' = IF writer.left = 1 THEN NextSlot(writer.idx) ELSE write_pos
    BY DEF WriteLine
  <1>m. M' = M
    BY DEF M
  <1>3. Unread' = Unread + 1
    <2>1. Ahead(reader.idx, NextSlot(writer.idx)) = IF Unread = RingNum - 1 THEN 0 ELSE Unread + 1
      BY Fields, AheadAdvances DEF Unread
    <2>2. Unread # RingNum - 1
      BY WriteAside, Distances, EnetRxAssumption DEF RingInv
    <2> QED
      BY <1>1, <2>1, <2>2 DEF Unread
  <1>4. Ahead(write_pos, NextSlot(writer.idx)) = Unpublished + 1
    <2>1. Ahead(write_pos, NextSlot(writer.idx)) = IF Unpublished = RingNum - 1 THEN 0 ELSE Unpublished + 1
      BY Fields, AheadAdvances DEF Unpublished
    <2>2. Unpublished # RingNum - 1
      BY WriteAside, Distances, EnetRxAssumption DEF RingInv
    <2> QED
      BY <2>1, <2>2
  <1>5. Ahead(NextSlot(writer.idx), NextSlot(writer.idx)) = 0
    BY Fields, NextSlotInRing, AheadIsZero
  <1>6. Unpublished' = IF writer.left = 1 THEN 0 ELSE Unpublished + 1
    BY <1>1, <1>2, <1>4, <1>5 DEF Unpublished
  <1>r. Rest' = Rest
    BY <1>1, <1>m DEF Rest
  <1>7. Written' = Written + 1 /\ Lag' = Lag /\ LastRead' = LastRead /\ PassBound' = PassBound
    BY <1>1, <1>3, <1>m, <1>r, Fields, Distances DEF Written, Lag, LastRead, PassBound, RingInv
  <1>8. Ahead(reader.idx, reader.pos) <= Ahead(reader.idx, write_pos)
        => Ahead(reader'.idx, reader'.pos) <= Ahead(reader'.idx, write_pos')
    <2>1. CASE writer.left = 1
      <3>1. Ahead(reader.idx, write_pos') = Unread + 1
        BY <1>1, <1>2, <1>3, <2>1 DEF Unread
      <3>2. Ahead(reader.idx, write_pos) <= Unread /\ Ahead(reader.idx, write_pos) \in Nat
            /\ Unread \in Nat /\ Ahead(reader.idx, reader.pos) \in Nat
        BY Distances DEF RingInv
      <3> QED
        BY <1>1, <3>1, <3>2
    <2>2. CASE writer.left # 1
      BY <1>1, <1>2, <2>2
    <2> QED
      BY <2>1, <2>2
  <1>9. InPlace'
    <2>1. InPlace /\ Unread \in Nat /\ Unpublished \in Nat /\ writer.left \in Nat /\ M \in Nat
          /\ Rest \in Nat
      BY Distances, Fields DEF RingInv
    <2>2. Unpublished' <= Unread' /\ Unpublished' + writer'.left + Rest' <= M
      BY <1>1, <1>3, <1>6, <1>r, <2>1 DEF InPlace
    <2>3. writer'.left = 0 => write_pos' = writer'.idx
      BY <1>1, <1>2, <2>1
    <2> QED
      BY <1>1, <1>m, <2>1, <2>2, <2>3 DEF InPlace
  <1>10. LagBounded'
    BY <1>1, <1>7, <1>8, <1>m DEF RingInv, LagBounded
  <1>11. /\ shm'[writer.idx].head = sent /\ shm'[writer.idx].body = sent
         /\ shm'[writer.idx].type = writer.type
    BY LineReaches DEF RingInv, LineWritten, Lines
  <1>12. SlotsHold'
    <2> SUFFICES ASSUME NEW i \in Slots, Ahead(reader.idx, i) < Unread + 1
                 PROVE  /\ shm'[i].head = LastRead + 1 + Ahead(reader.idx, i)
                        /\ shm'[i].body = shm'[i].head
      BY <1>1, <1>3, <1>7 DEF SlotsHold
    <2>1. CASE i = writer.idx
      <3>1. LastRead + 1 + Ahead(reader.idx, i) = sent
        BY <2>1, Fields, Distances DEF LastRead, Unread, Written, RingInv
      <3> QED
        BY <2>1, <3>1, <1>11
    <2>2. CASE i # writer.idx
      <3>1. Ahead(reader.idx, i) # Unread
        <4>1. ASSUME Ahead(reader.idx, i) = Unread PROVE FALSE
          <5>1. Ahead(reader.idx, i) + Ahead(i, writer.idx) = Unread
            BY <4>1, Fields, AheadAdds, AheadInRing DEF Unread
          <5>2. Ahead(i, writer.idx) = 0
            BY <4>1, <5>1, Fields, AheadInRing, Distances DEF RingInv
          <5> QED
            BY <2>2, <5>2, Fields, AheadIsZero
        <4> QED
          BY <4>1
      <3>2. Ahead(reader.idx, i) < Unread
        BY <3>1, Fields, AheadInRing, Distances DEF RingInv
      <3> QED
        BY <2>2, <3>2, WriteAside DEF RingInv, SlotsHold
    <2> QED
      BY <2>1, <2>2
  <1>13. LineWritten' /\ CopyHolds'
    BY <1>1, <1>7, WriteAside, Fields DEF RingInv, LineWritten, CopyHolds
  <1> QED
    BY <1>3, <1>7, <1>9, <1>10, <1>11, <1>12, <1>13 DEF RingInv

LEMMA RingReadBegin ==
    ASSUME TypeInv, InStep', RingInv, ReadBegin
    PROVE  RingInv' /\ LastRead' = LastRead
  <1>1. /\ reader'.pc = "test" /\ reader'.idx = reader.idx /\ reader'.pos = write_pos
        /\ reader'.budget = ReadMax
        /\ UNCHANGED <<shm, write_pos, writer, sent, ran>>
    BY DEF ReadBegin, TypeInv, TypeOK
  <1>m. M' = M
    BY DEF M
  <1>2. Unread' = Unread /\ Unpublished' = Unpublished /\ Lag' = Lag /\ Written' = Written
        /\ LastRead' = LastRead /\ PassBound' = PassBound /\ Rest' = Rest
    BY <1>1, <1>m DEF Unread, Unpublished, Lag, Rest, Written, LastRead, PassBound
  <1>3. LagBounded'
    <2>1. Lag <= PassBound + ReadMax
      BY Distances, ThirdOfRing, Fields, EnetRxAssumption DEF RingInv, LagBounded, Lag
    <2>2. Lag <= PassBound + Ahead(reader.idx, write_pos)
      BY Distances, Fields DEF RingInv, InPlace, Lag
    <2>3. Ahead(reader.idx, write_pos) <= Ahead(reader.idx, write_pos)
      BY Distances DEF RingInv
    <2> QED
      BY <1>1, <1>2, <1>m, <2>1, <2>2, <2>3 DEF RingInv, LagBounded
  <1>4. InPlace' /\ SlotsHold' /\ LineWritten' /\ CopyHolds'
    BY <1>1, <1>2, <1>m DEF RingInv, InPlace, SlotsHold, LineWritten, CopyHolds
  <1> QED
    BY <1>2, <1>3, <1>4 DEF RingInv

LEMMA RingReadEnd ==
    ASSUME TypeInv, InStep', RingInv, NEW pos \in Positions, ReadEnd(pos)
    PROVE  RingInv' /\ LastRead' = LastRead
  <1>1. /\ reader.pc = "test" /\ (reader.budget = 0 \/ reader.idx = pos)
        /\ reader'.pc = "idle" /\ reader'.idx = reader.idx
        /\ ran'
        /\ UNCHANGED <<shm, write_pos, writer, sent>>
    BY DEF ReadEnd, TypeInv, TypeOK
  <1>m. M' = M
    BY DEF M
  <1>2. Unread' = Unread /\ Unpublished' = Unpublished /\ Lag' = Lag /\ Written' = Written
        /\ LastRead' = LastRead /\ PassBound' = M /\ Rest' = Rest
    BY <1>1, <1>m DEF Unread, Unpublished, Lag, Rest, Written, LastRead, PassBound
  <1>3. Lag <= PassBound
    <2>1. CASE reader.budget = 0
      BY <1>1, <2>1, Distances, Fields DEF RingInv, LagBounded, Lag
    <2>2. CASE reader.idx = pos
      <3>1. reader.idx = reader.pos \/ reader.idx = write_pos
        BY <2>2 DEF Positions
      <3>2. Ahead(reader.idx, reader.pos) = 0 \/ Ahead(reader.idx, write_pos) = 0
        BY <3>1, Fields, AheadIsZero
      <3>3. Ahead(reader.idx, reader.pos) = 0
        BY <1>1, <3>2, Distances DEF RingInv, LagBounded
      <3> QED
        BY <1>1, <3>3, Distances, Fields DEF RingInv, LagBounded, Lag
    <2> QED
      BY <1>1, <2>1, <2>2
  <1>4. LagBounded'
    <2>1. Lag <= M + M
      BY <1>3, Distances, Fields DEF RingInv, Lag
    <2> QED
      BY <1>1, <1>2, <1>m, <2>1 DEF LagBounded
  <1>5. InPlace' /\ SlotsHold' /\ LineWritten' /\ CopyHolds'
    BY <1>1, <1>2, <1>m DEF RingInv, InPlace, SlotsHold, LineWritten, CopyHolds
  <1> QED
    BY <1>2, <1>4, <1>5 DEF RingInv

LEMMA RingReadHead ==
    ASSUME TypeInv, InStep', RingInv, NEW pos \in Positions, ReadHead(pos)
    PROVE  /\ RingInv' /\ LastRead' = LastRead + 1
           /\ Unread > 0 /\ Unread' = Unread - 1
  <1>1. /\ reader.pc = "test" /\ reader.budget > 0 /\ reader.idx # pos
        /\ reader'.pc = "copy" /\ reader'.idx = NextSlot(reader.idx) /\ reader'.pos = pos
        /\ reader'.budget = reader.budget - 1 /\ reader'.from = reader.idx
        /\ reader'.frame = shm[reader.idx]
        /\ UNCHANGED <<shm, write_pos, writer, sent, ran>>
    BY DEF ReadHead, TypeInv, TypeOK
  <1>m. M' = M
    BY DEF M
  <1>p. pos = reader.pos \/ pos = write_pos
    BY DEF Positions
  <1>2. Ahead(reader.idx, write_pos) > 0
    <2>1. Ahead(reader.idx, pos) # 0
      BY <1>1, <1>p, Fields, AheadIsZero
    <2> QED
      BY <1>1, <1>p, <2>1, Distances DEF RingInv, LagBounded
  <1>3. reader.idx # write_pos /\ reader.idx # writer.idx /\ Unread > 0
    <2>1. Unread > 0
      BY <1>2, Distances DEF RingInv
    <2> QED
      BY <1>2, <2>1, Fields, AheadIsZero DEF Unread
  <1>4. /\ Ahead(NextSlot(reader.idx), write_pos) = Ahead(reader.idx, write_pos) - 1
        /\ Ahead(NextSlot(reader.idx), writer.idx) = Unread - 1
        /\ Ahead(NextSlot(reader.idx), pos) = Ahead(reader.idx, pos) - 1
    BY <1>1, <1>3, <1>p, Fields, AheadAdvances DEF Unread
  <1>r. Rest' = Rest
    BY <1>1, <1>m DEF Rest
  <1>5. Unread' = Unread - 1 /\ Unpublished' = Unpublished /\ Lag' = Lag - 1 /\ Written' = Written
        /\ LastRead' = LastRead + 1 /\ PassBound' = PassBound
    BY <1>1, <1>4, <1>m, <1>r, Fields, Distances
       DEF RingInv, Unread, Unpublished, Lag, Written, LastRead, PassBound
  <1>6. InPlace'
    BY <1>1, <1>2, <1>5, <1>m, <1>r, Distances DEF RingInv, InPlace
  <1>7. LagBounded'
    <2>1. Lag - 1 <= PassBound + (reader.budget - 1)
      BY <1>1, Distances, Fields DEF RingInv, LagBounded, Lag
    <2>2. /\ Ahead(reader.idx, pos) - 1 <= Ahead(reader.idx, write_pos) - 1
          /\ Lag - 1 <= PassBound + (Ahead(reader.idx, pos) - 1)
      <3>1. CASE pos = reader.pos
        BY <1>1, <3>1, Distances, Fields DEF RingInv, LagBounded, Lag
      <3>2. CASE pos = write_pos
        BY <3>2, Distances, Fields DEF RingInv, InPlace, Lag
      <3> QED
        BY <1>p, <3>1, <3>2
    <2>3. Lag - 1 <= M + PassBound
      BY Distances, Fields DEF RingInv, LagBounded, Lag
    <2> QED
      BY <1>1, <1>4, <1>5, <1>m, <2>1, <2>2, <2>3 DEF LagBounded
  <1>8. SlotsHold'
    <2> SUFFICES ASSUME NEW i \in Slots, Ahead(NextSlot(reader.idx), i) < Unread - 1
                 PROVE  /\ shm[i].head = LastRead + 2 + Ahead(NextSlot(reader.idx), i)
                        /\ shm[i].body = shm[i].head
      BY <1>1, <1>5, Distances DEF SlotsHold, RingInv
    <2>1. Ahead(NextSlot(reader.idx), i) = IF reader.idx = i THEN RingNum - 1 ELSE Ahead(reader.idx, i) - 1
      BY Fields, AheadAdvances
    <2>2. reader.idx # i
      BY <2>1, Fields, Distances, EnetRxAssumption DEF RingInv
    <2>3. Ahead(reader.idx, i) \in Nat /\ Ahead(reader.idx, i) < Unread
      BY <2>1, <2>2, Fields, Distances, AheadInRing DEF RingInv
    <2>4. shm[i].head = LastRead + 1 + Ahead(reader.idx, i) /\ shm[i].body = shm[i].head
      BY <2>3 DEF RingInv, SlotsHold
    <2> QED
      BY <2>1, <2>2, <2>3, <2>4, Distances DEF RingInv
  <1>9. LineWritten'
    BY <1>1 DEF RingInv, LineWritten
  <1>10. CopyHolds'
    <2>1. Ahead(reader.idx, reader.idx) = 0
      BY Fields, AheadIsZero
    <2>2. shm[reader.idx].head = LastRead + 1 /\ shm[reader.idx].body = LastRead + 1
      BY <1>3, <2>1, Fields, Distances DEF RingInv, SlotsHold
    <2> QED
      BY <1>1, <1>5, <2>2 DEF CopyHolds
  <1> QED
    BY <1>3, <1>5, <1>6, <1>7, <1>8, <1>9, <1>10 DEF RingInv

\* What is left of the steps changes none of this.
LEMMA RingRest ==
    ASSUME TypeInv, InStep', RingInv, ReadBody \/ (UNCHANGED <<shm, write_pos, writer, reader, sent, ran, paced, light>>)
    PROVE  RingInv' /\ LastRead' = LastRead /\ Unread' = Unread
  <1>1. /\ reader'.idx = reader.idx /\ reader'.pos = reader.pos /\ reader'.from = reader.from
        /\ reader'.budget = reader.budget
        /\ reader'.pc = "idle" => reader.pc = "idle"
        /\ reader.pc = "idle" => reader'.pc = "idle"
        /\ reader'.pc = "copy" => UNCHANGED reader
        /\ UNCHANGED <<shm, write_pos, writer, sent, ran>>
    BY DEF ReadBody, TypeInv, TypeOK
  <1>m. M' = M
    BY DEF M
  <1>2. Unread' = Unread /\ Unpublished' = Unpublished /\ Lag' = Lag /\ Written' = Written
        /\ LastRead' = LastRead /\ PassBound' = PassBound /\ Rest' = Rest
    BY <1>1, <1>m DEF Unread, Unpublished, Lag, Rest, Written, LastRead, PassBound
  <1>3. InPlace' /\ LagBounded' /\ SlotsHold' /\ LineWritten'
    BY <1>1, <1>2, <1>m DEF RingInv, InPlace, LagBounded, SlotsHold, LineWritten
  <1>4. CopyHolds'
    BY <1>1, <1>2 DEF RingInv, CopyHolds
  <1> QED
    BY <1>2, <1>3, <1>4 DEF RingInv

-----------------------------------------------------------------------------
(* The queues of the sockets, and what becomes of every frame.             *)

\* The number of the last frame given to the sockets.
Handed == IF reader.pc = "copy" THEN LastRead - 1 ELSE LastRead

QueueInOrder(s) ==
    /\ got[s].head <= Handed
    /\ \A i \in 1 .. Len(queue[s]) :
         /\ queue[s][i].head = queue[s][i].body
         /\ queue[s][i].head > got[s].head /\ queue[s][i].head <= Handed
         /\ \A j \in 1 .. Len(queue[s]) : i < j => queue[s][i].head < queue[s][j].head

\* A frame written for the socket is in the ring, being copied, in the queue,
\* with the application, or was dropped for want of room.
Pending(s) == {i \in Slots : Ahead(reader.idx, i) < Unread /\ shm[i].type \in Accepts[s]}
Copied(s) == IF reader.pc = "copy" /\ reader.frame.type \in Accepts[s] THEN 1 ELSE 0
Coming(s) == IF writer.todo # {} /\ writer.type \in Accepts[s] THEN 1 ELSE 0
Handled(s) == got[s].num + Len(queue[s]) + dropped[s]
Counted(s) == matched[s] = Handled(s) + Cardinality(Pending(s)) + Copied(s) + Coming(s)

SocketsInv == \A s \in Sockets : QueueInOrder(s) /\ Counted(s)

LEMMA PendingFinite ==
    ASSUME NEW s \in Sockets
    PROVE  IsFiniteSet(Pending(s)) /\ Cardinality(Pending(s)) \in Nat
  <1>1. IsFiniteSet(Slots)
    BY FS_Interval, EnetRxAssumption DEF Slots
  <1>2. Pending(s) \subseteq Slots
    BY DEF Pending
  <1>3. IsFiniteSet(Pending(s))
    BY <1>1, <1>2, FS_Subset
  <1> QED
    BY <1>3, FS_CardinalityType

LEMMA SocketFields ==
    ASSUME TypeInv, NEW s \in Sockets
    PROVE  /\ queue[s] \in Seq(Frames) /\ Len(queue[s]) \in Nat
           /\ got[s].num \in Nat /\ got[s].head \in Nat
           /\ matched[s] \in Nat /\ dropped[s] \in Nat
           /\ Copied(s) \in {0, 1} /\ Coming(s) \in {0, 1}
           /\ Handled(s) \in Nat
  <1>1. got[s] \in [num : Nat, head : Nat, body : Nat]
    BY DEF TypeInv, TypeOK
  <1>2. queue[s] \in Seq(Frames) /\ matched[s] \in Nat /\ dropped[s] \in Nat
    BY DEF TypeInv, TypeOK
  <1> QED
    BY <1>1, <1>2 DEF Copied, Coming, Handled

LEMMA SocketsInit == Init => SocketsInv
  <1> SUFFICES ASSUME Init, NEW s \in Sockets PROVE QueueInOrder(s) /\ Counted(s)
    BY DEF SocketsInv
  <1>1. reader.idx = 0 /\ writer.idx = 0 /\ writer.todo = {} /\ reader.pc = "idle" /\ sent = 0
        /\ queue[s] = <<>> /\ got[s] = [num |-> 0, head |-> 0, body |-> 0]
        /\ matched[s] = 0 /\ dropped[s] = 0
    BY DEF Init
  <1>2. Unread = 0 /\ LastRead = 0 /\ \A i \in Slots : Ahead(0, i) \in Nat
    BY <1>1, EnetRxAssumption DEF Unread, LastRead, Written, Ahead, Slots
  <1>3. Pending(s) = {}
    BY <1>1, <1>2 DEF Pending
  <1>4. Cardinality(Pending(s)) = 0
    BY <1>3, FS_EmptySet
  <1>5. QueueInOrder(s)
    BY <1>1, <1>2 DEF QueueInOrder, Handed
  <1>6. Counted(s)
    BY <1>1, <1>4 DEF Counted, Handled, Copied, Coming
  <1> QED
    BY <1>5, <1>6

\* Where the queue and the position reached do not change, nor does the order.
LEMMA OrderKept ==
    ASSUME NEW s \in Sockets, QueueInOrder(s), UNCHANGED <<queue, got>>, Handed' = Handed
    PROVE  QueueInOrder(s)'
  BY DEF QueueInOrder

LEMMA SocketsTrainArrives ==
    ASSUME TypeInv, InStep', RingInv, SocketsInv,
           IntrBegin \/ \E n \in 0 .. TrainMax : TrainArrives(n)
    PROVE  SocketsInv'
  <1> SUFFICES ASSUME NEW s \in Sockets PROVE QueueInOrder(s)' /\ Counted(s)'
    BY DEF SocketsInv
  <1>1. /\ writer'.idx = writer.idx /\ writer'.todo = {} /\ writer.todo = {}
        /\ UNCHANGED <<shm, reader, queue, got, matched, dropped>>
    BY DEF IntrBegin, TrainArrives, TypeInv, TypeOK
  <1>2. LastRead' = LastRead /\ Unread' = Unread
    BY <1>1, RingIntrBegin, RingTrainArrives DEF Unread
  <1>3. Handed' = Handed
    BY <1>1, <1>2 DEF Handed
  <1>4. Pending(s)' = Pending(s) /\ Copied(s)' = Copied(s) /\ Coming(s)' = Coming(s)
    BY <1>1, <1>2 DEF Pending, Copied, Coming
  <1>5. Counted(s)'
    BY <1>1, <1>4 DEF SocketsInv, Counted, Handled
  <1> QED
    BY <1>1, <1>3, <1>5, OrderKept DEF SocketsInv

LEMMA SocketsWriteBegin ==
    ASSUME TypeInv, InStep', RingInv, SocketsInv, NEW type \in Types, WriteBegin(type)
    PROVE  SocketsInv'
  <1> SUFFICES ASSUME NEW s \in Sockets PROVE QueueInOrder(s)' /\ Counted(s)'
    BY DEF SocketsInv
  <1>1. /\ writer'.idx = writer.idx /\ writer'.todo # {} /\ writer.todo = {} /\ writer'.type = type
        /\ matched'[s] = IF type \in Accepts[s] THEN matched[s] + 1 ELSE matched[s]
        /\ UNCHANGED <<shm, reader, queue, got, dropped>>
    BY DEF WriteBegin, TypeInv, TypeOK, Lines
  <1>2. LastRead' = LastRead /\ Unread' = Unread
    BY <1>1, RingWriteBegin DEF Unread
  <1>3. Handed' = Handed
    BY <1>1, <1>2 DEF Handed
  <1>4. /\ Pending(s)' = Pending(s) /\ Copied(s)' = Copied(s) /\ Coming(s) = 0
        /\ Coming(s)' = IF type \in Accepts[s] THEN 1 ELSE 0
    BY <1>1, <1>2 DEF Pending, Copied, Coming
  <1>5. Counted(s)'
    <2>1. Handled(s)' = Handled(s) /\ Counted(s)
      BY <1>1 DEF Handled, SocketsInv
    <2> QED
      BY <1>1, <1>4, <2>1, SocketFields, PendingFinite DEF Counted
  <1> QED
    BY <1>1, <1>3, <1>5, OrderKept DEF SocketsInv

LEMMA SocketsLineNotLast ==
    ASSUME TypeInv, InStep', RingInv, SocketsInv, NEW line \in Lines, WriteLine(line), writer.todo # {line}
    PROVE  SocketsInv'
  <1> SUFFICES ASSUME NEW s \in Sockets PROVE QueueInOrder(s)' /\ Counted(s)'
    BY DEF SocketsInv
  <1>1. /\ writer'.idx = writer.idx /\ writer'.todo # {} /\ writer.todo # {}
        /\ writer'.type = writer.type
        /\ UNCHANGED <<reader, queue, got, matched, dropped>>
    BY Fields DEF WriteLine, TypeInv, TypeOK
  <1>2. LastRead' = LastRead /\ Unread' = Unread
    BY <1>1, RingLineNotLast DEF Unread
  <1>3. Handed' = Handed
    BY <1>1, <1>2 DEF Handed
  <1>4. Pending(s)' = Pending(s)
    BY <1>1, <1>2, WriteAside DEF Pending
  <1>5. Copied(s)' = Copied(s) /\ Coming(s)' = Coming(s)
    BY <1>1 DEF Copied, Coming
  <1>6. Counted(s)'
    BY <1>1, <1>4, <1>5 DEF SocketsInv, Counted, Handled
  <1> QED
    BY <1>1, <1>3, <1>6, OrderKept DEF SocketsInv

\* With the last line the frame joins those in the ring.
LEMMA SocketsLastLine ==
    ASSUME TypeInv, InStep', RingInv, SocketsInv, NEW line \in Lines, WriteLine(line), writer.todo = {line}
    PROVE  SocketsInv'
  <1> SUFFICES ASSUME NEW s \in Sockets PROVE QueueInOrder(s)' /\ Counted(s)'
    BY DEF SocketsInv
  <1>1. /\ writer'.todo = {} /\ writer.todo # {} /\ writer.idx \in Slots
        /\ UNCHANGED <<reader, queue, got, matched, dropped>>
    BY Fields DEF WriteLine
  <1>2. LastRead' = LastRead /\ Unread' = Unread + 1 /\ shm'[writer.idx].type = writer.type
    BY RingLastLine
  <1>3. Handed' = Handed
    BY <1>1, <1>2 DEF Handed
  <1>4. Unread \in Nat /\ writer.idx \notin Pending(s)
    BY Distances DEF RingInv, Pending, Unread
  <1>5. \A i \in Slots : Ahead(reader.idx, i) < Unread + 1 <=> (Ahead(reader.idx, i) < Unread \/ i = writer.idx)
    <2> SUFFICES ASSUME NEW i \in Slots
                 PROVE Ahead(reader.idx, i) < Unread + 1 <=> (Ahead(reader.idx, i) < Unread \/ i = writer.idx)
      OBVIOUS
    <2>1. Ahead(reader.idx, i) \in Nat
      BY Fields, AheadInRing
    <2>2. i = writer.idx => Ahead(reader.idx, i) = Unread
      BY DEF Unread
    <2>3. Ahead(reader.idx, i) = Unread => i = writer.idx
      <3> SUFFICES ASSUME Ahead(reader.idx, i) = Unread PROVE i = writer.idx
        OBVIOUS
      <3>1. Ahead(reader.idx, i) + Ahead(i, writer.idx) = Unread
        BY <2>1, Fields, AheadAdds DEF Unread
      <3>2. Ahead(i, writer.idx) = 0
        BY <2>1, <3>1, Fields, AheadInRing
      <3> QED
        BY <3>2, Fields, AheadIsZero
    <2> QED
      BY <1>4, <2>1, <2>2, <2>3
  <1>6. Pending(s)' = IF writer.type \in Accepts[s] THEN Pending(s) \cup {writer.idx} ELSE Pending(s)
    <2>1. \A i \in Slots : i # writer.idx => shm'[i] = shm[i]
      BY WriteAside
    <2>2. Pending(s)' = {i \in Slots : Ahead(reader.idx, i) < Unread + 1 /\ shm'[i].type \in Accepts[s]}
      BY <1>1, <1>2 DEF Pending
    <2> QED
      BY <1>1, <1>2, <1>4, <1>5, <2>1, <2>2 DEF Pending
  <1>h. Handled(s)' = Handled(s) /\ matched'[s] = matched[s]
    BY <1>1 DEF Handled
  <1>7. Cardinality(Pending(s) \cup {writer.idx}) = Cardinality(Pending(s)) + 1
    BY <1>4, PendingFinite, FS_AddElement
  <1>8. /\ Copied(s)' = Copied(s) /\ Coming(s)' = 0
        /\ Coming(s) = IF writer.type \in Accepts[s] THEN 1 ELSE 0
    BY <1>1 DEF Copied, Coming
  <1>9. Counted(s)'
    <2>1. Cardinality(Pending(s))' + Coming(s)' = Cardinality(Pending(s)) + Coming(s)
      BY <1>6, <1>7, <1>8, PendingFinite
    <2>2. Cardinality(Pending(s)) \in Nat /\ Cardinality(Pending(s))' \in Nat
      BY PendingFinite, <1>6, <1>7
    <2>3. Counted(s)
      BY DEF SocketsInv
    <2> QED
      BY <1>1, <1>8, <1>h, <2>1, <2>2, <2>3, SocketFields DEF Counted
  <1> QED
    BY <1>1, <1>3, <1>9, OrderKept DEF SocketsInv

\* A pass takes the first of them.
LEMMA SocketsReadHead ==
    ASSUME TypeInv, InStep', RingInv, SocketsInv, NEW pos \in Positions, ReadHead(pos)
    PROVE  SocketsInv'
  <1> SUFFICES ASSUME NEW s \in Sockets PROVE QueueInOrder(s)' /\ Counted(s)'
    BY DEF SocketsInv
  <1>1. /\ reader.pc = "test" /\ reader'.pc = "copy" /\ reader'.idx = NextSlot(reader.idx)
        /\ reader'.frame = shm[reader.idx] /\ reader.idx \in Slots
        /\ UNCHANGED <<shm, writer, queue, got, matched, dropped>>
    BY DEF ReadHead, TypeInv, TypeOK
  <1>2. LastRead' = LastRead + 1 /\ Unread' = Unread - 1 /\ Unread > 0
    BY RingReadHead
  <1>3. Unread \in Nat /\ LastRead \in Int /\ Unread < RingNum
    BY Distances, Fields, EnetRxAssumption DEF RingInv
  <1>4. Handed' = Handed
    BY <1>1, <1>2, <1>3 DEF Handed
  <1>5. \A i \in Slots : Ahead(NextSlot(reader.idx), i) < Unread - 1
                         <=> (Ahead(reader.idx, i) < Unread /\ i # reader.idx)
    <2> SUFFICES ASSUME NEW i \in Slots
                 PROVE Ahead(NextSlot(reader.idx), i) < Unread - 1
                         <=> (Ahead(reader.idx, i) < Unread /\ i # reader.idx)
      OBVIOUS
    <2>1. Ahead(NextSlot(reader.idx), i) = IF reader.idx = i THEN RingNum - 1 ELSE Ahead(reader.idx, i) - 1
      BY <1>1, AheadAdvances
    <2>2. Ahead(reader.idx, i) \in Nat
      BY <1>1, AheadInRing
    <2> QED
      BY <1>3, <2>1, <2>2, EnetRxAssumption
  <1>6. Pending(s)' = Pending(s) \ {reader.idx}
    <2>1. Pending(s)' = {i \in Slots : Ahead(NextSlot(reader.idx), i) < Unread - 1 /\ shm[i].type \in Accepts[s]}
      BY <1>1, <1>2 DEF Pending
    <2> QED
      BY <1>5, <2>1 DEF Pending
  <1>7. reader.idx \in Pending(s) <=> shm[reader.idx].type \in Accepts[s]
    <2>1. Ahead(reader.idx, reader.idx) = 0
      BY <1>1, AheadIsZero
    <2> QED
      BY <1>1, <1>2, <2>1 DEF Pending
  <1>8. reader.idx \in Pending(s) =>
          Cardinality(Pending(s) \ {reader.idx}) = Cardinality(Pending(s)) - 1
    BY PendingFinite, FS_RemoveElement
  <1>9. /\ Coming(s)' = Coming(s) /\ Copied(s) = 0
        /\ Copied(s)' = IF shm[reader.idx].type \in Accepts[s] THEN 1 ELSE 0
    BY <1>1 DEF Copied, Coming
  <1>h. Handled(s)' = Handled(s) /\ matched'[s] = matched[s]
    BY <1>1 DEF Handled
  <1>10. Counted(s)'
    <2>1. CASE shm[reader.idx].type \in Accepts[s]
      <3>1. Cardinality(Pending(s))' = Cardinality(Pending(s)) - 1
        BY <1>6, <1>7, <1>8, <2>1
      <3>2. Cardinality(Pending(s)) \in Nat /\ Copied(s)' = 1
        BY <1>9, <2>1, PendingFinite
      <3>3. Counted(s)
        BY DEF SocketsInv
      <3> QED
        BY <1>1, <1>9, <1>h, <3>1, <3>2, <3>3, SocketFields DEF Counted
    <2>2. CASE shm[reader.idx].type \notin Accepts[s]
      <3>1. Pending(s)' = Pending(s)
        BY <1>6, <1>7, <2>2
      <3> QED
        BY <1>1, <1>9, <1>h, <2>2, <3>1 DEF SocketsInv, Counted
    <2> QED
      BY <2>1, <2>2
  <1> QED
    BY <1>1, <1>4, <1>10, OrderKept DEF SocketsInv

\* The frame copied goes to the queues of its sockets.
LEMMA SocketsReadBody ==
    ASSUME TypeInv, InStep', RingInv, SocketsInv, ReadBody
    PROVE  SocketsInv'
  <1> DEFINE f == [reader.frame EXCEPT !.body = shm[reader.from].body]
  <1> SUFFICES ASSUME NEW s \in Sockets PROVE QueueInOrder(s)' /\ Counted(s)'
    BY DEF SocketsInv
  <1>1. /\ reader.pc = "copy" /\ reader'.pc = "test" /\ reader'.idx = reader.idx
        /\ UNCHANGED <<shm, writer, got, matched>>
    BY DEF ReadBody, TypeInv, TypeOK
  <1>2. LastRead' = LastRead /\ Unread' = Unread /\ LastRead \in Int
    BY RingRest, Distances DEF RingInv
  <1>3. Handed = LastRead - 1 /\ Handed' = LastRead
    BY <1>1, <1>2 DEF Handed
  <1>4. f.head = LastRead /\ f.body = LastRead /\ f.type = reader.frame.type /\ f \in Frames
    <2>1. reader.frame \in Frames /\ shm[reader.from] \in Frames
      BY DEF TypeInv, TypeOK
    <2>2. reader.frame.head = LastRead /\ shm[reader.from].body = LastRead
      BY <1>1 DEF RingInv, CopyHolds
    <2>3. f.head = reader.frame.head /\ f.body = shm[reader.from].body /\ f.type = reader.frame.type
          /\ f \in Frames
      BY <2>1 DEF Frames
    <2> QED
      BY <2>2, <2>3
  <1>5. queue[s] \in Seq(Frames)
    BY SocketFields
  <1>6. /\ queue'[s] = IF f.type \in Accepts[s] /\ ~ Full(s) THEN Append(queue[s], f) ELSE queue[s]
        /\ dropped'[s] = IF f.type \in Accepts[s] /\ Full(s) THEN dropped[s] + 1 ELSE dropped[s]
    BY DEF ReadBody, Matching
  <1> HIDE DEF f
  <1>7. QueueInOrder(s)'
    <2>0. got'[s] = got[s] /\ got[s].head \in Nat /\ QueueInOrder(s)
      BY <1>1, SocketFields DEF SocketsInv
    <2>1. CASE queue'[s] = queue[s]
      <3>1. \A i \in 1 .. Len(queue[s]) : queue[s][i].head \in Nat
        <4>1. \A i \in 1 .. Len(queue[s]) : queue[s][i] \in Frames
          BY <1>5
        <4> QED
          BY <4>1 DEF Frames
      <3>2. \A i \in 1 .. Len(queue[s]) : queue[s][i].head <= Handed
        BY <2>0 DEF QueueInOrder
      <3>3. \A i \in 1 .. Len(queue[s]) : queue[s][i].head <= Handed'
        BY <1>2, <1>3, <3>1, <3>2
      <3>4. got[s].head <= Handed'
        BY <1>2, <1>3, <2>0 DEF QueueInOrder
      <3> QED
        BY <2>0, <2>1, <3>3, <3>4 DEF QueueInOrder
    <2>2. CASE queue'[s] = Append(queue[s], f)
      <3> DEFINE q == queue[s]
      <3>1. Len(q) \in Nat /\ Len(queue'[s]) = Len(q) + 1 /\ queue'[s][Len(q) + 1] = f
        BY <1>4, <1>5, <2>2
      <3>2. \A i \in 1 .. Len(q) : queue'[s][i] = q[i] /\ q[i].head \in Nat
        <4>1. \A i \in 1 .. Len(q) : queue'[s][i] = q[i] /\ q[i] \in Frames
          BY <1>4, <1>5, <2>2
        <4> QED
          BY <4>1 DEF Frames
      <3>3. \A i \in 1 .. Len(q) : q[i].head = q[i].body /\ q[i].head > got[s].head /\ q[i].head < LastRead
        <4>1. \A i \in 1 .. Len(q) : q[i].head = q[i].body /\ q[i].head > got[s].head /\ q[i].head <= Handed
          BY <2>0 DEF QueueInOrder
        <4> QED
          BY <1>2, <1>3, <3>2, <4>1
      <3>4. \A i, j \in 1 .. Len(q) : i < j => q[i].head < q[j].head
        BY <2>0 DEF QueueInOrder
      <3>5. got[s].head < LastRead
        BY <1>2, <1>3, <2>0 DEF QueueInOrder
      <3>6. \A i \in 1 .. Len(queue'[s]) : i = Len(q) + 1 \/ i \in 1 .. Len(q)
        BY <3>1
      <3> HIDE DEF q
      <3>7. ASSUME NEW i \in 1 .. Len(queue'[s])
            PROVE  /\ queue'[s][i].head = queue'[s][i].body
                   /\ queue'[s][i].head > got[s].head /\ queue'[s][i].head <= LastRead
        <4>1. CASE i = Len(q) + 1
          BY <1>2, <1>4, <2>0, <3>1, <3>5, <4>1
        <4>2. CASE i \in 1 .. Len(q)
          BY <1>2, <3>2, <3>3, <4>2
        <4> QED
          BY <3>6, <4>1, <4>2
      <3>8. ASSUME NEW i \in 1 .. Len(queue'[s]), NEW j \in 1 .. Len(queue'[s]), i < j
            PROVE  queue'[s][i].head < queue'[s][j].head
        <4>1. i \in 1 .. Len(q)
          BY <3>1, <3>8
        <4>2. CASE j = Len(q) + 1
          BY <1>4, <3>1, <3>2, <3>3, <4>1, <4>2
        <4>3. CASE j \in 1 .. Len(q)
          BY <3>2, <3>4, <3>8, <4>1, <4>3
        <4> QED
          BY <3>6, <4>2, <4>3
      <3>9. got[s].head <= LastRead
        BY <1>2, <2>0, <3>5
      <3> QED
        BY <1>3, <2>0, <3>7, <3>8, <3>9 DEF QueueInOrder
    <2> QED
      BY <1>6, <2>1, <2>2
  <1>8. Counted(s)'
    <2>1. Pending(s)' = Pending(s) /\ Coming(s)' = Coming(s) /\ Copied(s)' = 0
          /\ Copied(s) = IF f.type \in Accepts[s] THEN 1 ELSE 0
      BY <1>1, <1>2, <1>4 DEF Pending, Coming, Copied
    <2>2. Handled(s)' = IF f.type \in Accepts[s] THEN Handled(s) + 1 ELSE Handled(s)
      <3>1. Len(queue[s]) \in Nat /\ got[s].num \in Nat /\ dropped[s] \in Nat
        BY SocketFields
      <3>2. Len(Append(queue[s], f)) = Len(queue[s]) + 1
        BY <1>4, <1>5
      <3> QED
        BY <1>1, <1>6, <3>1, <3>2 DEF Handled
    <2>3. Counted(s) /\ matched'[s] = matched[s] /\ Cardinality(Pending(s)) \in Nat
      BY <1>1, PendingFinite DEF SocketsInv
    <2> QED
      BY <2>1, <2>2, <2>3, SocketFields DEF Counted
  <1> QED
    BY <1>7, <1>8

\* The application takes the oldest frame of a queue, whose checksum fits.
LEMMA SocketsDequeue ==
    ASSUME TypeInv, InStep', RingInv, SocketsInv, NEW s \in Sockets, dequeueRxPacket(s)
    PROVE  /\ SocketsInv'
           /\ got'[s].num = got[s].num + 1
           /\ got'[s].head > got[s].head /\ got'[s].head <= sent
           /\ \A r \in Sockets : r # s => got'[r] = got[r]
  <1>1. UNCHANGED <<shm, write_pos, writer, reader, sent, matched, dropped, ran, paced, light>>
    BY DEF dequeueRxPacket
  <1>2. LastRead' = LastRead /\ Unread' = Unread
    BY <1>1, RingRest
  <1>3. Handed' = Handed /\ Handed \in Int /\ Handed <= sent
    BY <1>1, <1>2, Distances, Fields DEF Handed, LastRead, Written, RingInv
  <1>4. queue[s] \in Seq(Frames) /\ queue[s] # <<>> /\ got[s].head \in Nat /\ got[s].num \in Nat
    BY SocketFields DEF dequeueRxPacket
  <1>5. /\ 1 \in 1 .. Len(queue[s]) /\ Head(queue[s]) = queue[s][1]
        /\ queue[s][1] \in Frames
    BY <1>4
  <1>6. /\ queue[s][1].head = queue[s][1].body
        /\ queue[s][1].head > got[s].head /\ queue[s][1].head <= Handed
    BY <1>5 DEF SocketsInv, QueueInOrder
  <1>7. got' = [got EXCEPT ![s] = [num |-> @.num + 1, head |-> queue[s][1].head, body |-> queue[s][1].body]]
    BY <1>5, <1>6 DEF dequeueRxPacket, ChecksumFits
  <1>8. got'[s].num = got[s].num + 1 /\ got'[s].head = queue[s][1].head
        /\ \A r \in Sockets : r # s => got'[r] = got[r]
    BY <1>7 DEF TypeInv, TypeOK
  <1>9. queue'[s] = Tail(queue[s]) /\ \A r \in Sockets : r # s => queue'[r] = queue[r]
    BY DEF dequeueRxPacket, TypeInv, TypeOK
  <1>10. got'[s].head > got[s].head /\ got'[s].head <= sent
    BY <1>3, <1>4, <1>5, <1>6, <1>8, Fields DEF Frames
  <1>11. ASSUME NEW r \in Sockets PROVE QueueInOrder(r)'
    <2>1. CASE r # s
      BY <1>3, <1>8, <1>9, <2>1 DEF SocketsInv, QueueInOrder
    <2>2. CASE r = s
      <3>1. \A i \in 1 .. Len(Tail(queue[s])) : i + 1 \in 1 .. Len(queue[s]) /\ Tail(queue[s])[i] = queue[s][i + 1]
        BY <1>4
      <3>2. QueueInOrder(s)
        BY DEF SocketsInv
      <3>3. \A i \in 1 .. Len(Tail(queue[s])) :
              /\ Tail(queue[s])[i].head = Tail(queue[s])[i].body
              /\ Tail(queue[s])[i].head > queue[s][1].head /\ Tail(queue[s])[i].head <= Handed
        BY <1>5, <3>1, <3>2 DEF QueueInOrder
      <3>4. ASSUME NEW i \in 1 .. Len(Tail(queue[s])), NEW j \in 1 .. Len(Tail(queue[s])), i < j
            PROVE  Tail(queue[s])[i].head < Tail(queue[s])[j].head
        <4>1. i + 1 \in 1 .. Len(queue[s]) /\ j + 1 \in 1 .. Len(queue[s]) /\ i + 1 < j + 1
          BY <3>1, <3>4
        <4>2. queue[s][i + 1].head < queue[s][j + 1].head
          BY <3>2, <4>1 DEF QueueInOrder
        <4> QED
          BY <3>1, <4>2
      <3> DEFINE q == Tail(queue[s])
      <3>5. queue'[r] = q /\ got'[r].head = queue[s][1].head
        BY <1>8, <1>9, <2>2
      <3>6. queue[s][1].head <= Handed /\ Handed' = Handed
        BY <1>3, <1>6
      <3> QED
        <4> HIDE DEF q
        <4>1. got'[r].head <= Handed'
          BY <3>5, <3>6
        <4>2. \A i \in 1 .. Len(q) :
                /\ q[i].head = q[i].body
                /\ q[i].head > queue[s][1].head /\ q[i].head <= Handed
          BY <3>3 DEF q
        <4>3. \A i, j \in 1 .. Len(q) : i < j => q[i].head < q[j].head
          BY <3>4 DEF q
        <4>4. ASSUME NEW i \in 1 .. Len(queue'[r])
              PROVE  /\ queue'[r][i].head = queue'[r][i].body
                     /\ queue'[r][i].head > got'[r].head /\ queue'[r][i].head <= Handed'
                     /\ \A j \in 1 .. Len(queue'[r]) : i < j => queue'[r][i].head < queue'[r][j].head
          BY <3>5, <3>6, <4>2, <4>3
        <4> QED
          BY <4>1, <4>4 DEF QueueInOrder
    <2> QED
      BY <2>1, <2>2
  <1>12. ASSUME NEW r \in Sockets PROVE Counted(r)'
    <2>1. Pending(r)' = Pending(r) /\ Coming(r)' = Coming(r) /\ Copied(r)' = Copied(r)
      BY <1>1, <1>2 DEF Pending, Coming, Copied
    <2>2. Handled(r)' = Handled(r)
      <3>1. CASE r # s
        BY <1>1, <1>8, <1>9, <3>1 DEF Handled
      <3>2. CASE r = s
        <4>1. Len(Tail(queue[s])) = Len(queue[s]) - 1 /\ Len(queue[s]) \in Nat
          BY <1>4
        <4>2. got'[s].num + Len(queue'[s]) = got[s].num + Len(queue[s])
          BY <1>4, <1>8, <1>9, <4>1
        <4> QED
          BY <1>1, <3>2, <4>2 DEF Handled
      <3> QED
        BY <3>1, <3>2
    <2> QED
      BY <1>1, <2>1, <2>2 DEF SocketsInv, Counted
  <1> QED
    BY <1>8, <1>10, <1>11, <1>12 DEF SocketsInv

\* The rest moves no frame.
LEMMA SocketsRest ==
    ASSUME TypeInv, InStep', RingInv, SocketsInv,
           ReadBegin \/ (\E pos \in Positions : ReadEnd(pos)) \/ UNCHANGED vars
    PROVE  SocketsInv'
  <1> SUFFICES ASSUME NEW s \in Sockets PROVE QueueInOrder(s)' /\ Counted(s)'
    BY DEF SocketsInv
  <1>1. /\ reader'.idx = reader.idx
        /\ reader.pc = "copy" => UNCHANGED reader
        /\ reader.pc # "copy" => reader'.pc # "copy"
        /\ UNCHANGED <<shm, write_pos, writer, sent, queue, got, matched, dropped>>
    BY DEF ReadBegin, ReadEnd, vars, TypeInv, TypeOK
  <1>2. LastRead' = LastRead /\ Unread' = Unread
    BY <1>1 DEF LastRead, Unread, Written
  <1>3. Handed' = Handed
    BY <1>1, <1>2 DEF Handed
  <1>4. Pending(s)' = Pending(s) /\ Coming(s)' = Coming(s) /\ Copied(s)' = Copied(s)
    BY <1>1, <1>2 DEF Pending, Coming, Copied
  <1>5. Counted(s)'
    BY <1>1, <1>4 DEF SocketsInv, Counted, Handled
  <1> QED
    BY <1>1, <1>3, <1>5, OrderKept DEF SocketsInv

-----------------------------------------------------------------------------
(* The invariant of the whole: nothing is asked of a reader out of step.   *)
IInv == TypeInv /\ (InStep => RingInv /\ SocketsInv)

LEMMA IInvInit == Init => IInv
  BY TypeInit, RingInit, SocketsInit DEF IInv

LEMMA IInvStep == IInv /\ [Next]_vars => IInv'
  <1> SUFFICES ASSUME IInv, [Next]_vars PROVE IInv'
    OBVIOUS
  <1>1. TypeInv /\ TypeInv'
    BY TypeStep DEF IInv
  <1>2. InStep' => InStep
    BY DEF InStep, IntrBegin, Next, Writer, Reader, App, TrainArrives, WriteBegin, WriteLine, ReadBegin, ReadEnd,
           ReadHead, ReadBody, dequeueRxPacket, vars
  <1> SUFFICES ASSUME InStep' PROVE RingInv' /\ SocketsInv'
    BY <1>1 DEF IInv
  <1>3. RingInv /\ SocketsInv
    BY <1>2 DEF IInv
  <1>3a. CASE IntrBegin
    BY <1>1, <1>3, <1>3a, RingIntrBegin, SocketsTrainArrives
  <1>4. ASSUME NEW n \in 0 .. TrainMax, TrainArrives(n) PROVE RingInv' /\ SocketsInv'
    BY <1>1, <1>3, <1>4, RingTrainArrives, SocketsTrainArrives
  <1>5. ASSUME NEW type \in Types, WriteBegin(type) PROVE RingInv' /\ SocketsInv'
    BY <1>1, <1>3, <1>5, RingWriteBegin, SocketsWriteBegin
  <1>6. ASSUME NEW line \in Lines, WriteLine(line) PROVE RingInv' /\ SocketsInv'
    <2>1. CASE writer.todo = {line}
      BY <1>1, <1>3, <1>6, <2>1, RingLastLine, SocketsLastLine
    <2>2. CASE writer.todo # {line}
      BY <1>1, <1>3, <1>6, <2>2, RingLineNotLast, SocketsLineNotLast
    <2> QED
      BY <2>1, <2>2
  <1>7. CASE ReadBegin
    BY <1>1, <1>3, <1>7, RingReadBegin, SocketsRest
  <1>8. CASE ReadBody
    BY <1>1, <1>3, <1>8, RingRest, SocketsReadBody
  <1>9. ASSUME NEW pos \in Positions, ReadEnd(pos) PROVE RingInv' /\ SocketsInv'
    BY <1>1, <1>3, <1>9, RingReadEnd, SocketsRest
  <1>10. ASSUME NEW pos \in Positions, ReadHead(pos) PROVE RingInv' /\ SocketsInv'
    BY <1>1, <1>3, <1>10, RingReadHead, SocketsReadHead
  <1>11. ASSUME NEW s \in Sockets, dequeueRxPacket(s) PROVE RingInv' /\ SocketsInv'
    <2>1. UNCHANGED <<shm, write_pos, writer, reader, sent, ran, paced, light>>
      BY <1>11 DEF dequeueRxPacket
    <2> QED
      BY <1>1, <1>3, <1>11, <2>1, RingRest, SocketsDequeue
  <1>12. CASE UNCHANGED vars
    <2>1. UNCHANGED <<shm, write_pos, writer, reader, sent, ran, paced, light>>
      BY <1>12 DEF vars
    <2> QED
      BY <1>1, <1>3, <1>12, <2>1, RingRest, SocketsRest
  <1> QED
    BY <1>3a, <1>4, <1>5, <1>6, <1>7, <1>8, <1>9, <1>10, <1>11, <1>12 DEF Next, Writer, Reader, App

LEMMA Invariant == Spec => []IInv
  BY IInvInit, IInvStep, PTL DEF Spec

\* A reader in step loses no frame: when it has caught up with core R0, what
\* came for a socket is with its application, in its queue, or was dropped
\* because the queue was full (inet_fpga_to_rxfifo, enqueueRxPacket).
THEOREM NoFrameMissed == Spec => []NoneMissed
  <1>1. IInv => NoneMissed
    <2> SUFFICES ASSUME IInv, InStep, CaughtUp, NEW s \in Sockets
                 PROVE  got[s].num + Len(queue[s]) + dropped[s] = matched[s]
      BY DEF NoneMissed, AllHandled
    <2>1. TypeInv /\ RingInv /\ Counted(s)
      BY DEF IInv, SocketsInv
    <2>2. Unread = 0
      BY <2>1, Fields, AheadIsZero DEF CaughtUp, Unread
    <2>3. Pending(s) = {}
      BY <2>1, <2>2, Fields, AheadInRing DEF Pending
    <2>4. Cardinality(Pending(s)) = 0 /\ Copied(s) = 0 /\ Coming(s) = 0
      BY <2>3, FS_EmptySet DEF CaughtUp, Copied, Coming
    <2> QED
      BY <2>1, <2>4, SocketFields DEF Counted, Handled
  <1> QED
    BY <1>1, Invariant, PTL

\* For as long as the reader keeps step, to each socket the path from core R0's
\* receive interrupt to recvfrom is a lossy channel: initial states map to
\* initial states and every step to a step of the channel or to none.
THEOREM SocketsRefineLossyChannels == Spec => SocketsAreLossyChannels
  <1>1. Init => \A s \in Sockets : Channel(s)!Init
    BY DEF Init, Channel!Init, Had
  <1>2. ASSUME IInv, [Next]_vars, InStep', NEW s \in Sockets
        PROVE  Channel(s)!Next \/ UNCHANGED <<sent, Had(s)>>
    <2>1. TypeInv /\ InStep
      BY <1>2 DEF IInv, InStep, Next, Writer, Reader, App, IntrBegin, TrainArrives, WriteBegin,
         WriteLine, ReadBegin, ReadEnd, ReadHead, ReadBody, dequeueRxPacket, vars
    <2>2. CASE UNCHANGED <<sent, got>>
      BY <2>2 DEF Had
    <2>3. CASE UNCHANGED vars \/ Reader
      BY <2>2, <2>3 DEF vars, Reader, ReadBegin, ReadEnd, ReadHead, ReadBody
    <2>4. CASE Writer
      <3>1. ASSUME NEW type \in Types, WriteBegin(type) PROVE Channel(s)!Next
        BY <3>1 DEF WriteBegin, Channel!Next, Channel!Send, Had
      <3> QED
        BY <2>2, <2>4, <3>1 DEF Writer, IntrBegin, TrainArrives, WriteLine
    <2>5. ASSUME NEW r \in Sockets, dequeueRxPacket(r) PROVE Channel(s)!Next \/ UNCHANGED <<sent, Had(s)>>
      <3>1. sent' = sent
        BY <2>5 DEF dequeueRxPacket
      <3>2. CASE r # s
        <4>1. got'[s] = got[s]
          BY <2>1, <2>5, <3>2 DEF dequeueRxPacket, TypeInv, TypeOK
        <4> QED
          BY <3>1, <4>1 DEF Had
      <3>3. CASE r = s
        <4>1. RingInv /\ SocketsInv
          BY <1>2, <2>1 DEF IInv
        <4>2. got'[s].num = got[s].num + 1 /\ got'[s].head > got[s].head /\ got'[s].head <= sent
          BY <1>2, <2>1, <2>5, <3>3, <4>1, SocketsDequeue
        <4>3. got'[s].head \in Nat
          <5>1. TypeInv'
            BY <1>2, <2>1, TypeStep
          <5>2. got' \in [Sockets -> [num : Nat, head : Nat, body : Nat]]
            BY <5>1 DEF TypeInv, TypeOK
          <5> QED
            BY <5>2
        <4>4. got[s].head \in Nat /\ sent \in Nat
          BY <2>1, SocketFields, Fields
        <4>5. got'[s].head \in (got[s].head + 1) .. sent
          BY <4>2, <4>3, <4>4
        <4>6. Had(s) = [num |-> got[s].num, head |-> got[s].head]
              /\ Had(s)' = [num |-> got[s].num + 1, head |-> got'[s].head]
          BY <4>2 DEF Had
        <4> QED
          BY <3>1, <4>5, <4>6 DEF Channel!Next, Channel!Deliver
      <3> QED
        BY <3>2, <3>3
    <2> QED
      BY <1>2, <2>3, <2>4, <2>5 DEF Next, App
  <1>3. IInv /\ [Next]_vars => [InStep' => \A s \in Sockets : [Channel(s)!Next]_<<sent, Had(s)>>]_vars
    BY <1>2
  <1> QED
    BY <1>1, <1>3, Invariant, PTL DEF Spec, SocketsAreLossyChannels
=============================================================================
