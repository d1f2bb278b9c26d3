------------------------------ MODULE ShmRing -------------------------------
(***************************************************************************)
(* One ring of frames in memory shared by two cores.  The sender stamps    *)
(* every frame with a counter and overwrites the slots in turn, with no    *)
(* flow control; the receiver polls the slot it expects next and takes the *)
(* frame when its counter is newer than the last one.                      *)
(*                                                                         *)
(*   Receiver = "core0": Rn -> R0 and A72 -> R0, frames for the network    *)
(*       (ipc_prog_othercore_rawpkg_to_shm_txque, enet_queue_manage_       *)
(*       othercore.c; ipc_scan_other_core_enet_txque_to_pcie_txque,        *)
(*       enet_queue_manage_core0.c).                                       *)
(*   Receiver = "inet": Rn -> Rm, frames between cores                     *)
(*       (inet_send_to_txque, inet_recv_to_rxfifo, inet_queue_common.c).   *)
(*                                                                         *)
(* A frame is copied line by line through the caches of two cores, so each *)
(* line is a step of its own: "head" is the line that holds ipc_frame_cnt  *)
(* and the header, "body" stands for the lines after it.  The contents of  *)
(* a line is the number of the frame it belongs to.                        *)
(***************************************************************************)
EXTENDS FrameCounter

CONSTANTS
    FrameNum,    \* slots of the ring: S_CAR_MAX_NUM or B_CAR_MAX_NUM
    Receiver,    \* "core0" or "inet"
    Paced,       \* TRUE: the receiver polls more often than the sender sends
    SinkFills,   \* TRUE: the queue behind the ring may be found full
    MaxAhead,    \* frames sent at most while the receiver takes none
    StartCnt,    \* frames sent and received before the initial state
    MaxSent      \* bound on the number of frames sent

ASSUME ShmRingAssumption ==
    /\ FrameNum \in Nat /\ FrameNum > 1
    /\ FrameNum <= 2 * Window
    /\ Receiver \in {"core0", "inet"}
    /\ Paced \in BOOLEAN /\ SinkFills \in BOOLEAN
    /\ MaxAhead \in Nat
    /\ StartCnt \in Nat /\ StartCnt <= CntMax
    /\ MaxSent \in Nat

VARIABLES
    shm,    \* the shared slots: counter, and frame in the head and body lines
    tx,     \* the sender's tx_ctrl_t, and the lines it has yet to write
    rx,     \* the receiver's rx_ctrl_t, and where it is in its scan
    view,   \* the counters of the slots as the receiver's cache holds them
    sent,   \* number of frames the sender has begun to write
    polled, \* the value of sent when the receiver last took a frame or found none
    out     \* what left the ring: count, and lines of the latest frame

vars == <<shm, tx, rx, view, sent, polled, out>>

Slots == 0 .. FrameNum - 1
Lines == {"head", "body"}
EmptySlot == [cnt |-> 0, head |-> 0, body |-> 0]

\* (A mutant: the index is not masked.)
IndexNotMasked(i) == i + 1

Succ(i) == IF i = FrameNum - 1 THEN 0 ELSE i + 1    \* (i + 1) & (frame_num - 1)
Pred(i) == IF i = 0 THEN FrameNum - 1 ELSE i - 1    \* (i - 1) & (frame_num - 1)

\* How many frames before the latest the slot j was written, when i is the
\* slot to be written next.
Age(i, j) == IF j < i THEN i - 1 - j ELSE i - 1 - j + FrameNum

Frames == [cnt : Counters, head : Nat, body : Nat]
TxStates == [active_buf_idx : Slots, last_send_cnt : Counters, todo : SUBSET Lines]
RxStates == [pc : {"idle", "read", "copy"}, active_buf_idx : Slots,
             last_recv_cnt : Counters, budget : 0 .. FrameNum,
             cnt : Counters, head : Nat]

TypeOK ==
    /\ shm \in [Slots -> Frames]
    /\ tx \in TxStates
    /\ rx \in RxStates
    /\ rx.pc # "idle" => rx.budget > 0
    /\ view \in [Slots -> Counters]
    /\ sent \in Nat
    /\ polled \in Nat
    /\ out \in [num : Nat, head : Nat, body : Nat]
-----------------------------------------------------------------------------
(* Boot is StartCnt = 0, every slot zero.  Otherwise StartCnt frames have  *)
(* gone through and the receiver has caught up: the slots hold the last    *)
(* FrameNum frames and the receiver has polled the next slot in vain.      *)

StartIdx == StartCnt % FrameNum

StartSlot(j) ==
    LET k == StartCnt - Age(StartIdx, j)
    IN  IF k > 0 THEN [cnt |-> k, head |-> k, body |-> k] ELSE EmptySlot

Init ==
    /\ shm = [j \in Slots |-> StartSlot(j)]
    /\ tx = [active_buf_idx |-> StartIdx, last_send_cnt |-> StartCnt, todo |-> {}]
    /\ rx = [pc |-> "idle", active_buf_idx |-> StartIdx,
             last_recv_cnt |-> StartSlot(StartIdx).cnt, budget |-> 0,
             cnt |-> 0, head |-> 0]
    /\ view = [j \in Slots |-> StartSlot(j).cnt]
    /\ sent = StartCnt
    /\ polled = StartCnt
    /\ out = [num |-> StartCnt, head |-> StartCnt, body |-> StartCnt]
-----------------------------------------------------------------------------
(* The sender, run in the core's periodic interrupt, one frame at most each *)
(* time (send_to_ethernet).  R2 and R3 run theirs every 1000 us, R0 and R1 *)
(* every 200 us (slot_fpga_init_comm): on a ring from R2 or R3 to R0 or R1 *)
(* the receiver polls between any two frames, and the ring is Paced.       *)

SendBegin ==
    /\ tx.todo = {}
    /\ sent < MaxSent
    /\ sent - polled < MaxAhead
    /\ Paced => sent = polled
    /\ sent' = sent + 1
    /\ tx' = [tx EXCEPT !.last_send_cnt = NextCnt(@), !.todo = Lines]
    /\ UNCHANGED <<shm, rx, view, polled, out>>

\* memcpy and cache_wb_com: the lines reach memory in some order; the last
\* one ends the call, which then moves active_buf_idx.
SendLine(line) ==
    LET i == tx.active_buf_idx IN
    /\ line \in tx.todo
    /\ shm' = [shm EXCEPT ![i] =
                 IF line = "head" THEN [@ EXCEPT !.cnt = tx.last_send_cnt, !.head = sent]
                 ELSE [@ EXCEPT !.body = sent]]
    /\ tx' = [tx EXCEPT !.todo = @ \ {line},
                        !.active_buf_idx = IF tx.todo = {line} THEN Succ(i) ELSE i]
    /\ UNCHANGED <<rx, view, sent, polled, out>>

SendHead == SendLine("head")
SendBody == SendLine("body")
-----------------------------------------------------------------------------
(* The receiver, run in its own core's periodic interrupt.                 *)

ScanBegin ==
    /\ rx.pc = "idle"
    /\ rx' = [rx EXCEPT !.pc = "read", !.budget = FrameNum]
    /\ UNCHANGED <<shm, tx, view, sent, polled, out>>

\* The slot's line is invalidated and its counter read.
ReadNew ==
    LET i == rx.active_buf_idx IN
    /\ rx.pc = "read"
    /\ check_frame_cnt_add(shm[i].cnt, rx.last_recv_cnt)
    /\ rx' = [rx EXCEPT !.pc = "copy", !.cnt = shm[i].cnt, !.head = shm[i].head]
    /\ view' = [view EXCEPT ![i] = shm[i].cnt]
    /\ UNCHANGED <<shm, tx, sent, polled, out>>

\* (A mutant: the neighbours are not looked at before going back to slot 0.)
BackOnOneZero ==
    LET i == rx.active_buf_idx IN
    /\ rx.pc = "read"
    /\ ~ check_frame_cnt_add(shm[i].cnt, rx.last_recv_cnt)
    /\ view' = [view EXCEPT ![i] = shm[i].cnt]
    /\ rx' = [rx EXCEPT !.pc = "idle", !.last_recv_cnt = shm[i].cnt,
                        !.active_buf_idx = IF shm[i].cnt = 0 THEN 0 ELSE i]
    /\ polled' = sent
    /\ UNCHANGED <<shm, tx, sent, out>>

\* No new frame: last_recv_cnt becomes whatever the slot holds.  When that is
\* 0 the counters of the neighbours are read too, without invalidating their
\* lines: each read gives the cached counter, or the one in memory if the line
\* has left the cache.  Three zeros mean a freshly cleared ring: back to slot 0.
ReadOld ==
    LET i == rx.active_buf_idx IN
    /\ rx.pc = "read"
    /\ ~ check_frame_cnt_add(shm[i].cnt, rx.last_recv_cnt)
    /\ \E next \in {view[Succ(i)], shm[Succ(i)].cnt},
          prev \in {view[Pred(i)], shm[Pred(i)].cnt} :
         /\ Succ(i) = Pred(i) => next = prev
         /\ view' = IF shm[i].cnt # 0 THEN [view EXCEPT ![i] = shm[i].cnt]
                    ELSE IF next # 0 THEN [view EXCEPT ![i] = 0, ![Succ(i)] = next]
                    ELSE [view EXCEPT ![i] = 0, ![Succ(i)] = next, ![Pred(i)] = prev]
         /\ rx' = [rx EXCEPT !.pc = "idle",
                             !.last_recv_cnt = shm[i].cnt,
                             !.active_buf_idx =
                                IF shm[i].cnt = 0 /\ next = 0 /\ prev = 0 THEN 0 ELSE i]
    /\ polled' = sent
    /\ UNCHANGED <<shm, tx, sent, out>>

\* The rest of the slot is read.  core0 still has the head line in its cache;
\* inet has invalidated the whole slot once more, so it reads the head again.
CopiedHead == IF Receiver = "inet" THEN shm[rx.active_buf_idx].head ELSE rx.head

Advance == /\ rx' = [rx EXCEPT !.pc = IF rx.budget = 1 THEN "idle" ELSE "read",
                               !.active_buf_idx = Succ(@),
                               !.last_recv_cnt = rx.cnt,
                               !.budget = @ - 1]
           /\ polled' = sent

CopyFrame ==
    /\ rx.pc = "copy"
    /\ out' = [num |-> out.num + 1, head |-> CopiedHead,
               body |-> shm[rx.active_buf_idx].body]
    /\ Advance
    /\ UNCHANGED <<shm, tx, view, sent>>

\* The queue behind the ring is full: core0 ends its scan and will read the
\* slot again; inet has already moved on, and the frame is lost.
SinkFull ==
    /\ SinkFills
    /\ rx.pc = "copy"
    /\ IF Receiver = "core0" THEN rx' = [rx EXCEPT !.pc = "idle"] /\ UNCHANGED polled
       ELSE Advance
    /\ UNCHANGED <<shm, tx, view, sent, out>>

Sender == SendBegin \/ SendHead \/ SendBody
Scan == ScanBegin \/ ReadNew \/ ReadOld \/ CopyFrame
Next == Sender \/ Scan \/ SinkFull

Spec == Init /\ [][Next]_vars

\* Both interrupts are periodic: a frame begun is finished, and the receiver
\* keeps polling.  The queue behind the ring is drained every cycle, so that a
\* frame is not refused for ever.  Nothing obliges the sender to send.
Fairness == /\ WF_vars(SendHead) /\ WF_vars(SendBody)
            /\ WF_vars(ScanBegin \/ ReadNew \/ ReadOld) /\ SF_vars(CopyFrame)

FairSpec == Spec /\ Fairness
-----------------------------------------------------------------------------
(* The inductive invariant behind RingIsLossyChannel, for Receiver =       *)
(* "core0".                                                                *)

\* The latest frame whose head line is in memory.
Published == IF "head" \in tx.todo THEN sent - 1 ELSE sent

\* The slots hold the last FrameNum frames, each where its age puts it.
SlotsHoldLastFrames ==
    \A j \in Slots :
        LET written == IF tx.todo = {} THEN sent ELSE sent - 1
            k == written - Age(tx.active_buf_idx, j)
        IN  shm[j].head = IF j = tx.active_buf_idx /\ tx.todo = {"body"} THEN sent
                          ELSE IF k > 0 THEN k ELSE 0

\* Counters and frame numbers run in step, through every wrap.
CountersInStep ==
    /\ sent > 0 => tx.last_send_cnt # 0
    /\ tx.todo # {} => sent > 0
    /\ \A j \in Slots : shm[j].cnt = IF shm[j].head = 0 THEN 0
                                    ELSE CntBefore(tx.last_send_cnt, sent - shm[j].head)

\* Whatever the receiver would take next is newer than all it has handed on.
NextTakenIsNewer ==
    LET i == rx.active_buf_idx
    IN  /\ out.head <= Published
        /\ check_frame_cnt_add(shm[i].cnt, rx.last_recv_cnt) => shm[i].head > out.head
        /\ rx.pc = "copy" =>
              /\ out.head < rx.head /\ rx.head <= shm[i].head
              /\ check_frame_cnt_add(shm[Succ(i)].cnt, rx.cnt) => shm[Succ(i)].head > rx.head

\* The slot before the one polled has been used, so that the test for a cleared
\* ring never sends a receiver in the middle of the ring back to slot 0.
NeverSentBack ==
    LET i == rx.active_buf_idx
    IN  /\ i # 0 => view[Pred(i)] # 0 /\ shm[Pred(i)].cnt # 0
        /\ rx.pc = "copy" => view[i] # 0 /\ shm[i].cnt # 0

IInv == /\ TypeOK
        /\ SlotsHoldLastFrames
        /\ CountersInStep
        /\ NextTakenIsNewer
        /\ NeverSentBack
-----------------------------------------------------------------------------
(* Properties.                                                             *)

Channel == INSTANCE LossyChannel
             WITH delivered <- [num |-> out.num, head |-> out.head]

\* The ring is a lossy channel: the receiver hands on no frame twice and no
\* older frame after a newer one, whatever the lag of the receiver, in every
\* order of the lines' writes and reads, and across the wrap of the counter.
RingIsLossyChannel == Channel!Spec

Delivering == out' # out

\* Only an overrun loses frames: when the receiver skips one, the sender had
\* already begun to overwrite its slot.  (core0, or a queue that is never full.)
LossOnlyByOverrun ==
    [][Delivering => \/ out'.head = out.head + 1
                     \/ sent - out.head > FrameNum]_vars

\* A receiver that polls more often than the sender sends misses no frame.
PacedMissesNothing == [][Delivering => out'.head = out.head + 1]_vars

\* The latest frame is delivered unless the sender goes on to send another: when
\* traffic pauses, nothing is left behind in the ring.  It takes a ring, and a
\* lag of the receiver, shorter than the window in which the wrap is recognised;
\* on core A72's ring of 2 * Window slots the counter may jump over it, and the
\* receiver takes the frame in the slot it polls for an old one.
NewestDelivered == []<>(out.head = sent) \/ []<><<SendBegin>>_vars
=============================================================================
