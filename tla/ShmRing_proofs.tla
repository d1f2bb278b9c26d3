--------------------------- MODULE ShmRing_proofs ---------------------------
(***************************************************************************)
(* For every ring size up to 2 * Window, every counter width and every lag *)
(* of the receiver, a core0 ring is a lossy channel: no frame twice, none  *)
(* out of order, across every wrap of the counter.  For every ring smaller *)
(* than Window, either receiver, if it keeps pace, misses no frame.        *)
(***************************************************************************)
EXTENDS ShmRing, TLAPS

\* The increment and the counters before it stay in step.
LEMMA CntBeforeStep ==
    ASSUME NEW c \in Counters, c # 0, NEW d \in Nat, d + 1 < CntMax
    PROVE  /\ NextCnt(c) \in Counters /\ NextCnt(c) # 0
           /\ CntBefore(c, d) \in Counters /\ CntBefore(c, d) # 0
           /\ CntBefore(NextCnt(c), d + 1) = CntBefore(c, d)
  BY FrameCounterAssumption DEF Counters, NextCnt, CntBefore

\* Counting back in two steps is counting back once.
LEMMA CntBeforeTwice ==
    ASSUME NEW c \in Counters, c # 0, NEW d \in Nat, NEW e \in Nat, d + e < CntMax
    PROVE  CntBefore(CntBefore(c, e), d) = CntBefore(c, e + d)
  BY FrameCounterAssumption DEF Counters, CntBefore

\* check_frame_u32_cnt_add refuses the counter of a frame up to 2 * Window
\* frames older than the last one taken, at every point of the counter's cycle.
LEMMA OlderNotNew ==
    ASSUME NEW c \in Counters, c # 0, NEW d \in Nat, d > 0, d <= 2 * Window
    PROVE  ~ check_frame_cnt_add(CntBefore(c, d), c)
  BY FrameCounterAssumption
     DEF Counters, CntBefore, check_frame_cnt_add, SameHalf, InMiddle, NearTop

\* Arithmetic of the ring: neighbours, and the age of a slot's frame.
LEMMA RingArithmetic ==
    ASSUME NEW i \in Slots, NEW j \in Slots
    PROVE  /\ Succ(i) \in Slots /\ Pred(i) \in Slots
           /\ Succ(i) # i /\ Pred(Succ(i)) = i
           /\ Age(i, j) \in 0 .. FrameNum - 1
           /\ i = j => Age(i, j) = FrameNum - 1
           /\ i # j => Age(i, j) < FrameNum - 1
           /\ Age(Succ(i), j) = IF j = i THEN 0 ELSE Age(i, j) + 1
           /\ i # 0 => Age(i, Pred(i)) = 0
  BY ShmRingAssumption DEF Slots, Succ, Pred, Age

-----------------------------------------------------------------------------
(* Type correctness.                                                       *)

LEMMA TypeInit == Init => TypeOK
  <1> SUFFICES ASSUME Init PROVE TypeOK
    OBVIOUS
  <1>1. StartIdx \in Slots
    BY ShmRingAssumption DEF StartIdx, Slots
  <1>2. \A j \in Slots : StartSlot(j) \in Frames
    <2> SUFFICES ASSUME NEW j \in Slots PROVE StartSlot(j) \in Frames
      OBVIOUS
    <2>1. Age(StartIdx, j) \in 0 .. FrameNum - 1
      BY <1>1, RingArithmetic
    <2> QED
      BY <2>1, ShmRingAssumption, FrameCounterAssumption
         DEF StartSlot, EmptySlot, Counters, Frames
  <1>3. \A j \in Slots : StartSlot(j).cnt \in Counters
    BY <1>2 DEF Frames
  <1>4. tx \in TxStates
    BY <1>1, ShmRingAssumption DEF Init, TxStates, Lines, Counters
  <1>5. rx \in RxStates /\ rx.pc = "idle"
    BY <1>1, <1>3, ShmRingAssumption, FrameCounterAssumption
       DEF Init, RxStates, Counters
  <1>6. out \in [num : Nat, head : Nat, body : Nat] /\ sent \in Nat /\ polled \in Nat
    BY ShmRingAssumption DEF Init
  <1>7. shm \in [Slots -> Frames] /\ view \in [Slots -> Counters]
    BY <1>2, <1>3 DEF Init
  <1> QED
    BY <1>4, <1>5, <1>6, <1>7 DEF TypeOK

\* Moving on to the next slot.
LEMMA TypeAdvance ==
    ASSUME TypeOK, rx.pc = "copy", Advance
    PROVE  rx' \in RxStates /\ (rx'.pc # "idle" => rx'.budget > 0) /\ polled' \in Nat
  <1>1. Succ(rx.active_buf_idx) \in Slots
    BY RingArithmetic DEF TypeOK, RxStates
  <1>2. rx.budget - 1 \in 0 .. FrameNum /\ (rx.budget # 1 => rx.budget - 1 > 0)
    BY ShmRingAssumption DEF TypeOK, RxStates
  <1> QED
    BY <1>1, <1>2 DEF Advance, TypeOK, RxStates

LEMMA TypeStep == TypeOK /\ [Next]_vars => TypeOK'
  <1> SUFFICES ASSUME TypeOK, [Next]_vars PROVE TypeOK'
    OBVIOUS
  <1>ring. \A i \in Slots : Succ(i) \in Slots /\ Pred(i) \in Slots
    BY RingArithmetic
  <1>1. CASE SendBegin
    <2>1. NextCnt(tx.last_send_cnt) \in Counters
      BY FrameCounterAssumption DEF TypeOK, TxStates, Counters, NextCnt
    <2>2. tx' \in TxStates
      BY <1>1, <2>1 DEF SendBegin, TypeOK, TxStates
    <2>3. sent' \in Nat
      BY <1>1 DEF SendBegin, TypeOK
    <2> QED
      BY <1>1, <2>2, <2>3 DEF SendBegin, TypeOK
  <1>2. ASSUME NEW line \in Lines, SendLine(line) PROVE TypeOK'
    <2>1. tx' \in TxStates
      BY <1>2, <1>ring DEF SendLine, TypeOK, TxStates
    <2>2. shm' \in [Slots -> Frames]
      BY <1>2 DEF SendLine, TypeOK, TxStates, Frames
    <2> QED
      BY <1>2, <2>1, <2>2 DEF SendLine, TypeOK
  <1>3. CASE ScanBegin
    <2>1. FrameNum \in 0 .. FrameNum /\ FrameNum > 0
      BY ShmRingAssumption
    <2>2. rx' \in RxStates /\ rx'.budget > 0
      BY <1>3, <2>1 DEF ScanBegin, TypeOK, RxStates
    <2> QED
      BY <1>3, <2>2 DEF ScanBegin, TypeOK
  <1>4. CASE ReadNew
    <2>1. shm[rx.active_buf_idx] \in Frames
      BY DEF TypeOK, RxStates
    <2>2. rx' \in RxStates /\ rx'.budget > 0
      BY <1>4, <2>1 DEF ReadNew, TypeOK, RxStates, Frames
    <2>3. view' \in [Slots -> Counters]
      BY <1>4, <2>1 DEF ReadNew, TypeOK, Frames
    <2> QED
      BY <1>4, <2>2, <2>3 DEF ReadNew, TypeOK
  <1>5. CASE ReadOld
    <2> DEFINE i == rx.active_buf_idx
    <2>1. i \in Slots /\ 0 \in Slots /\ 0 \in Counters
      BY ShmRingAssumption, FrameCounterAssumption
         DEF TypeOK, RxStates, Slots, Counters
    <2>2. \A j \in Slots : shm[j].cnt \in Counters /\ view[j] \in Counters
      BY DEF TypeOK, Frames
    <2>3. PICK next \in {view[Succ(i)], shm[Succ(i)].cnt},
               prev \in {view[Pred(i)], shm[Pred(i)].cnt} :
            /\ view' = IF shm[i].cnt # 0 THEN [view EXCEPT ![i] = shm[i].cnt]
                       ELSE IF next # 0 THEN [view EXCEPT ![i] = 0, ![Succ(i)] = next]
                       ELSE [view EXCEPT ![i] = 0, ![Succ(i)] = next, ![Pred(i)] = prev]
            /\ rx' = [rx EXCEPT !.pc = "idle",
                                !.last_recv_cnt = shm[i].cnt,
                                !.active_buf_idx =
                                   IF shm[i].cnt = 0 /\ next = 0 /\ prev = 0 THEN 0 ELSE i]
      BY <1>5 DEF ReadOld
    <2>4. next \in Counters /\ prev \in Counters
      BY <2>1, <2>2, <1>ring
    <2> HIDE DEF i
    <2>5. view' \in [Slots -> Counters]
      BY <2>1, <2>2, <2>3, <2>4, <1>ring DEF TypeOK
    <2>6. rx' \in RxStates /\ rx'.pc = "idle"
      BY <2>1, <2>2, <2>3 DEF TypeOK, RxStates
    <2> QED
      BY <1>5, <2>5, <2>6 DEF ReadOld, TypeOK
  <1>6. CASE CopyFrame
    <2>1. CopiedHead \in Nat /\ shm[rx.active_buf_idx].body \in Nat
      BY DEF CopiedHead, TypeOK, RxStates, Frames
    <2>2. out' \in [num : Nat, head : Nat, body : Nat]
      BY <1>6, <2>1 DEF CopyFrame, TypeOK
    <2> QED
      BY <1>6, <2>2, TypeAdvance DEF CopyFrame, TypeOK
  <1>7. CASE SinkFull
    <2>1. CASE Receiver = "core0"
      <3>1. rx' \in RxStates /\ rx'.pc = "idle"
        BY <1>7, <2>1 DEF SinkFull, TypeOK, RxStates
      <3> QED
        BY <1>7, <2>1, <3>1 DEF SinkFull, TypeOK
    <2>2. CASE Receiver # "core0"
      BY <1>7, <2>2, TypeAdvance DEF SinkFull, TypeOK
    <2> QED
      BY <2>1, <2>2
  <1>8. CASE UNCHANGED vars
    BY <1>8 DEF vars, TypeOK
  <1> QED
    BY <1>1, <1>2, <1>3, <1>4, <1>5, <1>6, <1>7, <1>8
       DEF Next, Sender, Scan, SendHead, SendBody, Lines

\* Every variable keeps its type, for every size of ring and counter.
THEOREM TypeCorrect == Spec => []TypeOK
  BY TypeInit, TypeStep, PTL DEF Spec

-----------------------------------------------------------------------------
(* The inductive invariant.                                                *)

\* What the slots of a ring in step can hold.
LEMMA SlotBounds ==
    ASSUME TypeOK, SlotsHoldLastFrames, CountersInStep, NEW j \in Slots
    PROVE  /\ shm[j].head \in Nat /\ shm[j].head <= Published
           /\ Published <= sent
           /\ shm[j].head # 0 => sent - shm[j].head <= FrameNum
           /\ shm[j].cnt # 0 => shm[j].head # 0
  <1>1. Age(tx.active_buf_idx, j) \in 0 .. FrameNum - 1
    BY RingArithmetic DEF TypeOK, TxStates
  <1>2. sent \in Nat /\ (tx.todo # {} => sent > 0)
    BY DEF TypeOK, CountersInStep
  <1>3. shm[j].cnt # 0 => shm[j].head # 0
    BY DEF CountersInStep
  <1> QED
    BY <1>1, <1>2, <1>3, ShmRingAssumption DEF SlotsHoldLastFrames, Published

\* The check never takes an older slot for a newer one.
LEMMA OrderOfSlots ==
    ASSUME TypeOK, SlotsHoldLastFrames, CountersInStep,
           NEW i \in Slots, NEW j \in Slots,
           shm[j].cnt # 0, check_frame_cnt_add(shm[i].cnt, shm[j].cnt)
    PROVE  shm[i].head > shm[j].head
  <1> DEFINE c == tx.last_send_cnt
             di == sent - shm[i].head
             dj == sent - shm[j].head
  <1>1. shm[i].cnt # 0 /\ shm[i].cnt # shm[j].cnt
    BY DEF check_frame_cnt_add
  <1>2. /\ shm[i].head \in Nat /\ shm[j].head \in Nat /\ sent \in Nat
        /\ shm[i].head # 0 /\ shm[j].head # 0
        /\ shm[i].head <= sent /\ shm[j].head <= sent
        /\ di <= FrameNum /\ dj <= FrameNum
    <2>1. sent \in Nat /\ Published \in Int
      BY DEF TypeOK, Published
    <2> QED
      BY <1>1, <2>1, SlotBounds
  <1>3. c \in Counters /\ c # 0
    BY <1>2 DEF TypeOK, TxStates, CountersInStep
  <1>4. shm[i].cnt = CntBefore(c, di) /\ shm[j].cnt = CntBefore(c, dj)
    BY <1>2 DEF CountersInStep
  <1> HIDE DEF c
  <1>5. SUFFICES ASSUME shm[i].head < shm[j].head PROVE FALSE
    BY <1>1, <1>2, <1>4
  <1> DEFINE d == di - dj
  <1>6. /\ d \in Nat /\ dj \in Nat /\ d > 0 /\ d <= 2 * Window /\ di = dj + d
        /\ d + dj < CntMax
    BY <1>2, <1>5, ShmRingAssumption, FrameCounterAssumption
  <1> HIDE DEF d, di, dj
  <1>7. CntBefore(CntBefore(c, dj), d) = CntBefore(c, di)
    BY <1>3, <1>6, CntBeforeTwice
  <1>8. CntBefore(c, dj) \in Counters
    BY <1>4 DEF TypeOK, Frames
  <1> QED
    BY <1>4, <1>6, <1>7, <1>8, OlderNotNew

LEMMA InvInit == Init => IInv
  <1> SUFFICES ASSUME Init PROVE IInv
    OBVIOUS
  <1>1. TypeOK
    BY TypeInit
  <1>2. StartIdx \in Slots /\ (StartIdx # 0 => StartCnt > 0)
    BY ShmRingAssumption DEF StartIdx, Slots
  <1>3. \A j \in Slots : Age(StartIdx, j) \in 0 .. FrameNum - 1
    BY <1>2, RingArithmetic
  <1>4. \A j \in Slots :
           /\ shm[j] = StartSlot(j) /\ view[j] = StartSlot(j).cnt
           /\ StartSlot(j).cnt = StartSlot(j).head
           /\ StartSlot(j).head = IF StartCnt - Age(StartIdx, j) > 0
                                  THEN StartCnt - Age(StartIdx, j) ELSE 0
    BY DEF Init, StartSlot, EmptySlot
  <1>5. SlotsHoldLastFrames
    BY <1>4 DEF Init, SlotsHoldLastFrames
  <1>6. CountersInStep
    BY <1>3, <1>4, ShmRingAssumption DEF Init, CountersInStep, CntBefore
  <1>7. NextTakenIsNewer
    BY <1>2, <1>4, ShmRingAssumption
       DEF Init, NextTakenIsNewer, Published, check_frame_cnt_add
  <1>8. NeverSentBack
    BY <1>2, <1>4, RingArithmetic, ShmRingAssumption DEF Init, NeverSentBack
  <1> QED
    BY <1>1, <1>5, <1>6, <1>7, <1>8 DEF IInv

\* The sender begins a frame: counters move on by one, slots stay.
LEMMA InvSendBegin == IInv /\ SendBegin => IInv'
  <1> SUFFICES ASSUME IInv, SendBegin PROVE IInv'
    OBVIOUS
  <1>1. TypeOK'
    BY TypeStep DEF IInv, Next, Sender
  <1>2. /\ tx.todo = {} /\ tx'.todo = Lines /\ Lines # {} /\ Lines # {"body"}
        /\ "head" \in Lines
        /\ tx'.active_buf_idx = tx.active_buf_idx
        /\ tx'.last_send_cnt = NextCnt(tx.last_send_cnt)
        /\ sent' = sent + 1 /\ sent \in Nat
        /\ shm' = shm /\ rx' = rx /\ view' = view /\ out' = out
    <2>1. Lines # {} /\ Lines # {"body"} /\ "head" \in Lines
      BY DEF Lines
    <2> QED
      BY <2>1 DEF IInv, SendBegin, TypeOK, TxStates
  <1>3. SlotsHoldLastFrames'
    BY <1>2 DEF IInv, SlotsHoldLastFrames
  <1>4. CountersInStep'
    <2>1. \A j \in Slots :
             shm[j].head # 0 => /\ sent > 0
                                /\ sent - shm[j].head \in Nat
                                /\ sent - shm[j].head + 1 < CntMax
      <3> SUFFICES ASSUME NEW j \in Slots, shm[j].head # 0
                   PROVE  /\ sent > 0
                          /\ sent - shm[j].head \in Nat
                          /\ sent - shm[j].head + 1 < CntMax
        OBVIOUS
      <3> QED
        BY <1>2, SlotBounds, ShmRingAssumption, FrameCounterAssumption
           DEF IInv, Published
    <2>2. tx.last_send_cnt \in Counters
      BY DEF IInv, TypeOK, TxStates
    <2>3. NextCnt(tx.last_send_cnt) # 0
      BY <2>2, FrameCounterAssumption DEF NextCnt, Counters
    <2>4. ASSUME NEW j \in Slots, shm[j].head # 0
          PROVE  shm[j].cnt = CntBefore(NextCnt(tx.last_send_cnt), sent + 1 - shm[j].head)
      <3>1. shm[j].cnt = CntBefore(tx.last_send_cnt, sent - shm[j].head)
        BY <2>4 DEF IInv, CountersInStep
      <3>2. tx.last_send_cnt # 0
        BY <2>1, <2>4 DEF IInv, CountersInStep
      <3> DEFINE d == sent - shm[j].head
      <3>3. d \in Nat /\ d + 1 < CntMax
        BY <2>1, <2>4
      <3> HIDE DEF d
      <3>4. CntBefore(NextCnt(tx.last_send_cnt), d + 1) = CntBefore(tx.last_send_cnt, d)
        BY <2>2, <3>2, <3>3, CntBeforeStep
      <3>5. shm[j].head \in Nat
        BY SlotBounds DEF IInv
      <3>6. d + 1 = sent + 1 - shm[j].head
        BY <1>2, <3>5 DEF d
      <3> QED
        BY <3>1, <3>4, <3>6 DEF d
    <2>5. \A j \in Slots : shm[j].head = 0 => shm[j].cnt = 0
      BY DEF IInv, CountersInStep
    <2>6. sent + 1 > 0
      BY <1>2
    <2>7. \A j \in Slots :
             shm[j].cnt = IF shm[j].head = 0 THEN 0
                          ELSE CntBefore(NextCnt(tx.last_send_cnt), sent + 1 - shm[j].head)
      BY <2>4, <2>5
    <2>8. \A j \in Slots : (shm[j].cnt = IF shm[j].head = 0 THEN 0
                                      ELSE CntBefore(tx.last_send_cnt, sent - shm[j].head))'
      <3>1. \A j \in Slots : shm[j].head \in Nat
        BY SlotBounds DEF IInv
      <3>2. NextCnt(tx.last_send_cnt) \in Nat
        BY <2>2, FrameCounterAssumption DEF NextCnt, Counters
      <3> QED
        BY <1>2, <3>1, <3>2, <2>7, FrameCounterAssumption DEF CntBefore
    <2> QED
      BY <1>2, <2>3, <2>6, <2>8 DEF CountersInStep
  <1>5. NextTakenIsNewer'
    BY <1>2 DEF IInv, NextTakenIsNewer, Published
  <1>6. NeverSentBack'
    BY <1>2 DEF IInv, NeverSentBack
  <1> QED
    BY <1>1, <1>3, <1>4, <1>5, <1>6 DEF IInv

\* A line reaches memory: the head line puts the newest frame in its slot.
LEMMA InvSendLine ==
    ASSUME IInv, NEW line \in Lines, SendLine(line)
    PROVE  IInv'
  <1> DEFINE i == tx.active_buf_idx
             last == tx.todo = {line}
  <1>1. TypeOK'
    BY TypeStep DEF IInv, Next, Sender, SendHead, SendBody, Lines
  <1>2. /\ i \in Slots /\ line \in tx.todo /\ tx.todo # {}
        /\ tx'.active_buf_idx = IF last THEN Succ(i) ELSE i
        /\ tx'.todo = tx.todo \ {line}
        /\ tx'.last_send_cnt = tx.last_send_cnt
        /\ sent' = sent /\ rx' = rx /\ view' = view /\ out' = out
    BY DEF IInv, SendLine, TypeOK, TxStates
  <1>3. sent \in Nat /\ sent > 0 /\ tx.last_send_cnt # 0 /\ tx.last_send_cnt \in Counters
    BY <1>2 DEF IInv, TypeOK, CountersInStep, TxStates
  <1>4. \A j \in Slots :
           /\ shm'[j].head = IF j = i /\ line = "head" THEN sent ELSE shm[j].head
           /\ shm'[j].cnt = IF j = i /\ line = "head" THEN tx.last_send_cnt ELSE shm[j].cnt
    BY <1>2 DEF IInv, SendLine, TypeOK, Frames
  <1>5. \/ tx.todo = Lines /\ line = "head" /\ tx'.todo = {"body"} /\ ~ last
        \/ tx.todo = Lines /\ line = "body" /\ tx'.todo = {"head"} /\ ~ last
        \/ tx.todo = {"head"} /\ line = "head" /\ tx'.todo = {} /\ last
        \/ tx.todo = {"body"} /\ line = "body" /\ tx'.todo = {} /\ last
    BY <1>2 DEF IInv, TypeOK, TxStates, Lines
  <1>6. "head" \in Lines /\ Lines # {} /\ Lines # {"body"} /\ {"head"} # {"body"}
    BY DEF Lines
  <1> HIDE DEF i, last
  <1>7. \A j \in Slots : /\ Age(i, j) \in 0 .. FrameNum - 1
                          /\ Age(Succ(i), j) = IF j = i THEN 0 ELSE Age(i, j) + 1
    BY <1>2, RingArithmetic
  <1>8. SlotsHoldLastFrames'
    <2> SUFFICES ASSUME NEW j \in Slots
                 PROVE  (LET written == IF tx.todo = {} THEN sent ELSE sent - 1
                             k == written - Age(tx.active_buf_idx, j)
                         IN  shm[j].head = IF j = tx.active_buf_idx /\ tx.todo = {"body"}
                                           THEN sent ELSE IF k > 0 THEN k ELSE 0)'
      BY DEF SlotsHoldLastFrames
    <2>1. shm[j].head = IF j = i /\ tx.todo = {"body"} THEN sent
                        ELSE IF sent - 1 - Age(i, j) > 0 THEN sent - 1 - Age(i, j) ELSE 0
      BY <1>2 DEF IInv, SlotsHoldLastFrames, i
    <2>2. CASE last
      <3>1. tx'.todo = {} /\ tx'.active_buf_idx = Succ(i)
            /\ shm'[j].head = IF j = i THEN sent ELSE shm[j].head
        BY <1>2, <1>4, <1>5, <2>1, <2>2
      <3>2. sent' - Age(tx'.active_buf_idx, j)
              = IF j = i THEN sent ELSE sent - 1 - Age(i, j)
        BY <1>2, <1>3, <1>7, <3>1
      <3>3. j # i => shm[j].head = IF sent - 1 - Age(i, j) > 0 THEN sent - 1 - Age(i, j) ELSE 0
        BY <2>1
      <3> QED
        BY <1>2, <1>3, <3>1, <3>2, <3>3
    <2>3. CASE ~ last
      <3>1. tx'.active_buf_idx = i /\ tx'.todo # {} /\ tx.todo = Lines
            /\ (tx'.todo = {"body"} <=> line = "head")
        BY <1>2, <1>5, <1>6, <2>3
      <3> QED
        BY <1>2, <1>4, <1>6, <2>1, <3>1
    <2> QED
      BY <2>2, <2>3
  <1>9. CountersInStep'
    <2>1. CntBefore(tx.last_send_cnt, sent - sent) = tx.last_send_cnt
      BY <1>3 DEF CntBefore, Counters
    <2> QED
      BY <1>2, <1>3, <1>4, <2>1 DEF IInv, CountersInStep
  <1>10. NextTakenIsNewer'
    <2>1. \A j \in Slots : shm[j].head \in Nat /\ shm[j].head <= Published
      BY SlotBounds DEF IInv
    <2>2. Published' = IF line = "head" THEN sent ELSE Published
      BY <1>2, <1>5, <1>6 DEF Published
    <2>3. line = "head" => Published = sent - 1
      BY <1>2 DEF Published
    <2>4. Published <= sent
      BY <1>3 DEF Published
    <2>5. rx.active_buf_idx \in Slots /\ Succ(rx.active_buf_idx) \in Slots
          /\ Succ(rx.active_buf_idx) # rx.active_buf_idx
          /\ rx.head \in Nat /\ out.head \in Nat
      BY RingArithmetic DEF IInv, TypeOK, RxStates
    <2> HIDE DEF Published
    <2>6. CASE line = "head"
      BY <1>2, <1>3, <1>4, <2>1, <2>2, <2>3, <2>5, <2>6 DEF IInv, NextTakenIsNewer
    <2>7. CASE line # "head"
      BY <1>2, <1>4, <2>2, <2>5, <2>7 DEF IInv, NextTakenIsNewer
    <2> QED
      BY <2>6, <2>7
  <1>11. NeverSentBack'
    <2>1. \A j \in Slots : shm[j].cnt # 0 => shm'[j].cnt # 0
      BY <1>3, <1>4
    <2>2. rx.active_buf_idx \in Slots /\ Pred(rx.active_buf_idx) \in Slots
      BY RingArithmetic DEF IInv, TypeOK, RxStates
    <2> QED
      BY <1>2, <2>1, <2>2 DEF IInv, NeverSentBack
  <1> QED
    BY <1>1, <1>8, <1>9, <1>10, <1>11 DEF IInv

\* The sender's part of the invariant depends on its own variables only.
LEMMA RingPartKept ==
    ASSUME IInv, UNCHANGED <<shm, tx, sent>>
    PROVE  SlotsHoldLastFrames' /\ CountersInStep' /\ Published' = Published
  BY DEF IInv, SlotsHoldLastFrames, CountersInStep, Published

\* The receiver hands on the frame whose counter it tested, or reads it again: so
\* it is with core0, and so with inet as long as it is not lapped.
HandsOnWhatItRead == /\ SinkFills = FALSE \/ Receiver = "core0"
                     /\ rx.pc = "copy" => CopiedHead = rx.head

LEMMA Core0HandsOn == Receiver = "core0" => HandsOnWhatItRead
  BY DEF HandsOnWhatItRead, CopiedHead

\* A receiver that finds nothing new stays where it is.
LEMMA StaysThere ==
    ASSUME IInv, ReadOld
    PROVE  /\ rx'.pc = "idle" /\ rx'.last_recv_cnt = shm[rx.active_buf_idx].cnt
           /\ rx'.active_buf_idx = rx.active_buf_idx
  <1> DEFINE i == rx.active_buf_idx
  <1>1. PICK next \in {view[Succ(i)], shm[Succ(i)].cnt},
             prev \in {view[Pred(i)], shm[Pred(i)].cnt} :
          rx' = [rx EXCEPT !.pc = "idle",
                           !.last_recv_cnt = shm[i].cnt,
                           !.active_buf_idx =
                              IF shm[i].cnt = 0 /\ next = 0 /\ prev = 0 THEN 0 ELSE i]
    BY DEF ReadOld
  <1>2. i # 0 => prev # 0
    BY <1>1 DEF IInv, NeverSentBack
  <1> QED
    BY <1>1, <1>2 DEF IInv, TypeOK, RxStates

\* The receiver's steps.
LEMMA InvScan == HandsOnWhatItRead /\ IInv /\ (Scan \/ SinkFull) => IInv'
  <1> SUFFICES ASSUME HandsOnWhatItRead, IInv, Scan \/ SinkFull PROVE IInv'
    OBVIOUS
  <1> DEFINE i == rx.active_buf_idx
  <1>1. TypeOK'
    BY TypeStep DEF IInv, Next
  <1>2. shm' = shm /\ tx' = tx /\ sent' = sent
    BY DEF Scan, ScanBegin, ReadNew, ReadOld, CopyFrame, SinkFull
  <1>3. SlotsHoldLastFrames' /\ CountersInStep' /\ Published' = Published
    BY <1>2, RingPartKept
  <1>4. /\ i \in Slots /\ Succ(i) \in Slots /\ Pred(i) \in Slots
        /\ Succ(i) # i /\ Pred(i) # i /\ Pred(Succ(i)) = i
    <2>1. i \in Slots
      BY DEF IInv, TypeOK, RxStates
    <2>2. Pred(i) # i
      BY <2>1, ShmRingAssumption DEF Pred, Slots
    <2> QED
      BY <2>1, <2>2, RingArithmetic
  <1>5. SUFFICES NextTakenIsNewer' /\ NeverSentBack'
    BY <1>1, <1>3 DEF IInv
  <1>6. \A j \in Slots : shm[j].head \in Nat /\ shm[j].head <= Published
    BY SlotBounds DEF IInv
  <1>7. rx.head \in Nat /\ out.head \in Nat /\ Published \in Int
    BY DEF IInv, TypeOK, RxStates, Published
  <1> HIDE DEF i
  <1>8. CASE ScanBegin
    <2>1. /\ rx'.pc = "read" /\ rx'.active_buf_idx = i
          /\ rx'.last_recv_cnt = rx.last_recv_cnt
          /\ view' = view /\ out' = out
      BY <1>8 DEF ScanBegin, IInv, TypeOK, RxStates, i
    <2> QED
      BY <1>2, <1>3, <2>1 DEF IInv, NextTakenIsNewer, NeverSentBack, i
  <1>9. CASE ReadNew
    <2>1. /\ rx'.pc = "copy" /\ rx'.active_buf_idx = i
          /\ rx'.last_recv_cnt = rx.last_recv_cnt
          /\ rx'.cnt = shm[i].cnt /\ rx'.head = shm[i].head
          /\ view' = [view EXCEPT ![i] = shm[i].cnt] /\ out' = out
          /\ check_frame_cnt_add(shm[i].cnt, rx.last_recv_cnt)
      BY <1>9 DEF ReadNew, IInv, TypeOK, RxStates, i
    <2>2. shm[i].cnt # 0
      BY <2>1 DEF check_frame_cnt_add
    <2>3. check_frame_cnt_add(shm[Succ(i)].cnt, shm[i].cnt) => shm[Succ(i)].head > shm[i].head
      BY <1>4, <2>2, OrderOfSlots DEF IInv
    <2>4. NextTakenIsNewer'
      BY <1>2, <1>3, <1>4, <1>6, <1>7, <2>1, <2>3 DEF IInv, NextTakenIsNewer, i
    <2>5. NeverSentBack'
      BY <1>2, <1>4, <2>1, <2>2 DEF IInv, NeverSentBack, TypeOK, i
    <2> QED
      BY <2>4, <2>5
  <1>10. CASE ReadOld
    <2>1. PICK next \in {view[Succ(i)], shm[Succ(i)].cnt},
               prev \in {view[Pred(i)], shm[Pred(i)].cnt} :
            /\ Succ(i) = Pred(i) => next = prev
            /\ view' = IF shm[i].cnt # 0 THEN [view EXCEPT ![i] = shm[i].cnt]
                       ELSE IF next # 0 THEN [view EXCEPT ![i] = 0, ![Succ(i)] = next]
                       ELSE [view EXCEPT ![i] = 0, ![Succ(i)] = next, ![Pred(i)] = prev]
            /\ rx' = [rx EXCEPT !.pc = "idle",
                                !.last_recv_cnt = shm[i].cnt,
                                !.active_buf_idx =
                                   IF shm[i].cnt = 0 /\ next = 0 /\ prev = 0 THEN 0 ELSE i]
      BY <1>10 DEF ReadOld, i
    <2>2. i # 0 => view[Pred(i)] # 0 /\ prev # 0
      BY <2>1 DEF IInv, NeverSentBack, i
    <2>3. rx'.pc = "idle" /\ rx'.last_recv_cnt = shm[i].cnt /\ rx'.active_buf_idx = i
      BY <2>1, <2>2 DEF IInv, TypeOK, RxStates, i
    <2>4. out' = out
      BY <1>10 DEF ReadOld
    <2>5. ~ check_frame_cnt_add(shm[i].cnt, shm[i].cnt)
      BY DEF check_frame_cnt_add
    <2>6. NextTakenIsNewer'
      BY <1>2, <1>3, <2>3, <2>4, <2>5 DEF IInv, NextTakenIsNewer
    <2>7. view \in [Slots -> Counters]
      BY DEF IInv, TypeOK
    <2>8. i # 0 => view'[Pred(i)] # 0
      BY <1>4, <2>1, <2>2, <2>7
    <2>9. NeverSentBack'
      BY <1>2, <2>3, <2>8 DEF IInv, NeverSentBack, i
    <2> QED
      BY <2>6, <2>9
  <1>11. CASE CopyFrame
    <2>1. /\ rx.pc = "copy" /\ rx'.pc # "copy" /\ rx'.active_buf_idx = Succ(i)
          /\ rx'.last_recv_cnt = rx.cnt /\ out'.head = rx.head /\ view' = view
      BY <1>11 DEF CopyFrame, Advance, HandsOnWhatItRead, IInv, TypeOK, RxStates, i
    <2>2. rx.head <= Published
      BY <1>4, <1>6, <1>7, <2>1 DEF IInv, NextTakenIsNewer, i
    <2>3. NextTakenIsNewer'
      BY <1>2, <1>3, <2>1, <2>2 DEF IInv, NextTakenIsNewer, i
    <2>4. NeverSentBack'
      BY <1>2, <1>4, <2>1 DEF IInv, NeverSentBack, i
    <2> QED
      BY <2>3, <2>4
  <1>12. CASE SinkFull
    <2>1. /\ rx'.pc = "idle" /\ rx'.active_buf_idx = i
          /\ rx'.last_recv_cnt = rx.last_recv_cnt /\ view' = view /\ out' = out
      BY <1>12 DEF SinkFull, HandsOnWhatItRead, IInv, TypeOK, RxStates, i
    <2> QED
      BY <1>2, <1>3, <2>1 DEF IInv, NextTakenIsNewer, NeverSentBack, i
  <1> QED
    BY <1>8, <1>9, <1>10, <1>11, <1>12 DEF Scan

LEMMA InvStep == HandsOnWhatItRead /\ IInv /\ [Next]_vars => IInv'
  <1> SUFFICES ASSUME HandsOnWhatItRead, IInv, [Next]_vars PROVE IInv'
    OBVIOUS
  <1>1. CASE Sender
    BY <1>1, InvSendBegin, InvSendLine DEF Sender, SendHead, SendBody, Lines
  <1>2. CASE Scan \/ SinkFull
    BY <1>2, InvScan
  <1>3. CASE UNCHANGED vars
    <2>1. TypeOK'
      BY <1>3, TypeStep DEF IInv
    <2> QED
      BY <1>3, <2>1, RingPartKept DEF IInv, vars, NextTakenIsNewer, NeverSentBack
  <1> QED
    BY <1>1, <1>2, <1>3 DEF Next

\* Counters, slots and the receiver's place stay in step: for the network rings
\* of core 0, whatever the other core's pace.
THEOREM RingInStep ==
    ASSUME Receiver = "core0"
    PROVE  Spec => []IInv
  <1>1. IInv /\ [Next]_vars => IInv'
    BY InvStep, Core0HandsOn
  <1> QED
    BY <1>1, InvInit, PTL DEF Spec

-----------------------------------------------------------------------------
(* Refinement: every step of the ring is a step of the channel or none.    *)

LEMMA StepIsChannelStep ==
    ASSUME HandsOnWhatItRead, IInv, [Next]_vars
    PROVE  [Channel!Next]_<<sent, [num |-> out.num, head |-> out.head]>>
  <1> DEFINE delivered == [num |-> out.num, head |-> out.head]
  <1>1. CASE SendBegin
    BY <1>1 DEF SendBegin, Channel!Next, Channel!Send
  <1>2. CASE CopyFrame
    <2>1. out' = [num |-> out.num + 1, head |-> rx.head,
                  body |-> shm[rx.active_buf_idx].body] /\ sent' = sent
      BY <1>2 DEF CopyFrame, HandsOnWhatItRead
    <2>2. rx.active_buf_idx \in Slots /\ rx.head \in Nat /\ out.head \in Nat
          /\ sent \in Nat /\ Published \in Int
      BY DEF IInv, TypeOK, RxStates, Published
    <2>3. rx.head \in (out.head + 1) .. sent
      BY <1>2, <2>2, SlotBounds DEF CopyFrame, IInv, NextTakenIsNewer
    <2> QED
      BY <2>1, <2>3 DEF Channel!Next, Channel!Deliver
  <1>3. CASE UNCHANGED <<sent, out>>
    BY <1>3
  <1> QED
    BY <1>1, <1>2, <1>3
       DEF Next, Sender, Scan, SendHead, SendBody, SendLine, ScanBegin,
           ReadNew, ReadOld, SinkFull, vars

\* No frame is handed on twice, and none after a newer one: across every wrap
\* of the counter, with the receiver any number of laps behind and lines torn.
THEOREM Core0RingIsLossyChannel ==
    ASSUME Receiver = "core0"
    PROVE  Spec => RingIsLossyChannel
  <1>1. Init => Channel!Init
    BY ShmRingAssumption DEF Init, Channel!Init
  <1>2. IInv /\ [Next]_vars
          => [Channel!Next]_<<sent, [num |-> out.num, head |-> out.head]>>
    BY StepIsChannelStep, Core0HandsOn
  <1>3. Spec => []IInv
    BY RingInStep
  <1> QED
    BY <1>1, <1>2, <1>3, PTL DEF Spec, RingIsLossyChannel, Channel!Spec

-----------------------------------------------------------------------------
(* What is lost.  Frames and slots go round together: the frame after the  *)
(* number n is in slot i when n is i more than whole turns of the ring.    *)

InTurn(n, i) == \E q \in Int : n = q * FrameNum + i

\* The number of frames whose slots are written.
Written == IF tx.todo = {} THEN sent ELSE sent - 1

\* The receiver polls the slot of the frame after the last one it handed on,
\* and copies from the slot of the frame it is handing on.
TurnsInStep ==
    /\ InTurn(Written, tx.active_buf_idx)
    /\ InTurn(out.head, rx.active_buf_idx)
    /\ rx.pc = "copy" => InTurn(rx.head - 1, rx.active_buf_idx)

LEMMA TurnGoesOn ==
    ASSUME NEW n \in Int, NEW i \in Slots, InTurn(n, i)
    PROVE  InTurn(n + 1, Succ(i))
  <1>1. PICK q \in Int : n = q * FrameNum + i
    BY DEF InTurn
  <1>2. FrameNum \in Nat
    BY ShmRingAssumption
  <1>3. CASE i = FrameNum - 1
    <2>1. n + 1 = (q + 1) * FrameNum + 0
      BY <1>1, <1>2, <1>3
    <2> QED
      BY <1>3, <2>1 DEF InTurn, Succ
  <1>4. CASE i # FrameNum - 1
    <2>1. n + 1 = q * FrameNum + (i + 1)
      BY <1>1, <1>2 DEF Slots
    <2> QED
      BY <1>4, <2>1 DEF InTurn, Succ
  <1> QED
    BY <1>3, <1>4

\* A later frame of the same slot is a whole turn later.
LEMMA NextOfSlot ==
    ASSUME NEW n \in Int, NEW m \in Int, NEW i \in Slots, InTurn(n, i), InTurn(m, i), n < m
    PROVE  m >= n + FrameNum
  <1>1. PICK q \in Int : n = q * FrameNum + i
    BY DEF InTurn
  <1>2. PICK r \in Int : m = r * FrameNum + i
    BY DEF InTurn
  <1>3. FrameNum \in Nat /\ i \in Nat
    BY ShmRingAssumption DEF Slots
  <1>4. m - n = (r - q) * FrameNum
    BY <1>1, <1>2, <1>3
  <1>5. PICK d \in Int : d = r - q
    OBVIOUS
  <1>6. d * FrameNum > 0
    BY <1>4, <1>5
  <1>7. d >= 1
    BY <1>3, <1>6
  <1>8. d * FrameNum >= FrameNum
    BY <1>3, <1>7
  <1> QED
    BY <1>3, <1>4, <1>5, <1>8

\* The frame a slot holds is of the slot's turn.
LEMMA SlotsInTurn ==
    ASSUME TypeOK, SlotsHoldLastFrames, InTurn(Written, tx.active_buf_idx),
           NEW j \in Slots, shm[j].head # 0
    PROVE  InTurn(shm[j].head - 1, j)
  <1> DEFINE i == tx.active_buf_idx
             k == Written - Age(i, j)
  <1>1. i \in Slots /\ sent \in Nat /\ Written \in Int /\ FrameNum \in Nat /\ i \in Int /\ j \in Int
    BY ShmRingAssumption DEF TypeOK, TxStates, Written, Slots
  <1>2. PICK q \in Int : Written = q * FrameNum + i
    BY DEF InTurn
  <1>3. CASE shm[j].head = k
    <2>1. CASE j < i
      <3>1. k - 1 = q * FrameNum + j
        BY <1>1, <1>2, <2>1 DEF Age
      <3> QED
        BY <1>3, <3>1 DEF InTurn
    <2>2. CASE ~ (j < i)
      <3>1. k - 1 = (q - 1) * FrameNum + j
        BY <1>1, <1>2, <2>2 DEF Age
      <3> QED
        BY <1>3, <3>1 DEF InTurn
    <2> QED
      BY <2>1, <2>2
  <1>4. CASE j = i /\ tx.todo = {"body"}
    <2>1. shm[j].head = sent
      BY <1>4 DEF SlotsHoldLastFrames
    <2>2. Written = sent - 1
      BY <1>4 DEF Written
    <2> QED
      BY <1>4, <2>1, <2>2
  <1>5. shm[j].head = IF j = i /\ tx.todo = {"body"} THEN sent ELSE IF k > 0 THEN k ELSE 0
    BY DEF SlotsHoldLastFrames, Written
  <1> QED
    BY <1>3, <1>4, <1>5

LEMMA TurnsInit == Init => TurnsInStep
  <1> SUFFICES ASSUME Init PROVE TurnsInStep
    OBVIOUS
  <1>1. StartCnt \in Nat /\ FrameNum \in Nat /\ FrameNum > 0
    BY ShmRingAssumption
  <1>2. StartCnt = (StartCnt \div FrameNum) * FrameNum + (StartCnt % FrameNum)
    BY <1>1
  <1>3. StartCnt \div FrameNum \in Int
    BY <1>1
  <1>4. InTurn(StartCnt, StartIdx)
    BY <1>2, <1>3 DEF InTurn, StartIdx
  <1> QED
    BY <1>4 DEF Init, TurnsInStep, Written

LEMMA TurnsStep ==
    ASSUME Receiver = "core0", IInv, TurnsInStep, [Next]_vars
    PROVE  TurnsInStep'
  <1> DEFINE i == rx.active_buf_idx
  <1>1. /\ i \in Slots /\ tx.active_buf_idx \in Slots /\ sent \in Nat /\ Written \in Int
        /\ out.head \in Nat /\ rx.head \in Nat
    BY DEF IInv, TypeOK, RxStates, TxStates, Written
  <1>2. CASE SendBegin
    <2>1. /\ tx.todo = {} /\ tx'.todo = Lines /\ tx'.active_buf_idx = tx.active_buf_idx
          /\ sent' = sent + 1 /\ rx' = rx /\ out' = out
      BY <1>2 DEF SendBegin, IInv, TypeOK, TxStates
    <2>2. Written' = Written
      BY <1>1, <2>1 DEF Written, Lines
    <2> QED
      BY <2>1, <2>2 DEF TurnsInStep
  <1>3. ASSUME NEW line \in Lines, SendLine(line)
        PROVE  TurnsInStep'
    <2>1. /\ line \in tx.todo /\ sent' = sent /\ rx' = rx /\ out' = out
          /\ tx'.todo = tx.todo \ {line}
          /\ tx'.active_buf_idx = IF tx.todo = {line} THEN Succ(tx.active_buf_idx)
                                  ELSE tx.active_buf_idx
      BY <1>3 DEF SendLine, IInv, TypeOK, TxStates
    <2>2. CASE tx.todo = {line}
      <3>1. Written' = Written + 1 /\ tx'.active_buf_idx = Succ(tx.active_buf_idx)
        BY <1>1, <2>1, <2>2 DEF Written
      <3>2. InTurn(Written + 1, Succ(tx.active_buf_idx))
        BY <1>1, TurnGoesOn DEF TurnsInStep
      <3> QED
        BY <2>1, <3>1, <3>2 DEF TurnsInStep
    <2>3. CASE tx.todo # {line}
      <3>1. Written' = Written /\ tx'.active_buf_idx = tx.active_buf_idx
        BY <1>1, <2>1, <2>3 DEF Written
      <3> QED
        BY <2>1, <3>1 DEF TurnsInStep
    <2> QED
      BY <2>2, <2>3
  <1>4. CASE ReadNew
    <2>1. /\ rx'.pc = "copy" /\ rx'.active_buf_idx = i /\ rx'.head = shm[i].head
          /\ out' = out /\ tx' = tx /\ sent' = sent
          /\ check_frame_cnt_add(shm[i].cnt, rx.last_recv_cnt)
      BY <1>4 DEF ReadNew, IInv, TypeOK, RxStates
    <2>2. shm[i].cnt # 0
      BY <2>1 DEF check_frame_cnt_add
    <2>3. shm[i].head # 0
      BY <1>1, <2>2, SlotBounds DEF IInv
    <2>4. InTurn(shm[i].head - 1, i)
      BY <1>1, <2>3, SlotsInTurn DEF IInv, TurnsInStep
    <2> QED
      BY <2>1, <2>4 DEF TurnsInStep, Written
  <1>5. CASE CopyFrame
    <2>1. /\ rx.pc = "copy" /\ rx'.pc # "copy" /\ rx'.active_buf_idx = Succ(i)
          /\ out'.head = rx.head /\ tx' = tx /\ sent' = sent
      BY <1>5 DEF CopyFrame, Advance, CopiedHead, IInv, TypeOK, RxStates
    <2>2. InTurn((rx.head - 1) + 1, Succ(i))
      BY <1>1, <2>1, TurnGoesOn DEF TurnsInStep
    <2>3. InTurn(rx.head, Succ(i))
      BY <1>1, <2>2
    <2> QED
      BY <2>1, <2>3 DEF TurnsInStep, Written
  <1>6. CASE ScanBegin \/ SinkFull \/ ReadOld \/ UNCHANGED vars
    <2>1. /\ rx'.active_buf_idx = i \/ ReadOld
          /\ rx'.pc # "copy" \/ rx' = rx
          /\ out' = out /\ tx' = tx /\ sent' = sent
      BY <1>6 DEF ScanBegin, SinkFull, ReadOld, IInv, TypeOK, RxStates, vars
    <2>2. ReadOld => rx'.active_buf_idx = i
      BY StaysThere
    <2> QED
      BY <2>1, <2>2 DEF TurnsInStep, Written
  <1> QED
    BY <1>2, <1>3, <1>4, <1>5, <1>6 DEF Next, Sender, Scan, SendHead, SendBody, Lines

\* A frame that core 0 never hands on had been overwritten, or was about to be:
\* no wrap of the counter, no full queue and no return to slot 0 skips one.
THEOREM Core0LosesByOverrunOnly ==
    ASSUME Receiver = "core0"
    PROVE  Spec => LossOnlyByOverrun
  <1>1. IInv /\ TurnsInStep /\ [Next]_vars => IInv' /\ TurnsInStep'
    BY InvStep, TurnsStep, Core0HandsOn
  <1>2. IInv /\ TurnsInStep /\ [Next]_vars
          => [Delivering => \/ out'.head = out.head + 1
                           \/ sent - out.head > FrameNum]_vars
    <2> SUFFICES ASSUME IInv, TurnsInStep, [Next]_vars, Delivering
                 PROVE  out'.head = out.head + 1 \/ sent - out.head > FrameNum
      OBVIOUS
    <2>1. CopyFrame
      BY DEF Delivering, Next, Sender, Scan, SendBegin, SendHead, SendBody, SendLine,
             ScanBegin, ReadNew, ReadOld, SinkFull, vars
    <2>2. /\ rx.pc = "copy" /\ out'.head = rx.head /\ rx.active_buf_idx \in Slots
          /\ out.head \in Nat /\ rx.head \in Nat /\ sent \in Nat
      BY <2>1 DEF CopyFrame, CopiedHead, IInv, TypeOK, RxStates
    <2>3. out.head < rx.head /\ rx.head <= sent
      <3>1. /\ shm[rx.active_buf_idx].head \in Nat
            /\ shm[rx.active_buf_idx].head <= Published /\ Published <= sent
        BY <2>2, SlotBounds DEF IInv
      <3>2. out.head < rx.head /\ rx.head <= shm[rx.active_buf_idx].head
        BY <2>2 DEF IInv, NextTakenIsNewer
      <3>3. Published \in Int
        BY <2>2 DEF Published
      <3> QED
        BY <2>2, <3>1, <3>2, <3>3
    <2>4. InTurn(out.head, rx.active_buf_idx) /\ InTurn(rx.head - 1, rx.active_buf_idx)
      BY <2>2 DEF TurnsInStep
    <2>5. out.head < rx.head - 1 => rx.head - 1 >= out.head + FrameNum
      BY <2>2, <2>4, NextOfSlot
    <2>6. FrameNum \in Nat
      BY ShmRingAssumption
    <2> QED
      BY <2>2, <2>3, <2>5, <2>6
  <1> QED
    BY <1>1, <1>2, InvInit, TurnsInit, PTL DEF Spec, LossOnlyByOverrun

-----------------------------------------------------------------------------
(* A receiver that keeps pace: either receiver of a ring shorter than the  *)
(* window, and no queue behind an inet ring found full.                    *)

KeepsPace == /\ Paced = TRUE
             /\ FrameNum < Window
             /\ SinkFills = FALSE \/ Receiver = "core0"

\* The counter of the frame n, 0 before the first.
CntOf(n) == IF n > 0 THEN CntBefore(tx.last_send_cnt, sent - n) ELSE 0

\* Before the first wrap the counter is the number of frames.
FirstTurn == sent <= CntMax => tx.last_send_cnt = sent

\* The sender is one frame ahead of the last poll at most, the last poll one frame
\* ahead of what was handed on.
OneAhead ==
    /\ out.head <= sent /\ polled <= sent
    /\ sent <= polled + 1 /\ polled <= out.head + 1

\* So the receiver is behind by two slots at most; or it has taken a frame whose
\* last lines are still on the way.
SlotsBehind ==
    LET i == rx.active_buf_idx IN
    \/ Written = out.head - 1 /\ i = Succ(tx.active_buf_idx) /\ tx.todo = {"body"}
    \/ Written = out.head /\ tx.active_buf_idx = i
    \/ Written = out.head + 1 /\ tx.active_buf_idx = Succ(i)
    \/ Written = out.head + 2 /\ tx.active_buf_idx = Succ(Succ(i))

\* The last counter is that of the last frame handed on, or of the frame that was
\* in the slot polled a turn ago.
LastCounter ==
    /\ rx.last_recv_cnt \in {CntOf(out.head), CntOf(out.head + 1 - FrameNum)}
    /\ rx.pc = "copy" => /\ rx.head = out.head + 1 /\ rx.cnt = CntOf(rx.head)
                         /\ out.head < Published

PaceInv == IInv /\ FirstTurn /\ OneAhead /\ SlotsBehind /\ LastCounter

\* A counter up to Window - 1 frames later counts as newer, also at the wrap.
LEMMA LaterIsNew ==
    ASSUME NEW c \in Counters, c # 0, NEW d \in Nat, d > 0, d < Window
    PROVE  check_frame_cnt_add(c, CntBefore(c, d))
  BY FrameCounterAssumption
     DEF Counters, CntBefore, check_frame_cnt_add, SameHalf, InMiddle, NearTop

\* The slot polled holds the next frame, once that is published, and until then
\* the one a turn before it.
LEMMA SlotPolled ==
    ASSUME TypeOK, SlotsHoldLastFrames, OneAhead, SlotsBehind
    PROVE  shm[rx.active_buf_idx].head =
              IF out.head < Published THEN out.head + 1
              ELSE IF out.head + 1 - FrameNum > 0 THEN out.head + 1 - FrameNum ELSE 0
  <1> DEFINE i == rx.active_buf_idx
             x == tx.active_buf_idx
  <1>1. /\ i \in Slots /\ x \in Slots /\ tx.todo \in SUBSET Lines
        /\ sent \in Nat /\ out.head \in Nat /\ polled \in Nat /\ FrameNum \in Nat /\ FrameNum > 1
    BY ShmRingAssumption DEF TypeOK, RxStates, TxStates
  <1>2. shm[i].head = IF i = x /\ tx.todo = {"body"} THEN sent
                      ELSE IF Written - Age(x, i) > 0 THEN Written - Age(x, i) ELSE 0
    BY <1>1 DEF SlotsHoldLastFrames, Written
  <1>3. \/ tx.todo = {} /\ Written = sent /\ Published = sent
        \/ tx.todo = {"body"} /\ Written = sent - 1 /\ Published = sent
        \/ tx.todo # {"body"} /\ Written = sent - 1 /\ Published = sent - 1
    BY <1>1 DEF Written, Published, Lines
  <1>4. Succ(i) \in Slots /\ Succ(i) # i /\ Age(Succ(i), i) = 0 /\ Age(i, i) = FrameNum - 1
    BY <1>1, RingArithmetic
  <1>5. sent <= out.head + 2
    BY <1>1 DEF OneAhead
  <1>6. CASE Written = out.head - 1 /\ i = Succ(x) /\ tx.todo = {"body"}
    <2>1. i # x /\ Age(x, i) = FrameNum - 2
      BY <1>1, <1>6, ShmRingAssumption DEF Succ, Age, Slots
    <2> QED
      BY <1>1, <1>2, <1>3, <1>6, <2>1
  <1>7. CASE Written = out.head /\ x = i
    BY <1>1, <1>2, <1>3, <1>4, <1>7
  <1>8. CASE Written = out.head + 1 /\ x = Succ(i)
    BY <1>1, <1>2, <1>3, <1>4, <1>8
  <1>9. CASE Written = out.head + 2 /\ x = Succ(Succ(i))
    <2>1. Age(x, i) = 1
      BY <1>1, <1>4, <1>9, RingArithmetic
    <2>2. tx.todo # {"body"} \/ i # x
      BY <1>1, <1>3, <1>5, <1>9
    <2> QED
      BY <1>1, <1>2, <1>3, <1>9, <2>1, <2>2
  <1> QED
    BY <1>6, <1>7, <1>8, <1>9 DEF SlotsBehind

\* The counter of a slot is that of its frame.
LEMMA SlotCounter ==
    ASSUME IInv, NEW j \in Slots
    PROVE  shm[j].cnt = CntOf(shm[j].head)
  BY SlotBounds DEF IInv, CountersInStep, CntOf

\* The next frame is found to be new, whichever counter it is compared with.
LEMMA NextIsNew ==
    ASSUME KeepsPace, PaceInv, out.head < Published
    PROVE  check_frame_cnt_add(shm[rx.active_buf_idx].cnt, rx.last_recv_cnt)
  <1> DEFINE c == tx.last_send_cnt
             n == out.head + 1
             e == sent - n
  <1>1. /\ rx.active_buf_idx \in Slots /\ c \in Counters /\ sent \in Nat /\ out.head \in Nat
        /\ polled \in Nat /\ FrameNum \in Nat /\ FrameNum > 1
    BY ShmRingAssumption DEF PaceInv, IInv, TypeOK, RxStates, TxStates
  <1>2. Published \in Int /\ Published <= sent
    BY <1>1 DEF Published
  <1>3. e \in {0, 1} /\ sent > 0 /\ c # 0
    BY <1>1, <1>2 DEF PaceInv, OneAhead, IInv, CountersInStep
  <1>4. shm[rx.active_buf_idx].cnt = CntBefore(c, e)
    <2>1. shm[rx.active_buf_idx].head = n
      BY SlotPolled DEF PaceInv, IInv
    <2> QED
      BY <1>1, <2>1, SlotCounter DEF PaceInv, CntOf
  <1>5. CntBefore(c, e) \in Counters /\ CntBefore(c, e) # 0
    BY <1>1, <1>3, FrameCounterAssumption DEF CntBefore, Counters
  <1>6. ASSUME NEW d \in Nat, d > 0, d < Window, n - d > 0
        PROVE  check_frame_cnt_add(CntBefore(c, e), CntOf(n - d))
    <2>1. sent - (n - d) = e + d /\ e \in Nat /\ d + e < CntMax
      BY <1>1, <1>3, <1>6, FrameCounterAssumption
    <2>2. CntOf(n - d) = CntBefore(c, e + d)
      BY <1>6, <2>1 DEF CntOf
    <2> HIDE DEF c, e, n
    <2>3. CntBefore(CntBefore(c, e), d) = CntBefore(c, e + d)
      BY <1>1, <1>3, <2>1, CntBeforeTwice
    <2> QED
      BY <1>5, <1>6, <2>2, <2>3, LaterIsNew
  <1>7. ASSUME NEW d \in Nat, d < Window, n - d <= 0
        PROVE  check_frame_cnt_add(CntBefore(c, e), CntOf(n - d))
    <2>1. CntOf(n - d) = 0
      BY <1>1, <1>7 DEF CntOf
    <2>2. sent <= CntMax /\ n < Half
      BY <1>1, <1>3, <1>7, FrameCounterAssumption
    <2>3. c = sent
      BY <2>2 DEF PaceInv, FirstTurn
    <2>4. CntBefore(c, e) = n
      BY <1>1, <1>3, <2>3 DEF CntBefore
    <2> QED
      BY <1>1, <2>1, <2>2, <2>4, FrameCounterAssumption DEF check_frame_cnt_add, SameHalf
  <1>8. rx.last_recv_cnt \in {CntOf(n - 1), CntOf(n - FrameNum)}
    BY <1>1 DEF PaceInv, LastCounter
  <1>9. check_frame_cnt_add(CntBefore(c, e), CntOf(n - 1))
    BY <1>1, <1>6, <1>7, FrameCounterAssumption
  <1>10. check_frame_cnt_add(CntBefore(c, e), CntOf(n - FrameNum))
    BY <1>1, <1>6, <1>7 DEF KeepsPace
  <1> QED
    BY <1>4, <1>8, <1>9, <1>10

\* In pace, the slot is still the one tested when it is copied.
LEMMA PaceHandsOn == KeepsPace /\ PaceInv => HandsOnWhatItRead
  <1> SUFFICES ASSUME KeepsPace, PaceInv, rx.pc = "copy" PROVE CopiedHead = rx.head
    BY DEF KeepsPace, HandsOnWhatItRead
  <1> QED
    BY SlotPolled DEF PaceInv, IInv, LastCounter, CopiedHead

LEMMA PaceInit == KeepsPace /\ Init => PaceInv
  <1> SUFFICES ASSUME KeepsPace, Init PROVE PaceInv
    OBVIOUS
  <1>1. StartCnt \in Nat /\ StartCnt <= CntMax /\ FrameNum \in Nat /\ FrameNum > 1 /\ StartIdx \in Slots
    BY ShmRingAssumption DEF StartIdx, Slots
  <1>2. Age(StartIdx, StartIdx) = FrameNum - 1
    BY <1>1, RingArithmetic
  <1>3. LastCounter
    BY <1>1, <1>2 DEF Init, LastCounter, CntOf, CntBefore, StartSlot, EmptySlot
  <1>4. FirstTurn /\ OneAhead /\ SlotsBehind
    BY <1>1 DEF Init, FirstTurn, OneAhead, SlotsBehind, Written
  <1> QED
    BY <1>3, <1>4, InvInit DEF PaceInv

LEMMA PaceSendBegin == KeepsPace /\ PaceInv /\ SendBegin => PaceInv'
  <1> SUFFICES ASSUME KeepsPace, PaceInv, SendBegin PROVE PaceInv'
    OBVIOUS
  <1> DEFINE c == tx.last_send_cnt
  <1>1. /\ tx.todo = {} /\ tx'.todo = Lines /\ tx'.active_buf_idx = tx.active_buf_idx
        /\ tx'.last_send_cnt = NextCnt(c) /\ sent' = sent + 1 /\ sent = polled
        /\ rx' = rx /\ out' = out /\ polled' = polled
    BY DEF SendBegin, PaceInv, IInv, TypeOK, TxStates, KeepsPace
  <1>2. /\ c \in Counters /\ sent \in Nat /\ out.head \in Nat /\ polled \in Nat
        /\ FrameNum \in Nat /\ FrameNum > 1 /\ rx.active_buf_idx \in Slots /\ CntMax \in Nat
    BY ShmRingAssumption, FrameCounterAssumption DEF PaceInv, IInv, TypeOK, RxStates, TxStates
  <1>3. IInv'
    BY InvSendBegin DEF PaceInv
  <1>4. FirstTurn'
    BY <1>1, <1>2, FrameCounterAssumption DEF PaceInv, FirstTurn, NextCnt
  <1>5. OneAhead'
    BY <1>1, <1>2 DEF PaceInv, OneAhead
  <1>6. Written' = Written /\ Published' = Published
    BY <1>1, <1>2 DEF Written, Published, Lines
  <1>7. SlotsBehind'
    BY <1>1, <1>6 DEF PaceInv, SlotsBehind
  <1>8. ASSUME NEW n \in Int, n <= sent, sent <= n + FrameNum
        PROVE  (IF n > 0 THEN CntBefore(NextCnt(c), sent + 1 - n) ELSE 0) = CntOf(n)
    <2>1. CASE n > 0
      <3> DEFINE d == sent - n
      <3>1. d \in Nat /\ d + 1 < CntMax /\ sent + 1 - n = d + 1
        BY <1>2, <1>8, FrameCounterAssumption DEF KeepsPace
      <3>2. c # 0
        BY <1>2, <1>8, <2>1 DEF PaceInv, IInv, CountersInStep
      <3> HIDE DEF d, c
      <3>3. CntBefore(NextCnt(c), d + 1) = CntBefore(c, d)
        BY <1>2, <3>1, <3>2, CntBeforeStep
      <3> QED
        BY <2>1, <3>1, <3>3 DEF CntOf, d, c
    <2> QED
      BY <2>1 DEF CntOf
  <1>9. /\ CntOf(out.head)' = CntOf(out.head)
        /\ CntOf(out.head + 1 - FrameNum)' = CntOf(out.head + 1 - FrameNum)
        /\ out.head + 1 <= sent => CntOf(out.head + 1)' = CntOf(out.head + 1)
    <2>1. sent <= out.head + 1 /\ out.head <= sent
      BY <1>1 DEF PaceInv, OneAhead
    <2>2. \A n \in Int : CntOf(n)' = IF n > 0 THEN CntBefore(NextCnt(c), sent + 1 - n) ELSE 0
      BY <1>1, <1>2 DEF CntOf, CntBefore
    <2> QED
      BY <1>1, <1>2, <1>8, <2>1, <2>2
  <1>10. LastCounter'
    BY <1>1, <1>2, <1>6, <1>9 DEF PaceInv, LastCounter, Published
  <1> QED
    BY <1>3, <1>4, <1>5, <1>7, <1>10 DEF PaceInv

LEMMA PaceSendLine ==
    ASSUME KeepsPace, PaceInv, NEW line \in Lines, SendLine(line)
    PROVE  PaceInv'
  <1>1. /\ line \in tx.todo /\ tx'.todo = tx.todo \ {line} /\ sent' = sent
        /\ tx'.active_buf_idx = IF tx.todo = {line} THEN Succ(tx.active_buf_idx)
                                ELSE tx.active_buf_idx
        /\ tx'.last_send_cnt = tx.last_send_cnt /\ tx.todo \in SUBSET Lines
        /\ rx' = rx /\ out' = out /\ polled' = polled
    BY DEF SendLine, PaceInv, IInv, TypeOK, TxStates
  <1>2. /\ sent \in Nat /\ out.head \in Nat /\ polled \in Nat /\ Written \in Int /\ Published \in Int
        /\ rx.active_buf_idx \in Slots /\ tx.active_buf_idx \in Slots
    BY DEF PaceInv, IInv, TypeOK, RxStates, TxStates, Written, Published
  <1>3. IInv'
    BY InvSendLine DEF PaceInv
  <1>4. FirstTurn' /\ OneAhead'
    BY <1>1 DEF PaceInv, FirstTurn, OneAhead
  <1>5. Published' \in Int /\ Published <= Published'
    BY <1>1, <1>2 DEF Published
  <1>6. SlotsBehind'
    <2>1. CASE tx.todo = {line}
      <3>1. Written' = Written + 1 /\ Written = sent - 1 /\ tx'.todo = {}
        BY <1>1, <1>2, <2>1 DEF Written
      <3>2. sent <= out.head + 2
        BY <1>2 DEF PaceInv, OneAhead
      <3> QED
        BY <1>1, <1>2, <2>1, <3>1, <3>2 DEF PaceInv, SlotsBehind
    <2>2. CASE tx.todo # {line}
      <3>1. Written' = Written /\ tx.todo # {"body"}
        BY <1>1, <2>2 DEF Written, Lines
      <3> QED
        BY <1>1, <2>2, <3>1 DEF PaceInv, SlotsBehind
    <2> QED
      BY <2>1, <2>2
  <1>7. LastCounter'
    <2>1. CntOf(out.head)' = CntOf(out.head) /\ CntOf(rx.head)' = CntOf(rx.head)
          /\ CntOf(out.head + 1 - FrameNum)' = CntOf(out.head + 1 - FrameNum)
      BY <1>1 DEF CntOf, CntBefore
    <2>2. out.head < Published => out.head < Published'
      BY <1>2, <1>5
    <2>3. (out.head < Published)' <=> out.head < Published'
      BY <1>1
    <2> QED
      BY <1>1, <2>1, <2>2, <2>3 DEF PaceInv, LastCounter
  <1> QED
    BY <1>3, <1>4, <1>6, <1>7 DEF PaceInv

LEMMA PaceScan == KeepsPace /\ PaceInv /\ (Scan \/ SinkFull) => PaceInv'
  <1> SUFFICES ASSUME KeepsPace, PaceInv, Scan \/ SinkFull PROVE PaceInv'
    OBVIOUS
  <1> DEFINE i == rx.active_buf_idx
  <1>1. /\ i \in Slots /\ Succ(i) \in Slots /\ tx.active_buf_idx \in Slots
        /\ sent \in Nat /\ out.head \in Nat /\ polled \in Nat /\ rx.head \in Nat
        /\ Written \in Int /\ Published \in Int /\ Published <= sent /\ sent - 1 <= Published
        /\ FrameNum \in Nat /\ FrameNum > 1
    BY RingArithmetic, ShmRingAssumption
       DEF PaceInv, IInv, TypeOK, RxStates, TxStates, Written, Published
  <1>2. /\ shm' = shm /\ tx' = tx /\ sent' = sent
        /\ Written' = Written /\ Published' = Published /\ FirstTurn'
        /\ CntOf(out.head + 1 - FrameNum) = IF out.head + 1 - FrameNum > 0
              THEN CntBefore(tx.last_send_cnt, sent - (out.head + 1 - FrameNum)) ELSE 0
    BY DEF Scan, ScanBegin, ReadNew, ReadOld, CopyFrame, SinkFull, Written, Published,
           PaceInv, FirstTurn, CntOf
  <1>3. IInv'
    BY PaceHandsOn, InvScan DEF PaceInv
  <1>5. SUFFICES OneAhead' /\ SlotsBehind' /\ LastCounter'
    BY <1>2, <1>3 DEF PaceInv
  <1>6. shm[i].head = IF out.head < Published THEN out.head + 1
                      ELSE IF out.head + 1 - FrameNum > 0 THEN out.head + 1 - FrameNum ELSE 0
    BY SlotPolled DEF PaceInv, IInv
  <1>7. shm[i].cnt = CntOf(shm[i].head)
    BY <1>1, SlotCounter DEF PaceInv
  <1>8. CASE ScanBegin \/ SinkFull
    <2>1. /\ rx'.pc # "copy" /\ rx'.active_buf_idx = i /\ rx'.last_recv_cnt = rx.last_recv_cnt
          /\ out' = out /\ polled' = polled
      BY <1>8 DEF ScanBegin, SinkFull, KeepsPace, PaceInv, IInv, TypeOK, RxStates
    <2> QED
      BY <1>2, <2>1 DEF PaceInv, OneAhead, SlotsBehind, LastCounter, CntOf
  <1>9. CASE ReadNew
    <2>1. /\ rx'.pc = "copy" /\ rx'.active_buf_idx = i /\ rx'.last_recv_cnt = rx.last_recv_cnt
          /\ rx'.cnt = shm[i].cnt /\ rx'.head = shm[i].head
          /\ out' = out /\ polled' = polled
          /\ check_frame_cnt_add(shm[i].cnt, rx.last_recv_cnt)
      BY <1>9 DEF ReadNew, PaceInv, IInv, TypeOK, RxStates
    <2>2. shm[i].head > out.head
      BY <2>1 DEF PaceInv, IInv, NextTakenIsNewer
    <2>3. out.head < Published /\ shm[i].head = out.head + 1
      BY <1>1, <1>6, <2>2
    <2> QED
      BY <1>2, <1>7, <2>1, <2>3 DEF PaceInv, OneAhead, SlotsBehind, LastCounter, CntOf
  <1>10. CASE ReadOld
    <2>1. /\ rx'.pc = "idle" /\ rx'.last_recv_cnt = shm[i].cnt /\ rx'.active_buf_idx = i
      BY <1>10, StaysThere DEF PaceInv
    <2>2. ~ check_frame_cnt_add(shm[i].cnt, rx.last_recv_cnt) /\ out' = out /\ polled' = sent
      BY <1>10 DEF ReadOld
    <2>3. ~ (out.head < Published)
      BY <2>2, NextIsNew
    <2>4. shm[i].cnt = CntOf(out.head + 1 - FrameNum)
      BY <1>1, <1>6, <1>7, <2>3 DEF CntOf
    <2>5. OneAhead'
      BY <1>1, <1>2, <2>2, <2>3 DEF PaceInv, OneAhead
    <2> QED
      BY <1>2, <2>1, <2>2, <2>4, <2>5 DEF PaceInv, SlotsBehind, LastCounter, CntOf
  <1>11. CASE CopyFrame
    <2>1. /\ rx.pc = "copy" /\ rx'.pc # "copy" /\ rx'.active_buf_idx = Succ(i)
          /\ rx'.last_recv_cnt = rx.cnt /\ out'.head = rx.head /\ polled' = sent
      BY <1>11, PaceHandsOn
         DEF CopyFrame, Advance, HandsOnWhatItRead, PaceInv, IInv, TypeOK, RxStates
    <2>2. rx.head = out.head + 1 /\ rx.cnt = CntOf(rx.head) /\ out.head < Published
      BY <2>1 DEF PaceInv, LastCounter
    <2>3. OneAhead'
      BY <1>1, <1>2, <2>1, <2>2 DEF PaceInv, OneAhead
    <2>4. SlotsBehind'
      <3>1. Written = out.head => tx.todo = {"body"}
        BY <1>1, <2>2 DEF Written, Published, PaceInv, IInv, TypeOK, TxStates, Lines
      <3>2. Written # out.head - 1
        BY <1>1, <2>2 DEF Written
      <3> QED
        BY <1>1, <1>2, <2>1, <2>2, <3>1, <3>2 DEF PaceInv, SlotsBehind
    <2>5. LastCounter'
      BY <1>2, <2>1, <2>2 DEF LastCounter, CntOf
    <2> QED
      BY <2>3, <2>4, <2>5
  <1> QED
    BY <1>8, <1>9, <1>10, <1>11 DEF Scan

LEMMA PaceStep == KeepsPace /\ PaceInv /\ [Next]_vars => PaceInv'
  <1> SUFFICES ASSUME KeepsPace, PaceInv, [Next]_vars PROVE PaceInv'
    OBVIOUS
  <1>1. CASE Sender
    BY <1>1, PaceSendBegin, PaceSendLine DEF Sender, SendHead, SendBody, Lines
  <1>2. CASE Scan \/ SinkFull
    BY <1>2, PaceScan
  <1>3. CASE UNCHANGED vars
    <2>1. IInv'
      BY <1>3, PaceHandsOn, InvStep DEF PaceInv
    <2> QED
      BY <1>3, <2>1 DEF vars, PaceInv, FirstTurn, OneAhead, SlotsBehind, LastCounter,
                        Written, Published, CntOf
  <1> QED
    BY <1>1, <1>2, <1>3 DEF Next

LEMMA InPace == KeepsPace => (Spec => []PaceInv)
  <1> SUFFICES ASSUME KeepsPace PROVE Spec => []PaceInv
    OBVIOUS
  <1>1. Init => PaceInv
    BY PaceInit
  <1>2. PaceInv /\ [Next]_vars => PaceInv'
    BY PaceStep
  <1> QED
    BY <1>1, <1>2, PTL DEF Spec

\* A receiver that polls between any two frames hands on every frame, across every
\* wrap of the counter, on rings between any two cores.
THEOREM PacedRingMissesNothing ==
    ASSUME KeepsPace
    PROVE  Spec => PacedMissesNothing
  <1>1. PaceInv /\ [Next]_vars => [Delivering => out'.head = out.head + 1]_vars
    <2> SUFFICES ASSUME PaceInv, [Next]_vars, Delivering PROVE out'.head = out.head + 1
      OBVIOUS
    <2>1. CopyFrame
      BY DEF Delivering, Next, Sender, Scan, SendBegin, SendHead, SendBody, SendLine,
             ScanBegin, ReadNew, ReadOld, SinkFull, vars
    <2> QED
      BY <2>1, PaceHandsOn DEF CopyFrame, HandsOnWhatItRead, PaceInv, LastCounter
  <1> QED
    BY <1>1, InPace, PTL DEF Spec, PacedMissesNothing

\* And no frame twice or out of order: a core-to-core ring that keeps pace is a
\* lossy channel too, although it reads each slot twice.
THEOREM PacedRingIsLossyChannel ==
    ASSUME KeepsPace
    PROVE  Spec => RingIsLossyChannel
  <1>1. Init => Channel!Init
    BY ShmRingAssumption DEF Init, Channel!Init
  <1>2. PaceInv /\ [Next]_vars
          => [Channel!Next]_<<sent, [num |-> out.num, head |-> out.head]>>
    BY PaceHandsOn, StepIsChannelStep DEF PaceInv
  <1> QED
    BY <1>1, <1>2, InPace, PTL DEF Spec, RingIsLossyChannel, Channel!Spec
=============================================================================
