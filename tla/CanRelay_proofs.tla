--------------------------- MODULE CanRelay_proofs ---------------------------
(***************************************************************************)
(* For every number of slots and of boards, whatever the driver refuses:   *)
(* what goes out on the CAN bus is the stream of the requests taken, but   *)
(* for requests that fill all the frame slots; what is handed to TFTP is   *)
(* whole answers; and the variables keep their types.                      *)
(***************************************************************************)
EXTENDS CanRelay, TLAPS

LEMMA NextSlotInRange ==
    ASSUME NEW n \in Nat \ {0, 1}, NEW i \in 0..n-1
    PROVE  NextSlot(i, n) \in 0..n-1
  BY DEF NextSlot

\* Distances in the ring of requests, counted from the read index.
LEMMA AheadArithmetic ==
    ASSUME NEW rd \in 0..AppSlots-1, NEW wr \in 0..AppSlots-1
    PROVE  /\ Ahead(rd, rd) = 0
           /\ Ahead(rd, wr) \in 0..AppSlots-1
           /\ rd # wr => Ahead(rd, wr) > 0
           /\ NextSlot(wr, AppSlots) # rd =>
                Ahead(rd, NextSlot(wr, AppSlots)) = Ahead(rd, wr) + 1
           /\ rd # wr => Ahead(NextSlot(rd, AppSlots), wr) = Ahead(rd, wr) - 1
           /\ \A j \in 0..AppSlots-1 : Ahead(rd, j) = Ahead(rd, wr) => j = wr
  <1>1. AppSlots \in Nat /\ AppSlots > 1
    BY SlotsAssumption
  <1> QED
    BY <1>1 DEF Ahead, NextSlot

\* The frames of a request in the frame slots.
LEMMA CutType ==
    ASSUME TxTypeOK, NEW req \in 1..Len(accepted), accepted[req] <= FrameSlots
    PROVE  /\ accepted[req] \in Lengths
           /\ Cut(req) \in [rd : 0..FrameSlots-1, wr : 0..FrameSlots-1,
                            slot : [0..FrameSlots-1 -> Frames]]
  <1>1. accepted[req] \in Lengths /\ accepted[req] \in Nat \ {0}
    <2>1. accepted \in Seq(Lengths)
      BY DEF TxTypeOK
    <2>2. accepted[req] \in Lengths
      BY <2>1
    <2> QED
      BY <2>2, LengthsAssumption
  <1>2. \A i \in 0..FrameSlots-1 : Frame(req, i) \in Frames
    BY DEF Frame, Frames
  <1>3. \A i \in 0..FrameSlots-1 : short.slot[i] \in Frames
    BY DEF TxTypeOK
  <1>4. (IF accepted[req] = FrameSlots THEN 0 ELSE accepted[req]) \in 0..FrameSlots-1
    BY <1>1, SlotsAssumption
  <1>5. 0 \in 0..FrameSlots-1
    BY SlotsAssumption
  <1> QED
    BY <1>1, <1>2, <1>3, <1>4, <1>5 DEF Cut, WriteIndex

LEMMA CurrentType ==
    ASSUME TxTypeOK
    PROVE  Current \in Nat
  <1>1. 0 \in 0..FrameSlots-1
    BY SlotsAssumption
  <1>2. short.slot[0] \in Frames
    BY <1>1 DEF TxTypeOK
  <1> QED
    BY <1>2 DEF Current, Frames

-----------------------------------------------------------------------------
(* The sending half.                                                       *)
Fits == \A k \in 1..Len(accepted) : accepted[k] <= FrameSlots

TxInv == TxTypeOK /\ QueuesInStep /\ Fits

LEMMA TxInit == Init => TxInv
  <1> SUFFICES ASSUME Init PROVE TxInv
    OBVIOUS
  <1>1. Current = 0 /\ ShortEmpty /\ Nothing \in Frames
    BY SlotsAssumption DEF Init, Current, ShortEmpty, Nothing, Frames
  <1>2. TxTypeOK
    BY <1>1, SlotsAssumption DEF Init, TxTypeOK
  <1>3. QueuesInStep /\ Fits
    BY <1>1, SlotsAssumption
       DEF Init, Nothing, QueuesInStep, SlotsInStep, FramesInStep, LostWereFull,
           Between, Ahead, Fits
  <1> QED
    BY <1>2, <1>3 DEF TxInv

\* The next request to be cut is the oldest one not yet cut.
LEMMA OldestWaits ==
    ASSUME TxInv, ~AppEmpty
    PROVE  /\ Current \in Nat
           /\ Current + 1 \in 1..Len(accepted)
           /\ app.slot[app.rd] = Current + 1
  <1>1. Current \in Nat
    BY CurrentType DEF TxInv
  <1>2. Ahead(app.rd, app.wr) > 0 /\ Ahead(app.rd, app.rd) = 0
    BY AheadArithmetic DEF TxInv, TxTypeOK, AppEmpty
  <1>3. Len(accepted) \in Nat
    BY DEF TxInv, TxTypeOK
  <1>4. 0 < Len(accepted) - Current
    BY <1>1, <1>2, <1>3 DEF TxInv, QueuesInStep, SlotsInStep
  <1>5. app.rd \in 0..AppSlots-1
    BY DEF TxInv, TxTypeOK
  <1>6. app.slot[app.rd] = Current + 1 + Ahead(app.rd, app.rd)
    BY <1>2, <1>4, <1>5 DEF TxInv, QueuesInStep, SlotsInStep
  <1> QED
    BY <1>1, <1>2, <1>3, <1>4, <1>6

LEMMA TxTransfer ==
    ASSUME TxInv, NEW l \in Lengths, TransferUpgradeData(l)
    PROVE  TxInv'
  <1>1. /\ accepted' = Append(accepted, l) /\ short' = short /\ out' = out
        /\ lost' = lost /\ l <= FrameSlots
        /\ NextSlot(app.wr, AppSlots) # app.rd
        /\ app' = [app EXCEPT !.slot[app.wr] = Len(accepted) + 1,
                              !.wr = NextSlot(app.wr, AppSlots)]
    BY DEF TransferUpgradeData, AppFull
  <1>2. Len(accepted') = Len(accepted) + 1 /\ Len(accepted) \in Nat
        /\ \A k \in 1..Len(accepted) : accepted'[k] = accepted[k]
    BY <1>1 DEF TxInv, TxTypeOK
  <1>3. Current' = Current /\ ShortEmpty' = ShortEmpty /\ Current \in Nat
    BY <1>1, CurrentType DEF Current, ShortEmpty, TxInv
  <1>4. TxTypeOK'
    <2>1. NextSlot(app.wr, AppSlots) \in 0..AppSlots-1
      BY SlotsAssumption, NextSlotInRange DEF TxInv, TxTypeOK
    <2>2. accepted' \in Seq(Lengths)
      BY <1>1 DEF TxInv, TxTypeOK
    <2>3. Len(accepted) + 1 \in Nat
      BY <1>2
    <2>4. app' \in [rd : 0..AppSlots-1, wr : 0..AppSlots-1,
                    slot : [0..AppSlots-1 -> Nat]]
      BY <1>1, <2>1, <2>3 DEF TxInv, TxTypeOK
    <2> QED
      BY <1>1, <2>2, <2>4 DEF TxInv, TxTypeOK
  <1>5. SlotsInStep'
    <2>2. /\ app'.rd = app.rd /\ app'.wr = NextSlot(app.wr, AppSlots)
          /\ app'.slot[app.wr] = Len(accepted) + 1
          /\ \A j \in 0..AppSlots-1 : j # app.wr => app'.slot[j] = app.slot[j]
      BY <1>1 DEF TxInv, TxTypeOK
    <2>3. app.rd \in 0..AppSlots-1 /\ app.wr \in 0..AppSlots-1
      BY DEF TxInv, TxTypeOK
    <2>4. Ahead(app.rd, NextSlot(app.wr, AppSlots)) = Ahead(app.rd, app.wr) + 1
      BY <1>1, <2>3, AheadArithmetic
    <2>5. \A j \in 0..AppSlots-1 :
            /\ Ahead(app.rd, j) \in Nat
            /\ Ahead(app.rd, j) = Ahead(app.rd, app.wr) => j = app.wr
      <3>1. TAKE j \in 0..AppSlots-1
      <3>2. Ahead(app.rd, j) \in 0..AppSlots-1
        BY <2>3, AheadArithmetic
      <3>3. Ahead(app.rd, j) = Ahead(app.rd, app.wr) => j = app.wr
        BY <2>3, AheadArithmetic
      <3> QED
        BY <3>2, <3>3
    <2>6. Ahead(app.rd, app.wr) = Len(accepted) - Current
      BY DEF TxInv, QueuesInStep, SlotsInStep
    <2>7. \A j \in 0..AppSlots-1 :
            Ahead(app.rd, j) < Len(accepted) - Current =>
              app.slot[j] = Current + 1 + Ahead(app.rd, j)
      BY DEF TxInv, QueuesInStep, SlotsInStep
    <2>8. ASSUME NEW j \in 0..AppSlots-1,
                 Ahead(app.rd, j) < Len(accepted) + 1 - Current
          PROVE  app'.slot[j] = Current + 1 + Ahead(app.rd, j)
      <3>1. CASE j = app.wr
        BY <3>1, <2>2, <2>5, <2>6, <1>2, <1>3
      <3>2. CASE j # app.wr
        BY <3>2, <2>2, <2>5, <2>6, <2>7, <2>8, <1>2, <1>3
      <3> QED
        BY <3>1, <3>2
    <2> QED
      BY <1>2, <1>3, <2>2, <2>4, <2>5, <2>6, <2>8 DEF SlotsInStep, Ahead
  <1>6. Current <= Len(accepted)
    <2>1. Ahead(app.rd, app.wr) \in 0..AppSlots-1
      BY AheadArithmetic DEF TxInv, TxTypeOK
    <2> QED
      BY <2>1, <1>2, <1>3, SlotsAssumption DEF TxInv, QueuesInStep, SlotsInStep
  <1>7. FramesInStep'
    <2>1. FramesInStep
      BY DEF TxInv, QueuesInStep
    <2>2. CASE ShortEmpty
      BY <2>1, <2>2, <1>1, <1>3 DEF FramesInStep, Between
    <2>3. CASE ~ShortEmpty
      <3>1. Current \in 1..Len(accepted) /\ Current \in 1..Len(accepted')
            /\ accepted'[Current] = accepted[Current]
        BY <2>1, <2>3, <1>2 DEF FramesInStep
      <3>2. \A i : Frame(Current, i)' = Frame(Current, i)
        BY <3>1, <1>3 DEF Frame
      <3>3. WriteIndex(Current)' = WriteIndex(Current)
        BY <3>1, <1>3 DEF WriteIndex
      <3> QED
        BY <2>1, <2>3, <3>1, <3>2, <3>3, <1>1, <1>3 DEF FramesInStep, Between
    <2> QED
      BY <2>2, <2>3
  <1>8. LostWereFull'
    BY <1>1, <1>2, <1>3, <1>6 DEF TxInv, QueuesInStep, LostWereFull
  <1>9. Fits'
    <2>1. accepted'[Len(accepted) + 1] = l
      BY <1>1 DEF TxInv, TxTypeOK
    <2> QED
      BY <1>1, <1>2, <2>1 DEF TxInv, Fits
  <1> QED
    BY <1>4, <1>5, <1>7, <1>8, <1>9 DEF TxInv, QueuesInStep

\* One run of the send task: the frame the driver takes is the next one of the
\* stream, and both queues stay in step whether it takes it or not.
LEMMA LoadedRequest ==
    ASSUME TxInv, ~ShortEmpty \/ ~AppEmpty
    PROVE  LET k == IF ShortEmpty THEN Current + 1 ELSE Current
           IN  /\ k \in 1..Len(accepted) \ lost
               /\ accepted[k] \in 1..FrameSlots
               /\ Loaded \in [rd : 0..FrameSlots-1, wr : 0..FrameSlots-1,
                              slot : [0..FrameSlots-1 -> Frames]]
               /\ Loaded.rd < accepted[k] /\ Loaded.wr = WriteIndex(k)
               /\ Loaded.slot[0].req = k
               /\ \A i \in Loaded.rd..accepted[k]-1 : Loaded.slot[i] = Frame(k, i)
               /\ IF Loaded.rd = 0
                    THEN /\ out.last /\ out.req < k
                         /\ Between(k) \subseteq lost
                    ELSE out = Frame(k, Loaded.rd - 1)
               /\ ~ShortEmpty => Loaded.rd # Loaded.wr
  <1> DEFINE k == IF ShortEmpty THEN Current + 1 ELSE Current
  <1>1. k \in 1..Len(accepted) \ lost
    <2>1. CASE ShortEmpty
      <3>1. Current + 1 \in 1..Len(accepted) /\ Current \in Nat
        BY <2>1, OldestWaits
      <3>2. Current + 1 \notin lost
        BY <3>1 DEF TxInv, QueuesInStep, LostWereFull
      <3> QED
        BY <2>1, <3>1, <3>2
    <2>2. CASE ~ShortEmpty
      BY <2>2 DEF TxInv, QueuesInStep, FramesInStep
    <2> QED
      BY <2>1, <2>2
  <1>2. accepted[k] \in 1..FrameSlots
    <2>1. accepted \in Seq(Lengths)
      BY DEF TxInv, TxTypeOK
    <2>2. accepted[k] \in Lengths /\ accepted[k] <= FrameSlots
      BY <1>1, <2>1 DEF TxInv, Fits
    <2> QED
      <3>1. accepted[k] \in Nat \ {0}
        BY <2>2, LengthsAssumption
      <3> HIDE DEF k
      <3> QED
        BY <2>2, <3>1, SlotsAssumption
  <1>3. CASE ShortEmpty
    <2>1. Loaded = Cut(k) /\ k = Current + 1
      BY <1>3, OldestWaits DEF Loaded
    <2>2. Cut(k) \in [rd : 0..FrameSlots-1, wr : 0..FrameSlots-1,
                      slot : [0..FrameSlots-1 -> Frames]]
      BY <1>1, <1>2, CutType, SlotsAssumption DEF TxInv
    <2>3. /\ Cut(k).rd = 0 /\ Cut(k).wr = WriteIndex(k)
          /\ \A i \in 0..accepted[k]-1 : Cut(k).slot[i] = Frame(k, i)
      BY <1>2, SlotsAssumption DEF Cut
    <2>4. /\ out.last /\ out.req <= Current /\ Current \in Nat
          /\ Between(Current + 1) \subseteq lost
      BY <1>3, OldestWaits DEF TxInv, QueuesInStep, FramesInStep
    <2>5. out.req \in Nat
      BY DEF TxInv, TxTypeOK, Frames
    <2>6. Loaded.slot[0] = Frame(k, 0) /\ Loaded.slot[0].req = k
      BY <1>2, <2>1, <2>3 DEF Frame
    <2>7. out.req < k
      BY <2>1, <2>4, <2>5
    <2> HIDE DEF k
    <2> QED
      BY <1>1, <1>2, <1>3, <2>1, <2>2, <2>3, <2>4, <2>6, <2>7 DEF k
  <1>4. CASE ~ShortEmpty
    BY <1>1, <1>2, <1>4
       DEF Loaded, TxInv, TxTypeOK, QueuesInStep, FramesInStep, Current, ShortEmpty
  <1> QED
    BY <1>3, <1>4

\* Cutting the oldest request moves the read index of the slots along with it.
LEMMA SlotsAfterCut ==
    ASSUME TxInv, ~AppEmpty,
           app' = [app EXCEPT !.rd = NextSlot(app.rd, AppSlots)],
           accepted' = accepted, Current' = Current + 1
    PROVE  /\ SlotsInStep'
           /\ app' \in [rd : 0..AppSlots-1, wr : 0..AppSlots-1,
                        slot : [0..AppSlots-1 -> Nat]]
  <1>1. app.rd \in 0..AppSlots-1 /\ app.wr \in 0..AppSlots-1 /\ app.rd # app.wr
    BY DEF TxInv, TxTypeOK, AppEmpty
  <1>2. NextSlot(app.rd, AppSlots) \in 0..AppSlots-1
    BY <1>1, SlotsAssumption, NextSlotInRange
  <1>3. app' \in [rd : 0..AppSlots-1, wr : 0..AppSlots-1,
                  slot : [0..AppSlots-1 -> Nat]]
    BY <1>2 DEF TxInv, TxTypeOK
  <1>4. /\ app'.rd = NextSlot(app.rd, AppSlots)
        /\ app'.wr = app.wr /\ app'.slot = app.slot
    BY DEF TxInv, TxTypeOK
  <1>5. Current \in Nat /\ Len(accepted) \in Nat
    BY OldestWaits DEF TxInv, TxTypeOK
  <1>6. /\ Ahead(app.rd, app.wr) = Len(accepted) - Current
        /\ \A j \in 0..AppSlots-1 :
             Ahead(app.rd, j) < Len(accepted) - Current =>
               app.slot[j] = Current + 1 + Ahead(app.rd, j)
    BY DEF TxInv, QueuesInStep, SlotsInStep
  <1>7. /\ Ahead(app.rd, app.wr) \in 0..AppSlots-1
        /\ Ahead(NextSlot(app.rd, AppSlots), app.wr) = Ahead(app.rd, app.wr) - 1
    BY <1>1, AheadArithmetic
  <1>8. ASSUME NEW j \in 0..AppSlots-1,
               Ahead(NextSlot(app.rd, AppSlots), j) < Len(accepted) - (Current + 1)
        PROVE  app.slot[j] = Current + 2 + Ahead(NextSlot(app.rd, AppSlots), j)
    <2>1. j # app.rd
      <3>1. SUFFICES ASSUME j = app.rd PROVE FALSE
        OBVIOUS
      <3>2. Ahead(NextSlot(app.rd, AppSlots), app.rd) = AppSlots - 1
        BY <1>1, SlotsAssumption DEF Ahead, NextSlot
      <3> QED
        BY <3>1, <3>2, <1>5, <1>6, <1>7, <1>8, SlotsAssumption
    <2>2. Ahead(NextSlot(app.rd, AppSlots), j) = Ahead(app.rd, j) - 1
          /\ Ahead(app.rd, j) \in 0..AppSlots-1
      BY <1>1, <2>1, AheadArithmetic
    <2>3. Ahead(app.rd, j) < Len(accepted) - Current
      BY <2>2, <1>5, <1>8
    <2> QED
      BY <2>2, <2>3, <1>5, <1>6
  <1>9. Ahead(app'.rd, app'.wr) = Len(accepted) - (Current + 1)
    BY <1>4, <1>5, <1>6, <1>7
  <1>10. \A j \in 0..AppSlots-1 :
           Ahead(NextSlot(app.rd, AppSlots), j) < Len(accepted) - (Current + 1) =>
             app.slot[j] = Current + 1 + 1 + Ahead(NextSlot(app.rd, AppSlots), j)
    <2> TAKE j \in 0..AppSlots-1
    <2>1. Ahead(NextSlot(app.rd, AppSlots), j) \in 0..AppSlots-1
      BY <1>2, AheadArithmetic
    <2> QED
      BY <1>5, <1>8, <2>1
  <1> QED
    BY <1>3, <1>4, <1>9, <1>10 DEF SlotsInStep, Ahead


LEMMA TxSend ==
    ASSUME TxInv, NEW taken \in BOOLEAN, SendTask(taken)
    PROVE  /\ TxInv'
           /\ [Stream!Next]_<<accepted, out, lost>>
  <1> DEFINE full == ~taken /\ Loaded.rd = Loaded.wr
  <1>k. PICK k : k = IF ShortEmpty THEN Current + 1 ELSE Current
    OBVIOUS
  <1>n. PICK n : n = accepted[k]
    OBVIOUS
  <1>1. /\ k \in 1..Len(accepted) \ lost /\ n \in 1..FrameSlots
        /\ Loaded \in [rd : 0..FrameSlots-1, wr : 0..FrameSlots-1,
                       slot : [0..FrameSlots-1 -> Frames]]
        /\ Loaded.rd < n /\ Loaded.wr = WriteIndex(k)
        /\ Loaded.slot[0].req = k
        /\ \A i \in Loaded.rd..n-1 : Loaded.slot[i] = Frame(k, i)
        /\ IF Loaded.rd = 0 THEN out.last /\ out.req < k /\ Between(k) \subseteq lost
                            ELSE out = Frame(k, Loaded.rd - 1)
        /\ ~ShortEmpty => Loaded.rd # Loaded.wr
    BY <1>k, <1>n, LoadedRequest DEF SendTask
  <1>2. /\ accepted' = accepted
        /\ app' = IF ShortEmpty
                    THEN [app EXCEPT !.rd = NextSlot(app.rd, AppSlots)] ELSE app
        /\ taken => /\ short' = [Loaded EXCEPT !.rd = NextSlot(Loaded.rd, FrameSlots)]
                    /\ out' = Loaded.slot[Loaded.rd]
        /\ ~taken => short' = Loaded /\ out' = out
        /\ ~ShortEmpty \/ ~AppEmpty
        /\ lost' = IF full THEN lost \cup {k} ELSE lost
    BY <1>1 DEF SendTask
  <1>3. /\ k \in Nat /\ Current \in Nat /\ out.req \in Nat /\ Len(accepted) \in Nat
        /\ accepted \in Seq(Lengths) /\ out \in Frames /\ lost \subseteq Nat
    <2>1. accepted \in Seq(Lengths) /\ out \in Frames /\ lost \subseteq Nat /\ Current \in Nat
      BY CurrentType DEF TxInv, TxTypeOK
    <2>2. Len(accepted) \in Nat /\ out.req \in Nat
      BY <2>1 DEF Frames
    <2> QED
      BY <2>1, <2>2, <1>1
  <1>4. /\ Loaded.slot[Loaded.rd] = Frame(k, Loaded.rd)
        /\ Loaded.rd \in 0..FrameSlots-1 /\ Loaded.rd < n
        /\ NextSlot(Loaded.rd, FrameSlots) \in 0..FrameSlots-1
    BY <1>1, SlotsAssumption DEF NextSlot
  <1>f. \A i : /\ Frame(k, i).req = k /\ Frame(k, i).id = i
               /\ Frame(k, i).last = (i + 1 = n)
               /\ Frame(k, i)' = Frame(k, i)
    BY <1>2, <1>n DEF Frame
  <1>w. WriteIndex(k) = (IF n = FrameSlots THEN 0 ELSE n) /\ WriteIndex(k)' = WriteIndex(k)
    BY <1>2, <1>n DEF WriteIndex
  <1>5. Frame(k, Loaded.rd) \in Frames
    BY <1>1, <1>3 DEF Frame, Frames
  <1>6. /\ short'.wr = WriteIndex(k) /\ short'.slot = Loaded.slot
        /\ short'.rd = IF taken THEN NextSlot(Loaded.rd, FrameSlots) ELSE Loaded.rd
        /\ short' \in [rd : 0..FrameSlots-1, wr : 0..FrameSlots-1,
                       slot : [0..FrameSlots-1 -> Frames]]
    BY <1>1, <1>2, <1>4
  <1>7. Current' = k
    BY <1>1, <1>6 DEF Current
  <1>8. /\ SlotsInStep'
        /\ app' \in [rd : 0..AppSlots-1, wr : 0..AppSlots-1,
                     slot : [0..AppSlots-1 -> Nat]]
    <2>1. CASE ShortEmpty
      BY <1>k, <1>2, <1>7, <2>1, SlotsAfterCut DEF TxInv
    <2>2. CASE ~ShortEmpty
      BY <1>k, <1>2, <1>7, <2>2
         DEF TxInv, TxTypeOK, QueuesInStep, SlotsInStep
    <2> QED
      BY <2>1, <2>2
  <1>9. LostWereFull'
    <2>1. full => n = FrameSlots
      BY <1>1, <1>w
    <2>2. Current <= k
      BY <1>k, <1>3 DEF TxInv
    <2>3. \A j \in lost : j \in 1..Current /\ accepted[j] = FrameSlots
      BY DEF TxInv, QueuesInStep, LostWereFull
    <2> HIDE DEF full
    <2>4. \A j \in lost' : j \in 1..k /\ accepted[j] = FrameSlots
      BY <1>n, <1>1, <1>2, <1>3, <2>1, <2>2, <2>3
    <2> QED
      BY <1>2, <1>7, <2>4 DEF LostWereFull
  <1>10. CASE taken
    <2>1. /\ short'.rd = NextSlot(Loaded.rd, FrameSlots)
          /\ lost' = lost
      BY <1>2, <1>6, <1>10
    <2>2. out' = Frame(k, Loaded.rd) /\ out'.req = k
          /\ (out'.last <=> Loaded.rd + 1 = n)
      <3>1. out' = Frame(k, Loaded.rd)
        BY <1>2, <1>4, <1>10
      <3> QED
        BY <3>1, <1>f
    <2>3. FramesInStep'
      <3>1. CASE Loaded.rd + 1 = n
        <4>1. short'.rd = short'.wr
          BY <2>1, <3>1, <1>1, <1>6, <1>w, SlotsAssumption DEF NextSlot
        <4>2. ShortEmpty' /\ out'.last /\ out'.req = k
          BY <2>2, <3>1, <4>1 DEF ShortEmpty
        <4> QED
          BY <4>2, <1>3, <1>7 DEF FramesInStep, Between
      <3>2. CASE Loaded.rd + 1 # n
        <4>1. short'.rd = Loaded.rd + 1 /\ Loaded.rd + 1 < n /\ Loaded.rd + 1 \in 1..FrameSlots-1
          BY <2>1, <3>2, <1>1, <1>4, SlotsAssumption DEF NextSlot
        <4>2. ~ShortEmpty'
          BY <4>1, <1>1, <1>6, <1>w DEF ShortEmpty
        <4>3. \A i \in short'.rd..n-1 : short'.slot[i] = Frame(k, i)
          BY <4>1, <1>1, <1>6
        <4>4. out' = Frame(k, short'.rd - 1)
          BY <4>1, <2>2, <1>1
        <4>5. /\ k \in 1..Len(accepted') \ lost' /\ short'.wr = WriteIndex(k)'
              /\ short'.rd < accepted'[k] /\ short'.rd # 0 /\ accepted'[k] = n
          BY <1>n, <4>1, <2>1, <1>1, <1>2, <1>6, <1>w
        <4> QED
          BY <4>2, <4>3, <4>4, <4>5, <1>7, <1>f DEF FramesInStep
      <3> QED
        BY <3>1, <3>2
    <2>4. Stream!Next
      <3>1. CASE Loaded.rd = 0
        <4>1. Stream!InTurn(k)
          BY <1>1, <1>3, <3>1 DEF Stream!InTurn, Between
        <4>2. out' = [req |-> k, id |-> 0, last |-> accepted[k] = 1]
          BY <1>n, <2>2, <3>1 DEF Frame
        <4>3. Stream!Begin(k)
          BY <1>2, <2>1, <4>1, <4>2 DEF Stream!Begin
        <4> QED
          BY <4>3, <1>1 DEF Stream!Next
      <3>2. CASE Loaded.rd # 0
        <4>1. /\ out.req = k /\ out.id = Loaded.rd - 1
              /\ (out.last <=> Loaded.rd - 1 + 1 = n) /\ out.last \in BOOLEAN
          BY <1>1, <1>3, <1>f, <3>2 DEF Frames
        <4>2. ~out.last /\ out.id + 1 = Loaded.rd /\ out.id + 2 = Loaded.rd + 1
          BY <1>1, <1>4, <4>1
        <4>3. out' = [req |-> k, id |-> Loaded.rd, last |-> Loaded.rd + 1 = n]
          BY <1>n, <2>2 DEF Frame
        <4>5. Stream!Continue
          BY <1>n, <1>2, <2>1, <4>1, <4>2, <4>3 DEF Stream!Continue
        <4> QED
          BY <4>5 DEF Stream!Next
      <3> QED
        BY <3>1, <3>2
    <2>5. out' \in Frames
      BY <2>2, <1>5
    <2> QED
      BY <1>2, <1>3, <1>6, <1>8, <1>9, <2>1, <2>3, <2>4, <2>5
         DEF TxInv, TxTypeOK, QueuesInStep, Fits
  <1>11. CASE ~taken
    <2>1. short'.rd = Loaded.rd /\ out' = out
      BY <1>2, <1>6, <1>11
    <2>2. ShortEmpty' <=> full
      BY <2>1, <1>1, <1>6, <1>11 DEF ShortEmpty
    <2>3. Between(k)' = Between(k) /\ Between(k + 1)' = Between(k + 1)
      BY <2>1 DEF Between
    <2>4. CASE full
      <3>1. Loaded.rd = 0 /\ n = FrameSlots
        BY <2>4, <1>1, <1>w
      <3>2. out.last /\ out.req < k /\ Between(k) \subseteq lost
        BY <3>1, <1>1
      <3>3. lost' = lost \cup {k}
        BY <2>4, <1>2
      <3>4. Between(k + 1) \subseteq lost'
        BY <3>2, <3>3, <1>3 DEF Between
      <3>5. FramesInStep'
        BY <2>1, <2>2, <2>3, <2>4, <3>2, <3>4, <1>3, <1>7 DEF FramesInStep
      <3>6. Stream!InTurn(k)
        BY <3>2, <1>1, <1>3 DEF Stream!InTurn, Between
      <3>7. Stream!Lose(k)
        BY <1>n, <3>1, <3>3, <3>6, <2>1, <1>2 DEF Stream!Lose
      <3>8. Stream!Next
        BY <3>7, <1>1 DEF Stream!Next
      <3>9. lost' \subseteq Nat
        BY <3>3, <1>3
      <3> QED
        BY <1>2, <1>3, <1>6, <1>8, <1>9, <1>11, <2>1, <3>5, <3>8, <3>9
           DEF TxInv, TxTypeOK, QueuesInStep, Fits
    <2>5. CASE ~full
      <3>1. lost' = lost
        BY <2>5, <1>2
      <3>2. /\ k \in 1..Len(accepted') \ lost' /\ short'.wr = WriteIndex(k)'
            /\ short'.rd < accepted'[k] /\ accepted'[k] = n
        BY <1>n, <3>1, <2>1, <1>1, <1>2, <1>6, <1>w
      <3>3. \A i \in short'.rd..n-1 : short'.slot[i] = Frame(k, i)
        BY <2>1, <1>1, <1>6
      <3>4. IF short'.rd = 0
              THEN out'.last /\ out'.req < k /\ Between(k)' \subseteq lost'
              ELSE out' = Frame(k, short'.rd - 1)
        BY <3>1, <2>1, <2>3, <1>1
      <3>5. FramesInStep'
        BY <2>2, <2>5, <3>2, <3>3, <3>4, <1>7, <1>f DEF FramesInStep
      <3> QED
        BY <1>2, <1>3, <1>6, <1>8, <1>9, <1>11, <2>1, <3>1, <3>5
           DEF TxInv, TxTypeOK, QueuesInStep, Fits
    <2> QED
      BY <2>4, <2>5
  <1> QED
    BY <1>10, <1>11


LEMMA TxKept ==
    ASSUME TxInv, UNCHANGED tx
    PROVE  TxInv'
  BY DEF tx, TxInv, TxTypeOK, QueuesInStep, SlotsInStep, FramesInStep, Frame,
         Current, ShortEmpty, LostWereFull, Fits, Between, WriteIndex

LEMMA TxStep ==
    ASSUME TxInv, [Next]_vars
    PROVE  TxInv' /\ [Stream!Next]_<<accepted, out, lost>>
  <1>1. ASSUME NEW l \in Lengths, TransferUpgradeData(l)
        PROVE  TxInv' /\ Stream!Next
    <2>1. TxInv'
      BY <1>1, TxTransfer
    <2>2. Stream!Accept
      BY <1>1 DEF TransferUpgradeData, Stream!Accept
    <2> QED
      BY <2>1, <2>2 DEF Stream!Next
  <1>2. ASSUME NEW taken \in BOOLEAN, SendTask(taken)
        PROVE  TxInv' /\ [Stream!Next]_<<accepted, out, lost>>
    BY <1>2, TxSend
  <1>3. CASE UNCHANGED tx
    BY <1>3, TxKept DEF tx
  <1>4. ASSUME NEW b \in Boards, BoardFrame(b) PROVE UNCHANGED tx
    BY <1>4 DEF BoardFrame
  <1>5. ASSUME NEW s \in Strangers, StrangerFrame(s) PROVE UNCHANGED tx
    BY <1>5 DEF StrangerFrame
  <1>6. ASSUME PutTogether PROVE UNCHANGED tx
    BY <1>6 DEF PutTogether
  <1>7. ASSUME UNCHANGED vars PROVE UNCHANGED tx
    BY <1>7 DEF vars
  <1> QED
    BY <1>1, <1>2, <1>3, <1>4, <1>5, <1>6, <1>7 DEF Next

\* The indices of both sending queues stay in step with the requests taken and
\* the frames gone, whatever the driver refuses and whenever requests come; what
\* is lost on the way filled all the frame slots.
THEOREM QueuesStayInStep == Spec => []QueuesInStep
  <1>1. TxInv /\ [Next]_vars => TxInv'
    BY TxStep
  <1>2. TxInv => QueuesInStep
    BY DEF TxInv
  <1> QED
    BY <1>1, <1>2, TxInit, PTL DEF Spec

\* What io_transfer_upgrade_data takes goes out on the bus request by request,
\* whole and in order, for every number of slots and any refusals of the driver;
\* only requests that fill all the slots are lost.
THEOREM RelayIsRequestStream == Spec => IsRequestStream
  <1>1. Init => Stream!Init
    BY DEF Init, Stream!Init, Nothing
  <1>2. TxInv /\ [Next]_vars => TxInv' /\ [Stream!Next]_<<accepted, out, lost>>
    BY TxStep
  <1> QED
    BY <1>1, <1>2, TxInit, PTL DEF Spec, IsRequestStream, Stream!Spec, Stream!vars


-----------------------------------------------------------------------------
(* The receiving half: type correctness.                                   *)

Pending == [req : Nat, id : Nat, len : Nat]

LEMMA RxInit == Init => RxTypeOK
  <1> SUFFICES ASSUME Init PROVE RxTypeOK
    OBVIOUS
  <1>1. "none" \in Sources /\ NoPart \in Parts
    BY DEF NoPart, Parts, Sources
  <1>2. << >> \in Seq(Parts) /\ << >> \in Seq(Pending)
    OBVIOUS
  <1>3. bus \in [Boards -> Seq(Pending)]
    BY <1>2 DEF Init
  <1>4. asm \in [src : Sources, expect : Nat, parts : Seq(Parts)]
    BY <1>1, <1>2 DEF Init
  <1>5. rec \in [rd : 0..RecSlots-1, wr : 0..RecSlots-1,
                 slot : [0..RecSlots-1 -> Parts]]
    BY <1>1, SlotsAssumption DEF Init
  <1> QED
    BY <1>2, <1>3, <1>4, <1>5 DEF Init, RxTypeOK, Pending

LEMMA PushType ==
    ASSUME RxTypeOK, NEW part \in Parts, Push(part)
    PROVE  rec' \in [rd : 0..RecSlots-1, wr : 0..RecSlots-1,
                     slot : [0..RecSlots-1 -> Parts]]
  <1>1. rec \in [rd : 0..RecSlots-1, wr : 0..RecSlots-1,
                 slot : [0..RecSlots-1 -> Parts]]
    BY DEF RxTypeOK
  <1>2. NextSlot(rec.wr, RecSlots) \in 0..RecSlots-1
    BY <1>1, SlotsAssumption, NextSlotInRange
  <1> QED
    BY <1>1, <1>2 DEF Push

LEMMA RxBoardFrame ==
    ASSUME RxTypeOK, NEW b \in Boards, BoardFrame(b)
    PROVE  RxTypeOK'
  <1> DEFINE r == Head(bus[b])
             last == r.id + 1 = r.len
             part == [src |-> b, req |-> r.req, id |-> r.id, last |-> last]
             rest == IF last THEN Tail(bus[b])
                     ELSE <<[r EXCEPT !.id = r.id + 1]>> \o Tail(bus[b])
  <1>1. bus[b] \in Seq(Pending) /\ bus[b] # << >>
    BY DEF RxTypeOK, BoardFrame, Pending
  <1>2. r \in Pending /\ Tail(bus[b]) \in Seq(Pending)
    BY <1>1
  <1>3. part \in Parts
    BY <1>2 DEF Parts, Pending, Sources
  <1>4. rest \in Seq(Pending)
    <2>1. [r EXCEPT !.id = r.id + 1] \in Pending
      BY <1>2 DEF Pending
    <2>2. <<[r EXCEPT !.id = r.id + 1]>> \in Seq(Pending)
      BY <2>1
    <2> QED
      BY <1>2, <2>2
  <1>5. /\ Push(part) /\ bus' = [bus EXCEPT ![b] = rest]
        /\ headLost' = (headLost \/ (RecFull /\ r.id = 0))
        /\ damaged' = IF RecFull THEN damaged \cup {r.req} ELSE damaged
        /\ UNCHANGED <<asm, done, answered, strange>>
    BY DEF BoardFrame
  <1>6. rec' \in [rd : 0..RecSlots-1, wr : 0..RecSlots-1,
                  slot : [0..RecSlots-1 -> Parts]]
    BY <1>3, <1>5, PushType
  <1>7. bus' \in [Boards -> Seq(Pending)]
    BY <1>4, <1>5 DEF RxTypeOK, Pending
  <1>8. headLost' \in BOOLEAN /\ damaged' \subseteq Nat
    BY <1>2, <1>5 DEF RxTypeOK, Pending
  <1> HIDE DEF part, rest
  <1> QED
    BY <1>5, <1>6, <1>7, <1>8 DEF RxTypeOK, Pending

LEMMA AssembledType ==
    ASSUME RxTypeOK, NEW part \in Parts
    PROVE  Assembled(part) \in [src : Sources, expect : Nat, parts : Seq(Parts)]
  <1>1. asm \in [src : Sources, expect : Nat, parts : Seq(Parts)]
    BY DEF RxTypeOK
  <1>2. <<part>> \in Seq(Parts) /\ Append(asm.parts, part) \in Seq(Parts)
    BY <1>1
  <1>3. part.src \in Sources
    BY DEF Parts
  <1>4. [src |-> part.src, expect |-> 1, parts |-> <<part>>]
          \in [src : Sources, expect : Nat, parts : Seq(Parts)]
    BY <1>2, <1>3
  <1>5. [asm EXCEPT !.expect = asm.expect + 1, !.parts = Append(asm.parts, part)]
          \in [src : Sources, expect : Nat, parts : Seq(Parts)]
    <2>1. asm.expect + 1 \in Nat
      BY <1>1
    <2> HIDE DEF Parts
    <2> QED
      BY <1>1, <1>2, <2>1, Zenon
  <1> QED
    BY <1>1, <1>4, <1>5 DEF Assembled

LEMMA RxPutTogether ==
    ASSUME RxTypeOK, PutTogether
    PROVE  RxTypeOK'
  <1> DEFINE part == rec.slot[rec.rd]
             new  == Assembled(part)
             whole == (Starts(part) \/ Continues(part)) /\ part.last
  <1>1. rec \in [rd : 0..RecSlots-1, wr : 0..RecSlots-1,
                 slot : [0..RecSlots-1 -> Parts]]
    BY DEF RxTypeOK
  <1>2. part \in Parts
    BY <1>1
  <1>3. new \in [src : Sources, expect : Nat, parts : Seq(Parts)]
    BY <1>2, AssembledType
  <1>4. asm.parts \in Seq(Parts)
    BY DEF RxTypeOK
  <1>5. /\ rec' = [rec EXCEPT !.rd = NextSlot(rec.rd, RecSlots)]
        /\ asm' = IF whole THEN [new EXCEPT !.parts = << >>] ELSE new
        /\ done' = IF whole THEN new.parts ELSE done
        /\ answered' \subseteq answered \cup {part.req}
        /\ damaged' = IF Starts(part) /\ asm.parts # << >>
                        THEN damaged \cup {asm.parts[1].req} ELSE damaged
        /\ UNCHANGED <<bus, strange, headLost>>
    BY DEF PutTogether
  <1> HIDE DEF part, new, whole
  <1>6. rec' \in [rd : 0..RecSlots-1, wr : 0..RecSlots-1,
                  slot : [0..RecSlots-1 -> Parts]]
    BY <1>1, <1>5, SlotsAssumption, NextSlotInRange
  <1>7. asm' \in [src : Sources, expect : Nat, parts : Seq(Parts)]
    <2>1. << >> \in Seq(Parts)
      OBVIOUS
    <2>2. [new EXCEPT !.parts = << >>]
            \in [src : Sources, expect : Nat, parts : Seq(Parts)]
      BY <1>3, <2>1
    <2> QED
      BY <1>3, <1>5, <2>2
  <1>8. done' \in Seq(Parts)
    BY <1>3, <1>5 DEF RxTypeOK
  <1>9. answered' \subseteq Nat
    BY <1>2, <1>5 DEF RxTypeOK, Parts
  <1>10. damaged' \subseteq Nat
    <2>1. asm.parts # << >> => asm.parts[1] \in Parts
      BY <1>4
    <2> QED
      BY <1>5, <2>1 DEF RxTypeOK, Parts
  <1> QED
    BY <1>5, <1>6, <1>7, <1>8, <1>9, <1>10 DEF RxTypeOK

LEMMA RxSend ==
    ASSUME TxInv, RxTypeOK, NEW taken \in BOOLEAN, SendTask(taken)
    PROVE  RxTypeOK'
  <1>1. out' \in Frames
    BY TxSend DEF TxInv, TxTypeOK
  <1>2. UNCHANGED <<rec, asm, done, answered, strange, headLost, damaged>>
    BY DEF SendTask
  <1>3. bus' \in [Boards -> Seq(Pending)]
    <2>1. CASE bus' = bus
      BY <2>1 DEF RxTypeOK, Pending
    <2>2. CASE \E n \in Replies :
                 bus' = [bus EXCEPT ![Dest[out'.req]] =
                           Append(bus[Dest[out'.req]],
                                  [req |-> out'.req, id |-> 0, len |-> n])]
      <3>1. PICK n \in Replies :
                 bus' = [bus EXCEPT ![Dest[out'.req]] =
                           Append(bus[Dest[out'.req]],
                                  [req |-> out'.req, id |-> 0, len |-> n])]
        BY <2>2
      <3>2. [req |-> out'.req, id |-> 0, len |-> n] \in Pending
        BY <1>1, LengthsAssumption DEF Pending, Frames
      <3>3. bus \in [Boards -> Seq(Pending)]
        BY DEF RxTypeOK, Pending
      <3>4. \A d \in Boards :
              Append(bus[d], [req |-> out'.req, id |-> 0, len |-> n]) \in Seq(Pending)
        BY <3>2, <3>3
      <3> QED
        BY <3>1, <3>3, <3>4
    <2> QED
      BY <2>1, <2>2 DEF SendTask, Answer
  <1> QED
    BY <1>2, <1>3 DEF RxTypeOK, Pending

LEMMA RxStep ==
    ASSUME TxInv, RxTypeOK, [Next]_vars
    PROVE  RxTypeOK'
  <1>1. ASSUME NEW l \in Lengths, TransferUpgradeData(l) PROVE RxTypeOK'
    BY <1>1 DEF TransferUpgradeData, rx, RxTypeOK
  <1>2. ASSUME NEW s \in Strangers, StrangerFrame(s) PROVE RxTypeOK'
    <2>1. [src |-> s, req |-> 0, id |-> 0, last |-> TRUE] \in Parts
      BY DEF Parts, Sources
    <2>2. Push([src |-> s, req |-> 0, id |-> 0, last |-> TRUE])
          /\ strange' = strange + 1
          /\ UNCHANGED <<bus, asm, done, answered, headLost, damaged>>
      BY <1>2 DEF StrangerFrame
    <2>3. rec' \in [rd : 0..RecSlots-1, wr : 0..RecSlots-1,
                    slot : [0..RecSlots-1 -> Parts]]
      BY <2>1, <2>2, PushType
    <2> QED
      BY <2>2, <2>3 DEF RxTypeOK
  <1>3. CASE UNCHANGED vars
    BY <1>3 DEF vars, rx, RxTypeOK
  <1> QED
    BY <1>1, <1>2, <1>3, RxSend, RxBoardFrame, RxPutTogether DEF Next

\* Every variable of the relay keeps its type, every index its ring.
THEOREM TypeCorrect == Spec => []TypeOK
  <1>1. TxInv /\ RxTypeOK /\ [Next]_vars => TxInv' /\ RxTypeOK'
    BY TxStep, RxStep
  <1>2. TxInv /\ RxTypeOK => TypeOK
    BY DEF TxInv, TypeOK
  <1> QED
    BY <1>1, <1>2, TxInit, RxInit, PTL DEF Spec

-----------------------------------------------------------------------------
(* What is put together.  The frames received and not yet looked at are a  *)
(* sequence; a frame of a board that is not the first of an answer is of   *)
(* the answer of the frame before it, even if some between were dropped.   *)
Count == IF rec.wr >= rec.rd THEN rec.wr - rec.rd ELSE rec.wr + RecSlots - rec.rd
SlotAt(k) == IF rec.rd + k <= RecSlots THEN rec.rd + k - 1 ELSE rec.rd + k - 1 - RecSlots
Received == [k \in 1..Count |-> rec.slot[SlotAt(k)]]

\* A frame of answer req after the frame numbered id of it, which is not its last.
GoesOn(r, req, id, last) == r.req = req /\ r.id > id /\ ~last

\* Frame i or a later one up to frame j begins an answer of board b.
Begins(b, i, j) == \E k \in i..j : Received[k].src = b /\ Received[k].id = 0

\* Each board sends answer after answer, from the first frame of each.
BusInOrder ==
    \A b \in Boards : \A i \in 1..Len(bus[b]) :
       bus[b][i].id < bus[b][i].len /\ (i > 1 => bus[b][i].id = 0)

\* What a board sends next goes on with the last frame received of it.
BusFollows(b, req, id, last) ==
    bus[b] = << >> \/ bus[b][1].id = 0 \/ GoesOn(bus[b][1], req, id, last)

ReceivedInOrder ==
    \A i \in 1..Count : Received[i].src \in Boards =>
       LET p == Received[i] IN
       /\ \A j \in i+1..Count : Received[j].src = p.src =>
             Begins(p.src, i+1, j) \/ GoesOn(Received[j], p.req, p.id, p.last)
       /\ Begins(p.src, i+1, Count) \/ BusFollows(p.src, p.req, p.id, p.last)

\* And with what has been put together of it so far, unless that is complete.
AnswerGoesOn(r) == asm.parts # << >> /\ r.req = asm.parts[1].req /\ r.id >= asm.expect
AsmFollowed ==
    asm.src \in Boards =>
       /\ \A j \in 1..Count : Received[j].src = asm.src =>
             Begins(asm.src, 1, j) \/ AnswerGoesOn(Received[j])
       /\ \/ Begins(asm.src, 1, Count)
          \/ bus[asm.src] = << >> \/ bus[asm.src][1].id = 0 \/ AnswerGoesOn(bus[asm.src][1])

\* What has been put together is the beginning of one answer.
BeginningOfAnswer ==
    asm.parts # << >> =>
       /\ asm.expect = Len(asm.parts)
       /\ \A i \in 1..Len(asm.parts) :
            /\ asm.parts[i].id = i - 1 /\ asm.parts[i].src = asm.src
            /\ asm.parts[i].req = asm.parts[1].req /\ ~asm.parts[i].last

InOrder == BusInOrder /\ ReceivedInOrder /\ AsmFollowed /\ BeginningOfAnswer
OrderInv == headLost \/ (InOrder /\ DeliveredWhole)

LEMMA RecFields ==
    ASSUME RxTypeOK
    PROVE  /\ Count \in Nat /\ Count < RecSlots
           /\ \A k \in 1..Count : SlotAt(k) \in 0..RecSlots-1 /\ Received[k] \in Parts
  <1>1. rec.rd \in 0..RecSlots-1 /\ rec.wr \in 0..RecSlots-1 /\ RecSlots \in Nat
        /\ \A i \in 0..RecSlots-1 : rec.slot[i] \in Parts
    BY SlotsAssumption DEF RxTypeOK
  <1>2. Count \in Nat /\ Count < RecSlots
    BY <1>1 DEF Count
  <1>3. \A k \in 1..Count : SlotAt(k) \in 0..RecSlots-1
    BY <1>1, <1>2 DEF SlotAt
  <1>4. \A k \in 1..Count : Received[k] = rec.slot[SlotAt(k)]
    BY DEF Received
  <1> HIDE DEF Count
  <1> QED
    BY <1>1, <1>2, <1>3, <1>4

\* The interrupt puts a frame at the end, or drops it.
LEMMA FramePushed ==
    ASSUME RxTypeOK, NEW part \in Parts, Push(part)
    PROVE  /\ RecFull => Count' = Count /\ Received' = Received
           /\ ~RecFull => /\ Count' = Count + 1 /\ Received'[Count + 1] = part
                          /\ \A k \in 1..Count : Received'[k] = Received[k]
  <1>1. CASE RecFull
    <2>1. rec' = rec
      BY <1>1 DEF Push
    <2>2. Count' = Count /\ \A k : SlotAt(k)' = SlotAt(k)
      BY <2>1 DEF Count, SlotAt
    <2>3. Received' = Received
      BY <2>1, <2>2 DEF Received
    <2> QED
      BY <1>1, <2>2, <2>3
  <1>2. CASE ~RecFull
    <2>1. rec.rd \in 0..RecSlots-1 /\ rec.wr \in 0..RecSlots-1 /\ RecSlots \in Nat /\ RecSlots > 1
      BY SlotsAssumption DEF RxTypeOK
    <2>2. rec.wr \in DOMAIN rec.slot
      BY <2>1 DEF RxTypeOK
    <2>3. /\ rec'.rd = rec.rd /\ rec'.wr = NextSlot(rec.wr, RecSlots)
          /\ rec'.slot = [rec.slot EXCEPT ![rec.wr] = part]
      BY <1>2 DEF Push, RxTypeOK
    <2>4. Count' = Count + 1 /\ Count \in Nat
      BY <1>2, <2>1, <2>3 DEF Count, RecFull, NextSlot
    <2>5. /\ \A k : SlotAt(k)' = SlotAt(k)
          /\ SlotAt(Count + 1) = rec.wr
          /\ \A k \in 1..Count : SlotAt(k) # rec.wr /\ SlotAt(k) \in 0..RecSlots-1
      <3>1. \A k : SlotAt(k)' = SlotAt(k)
        BY <2>3 DEF SlotAt
      <3>2. SlotAt(Count + 1) = rec.wr
        BY <2>1, SMTT(30) DEF SlotAt, Count
      <3>3. \A k \in 1..Count : SlotAt(k) # rec.wr /\ SlotAt(k) \in 0..RecSlots-1
        BY <2>1 DEF SlotAt, Count
      <3> QED
        BY <3>1, <3>2, <3>3
    <2>6. \A k \in 1..Count + 1 : Received'[k] = rec'.slot[SlotAt(k)]
      BY <2>4, <2>5 DEF Received
    <2>7. /\ rec'.slot[rec.wr] = part
          /\ \A i \in 0..RecSlots-1 : i # rec.wr => rec'.slot[i] = rec.slot[i]
      BY <2>2, <2>3 DEF RxTypeOK
    <2>8. \A k \in 1..Count : Received[k] = rec.slot[SlotAt(k)]
      BY DEF Received
    <2>9. Received'[Count + 1] = part
      BY <2>4, <2>5, <2>6, <2>7
    <2>10. \A k \in 1..Count : Received'[k] = Received[k]
      BY <2>4, <2>5, <2>6, <2>7, <2>8
    <2> QED
      BY <1>2, <2>4, <2>9, <2>10
  <1> QED
    BY <1>1, <1>2

\* The loop takes the first.
LEMMA FrameTaken ==
    ASSUME RxTypeOK, rec.rd # rec.wr,
           rec' = [rec EXCEPT !.rd = NextSlot(rec.rd, RecSlots)]
    PROVE  /\ Count > 0 /\ Count' = Count - 1
           /\ Received[1] = rec.slot[rec.rd]
           /\ \A k \in 1..Count' : Received'[k] = Received[k + 1]
  <1>1. rec.rd \in 0..RecSlots-1 /\ rec.wr \in 0..RecSlots-1 /\ RecSlots \in Nat /\ RecSlots > 1
    BY SlotsAssumption DEF RxTypeOK
  <1>2. /\ rec'.rd = NextSlot(rec.rd, RecSlots) /\ rec'.wr = rec.wr
        /\ rec'.slot = rec.slot
    BY DEF RxTypeOK
  <1>3. Count > 0 /\ Count' = Count - 1 /\ Count \in Nat
    BY <1>1, <1>2 DEF Count, NextSlot
  <1>4. /\ SlotAt(1) = rec.rd
        /\ \A k \in 1..Count' : SlotAt(k)' = SlotAt(k + 1)
    <2>1. SlotAt(1) = rec.rd
      BY <1>1 DEF SlotAt
    <2>2. \A k \in 1..Count' : SlotAt(k)' = SlotAt(k + 1)
      <3> TAKE k \in 1..Count'
      <3>1. k \in Nat /\ k > 0 /\ k < RecSlots
        BY <1>1, <1>3, RecFields
      <3> QED
        BY <1>1, <1>2, <3>1 DEF SlotAt, NextSlot
    <2> QED
      BY <2>1, <2>2
  <1>5. /\ \A k \in 1..Count : Received[k] = rec.slot[SlotAt(k)]
        /\ \A k \in 1..Count' : Received'[k] = rec'.slot[SlotAt(k)']
    BY DEF Received
  <1>6. \A k \in 1..Count' : Received'[k] = Received[k + 1]
    BY <1>2, <1>3, <1>4, <1>5
  <1> QED
    BY <1>3, <1>4, <1>5, <1>6

LEMMA OrderInit == Init => OrderInv
  <1> SUFFICES ASSUME Init PROVE InOrder /\ DeliveredWhole
    BY DEF OrderInv
  <1>1. Count = 0
    BY SlotsAssumption DEF Init, Count
  <1>2. \A b \in Boards : bus[b] = << >>
    BY DEF Init
  <1>3. BusInOrder
    BY <1>2 DEF BusInOrder
  <1>4. ReceivedInOrder
    BY <1>1 DEF ReceivedInOrder
  <1>5. AsmFollowed
    BY <1>1, <1>2 DEF AsmFollowed
  <1>6. BeginningOfAnswer /\ DeliveredWhole
    BY DEF Init, BeginningOfAnswer, DeliveredWhole
  <1> QED
    BY <1>3, <1>4, <1>5, <1>6 DEF InOrder

\* What a step of board b's frames does to what it sends: its first frame
\* goes, and the next is of the same answer or begins one.
LEMMA BusOnBoardFrame ==
    ASSUME RxTypeOK, BusInOrder, NEW b \in Boards, BoardFrame(b)
    PROVE  /\ BusInOrder'
           /\ \A d \in Boards : d # b => bus'[d] = bus[d]
           /\ bus[b] # << >> /\ bus[b][1] \in Pending
           /\ \/ bus'[b] = << >> \/ bus'[b][1].id = 0
              \/ /\ bus'[b][1].req = bus[b][1].req /\ bus'[b][1].id = bus[b][1].id + 1
                 /\ bus[b][1].id + 1 # bus[b][1].len
  <1> DEFINE r == bus[b][1]
             rest == IF r.id + 1 = r.len THEN Tail(bus[b])
                     ELSE <<[r EXCEPT !.id = r.id + 1]>> \o Tail(bus[b])
  <1>1. bus \in [Boards -> Seq(Pending)] /\ bus[b] \in Seq(Pending) /\ bus[b] # << >>
    BY DEF RxTypeOK, BoardFrame, Pending
  <1>2. PICK q \in Seq(Pending) : q = bus[b]
    BY <1>1
  <1>3. /\ Head(q) = q[1] /\ q[1] \in Pending /\ Len(q) \in Nat /\ Len(q) > 0
        /\ Tail(q) \in Seq(Pending) /\ Len(Tail(q)) = Len(q) - 1
        /\ \A i \in 1..Len(Tail(q)) : Tail(q)[i] = q[i + 1]
    BY <1>1, <1>2
  <1>4. bus' = [bus EXCEPT ![b] = rest]
    BY <1>2, <1>3 DEF BoardFrame
  <1>5. r.id \in Nat /\ r.len \in Nat /\ r.id < r.len
        /\ \A i \in 1..Len(q) : q[i].id < q[i].len /\ (i > 1 => q[i].id = 0)
    <2>1. \A i \in 1..Len(q) : q[i].id < q[i].len /\ (i > 1 => q[i].id = 0)
      BY <1>2 DEF BusInOrder
    <2>2. r = q[1] /\ 1 \in 1..Len(q)
      BY <1>2, <1>3
    <2> QED
      BY <2>1, <2>2, <1>3 DEF Pending
  <1>6. rest = IF r.id + 1 = r.len THEN Tail(q) ELSE <<[r EXCEPT !.id = r.id + 1]>> \o Tail(q)
    BY <1>2
  <1>7. /\ \A i \in 1..Len(rest) : rest[i].id < rest[i].len /\ (i > 1 => rest[i].id = 0)
        /\ \/ rest = << >> \/ rest[1].id = 0
           \/ /\ rest[1].req = r.req /\ rest[1].id = r.id + 1 /\ r.id + 1 # r.len
    <2>1. CASE r.id + 1 = r.len
      <3>1. rest = Tail(q)
        BY <1>6, <2>1
      <3>2. \A i \in 1..Len(Tail(q)) : i + 1 \in 1..Len(q) /\ i + 1 > 1
        BY <1>3
      <3>3. \A i \in 1..Len(Tail(q)) : Tail(q)[i].id < Tail(q)[i].len /\ Tail(q)[i].id = 0
        BY <1>3, <1>5, <3>2
      <3>4. Tail(q) = << >> \/ 1 \in 1..Len(Tail(q))
        BY <1>3
      <3> HIDE DEF rest
      <3> QED
        BY <3>1, <3>3, <3>4
    <2>2. CASE r.id + 1 # r.len
      <3>0. r \in Pending
        BY <1>2, <1>3
      <3>1. \A c \in Pending : \E x \in Pending :
              /\ x = [c EXCEPT !.id = c.id + 1]
              /\ x.req = c.req /\ x.id = c.id + 1 /\ x.len = c.len
        <4> TAKE c \in Pending
        <4> DEFINE x == [req |-> c.req, id |-> c.id + 1, len |-> c.len]
        <4>1. x \in Pending
          BY DEF Pending
        <4>2. x = [c EXCEPT !.id = c.id + 1]
          BY DEF Pending
        <4> QED
          BY <4>1, <4>2
      <3>2. PICK x \in Pending : /\ x = [r EXCEPT !.id = r.id + 1]
                                 /\ x.req = r.req /\ x.id = r.id + 1 /\ x.len = r.len
        BY <3>0, <3>1
      <3>3. PICK t \in Seq(Pending) : t = Tail(q)
        BY <1>3
      <3>4. rest = <<x>> \o t
        BY <1>6, <2>2, <3>2, <3>3
      <3>5. /\ Len(<<x>> \o t) = Len(q) /\ (<<x>> \o t)[1] = x
            /\ \A i \in 2..Len(q) : (<<x>> \o t)[i] = t[i - 1]
        BY <1>3, <3>3
      <3>6. \A i \in 2..Len(q) : t[i - 1] = q[i]
        BY <1>3, <3>3
      <3>7. x.id < x.len
        BY <1>5, <2>2, <3>2
      <3> HIDE DEF rest, r
      <3>8. \A i \in 1..Len(rest) : rest[i].id < rest[i].len /\ (i > 1 => rest[i].id = 0)
        <4> TAKE i \in 1..Len(rest)
        <4>1. CASE i = 1
          BY <4>1, <3>4, <3>5, <3>7
        <4>2. CASE i # 1
          <5>1. i \in 2..Len(q) /\ i \in 1..Len(q)
            BY <4>2, <3>4, <3>5, <1>3
          <5>2. rest[i] = q[i]
            BY <5>1, <3>4, <3>5, <3>6
          <5> QED
            BY <5>1, <5>2, <1>5
        <4> QED
          BY <4>1, <4>2
      <3> QED
        BY <2>2, <3>2, <3>4, <3>5, <3>8
    <2> QED
      BY <2>1, <2>2
  <1>8. bus'[b] = rest /\ \A d \in Boards : d # b => bus'[d] = bus[d]
    BY <1>1, <1>4
  <1>9. BusInOrder'
    <2> HIDE DEF rest
    <2> QED
      BY <1>7, <1>8 DEF BusInOrder
  <1> HIDE DEF rest
  <1> QED
    BY <1>1, <1>2, <1>3, <1>7, <1>8, <1>9

\* A frame of board b goes into the ring: what follows what is as before.
LEMMA OrderBoardFrame ==
    ASSUME RxTypeOK, OrderInv, NEW b \in Boards, BoardFrame(b)
    PROVE  OrderInv'
  <1> SUFFICES ASSUME ~headLost' PROVE InOrder' /\ DeliveredWhole'
    BY DEF OrderInv
  <1>1. /\ headLost' = (headLost \/ (RecFull /\ Head(bus[b]).id = 0))
        /\ asm' = asm /\ done' = done
    BY DEF BoardFrame
  <1>2. InOrder /\ DeliveredWhole
    BY <1>1 DEF OrderInv
  <1>3. /\ BusInOrder'
        /\ \A d \in Boards : d # b => bus'[d] = bus[d]
        /\ bus[b] # << >> /\ bus[b][1] \in Pending
        /\ \/ bus'[b] = << >> \/ bus'[b][1].id = 0
           \/ /\ bus'[b][1].req = bus[b][1].req /\ bus'[b][1].id = bus[b][1].id + 1
              /\ bus[b][1].id + 1 # bus[b][1].len
    BY <1>2, BusOnBoardFrame DEF InOrder
  <1>4. PICK r \in Pending : r = bus[b][1] /\ r = Head(bus[b])
    BY <1>3 DEF RxTypeOK, Pending
  <1>5. PICK last \in BOOLEAN : last = (r.id + 1 = r.len)
    OBVIOUS
  <1>6. PICK part \in Parts :
          /\ part.src = b /\ part.req = r.req /\ part.id = r.id /\ part.last = last
          /\ Push(part)
    <2>1. [src |-> b, req |-> r.req, id |-> r.id, last |-> last] \in Parts
      BY <1>4 DEF Parts, Pending, Sources
    <2>2. Push([src |-> b, req |-> r.req, id |-> r.id, last |-> last])
      BY <1>4, <1>5 DEF BoardFrame
    <2> QED
      BY <2>1, <2>2
  <1>7. /\ RecFull => Count' = Count /\ Received' = Received
        /\ ~RecFull => /\ Count' = Count + 1 /\ Received'[Count + 1] = part
                       /\ \A k \in 1..Count : Received'[k] = Received[k]
        /\ Count \in Nat
    BY <1>6, FramePushed, RecFields
  <1>8. RecFull => r.id # 0
    BY <1>1, <1>4
  <1>9. r.id \in Nat /\ r.req \in Nat
    BY DEF Pending
  <1>10. \A req \in Nat, id \in Nat, ended \in BOOLEAN :
            BusFollows(b, req, id, ended) => r.id = 0 \/ BusFollows(b, req, id, ended)'
    BY <1>3, <1>4, <1>9 DEF BusFollows, GoesOn
  <1>11. BusFollows(b, r.req, r.id, last)'
    <2>1. \/ bus'[b] = << >> \/ bus'[b][1].id = 0
          \/ bus'[b][1].req = r.req /\ bus'[b][1].id = r.id + 1 /\ ~last
      BY <1>3, <1>4, <1>5
    <2> QED
      BY <2>1, <1>9 DEF BusFollows, GoesOn
  <1>12. \A k \in 1..Count : Received[k] \in Parts
    BY RecFields
  <1>13. \A d \in Boards, i \in Nat \ {0}, j \in 0..Count :
            Begins(d, i, j) => \A k \in j..Count' : Begins(d, i, k)'
    BY <1>7 DEF Begins
  <1>n. PICK n \in Nat : n = Count
    BY <1>7
  <1>14. ReceivedInOrder'
    <2>1. CASE RecFull
      <3>1. Count' = Count /\ Received' = Received
        BY <1>7, <2>1
      <3>2. \A d \in Boards, req \in Nat, id \in Nat, ended \in BOOLEAN :
               BusFollows(d, req, id, ended) => BusFollows(d, req, id, ended)'
        BY <1>3, <1>8, <1>10, <2>1 DEF BusFollows
      <3> QED
        BY <1>2, <1>12, <3>1, <3>2 DEF InOrder, ReceivedInOrder, Begins, Parts
    <2>2. CASE ~RecFull
      <3>1. /\ Count' = n + 1 /\ Received'[n + 1] = part
            /\ \A k \in 1..n : Received'[k] = Received[k]
        BY <1>7, <1>n, <2>2
      <3>2. SUFFICES ASSUME NEW i \in 1..n + 1, NEW p \in Parts,
                            p = Received'[i], p.src \in Boards
                     PROVE  /\ \A j \in i+1..n + 1 : Received'[j].src = p.src =>
                                   Begins(p.src, i+1, j)' \/ GoesOn(Received'[j], p.req, p.id, p.last)
                            /\ Begins(p.src, i+1, n + 1)' \/ BusFollows(p.src, p.req, p.id, p.last)'
        <4>1. \A i \in 1..n + 1 : Received'[i] \in Parts
          BY <3>1, <1>n, <1>12
        <4> QED
          BY <3>1, <4>1 DEF ReceivedInOrder
      <3>3. r.id = 0 => \A k \in 1..n + 1 : Begins(b, k, n + 1)'
        BY <3>1, <1>6 DEF Begins
      <3>4. CASE i = n + 1
        <4>1. p.src = b /\ p.req = r.req /\ p.id = r.id /\ p.last = last
          BY <3>1, <3>2, <3>4, <1>6
        <4>2. \A j \in i+1..n + 1 : FALSE
          BY <3>4, <1>n
        <4> QED
          BY <4>1, <4>2, <1>11
      <3>5. CASE i # n + 1
        <4>1. i \in 1..n /\ p = Received[i] /\ i + 1 \in Nat \ {0} /\ i + 1 \in 1..n + 1
          BY <3>1, <3>2, <3>5, <1>n
        <4>2. /\ \A j \in i+1..n : Received[j].src = p.src =>
                    Begins(p.src, i+1, j) \/ GoesOn(Received[j], p.req, p.id, p.last)
              /\ Begins(p.src, i+1, n) \/ BusFollows(p.src, p.req, p.id, p.last)
          BY <4>1, <3>2, <1>2, <1>n DEF InOrder, ReceivedInOrder
        <4>3. p.req \in Nat /\ p.id \in Nat /\ p.last \in BOOLEAN
          BY DEF Parts
        <4>4. Begins(p.src, i+1, n) => Begins(p.src, i+1, n + 1)'
          BY <4>1, <3>1, <3>2, <1>n, <1>13
        <4>5. Begins(p.src, i+1, n + 1)' \/ BusFollows(p.src, p.req, p.id, p.last)'
          <5>1. CASE p.src = b
            BY <5>1, <4>1, <4>2, <4>3, <4>4, <3>3, <1>10
          <5>2. CASE p.src # b
            BY <5>2, <4>2, <4>4, <3>2, <1>3 DEF BusFollows
          <5> QED
            BY <5>1, <5>2
        <4>6. ASSUME NEW j \in i+1..n + 1, Received'[j].src = p.src
              PROVE  Begins(p.src, i+1, j)' \/ GoesOn(Received'[j], p.req, p.id, p.last)
          <5>1. CASE j # n + 1
            <6>1. j \in i+1..n /\ j \in 0..n /\ j \in 1..n /\ j \in j..Count'
              BY <5>1, <4>1, <3>1, <1>n
            <6>2. Received'[j] = Received[j]
              BY <6>1, <3>1
            <6>3. Begins(p.src, i+1, j) => Begins(p.src, i+1, j)'
              BY <6>1, <4>1, <3>1, <3>2, <1>n, <1>13
            <6> QED
              BY <6>1, <6>2, <6>3, <4>2, <4>6
          <5>2. CASE j = n + 1
            <6>1. Received'[j] = part /\ p.src = b
              BY <5>2, <4>6, <3>1, <1>6
            <6>2. CASE r.id = 0
              BY <6>1, <6>2, <5>2, <4>1, <3>3
            <6>3. CASE Begins(p.src, i+1, n)
              BY <6>3, <5>2, <4>4
            <6>4. CASE r.id # 0 /\ BusFollows(b, p.req, p.id, p.last)
              <7>1. GoesOn(r, p.req, p.id, p.last)
                BY <6>4, <1>3, <1>4 DEF BusFollows
              <7> QED
                BY <7>1, <6>1, <1>6 DEF GoesOn
            <6> QED
              BY <6>1, <6>2, <6>3, <6>4, <4>2
          <5> QED
            BY <5>1, <5>2
        <4> QED
          BY <4>5, <4>6
      <3> QED
        BY <3>4, <3>5
    <2> QED
      BY <2>1, <2>2
  <1>15. AsmFollowed'
    <2>1. SUFFICES ASSUME NEW d \in Boards, d = asm.src
                   PROVE  /\ \A j \in 1..Count' : Received'[j].src = d =>
                                Begins(d, 1, j)' \/ AnswerGoesOn(Received'[j])
                          /\ \/ Begins(d, 1, Count)' \/ bus'[d] = << >>
                             \/ bus'[d][1].id = 0 \/ AnswerGoesOn(bus'[d][1])
      BY <1>1 DEF AsmFollowed, AnswerGoesOn
    <2>3. /\ \A j \in 1..Count : Received[j].src = d => Begins(d, 1, j) \/ AnswerGoesOn(Received[j])
          /\ \/ Begins(d, 1, Count) \/ bus[d] = << >>
             \/ bus[d][1].id = 0 \/ AnswerGoesOn(bus[d][1])
      BY <2>1, <1>2 DEF InOrder, AsmFollowed
    <2>4. asm.expect \in Nat
      BY DEF RxTypeOK
    <2>5. \A x : AnswerGoesOn(x) <=> asm.parts # << >> /\ x.req = asm.parts[1].req /\ x.id >= asm.expect
      BY DEF AnswerGoesOn
    <2>7. Begins(d, 1, n) => Begins(d, 1, Count)'
      <3>1. Begins(d, 1, n) => \E k \in 1..n : Received'[k].src = d /\ Received'[k].id = 0
        BY <1>7, <1>n DEF Begins
      <3>2. \A k \in 1..n : k \in 1..Count'
        BY <1>7, <1>n
      <3> QED
        BY <3>1, <3>2 DEF Begins
    <2>8. ASSUME NEW j \in 1..Count', Received'[j].src = d
          PROVE  Begins(d, 1, j)' \/ AnswerGoesOn(Received'[j])
      <3>1. CASE j \in 1..n
        <4>1. Received'[j] = Received[j]
          BY <3>1, <1>7, <1>n
        <4>2. Begins(d, 1, j) => Begins(d, 1, j)'
          BY <3>1, <1>7, <1>n, <1>13
        <4> QED
          BY <2>3, <2>8, <3>1, <4>1, <4>2, <1>n
      <3>2. CASE j \notin 1..n
        <4>1. ~RecFull /\ j = n + 1 /\ Received'[j] = part /\ d = b
          BY <2>8, <3>2, <1>6, <1>7, <1>n
        <4>2. CASE r.id = 0
          BY <4>1, <4>2, <1>6, <1>n DEF Begins
        <4>3. CASE Begins(d, 1, n)
          BY <4>1, <4>3, <1>7, <1>n, <1>13
        <4>4. CASE r.id # 0 /\ ~Begins(d, 1, n)
          <5>1. AnswerGoesOn(r)
            BY <4>1, <4>4, <2>3, <1>3, <1>4, <1>n
          <5> QED
            BY <5>1, <4>1, <2>5, <1>6
        <4> QED
          BY <4>2, <4>3, <4>4
      <3> QED
        BY <3>1, <3>2
    <2>9. \/ Begins(d, 1, Count)' \/ bus'[d] = << >>
          \/ bus'[d][1].id = 0 \/ AnswerGoesOn(bus'[d][1])
      <3>1. CASE d # b
        BY <3>1, <2>3, <2>7, <1>3, <1>n
      <3>2. CASE d = b
        <4>1. CASE Begins(d, 1, n)
          BY <4>1, <2>7
        <4>2. CASE r.id = 0
          <5>1. ~RecFull /\ Received'[n + 1] = part /\ Count' = n + 1
            BY <4>2, <1>7, <1>8, <1>n
          <5> QED
            BY <3>2, <4>2, <5>1, <1>6 DEF Begins
        <4>3. CASE r.id # 0 /\ ~Begins(d, 1, n)
          <5>1. AnswerGoesOn(r)
            BY <3>2, <4>3, <2>3, <1>3, <1>4, <1>n
          <5> QED
            BY <5>1, <3>2, <2>4, <2>5, <1>3, <1>4, <1>9
        <4> QED
          BY <4>1, <4>2, <4>3
      <3> QED
        BY <3>1, <3>2
    <2> QED
      BY <2>8, <2>9
  <1>16. BeginningOfAnswer' /\ DeliveredWhole'
    BY <1>1, <1>2 DEF InOrder, BeginningOfAnswer, DeliveredWhole, WholeResponse
  <1> QED
    BY <1>3, <1>14, <1>15, <1>16 DEF InOrder

\* A frame of a stranger changes nothing for the boards.
LEMMA OrderStranger ==
    ASSUME RxTypeOK, OrderInv, NEW s \in Strangers, StrangerFrame(s)
    PROVE  OrderInv'
  <1> SUFFICES ASSUME ~headLost' PROVE InOrder' /\ DeliveredWhole'
    BY DEF OrderInv
  <1>1. UNCHANGED <<bus, asm, done, headLost>> /\ InOrder /\ DeliveredWhole
    BY DEF StrangerFrame, OrderInv
  <1>2. PICK part \in Parts : part.src = s /\ Push(part)
    <2>1. [src |-> s, req |-> 0, id |-> 0, last |-> TRUE] \in Parts
      BY DEF Parts, Sources
    <2> QED
      BY <2>1 DEF StrangerFrame
  <1>3. PICK n \in Nat : n = Count
    BY RecFields
  <1>4. /\ \A k \in 1..n : Received'[k] = Received[k]
        /\ \A k \in 1..n : Received[k] \in Parts
        /\ \/ Count' = n
           \/ Count' = n + 1 /\ Received'[n + 1] = part
    BY <1>2, <1>3, FramePushed, RecFields
  <1>5. \A k \in 1..Count' : Received'[k].src \in Boards => k \in 1..n
    BY <1>2, <1>4, SourcesAssumption
  <1>6. /\ \A d, i : \A j \in 1..n : i \in Nat \ {0} => (Begins(d, i, j) => Begins(d, i, j)')
        /\ \A d : \A i \in Nat \ {0} : Begins(d, i, n) => Begins(d, i, Count)'
    BY <1>4 DEF Begins
  <1>7. ReceivedInOrder'
    <2>1. SUFFICES ASSUME NEW i \in 1..Count', Received'[i].src \in Boards, NEW p \in Parts,
                          p = Received'[i]
                   PROVE  /\ \A j \in i+1..Count' : Received'[j].src = p.src =>
                                 Begins(p.src, i+1, j)' \/ GoesOn(Received'[j], p.req, p.id, p.last)
                          /\ Begins(p.src, i+1, Count)' \/ BusFollows(p.src, p.req, p.id, p.last)'
      <3>1. \A k \in 1..Count' : Received'[k].src \in Boards => Received'[k] \in Parts
        BY <1>4, <1>5
      <3> QED
        BY <3>1 DEF ReceivedInOrder
    <2>2. i \in 1..n /\ p = Received[i] /\ p.src \in Boards
      BY <2>1, <1>4, <1>5
    <2>3. /\ \A j \in i+1..n : Received[j].src = p.src =>
                Begins(p.src, i+1, j) \/ GoesOn(Received[j], p.req, p.id, p.last)
          /\ Begins(p.src, i+1, n) \/ BusFollows(p.src, p.req, p.id, p.last)
      BY <2>2, <1>1, <1>3 DEF InOrder, ReceivedInOrder
    <2>4. BusFollows(p.src, p.req, p.id, p.last)' = BusFollows(p.src, p.req, p.id, p.last)
      BY <1>1 DEF BusFollows
    <2>5. ASSUME NEW j \in i+1..Count', Received'[j].src = p.src
          PROVE  Begins(p.src, i+1, j)' \/ GoesOn(Received'[j], p.req, p.id, p.last)
      <3>1. j \in 1..n /\ j \in i+1..n /\ i + 1 \in Nat \ {0}
        BY <2>2, <2>5, <1>4, <1>5
      <3> QED
        BY <3>1, <2>3, <2>5, <1>4, <1>6
    <2>6. Begins(p.src, i+1, n) => Begins(p.src, i+1, Count)'
      BY <2>2, <1>6
    <2> QED
      BY <2>3, <2>4, <2>5, <2>6
  <1>8. AsmFollowed'
    <2>1. SUFFICES ASSUME NEW d \in Boards, d = asm.src
                   PROVE  /\ \A j \in 1..Count' : Received'[j].src = d =>
                                Begins(d, 1, j)' \/ AnswerGoesOn(Received'[j])
                          /\ \/ Begins(d, 1, Count)' \/ bus[d] = << >>
                             \/ bus[d][1].id = 0 \/ AnswerGoesOn(bus[d][1])
      BY <1>1 DEF AsmFollowed, AnswerGoesOn
    <2>2. /\ \A j \in 1..n : Received[j].src = d => Begins(d, 1, j) \/ AnswerGoesOn(Received[j])
          /\ \/ Begins(d, 1, n) \/ bus[d] = << >>
             \/ bus[d][1].id = 0 \/ AnswerGoesOn(bus[d][1])
      BY <2>1, <1>1, <1>3 DEF InOrder, AsmFollowed
    <2> QED
      BY <2>2, <1>4, <1>5, <1>6
  <1> QED
    BY <1>1, <1>7, <1>8
       DEF InOrder, BusInOrder, BeginningOfAnswer, DeliveredWhole, WholeResponse

\* A board that got the last frame of a request has an answer to send, which
\* begins with its first frame.
LEMMA OrderSend ==
    ASSUME TxInv, RxTypeOK, OrderInv, NEW taken \in BOOLEAN, SendTask(taken)
    PROVE  OrderInv'
  <1> SUFFICES ASSUME ~headLost' PROVE InOrder' /\ DeliveredWhole'
    BY DEF OrderInv
  <1>1. UNCHANGED <<rec, asm, done, headLost>> /\ InOrder /\ DeliveredWhole
    BY DEF SendTask, OrderInv
  <1>2. \A b \in Boards : \/ bus'[b] = bus[b]
                          \/ \E a \in Pending : a.id = 0 /\ a.id < a.len /\ bus'[b] = Append(bus[b], a)
    <2>1. CASE bus' = bus
      BY <2>1
    <2>2. CASE \E m \in Replies :
                 bus' = [bus EXCEPT ![Dest[out'.req]] =
                           Append(bus[Dest[out'.req]],
                                  [req |-> out'.req, id |-> 0, len |-> m])]
      <3>1. PICK m \in Replies :
                 bus' = [bus EXCEPT ![Dest[out'.req]] =
                           Append(bus[Dest[out'.req]],
                                  [req |-> out'.req, id |-> 0, len |-> m])]
        BY <2>2
      <3>2. out' \in Frames
        BY TxSend DEF TxInv, TxTypeOK
      <3>3. PICK a \in Pending : a = [req |-> out'.req, id |-> 0, len |-> m] /\ a.id = 0 /\ a.id < a.len
        <4>1. [req |-> out'.req, id |-> 0, len |-> m] \in Pending /\ 0 < m
          BY <3>2, LengthsAssumption DEF Pending, Frames
        <4> QED
          BY <4>1
      <3>4. \A b \in Boards : bus'[b] = IF b = Dest[out'.req] THEN Append(bus[b], a) ELSE bus[b]
        BY <3>1, <3>3 DEF RxTypeOK
      <3> QED
        BY <3>3, <3>4
    <2> QED
      BY <2>1, <2>2 DEF SendTask, Answer
  <1>3. \A b \in Boards :
           /\ \A i \in 1..Len(bus'[b]) : bus'[b][i].id < bus'[b][i].len /\ (i > 1 => bus'[b][i].id = 0)
           /\ bus[b] = << >> => bus'[b] = << >> \/ bus'[b][1].id = 0
           /\ bus[b] # << >> => bus'[b] # << >> /\ bus'[b][1] = bus[b][1]
    <2> TAKE b \in Boards
    <2>1. PICK q \in Seq(Pending) : q = bus[b]
      BY DEF RxTypeOK, Pending
    <2>2. \A i \in 1..Len(q) : q[i].id < q[i].len /\ (i > 1 => q[i].id = 0)
      BY <2>1, <1>1 DEF InOrder, BusInOrder
    <2>3. q = << >> \/ (q # << >> /\ Len(q) > 0)
      BY <2>1
    <2>4. CASE bus'[b] = bus[b]
      BY <2>1, <2>2, <2>4
    <2>5. CASE \E a \in Pending : a.id = 0 /\ a.id < a.len /\ bus'[b] = Append(bus[b], a)
      <3>1. PICK a \in Pending : a.id = 0 /\ a.id < a.len /\ bus'[b] = Append(q, a)
        BY <2>1, <2>5
      <3>2. PICK z \in Seq(Pending) : z = Append(q, a)
        <4>1. Append(q, a) \in Seq(Pending)
          BY <2>1, <3>1
        <4> QED
          BY <4>1
      <3>3. /\ Len(z) = Len(q) + 1 /\ z[Len(q) + 1] = a
            /\ \A i \in 1..Len(q) : z[i] = q[i]
        BY <3>2
      <3>4. z # << >> /\ Len(q) \in Nat /\ (q = << >> => Len(q) = 0)
        BY <3>3
      <3>5. \A i \in 1..Len(z) : i \in 1..Len(q) \/ i = Len(q) + 1
        BY <3>3, <3>4
      <3>6. \A i \in 1..Len(z) : z[i].id < z[i].len /\ (i > 1 => z[i].id = 0)
        BY <3>1, <3>3, <3>5, <2>2
      <3> QED
        BY <2>1, <2>3, <3>1, <3>2, <3>3, <3>4, <3>6
    <2> QED
      BY <2>4, <2>5, <1>2
  <1>4. BusInOrder'
    BY <1>3 DEF BusInOrder
  <1>5. Count' = Count /\ Received' = Received
    <2>1. Count' = Count /\ \A k : SlotAt(k)' = SlotAt(k)
      BY <1>1 DEF Count, SlotAt
    <2> QED
      BY <1>1, <2>1 DEF Received
  <1>6. ReceivedInOrder'
    <2>1. \A req, id, last : \A d \in Boards : BusFollows(d, req, id, last) => BusFollows(d, req, id, last)'
      BY <1>3 DEF BusFollows
    <2> QED
      BY <1>1, <1>5, <2>1 DEF InOrder, ReceivedInOrder, Begins
  <1>7. AsmFollowed'
    BY <1>1, <1>3, <1>5 DEF InOrder, AsmFollowed, AnswerGoesOn, Begins
  <1> QED
    BY <1>1, <1>4, <1>6, <1>7 DEF InOrder, BeginningOfAnswer, DeliveredWhole, WholeResponse

LEMMA AsmExtended ==
    ASSUME NEW A \in [src : Sources, expect : Nat, parts : Seq(Parts)],
           NEW e \in Nat, NEW q \in Seq(Parts),
           NEW T, T = [A EXCEPT !.expect = e, !.parts = q]
    PROVE  /\ T \in [src : Sources, expect : Nat, parts : Seq(Parts)]
           /\ T.src = A.src /\ T.expect = e /\ T.parts = q
  <1> DEFINE Qs == Seq(Parts)
  <1>1. A \in [src : Sources, expect : Nat, parts : Qs] /\ q \in Qs
    OBVIOUS
  <1> HIDE DEF Qs
  <1>2. /\ T \in [src : Sources, expect : Nat, parts : Qs]
        /\ T.src = A.src /\ T.expect = e /\ T.parts = q
    BY <1>1
  <1> QED
    BY <1>2 DEF Qs

\* The loop looks at the next frame received: it begins an answer, is the next
\* of the answer being put together, or is left out.
LEMMA OrderPutTogether ==
    ASSUME RxTypeOK, OrderInv, PutTogether
    PROVE  OrderInv'
  <1> SUFFICES ASSUME ~headLost' PROVE InOrder' /\ DeliveredWhole'
    BY DEF OrderInv
  <1>1. /\ bus' = bus /\ headLost' = headLost /\ InOrder /\ DeliveredWhole
        /\ rec.rd # rec.wr /\ rec' = [rec EXCEPT !.rd = NextSlot(rec.rd, RecSlots)]
    BY DEF PutTogether, OrderInv
  <1>2. PICK n \in Nat : n = Count
    BY RecFields
  <1>3. /\ n > 0 /\ Count' = n - 1
        /\ \A k \in 1..n - 1 : Received'[k] = Received[k + 1]
        /\ \A k \in 1..n : Received[k] \in Parts
        /\ Received[1] = rec.slot[rec.rd]
    BY <1>1, <1>2, FrameTaken, RecFields
  <1>4. PICK part \in Parts : part = rec.slot[rec.rd] /\ part = Received[1]
    BY <1>3, <1>2
  \* What begins among the frames from the second on begins one place earlier.
  <1>5. \A d : \A i, j \in 1..n : Begins(d, i, j) /\ i > 1 => \A k \in {j - 1} : \A h \in {i - 1} : Begins(d, h, k)'
    <2> SUFFICES ASSUME NEW d, NEW i \in 1..n, NEW j \in 1..n, i > 1, Begins(d, i, j),
                        NEW h \in {i - 1}, NEW k \in {j - 1}
                 PROVE  Begins(d, h, k)'
      OBVIOUS
    <2>1. PICK x \in i..j : Received[x].src = d /\ Received[x].id = 0
      BY DEF Begins
    <2>2. x - 1 \in h..k /\ x - 1 \in 1..n - 1 /\ Received'[x - 1] = Received[x]
      BY <2>1, <1>3
    <2> QED
      BY <2>1, <2>2 DEF Begins
  <1>6. ReceivedInOrder'
    <2>1. SUFFICES ASSUME NEW i \in 1..n - 1, NEW p \in Parts, p = Received'[i], p.src \in Boards
                   PROVE  /\ \A j \in i+1..n - 1 : Received'[j].src = p.src =>
                                 Begins(p.src, i+1, j)' \/ GoesOn(Received'[j], p.req, p.id, p.last)
                          /\ Begins(p.src, i+1, n - 1)' \/ BusFollows(p.src, p.req, p.id, p.last)'
      <3>1. \A k \in 1..n - 1 : k + 1 \in 1..n /\ Received'[k] \in Parts
        BY <1>3
      <3> QED
        BY <3>1, <1>3 DEF ReceivedInOrder
    <2>2. i + 1 \in 1..n /\ i + 2 \in Nat /\ p = Received[i + 1]
      BY <2>1, <1>3
    <2>3. /\ \A j \in i+2..n : Received[j].src = p.src =>
                Begins(p.src, i+2, j) \/ GoesOn(Received[j], p.req, p.id, p.last)
          /\ Begins(p.src, i+2, n) \/ BusFollows(p.src, p.req, p.id, p.last)
      <3>1. \A x \in 1..n : Received[x].src \in Boards =>
               /\ \A j \in x+1..n : Received[j].src = Received[x].src =>
                     \/ Begins(Received[x].src, x+1, j)
                     \/ GoesOn(Received[j], Received[x].req, Received[x].id, Received[x].last)
               /\ \/ Begins(Received[x].src, x+1, n)
                  \/ BusFollows(Received[x].src, Received[x].req, Received[x].id, Received[x].last)
        BY <1>1, <1>2 DEF InOrder, ReceivedInOrder
      <3>2. i + 1 + 1 = i + 2
        OBVIOUS
      <3> QED
        BY <2>1, <2>2, <3>1, <3>2
    <2>4. \A j \in i+2..n : Begins(p.src, i+2, j) => \A k \in {j - 1} : Begins(p.src, i+1, k)'
      <3>1. \A j \in i+2..n : i + 2 \in 1..n /\ j \in 1..n /\ i + 2 > 1 /\ i + 1 \in {(i + 2) - 1}
        BY <2>2
      <3> QED
        BY <3>1, <1>5
    <2>5. Begins(p.src, i+2, n) => Begins(p.src, i+1, n - 1)'
      <3>1. Begins(p.src, i+2, n) => n \in i+2..n
        BY <2>2 DEF Begins
      <3> QED
        BY <3>1, <2>4
    <2>6. BusFollows(p.src, p.req, p.id, p.last)' = BusFollows(p.src, p.req, p.id, p.last)
      BY <1>1 DEF BusFollows
    <2>7. ASSUME NEW j \in i+1..n - 1, Received'[j].src = p.src
          PROVE  Begins(p.src, i+1, j)' \/ GoesOn(Received'[j], p.req, p.id, p.last)
      <3>1. j + 1 \in i+2..n /\ Received'[j] = Received[j + 1] /\ j \in {(j + 1) - 1}
        BY <1>3
      <3> QED
        BY <3>1, <2>3, <2>4, <2>7
    <2> QED
      BY <2>3, <2>5, <2>6, <2>7
  <1>7. BusInOrder'
    BY <1>1 DEF InOrder, BusInOrder
  <1>8. asm \in [src : Sources, expect : Nat, parts : Seq(Parts)]
    BY DEF RxTypeOK
  <1>9. PICK ps \in Seq(Parts) : ps = asm.parts
    BY <1>8
  <1>10. PICK one \in Seq(Parts) : /\ one = <<part>> /\ Len(one) = 1 /\ one[1] = part
                                   /\ one # << >>
    <2>1. <<part>> \in Seq(Parts) /\ Len(<<part>>) = 1 /\ <<part>>[1] = part /\ <<part>> # << >>
      OBVIOUS
    <2> QED
      BY <2>1
  <1>11. PICK more \in Seq(Parts) :
            /\ more = Append(ps, part) /\ Len(more) = Len(ps) + 1 /\ more # << >>
            /\ more[Len(ps) + 1] = part /\ \A i \in 1..Len(ps) : more[i] = ps[i]
    <2>1. Append(ps, part) \in Seq(Parts)
      BY <1>9
    <2>2. PICK q \in Seq(Parts) : q = Append(ps, part)
      BY <2>1
    <2>3. Len(q) = Len(ps) + 1 /\ q[Len(ps) + 1] = part /\ \A i \in 1..Len(ps) : q[i] = ps[i]
      BY <1>9, <2>2
    <2>4. q # << >>
      BY <1>9, <2>3
    <2> QED
      BY <2>2, <2>3, <2>4
  <1>12. /\ Starts(part) =>
              /\ asm'.src = part.src /\ asm'.expect = 1
              /\ asm'.parts = IF part.last THEN << >> ELSE one
              /\ done' = IF part.last THEN one ELSE done
         /\ Continues(part) =>
              /\ asm'.src = asm.src /\ asm'.expect = asm.expect + 1
              /\ asm'.parts = IF part.last THEN << >> ELSE more
              /\ done' = IF part.last THEN more ELSE done
         /\ ~Starts(part) /\ ~Continues(part) => asm' = asm /\ done' = done
    <2>1. /\ asm' = IF (Starts(part) \/ Continues(part)) /\ part.last
                    THEN [Assembled(part) EXCEPT !.parts = << >>] ELSE Assembled(part)
          /\ done' = IF (Starts(part) \/ Continues(part)) /\ part.last
                     THEN Assembled(part).parts ELSE done
      BY <1>4 DEF PutTogether
    <2>2. Starts(part) => Assembled(part) = [src |-> part.src, expect |-> 1, parts |-> one]
      BY <1>10 DEF Assembled
    <2>3. Continues(part) => /\ ~Starts(part)
                             /\ Assembled(part) = [src |-> asm.src, expect |-> asm.expect + 1, parts |-> more]
      <3>1. Continues(part) => ~Starts(part)
        BY DEF Starts, Continues
      <3>2. [asm EXCEPT !.expect = asm.expect + 1, !.parts = more]
              = [src |-> asm.src, expect |-> asm.expect + 1, parts |-> more]
        <4>1. asm.expect + 1 \in Nat
          BY <1>8
        <4>2. PICK T : T = [asm EXCEPT !.expect = asm.expect + 1, !.parts = more]
          OBVIOUS
        <4>3. /\ T \in [src : Sources, expect : Nat, parts : Seq(Parts)]
              /\ T.src = asm.src /\ T.expect = asm.expect + 1 /\ T.parts = more
          BY <1>8, <1>11, <4>1, <4>2, AsmExtended
        <4> QED
          BY <4>2, <4>3
      <3>3. Continues(part) => Assembled(part) = [asm EXCEPT !.expect = asm.expect + 1, !.parts = more]
        BY <3>1, <1>9, <1>11 DEF Assembled
      <3> QED
        BY <3>1, <3>2, <3>3
    <2>4. ~Starts(part) /\ ~Continues(part) => Assembled(part) = asm
      BY DEF Assembled
    <2>5. CASE Starts(part)
      BY <2>1, <2>2, <2>3, <2>5
    <2>6. CASE Continues(part)
      BY <2>1, <2>3, <2>6
    <2>7. CASE ~Starts(part) /\ ~Continues(part)
      BY <2>1, <2>4, <2>7
    <2> QED
      BY <2>5, <2>6, <2>7
  <1>13. /\ part.src \in Sources /\ part.req \in Nat /\ part.id \in Nat /\ part.last \in BOOLEAN
         /\ asm.expect \in Nat /\ Len(ps) \in Nat /\ (ps # << >> => Len(ps) > 0 /\ 1 \in 1..Len(ps))
    BY <1>8, <1>9 DEF Parts
  <1>14. asm.src \in Boards =>
            /\ \A j \in 1..n : Received[j].src = asm.src =>
                  Begins(asm.src, 1, j) \/ AnswerGoesOn(Received[j])
            /\ \/ Begins(asm.src, 1, n)
               \/ bus[asm.src] = << >> \/ bus[asm.src][1].id = 0 \/ AnswerGoesOn(bus[asm.src][1])
    BY <1>1, <1>2 DEF InOrder, AsmFollowed
  <1>15. \A d : Begins(d, 1, 1) => part.src = d /\ part.id = 0
    BY <1>4 DEF Begins
  <1>16. Continues(part) => /\ part.src = asm.src /\ part.src \in Boards /\ part.id = asm.expect
                            /\ ps # << >> /\ part.req = ps[1].req
    <2> SUFFICES ASSUME Continues(part)
                 PROVE  /\ part.src = asm.src /\ part.src \in Boards /\ part.id = asm.expect
                        /\ ps # << >> /\ part.req = ps[1].req
      OBVIOUS
    <2>1. part.src = asm.src /\ part.src \in Boards /\ part.id = asm.expect /\ part.id # 0
      BY DEF Continues
    <2>2. AnswerGoesOn(part)
      BY <2>1, <1>3, <1>4, <1>14, <1>15
    <2> QED
      BY <2>1, <2>2, <1>9 DEF AnswerGoesOn
  <1>17. Starts(part) => part.src \in Boards /\ part.id = 0
    BY DEF Starts
  <1>18. ps # << >> => /\ asm.expect = Len(ps)
                       /\ \A i \in 1..Len(ps) : /\ ps[i].id = i - 1 /\ ps[i].src = asm.src
                                                /\ ps[i].req = ps[1].req /\ ~ps[i].last
    BY <1>1, <1>9 DEF InOrder, BeginningOfAnswer
  \* The answer with this frame.
  <1>19. /\ Continues(part) =>
               \A i \in 1..Len(more) : /\ more[i].id = i - 1 /\ more[i].src = asm.src
                                       /\ more[i].req = more[1].req /\ more[1].req = part.req
                                       /\ more[i].last <=> (i = Len(more) /\ part.last)
    <2> SUFFICES ASSUME Continues(part), NEW i \in 1..Len(more)
                 PROVE  /\ more[i].id = i - 1 /\ more[i].src = asm.src
                        /\ more[i].req = more[1].req /\ more[1].req = part.req
                        /\ more[i].last <=> (i = Len(more) /\ part.last)
      OBVIOUS
    <2>1. more[1] = ps[1] /\ part.req = ps[1].req
      BY <1>11, <1>13, <1>16
    <2>2. CASE i \in 1..Len(ps)
      BY <2>1, <2>2, <1>11, <1>13, <1>16, <1>18
    <2>3. CASE i = Len(ps) + 1
      BY <2>1, <2>3, <1>11, <1>13, <1>16, <1>18
    <2> QED
      BY <2>2, <2>3, <1>11, <1>13
  <1>20. BeginningOfAnswer'
    <2>1. CASE Starts(part)
      <3>1. part.last => asm'.parts = << >>
        BY <2>1, <1>12
      <3>2. ~part.last => /\ asm'.parts = one /\ asm'.expect = 1 /\ asm'.src = part.src
        BY <2>1, <1>12
      <3>3. \A i \in 1..Len(one) : i = 1 /\ one[i] = part
        BY <1>10
      <3>4. CASE part.last
        BY <3>1, <3>4 DEF BeginningOfAnswer
      <3>5. CASE ~part.last
        <4>1. asm'.expect = Len(asm'.parts)
          BY <3>2, <3>5, <1>10
        <4>2. \A i \in 1..Len(one) : /\ one[i].id = i - 1 /\ one[i].src = asm'.src
                                      /\ one[i].req = one[1].req /\ ~one[i].last
          BY <2>1, <3>2, <3>3, <3>5, <1>10, <1>17
        <4> QED
          BY <4>1, <4>2, <3>2, <3>5 DEF BeginningOfAnswer
      <3> QED
        BY <3>4, <3>5, <1>13
    <2>2. CASE Continues(part)
      <3>1. part.last => asm'.parts = << >>
        BY <2>2, <1>12
      <3>2. ~part.last => /\ asm'.parts = more /\ asm'.expect = asm.expect + 1 /\ asm'.src = asm.src
        BY <2>2, <1>12
      <3>3. asm.expect + 1 = Len(more)
        BY <2>2, <1>11, <1>16, <1>18
      <3> QED
        BY <2>2, <3>1, <3>2, <3>3, <1>13, <1>19 DEF BeginningOfAnswer
    <2>3. CASE ~Starts(part) /\ ~Continues(part)
      <3>1. asm' = asm
        BY <2>3, <1>12
      <3> QED
        BY <3>1, <1>1 DEF InOrder, BeginningOfAnswer
    <2> QED
      BY <2>1, <2>2, <2>3
  <1>21. DeliveredWhole'
    <2>1. CASE done' = done
      BY <2>1, <1>1 DEF DeliveredWhole, WholeResponse
    <2>2. CASE Starts(part) /\ part.last
      <3>1. done' = one
        BY <2>2, <1>12
      <3>2. WholeResponse(one)
        BY <2>2, <1>10, <1>13, <1>17 DEF WholeResponse
      <3> QED
        BY <3>1, <3>2 DEF DeliveredWhole, WholeResponse
    <2>3. CASE Continues(part) /\ part.last
      <3>1. done' = more
        BY <2>3, <1>12
      <3>2. 1 \in 1..Len(more)
        BY <1>11, <1>13
      <3>3. WholeResponse(more)
        BY <2>3, <3>2, <1>11, <1>19 DEF WholeResponse
      <3> QED
        BY <3>1, <3>3 DEF DeliveredWhole, WholeResponse
    <2> QED
      BY <2>1, <2>2, <2>3, <1>12
  \* A frame that is taken is followed by those of its board; if it is left out,
  \* what followed goes on to follow.
  <1>22. AsmFollowed'
    <2>1. SUFFICES ASSUME NEW d \in Boards, d = asm'.src
                   PROVE  /\ \A j \in 1..n - 1 : Received'[j].src = d =>
                                Begins(d, 1, j)' \/ AnswerGoesOn(Received[j])'
                          /\ \/ Begins(d, 1, n - 1)' \/ bus[d] = << >>
                             \/ bus[d][1].id = 0 \/ AnswerGoesOn(bus[d][1])'
      BY <1>1, <1>3 DEF AsmFollowed
    <2>2. \A j \in 2..n : Begins(d, 2, j) => Begins(d, 1, j - 1)'
      <3>1. \A j \in 2..n : j \in 1..n /\ 2 \in 1..n /\ 2 > 1 /\ 1 \in {2 - 1} /\ j - 1 \in {j - 1}
        BY <1>3
      <3> QED
        BY <3>1, <1>5
    <2>3. Begins(d, 2, n) => Begins(d, 1, n - 1)'
      <3>1. Begins(d, 2, n) => n \in 2..n
        BY <1>3 DEF Begins
      <3> QED
        BY <3>1, <2>2
    <2>4. CASE Starts(part) \/ Continues(part)
      <3>1. /\ d = part.src /\ asm'.expect = part.id + 1
            /\ ~part.last => asm'.parts # << >> /\ asm'.parts[1].req = part.req
        <4>1. CASE Starts(part)
          BY <4>1, <2>1, <1>10, <1>12, <1>13, <1>17
        <4>2. CASE Continues(part)
          <5>1. 1 \in 1..Len(more) /\ more # << >>
            BY <1>11, <1>13
          <5>2. more[1].req = part.req
            BY <4>2, <5>1, <1>19
          <5> QED
            BY <4>2, <5>1, <5>2, <2>1, <1>12, <1>13, <1>16
        <4> QED
          BY <2>4, <4>1, <4>2
      <3>2. /\ \A j \in 2..n : Received[j].src = d =>
                  Begins(d, 2, j) \/ GoesOn(Received[j], part.req, part.id, part.last)
            /\ Begins(d, 2, n) \/ BusFollows(d, part.req, part.id, part.last)
        <4>1. 1 \in 1..n
          BY <1>3
        <4>2. /\ \A j \in 1+1..n : Received[j].src = Received[1].src =>
                    \/ Begins(Received[1].src, 1+1, j)
                    \/ GoesOn(Received[j], Received[1].req, Received[1].id, Received[1].last)
              /\ \/ Begins(Received[1].src, 1+1, n)
                 \/ BusFollows(Received[1].src, Received[1].req, Received[1].id, Received[1].last)
          BY <4>1, <3>1, <1>1, <1>2, <1>4 DEF InOrder, ReceivedInOrder
        <4>3. 1 + 1 = 2
          OBVIOUS
        <4> QED
          BY <4>2, <4>3, <3>1, <1>4
      <3>3. /\ \A j \in 2..n : GoesOn(Received[j], part.req, part.id, part.last) =>
                  /\ asm'.parts # << >> /\ Received[j].req = asm'.parts[1].req
                  /\ Received[j].id >= asm'.expect
        <4>1. \A j \in 2..n : j \in 1..n /\ Received[j].id \in Nat
          BY <1>3 DEF Parts
        <4> QED
          BY <4>1, <3>1, <1>13 DEF GoesOn
      <3>4. ASSUME NEW j \in 1..n - 1, Received'[j].src = d
            PROVE  Begins(d, 1, j)' \/ AnswerGoesOn(Received[j])'
        <4>1. j + 1 \in 2..n /\ Received'[j] = Received[j + 1] /\ j + 1 - 1 = j
          BY <1>3
        <4>2. CASE Begins(d, 2, j + 1)
          BY <4>1, <4>2, <2>2
        <4>3. CASE GoesOn(Received[j + 1], part.req, part.id, part.last)
          BY <4>1, <4>3, <3>3 DEF AnswerGoesOn
        <4> QED
          BY <4>1, <4>2, <4>3, <3>2, <3>4
      <3>5. BusFollows(d, part.req, part.id, part.last) =>
               \/ bus[d] = << >> \/ bus[d][1].id = 0 \/ AnswerGoesOn(bus[d][1])'
        <4>1. bus[d] # << >> => bus[d][1].id \in Nat
          <5>1. bus[d] \in Seq(Pending)
            BY DEF RxTypeOK, Pending
          <5>2. bus[d] # << >> => bus[d][1] \in Pending
            BY <5>1
          <5> QED
            BY <5>2 DEF Pending
        <4>2. SUFFICES ASSUME bus[d] # << >>, GoesOn(bus[d][1], part.req, part.id, part.last)
                       PROVE  AnswerGoesOn(bus[d][1])'
          BY DEF BusFollows
        <4>3. /\ asm'.parts # << >> /\ bus[d][1].req = asm'.parts[1].req
              /\ bus[d][1].id >= asm'.expect
          BY <4>1, <4>2, <3>1, <1>13 DEF GoesOn
        <4> QED
          BY <4>3, <1>1 DEF AnswerGoesOn
      <3> QED
        BY <3>2, <3>4, <3>5, <2>3
    <2>5. CASE ~Starts(part) /\ ~Continues(part)
      <3>1. asm' = asm /\ d = asm.src
        BY <2>1, <2>5, <1>12
      <3>2. ~(part.src = d /\ part.id = 0)
        BY <2>5 DEF Starts
      <3>3. \A j \in 1..n : Begins(d, 1, j) => j \in 2..n /\ Begins(d, 2, j)
        <4> SUFFICES ASSUME NEW j \in 1..n, Begins(d, 1, j) PROVE j \in 2..n /\ Begins(d, 2, j)
          OBVIOUS
        <4>1. PICK x \in 1..j : Received[x].src = d /\ Received[x].id = 0
          BY DEF Begins
        <4>2. x # 1
          BY <4>1, <3>2, <1>4
        <4> QED
          BY <4>1, <4>2 DEF Begins
      <3>4. /\ \A j \in 1..n : Received[j].src = d => Begins(d, 1, j) \/ AnswerGoesOn(Received[j])
            /\ \/ Begins(d, 1, n)
               \/ bus[d] = << >> \/ bus[d][1].id = 0 \/ AnswerGoesOn(bus[d][1])
        BY <3>1, <1>14
      <3>5. \A x : AnswerGoesOn(x) <=> asm.parts # << >> /\ x.req = asm.parts[1].req /\ x.id >= asm.expect
        BY DEF AnswerGoesOn
      <3>6. ASSUME NEW j \in 1..n - 1, Received'[j].src = d
            PROVE  Begins(d, 1, j)' \/ AnswerGoesOn(Received[j])'
        <4>1. j + 1 \in 2..n /\ j + 1 \in 1..n /\ Received'[j] = Received[j + 1] /\ j + 1 - 1 = j
          BY <1>3
        <4>2. CASE Begins(d, 1, j + 1)
          BY <4>1, <4>2, <2>2, <3>3
        <4>3. CASE AnswerGoesOn(Received[j + 1])
          BY <4>1, <4>3, <3>1, <3>5 DEF AnswerGoesOn
        <4> QED
          BY <4>1, <4>2, <4>3, <3>4, <3>6
      <3>7. \/ Begins(d, 1, n - 1)' \/ bus[d] = << >>
            \/ bus[d][1].id = 0 \/ AnswerGoesOn(bus[d][1])'
        <4>1. CASE Begins(d, 1, n)
          BY <4>1, <2>3, <3>3, <1>3
        <4>2. CASE AnswerGoesOn(bus[d][1])
          BY <4>2, <3>1, <1>1 DEF AnswerGoesOn
        <4> QED
          BY <4>1, <4>2, <3>4
      <3> QED
        BY <3>6, <3>7
    <2> QED
      BY <2>4, <2>5
  <1> QED
    BY <1>6, <1>7, <1>20, <1>21, <1>22 DEF InOrder

LEMMA OrderStep ==
    ASSUME TxInv, RxTypeOK, OrderInv, [Next]_vars
    PROVE  OrderInv'
  <1>1. ASSUME UNCHANGED rx PROVE OrderInv'
    <2>1. UNCHANGED <<bus, rec, asm, done, headLost>>
      BY <1>1 DEF rx
    <2>2. Count' = Count /\ \A k : SlotAt(k)' = SlotAt(k)
      BY <2>1 DEF Count, SlotAt
    <2>3. Received' = Received
      BY <2>1, <2>2 DEF Received
    <2>4. InOrder => InOrder'
      BY <2>1, <2>2, <2>3 DEF InOrder, BusInOrder, ReceivedInOrder, AsmFollowed,
         BeginningOfAnswer, Begins, BusFollows, GoesOn, AnswerGoesOn
    <2> QED
      BY <2>1, <2>4 DEF OrderInv, DeliveredWhole, WholeResponse
  <1>2. ASSUME NEW l \in Lengths, TransferUpgradeData(l) PROVE OrderInv'
    BY <1>1, <1>2 DEF TransferUpgradeData
  <1>3. CASE UNCHANGED vars
    BY <1>1, <1>3 DEF vars
  <1> QED
    BY <1>2, <1>3, OrderSend, OrderBoardFrame, OrderStranger, OrderPutTogether DEF Next

\* What is handed to TFTP is one whole answer of one board, for every size of
\* the ring and any number of boards that talk at the same time, as long as no
\* first frame of an answer met the full ring.
THEOREM AnswersDeliveredWhole == Spec => []DeliveredWhole
  <1> DEFINE Inv == TxInv /\ RxTypeOK /\ OrderInv
  <1>1. Init => Inv
    BY TxInit, RxInit, OrderInit
  <1>2. Inv /\ [Next]_vars => Inv'
    BY TxStep, RxStep, OrderStep
  <1>3. Inv => DeliveredWhole
    BY DEF OrderInv, DeliveredWhole
  <1> QED
    BY <1>1, <1>2, <1>3, PTL DEF Spec
==============================================================================
