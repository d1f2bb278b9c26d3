--------------------------- MODULE SyncTime_proofs ---------------------------
(***************************************************************************)
(* For every mode, every kind of frame and all thresholds in the order of  *)
(* the code's: the FPGA is never told that a lost source is valid, and the *)
(* time is never shown as following a source that is not followed.  The    *)
(* hard interrupt may come between any two steps of the background; it     *)
(* never leaves a state shown as followed without following, so the proof  *)
(* is about what the background has read before it and writes after it.    *)
(***************************************************************************)
EXTENDS SyncTime, TLAPS

States == {"Lose", "Follow", "Keeping"}
Sources == [alive : BOOLEAN, not_rec : 0 .. NeverWait, cont : 0 .. ContinueMin + 1,
            no_shake : 0 .. StableNeeded, err : 0 .. ErrMax, utc : 0 .. UtcStable]
Edges == [state : SUBSET {"SrcOk", "Follow", "Keep"},
          quality : {"source", "good", "bad"}, utc : {"rtc", "irigb", "sntp"}]
Answers == [countdown : 0 .. FullValid, tick : 0 .. Poll - 1, stable : 0 .. SntpStable - 1]
Seconds == [frames : 0 .. PerSecond, report : BOOLEAN]

LEMMA Thresholds ==
    /\ PerSecond \in Nat /\ StableNeeded \in Nat /\ ContinueMin \in Nat /\ UtcStable \in Nat
    /\ NeverWait \in Nat /\ KeepMax \in Nat /\ ErrMax \in Nat /\ Poll \in Nat /\ SntpStable \in Nat
    /\ PerSecond > 0 /\ StableNeeded > 1 /\ ErrMax > 0 /\ Poll > 0 /\ SntpStable > 0
    /\ ErrMax <= StableNeeded
  BY SyncTimeAssumption

LEMMA UpToFacts ==
    ASSUME NEW limit \in Nat, NEW n \in Nat
    PROVE  /\ UpTo(limit, n) \in 0 .. limit
           /\ UpTo(limit, n) <= n
           /\ n <= limit => UpTo(limit, n) = n
           /\ n > limit => UpTo(limit, n) = limit
  <1>1. CASE n <= limit
    <2>1. \A x \in {limit, n} : (\A y \in {limit, n} : x =< y) <=> x = n
      BY <1>1
    <2> QED
      BY <1>1, <2>1 DEF UpTo, Min
  <1>2. CASE n > limit
    <2>1. \A x \in {limit, n} : (\A y \in {limit, n} : x =< y) <=> x = limit
      BY <1>2
    <2> QED
      BY <1>2, <2>1 DEF UpTo, Min
  <1> QED
    BY <1>1, <1>2

LEMMA CountedDown ==
    ASSUME NEW n \in Nat
    PROVE  /\ Max({0, n - 1}) \in 0 .. n
           /\ n > 0 => Max({0, n - 1}) = n - 1
           /\ n = 0 => Max({0, n - 1}) = 0
  <1>1. CASE n = 0
    <2>1. \A x \in {0, n - 1} : (\A y \in {0, n - 1} : x >= y) <=> x = 0
      BY <1>1
    <2> QED
      BY <1>1, <2>1 DEF Max
  <1>2. CASE n > 0
    <2>1. \A x \in {0, n - 1} : (\A y \in {0, n - 1} : x >= y) <=> x = n - 1
      BY <1>2
    <2> QED
      BY <1>2, <2>1 DEF Max
  <1> QED
    BY <1>1, <1>2

-----------------------------------------------------------------------------
(* A record with two of its fields replaced keeps its type.                *)
LEMMA LostKeepsType ==
    ASSUME NEW s \in Sources
    PROVE  /\ [s EXCEPT !.cont = 0, !.alive = FALSE] \in Sources
           /\ [s EXCEPT !.err = 0, !.no_shake = 0] \in Sources
  <1>1. 0 \in 0 .. ContinueMin + 1 /\ 0 \in 0 .. ErrMax /\ 0 \in 0 .. StableNeeded
    BY Thresholds
  <1>2. [s EXCEPT !.cont = 0] \in Sources /\ [s EXCEPT !.err = 0] \in Sources
    BY <1>1 DEF Sources
  <1>3. [[s EXCEPT !.cont = 0] EXCEPT !.alive = FALSE] \in Sources
    BY <1>2 DEF Sources
  <1>4. [[s EXCEPT !.err = 0] EXCEPT !.no_shake = 0] \in Sources
    BY <1>1, <1>2 DEF Sources
  <1> QED
    BY <1>3, <1>4

LEMMA AnswersType ==
    ASSUME NEW a \in Answers, NEW c \in 0 .. FullValid,
           NEW i \in 0 .. Poll - 1, NEW n \in 0 .. SntpStable - 1
    PROVE  /\ [a EXCEPT !.countdown = c, !.tick = i] \in Answers
           /\ [a EXCEPT !.stable = n, !.countdown = c] \in Answers
           /\ [a EXCEPT !.tick = i] \in Answers
  <1>1. [a EXCEPT !.countdown = c] \in Answers /\ [a EXCEPT !.stable = n] \in Answers
        /\ [a EXCEPT !.tick = i] \in Answers
    BY DEF Answers
  <1>2. [[a EXCEPT !.countdown = c] EXCEPT !.tick = i] \in Answers
    BY <1>1 DEF Answers
  <1>3. [[a EXCEPT !.stable = n] EXCEPT !.countdown = c] \in Answers
    BY <1>1 DEF Answers
  <1> QED
    BY <1>1, <1>2, <1>3

-----------------------------------------------------------------------------
(* The state machine, for any source s and time e.                         *)
Flags == {"SrcOk", "Follow", "Keep"}
Qualities == {"source", "good", "bad"}
Keeps == [mode : {0, 1}, unfollow : 0 .. KeepMax + 1]

LEMMA ShowsType ==
    ASSUME NEW e \in Edges, NEW flags \in SUBSET Flags, NEW quality \in Qualities
    PROVE  Shows(e, flags, quality) \in Edges /\ Shows(e, flags, quality).state = flags
  BY DEF Shows, Edges, Flags, Qualities

LEMMA LoseNowType ==
    ASSUME TypeOK, NEW s \in Sources, NEW e \in Edges, NEW flags \in SUBSET Flags,
           LoseNow(s, e, flags)
    PROVE  sync' \in States /\ src' \in Sources /\ edge' \in Edges /\ keep' = keep
  <1>1. QualityKept(e) \in Qualities
    BY DEF QualityKept, Qualities, Edges
  <1>2. edge' \in Edges /\ sync' \in States /\ keep' = keep
    BY <1>1, ShowsType DEF LoseNow, States
  <1>3. src' \in Sources
    BY Thresholds DEF LoseNow, Sources
  <1> QED
    BY <1>2, <1>3

LEMMA KeepOnType ==
    ASSUME TypeOK, NEW s \in Sources, NEW e \in Edges, NEW flags \in SUBSET Flags,
           NEW mode \in {0, 1}, KeepOn(s, e, mode, flags)
    PROVE  sync' = sync /\ src' \in Sources /\ edge' \in Edges /\ keep' \in Keeps
  <1>1. QualityKept(e) \in Qualities
    BY DEF QualityKept, Qualities, Edges
  <1>2. edge' \in Edges /\ sync' = sync /\ src' \in Sources
    BY <1>1, ShowsType DEF KeepOn
  <1>3. keep' \in Keeps
    BY DEF KeepOn, Keeps, TypeOK
  <1> QED
    BY <1>2, <1>3

LEMMA MachineType ==
    ASSUME TypeOK, NEW s \in Sources, NEW e \in Edges, synctime_sync_statemachine(s, e)
    PROVE  /\ sync' \in States /\ src' \in Sources /\ edge' \in Edges
           /\ keep' \in Keeps /\ ever' \in BOOLEAN
  <1>1. /\ sync \in States /\ ever \in BOOLEAN /\ keep \in Keeps
        /\ e.state \in SUBSET Flags /\ e.quality \in Qualities /\ KeepMax \in Nat
    BY Thresholds DEF TypeOK, States, Edges, Keeps, Flags, Qualities
  <1>2. /\ {} \in SUBSET Flags /\ {"SrcOk"} \in SUBSET Flags /\ {"Keep"} \in SUBSET Flags
        /\ {"SrcOk", "Follow"} \in SUBSET Flags /\ {"SrcOk", "Keep"} \in SUBSET Flags
        /\ "source" \in Qualities
    BY DEF Flags, Qualities
  <1>3. CASE LoseToFollow(s, e)
    BY <1>1, <1>2, <1>3, ShowsType DEF LoseToFollow, States
  <1>4. CASE StayLose(s, e)
    BY <1>1, <1>2, <1>4, ShowsType DEF StayLose
  <1>5. CASE FollowStep(s, e)
    <2>1. edge' \in Edges
      BY <1>1, <1>2, <1>5, ShowsType DEF FollowStep
    <2>2. keep' \in Keeps
      BY <1>1, <1>5 DEF FollowStep, Keeps
    <2>3. sync' \in States /\ src' \in Sources /\ ever' \in BOOLEAN
      BY <1>1, <1>5 DEF FollowStep, States
    <2> QED
      BY <2>1, <2>2, <2>3
  <1>6. CASE KeepingToFollow(s, e)
    BY <1>1, <1>2, <1>6, ShowsType DEF KeepingToFollow, States
  <1>7. CASE KeepingWithout(s, e)
    <2>1. CASE LoseNow(s, e, {})
      BY <1>1, <1>2, <2>1, LoseNowType DEF LoseNow
    <2>2. ASSUME NEW mode \in {0, 1}, KeepOn(s, e, mode, {"Keep"})
          PROVE  /\ sync' = sync /\ src' \in Sources /\ edge' \in Edges
                 /\ keep' \in Keeps /\ ever' = ever
      BY <1>2, <2>2, KeepOnType DEF KeepOn
    <2> QED
      BY <1>1, <1>7, <2>1, <2>2 DEF KeepingWithout
  <1>8. CASE KeepingWithSource(s, e)
    <2>1. CASE LoseNow(s, e, {"SrcOk"})
      BY <1>1, <1>2, <2>1, LoseNowType DEF LoseNow
    <2>2. ASSUME NEW mode \in {0, 1}, NEW flags \in SUBSET Flags, KeepOn(s, e, mode, flags)
          PROVE  /\ sync' = sync /\ src' \in Sources /\ edge' \in Edges
                 /\ keep' \in Keeps /\ ever' = ever
      BY <2>2, KeepOnType DEF KeepOn
    <2> QED
      BY <1>1, <1>2, <1>8, <2>1, <2>2 DEF KeepingWithSource
  <1> QED
    BY <1>3, <1>4, <1>5, <1>6, <1>7, <1>8 DEF synctime_sync_statemachine

(* A frame makes a source of its type.                                     *)
FrameCont == UpTo(ContinueMin + 1, src.cont + 1)
FrameUtc(f) == IF "next" \in f THEN UpTo(UtcStable, src.utc + 1) ELSE 0
FrameShake(f) ==
    CASE FrameCont <= ContinueMin -> src.no_shake
      [] FrameCont > ContinueMin /\ "steady" \in f -> UpTo(StableNeeded, src.no_shake + 1)
      [] OTHER -> 0
FrameSource(f) ==
    [alive |-> TRUE, not_rec |-> 0, cont |-> FrameCont, no_shake |-> FrameShake(f),
     err |-> IF "ontime" \in f THEN 0 ELSE UpTo(ErrMax, src.err + 1), utc |-> FrameUtc(f)]
FrameEdge(f) ==
    IF FrameUtc(f) >= UtcStable /\ sync_logic_allow_irigb_update
      THEN [edge EXCEPT !.utc = "irigb"] ELSE edge

LEMMA FrameMachine ==
    ASSUME NEW f, Frame(f)
    PROVE  /\ synctime_sync_statemachine(FrameSource(f), FrameEdge(f))
           /\ send_cpu_2_fpga_inf_prog("ontime" \notin f)
           /\ second.frames < PerSecond
           /\ second' = [second EXCEPT !.frames = @ + 1]
           /\ UNCHANGED <<active, sntp, bg, net>>
  BY DEF Frame, FrameSource, FrameEdge, FrameCont, FrameUtc, FrameShake

LEMMA FrameType ==
    ASSUME TypeOK, NEW f
    PROVE  FrameSource(f) \in Sources /\ FrameEdge(f) \in Edges
  <1> USE Thresholds
  <1>1. /\ src.cont \in 0 .. ContinueMin + 1 /\ src.utc \in 0 .. UtcStable
        /\ src.no_shake \in 0 .. StableNeeded /\ src.err \in 0 .. ErrMax
    BY DEF TypeOK
  <1>2. FrameCont \in 0 .. ContinueMin + 1
    <2>1. ContinueMin + 1 \in Nat /\ src.cont + 1 \in Nat
      BY <1>1
    <2> QED
      BY <2>1, UpToFacts DEF FrameCont
  <1>3. FrameUtc(f) \in 0 .. UtcStable
    BY <1>1, UpToFacts DEF FrameUtc
  <1>4. FrameShake(f) \in 0 .. StableNeeded
    <2>1. StableNeeded \in Nat /\ src.no_shake + 1 \in Nat
      BY <1>1
    <2>2. UpTo(StableNeeded, src.no_shake + 1) \in 0 .. StableNeeded
      BY <2>1, UpToFacts
    <2> QED
      BY <1>1, <1>2, <2>1, <2>2 DEF FrameShake
  <1>5. UpTo(ErrMax, src.err + 1) \in 0 .. ErrMax
    <2>1. ErrMax \in Nat /\ src.err + 1 \in Nat
      BY <1>1
    <2> QED
      BY <2>1, UpToFacts
  <1>6. FrameSource(f) \in Sources
    BY <1>2, <1>3, <1>4, <1>5 DEF FrameSource, Sources
  <1>7. FrameEdge(f) \in Edges
    BY DEF FrameEdge, Edges, TypeOK
  <1> QED
    BY <1>6, <1>7

LostSource == IF EndsLost THEN [src EXCEPT !.err = UpTo(ErrMax, @ + 1)] ELSE src

LEMMA NoSourceType ==
    ASSUME TypeOK
    PROVE  /\ LostSource \in Sources /\ edge \in Edges
           /\ LostSource.alive = src.alive /\ LostSource.no_shake = src.no_shake
           /\ LostSource.err >= src.err
           /\ ~ EndsLost => LostSource = src
  <1>1. src \in Sources /\ edge \in Edges
    BY DEF TypeOK, Sources, Edges
  <1>2. ErrMax \in Nat /\ src.err + 1 \in Nat /\ src.err \in 0 .. ErrMax
    BY <1>1, Thresholds DEF Sources
  <1>3. /\ UpTo(ErrMax, src.err + 1) \in 0 .. ErrMax
        /\ src.err + 1 <= ErrMax => UpTo(ErrMax, src.err + 1) = src.err + 1
        /\ src.err + 1 > ErrMax => UpTo(ErrMax, src.err + 1) = ErrMax
    BY <1>2, UpToFacts
  <1>4. UpTo(ErrMax, src.err + 1) >= src.err
    BY <1>2, <1>3
  <1>5. LostSource = IF EndsLost THEN [src EXCEPT !.err = UpTo(ErrMax, src.err + 1)] ELSE src
    BY DEF LostSource
  <1>6. CASE EndsLost
    BY <1>1, <1>2, <1>3, <1>4, <1>5, <1>6 DEF Sources
  <1>7. CASE ~ EndsLost
    BY <1>1, <1>2, <1>5, <1>7 DEF Sources
  <1> QED
    BY <1>6, <1>7

LEMMA FpgaType ==
    ASSUME TypeOK, NEW offTime \in BOOLEAN, send_cpu_2_fpga_inf_prog(offTime),
           sync' \in States, src' \in Sources
    PROVE  fpga' \in [sync : States, valid : BOOLEAN, err : 0 .. 2]
  <1>1. fpga.err + 1 \in Nat
    BY DEF TypeOK
  <1>2. Stable(src') \in BOOLEAN
    BY DEF Stable
  <1>3. UpTo(2, fpga.err + 1) \in 0 .. 2
    BY <1>1, UpToFacts
  <1> QED
    BY <1>2, <1>3 DEF send_cpu_2_fpga_inf_prog

-----------------------------------------------------------------------------
(* Types.                                                                  *)
LEMMA TypeInit == Init => TypeOK
  <1> SUFFICES ASSUME Init PROVE TypeOK
    OBVIOUS
  <1>1. /\ sync \in States /\ ever \in BOOLEAN /\ active \in {"irigb", "sntp"}
        /\ net \in BOOLEAN /\ bg = "idle" /\ edge \in Edges
    BY DEF Init, States, Edges
  <1>2. fpga \in [sync : States, valid : BOOLEAN, err : 0 .. 2]
    BY DEF Init, States
  <1>3. keep \in Keeps /\ second \in [frames : 0 .. PerSecond, report : BOOLEAN]
    BY Thresholds DEF Init, Keeps
  <1>4. src \in Sources
    BY Thresholds DEF Init, Sources
  <1>5. sntp \in [countdown : 0 .. FullValid, tick : 0 .. Poll - 1, stable : 0 .. SntpStable - 1]
    BY Thresholds DEF Init, FullValid
  <1> QED
    BY <1>1, <1>2, <1>3, <1>4, <1>5 DEF TypeOK, States, Edges, Keeps, Sources

LEMMA TypeInterrupt ==
    ASSUME TypeOK, HardInterrupt PROVE TypeOK'
  <1> USE Thresholds
  <1>1. CASE NoSourceReport
    <2>1. synctime_sync_statemachine(LostSource, edge) /\ send_cpu_2_fpga_inf_prog(FALSE)
      BY <1>1 DEF NoSourceReport, LostSource
    <2>2. /\ sync' \in States /\ src' \in Sources /\ edge' \in Edges
          /\ keep' \in Keeps
          /\ ever' \in BOOLEAN
      BY <2>1, NoSourceType, MachineType
    <2>3. fpga' \in [sync : States, valid : BOOLEAN, err : 0 .. 2]
      BY <2>1, <2>2, FpgaType
    <2>4. /\ second' = [second EXCEPT !.report = TRUE]
          /\ UNCHANGED <<active, sntp, bg, net>>
      BY <1>1 DEF NoSourceReport
    <2> QED
      BY <2>2, <2>3, <2>4 DEF TypeOK, States, Sources, Edges, Keeps
  <1>2. ASSUME NEW f \in Frames, Frame(f) PROVE TypeOK'
    <2>1. /\ sync' \in States /\ src' \in Sources /\ edge' \in Edges
          /\ keep' \in Keeps
          /\ ever' \in BOOLEAN
      BY <1>2, FrameMachine, FrameType, MachineType
    <2>2. fpga' \in [sync : States, valid : BOOLEAN, err : 0 .. 2]
      BY <1>2, <2>1, FrameMachine, FpgaType
    <2>3. /\ second.frames < PerSecond /\ second' = [second EXCEPT !.frames = @ + 1]
          /\ UNCHANGED <<active, sntp, bg, net>>
      BY <1>2, FrameMachine
    <2> QED
      BY <2>1, <2>2, <2>3 DEF TypeOK, States, Sources, Edges, Keeps
  <1> QED
    BY <1>1, <1>2 DEF HardInterrupt

LEMMA TypeTask ==
    ASSUME TypeOK, Task PROVE TypeOK'
  <1>0. /\ src \in Sources /\ keep \in Keeps /\ sntp \in Answers
        /\ edge \in Edges /\ second \in Seconds
    BY DEF TypeOK, Sources, Keeps, Answers, Edges, Seconds
  <1>1. CASE TaskCount
    <2>1. /\ KeepMax + 1 \in Nat /\ keep.unfollow + 1 \in Nat
          /\ NeverWait \in Nat /\ src.not_rec + 1 \in Nat
      BY <1>0, Thresholds DEF Keeps, Sources
    <2>2. UpTo(KeepMax + 1, keep.unfollow + 1) \in 0 .. KeepMax + 1
      BY <2>1, UpToFacts
    <2>3. UpTo(NeverWait, src.not_rec + 1) \in 0 .. NeverWait
      BY <2>1, UpToFacts
    <2>4. keep' \in Keeps
      BY <1>0, <1>1, <2>2 DEF TaskCount, Keeps
    <2>5. src' \in Sources
      BY <1>0, <1>1, <2>3 DEF TaskCount, Sources
    <2>6. second' \in Seconds
      BY <1>1, Thresholds DEF TaskCount, Seconds
    <2>7. bg' \in {"reset", "poll"} /\ UNCHANGED <<sync, ever, active, sntp, edge, fpga, net>>
      BY <1>1 DEF TaskCount
    <2> QED
      BY <2>4, <2>5, <2>6, <2>7 DEF TypeOK, Sources, Keeps, Seconds
  <1>2. CASE TaskReset
    <2>1. src' = [src EXCEPT !.cont = 0, !.alive = FALSE]
      BY <1>2 DEF TaskReset
    <2>2. src' \in Sources
      BY <1>0, <2>1, LostKeepsType
    <2>3. bg' = "clear" /\ UNCHANGED <<sync, keep, ever, active, sntp, edge, fpga, net, second>>
      BY <1>2 DEF TaskReset
    <2> QED
      BY <2>2, <2>3 DEF TypeOK, Sources
  <1>3. CASE TaskClear
    <2>1. src' = [src EXCEPT !.err = 0, !.no_shake = 0]
      BY <1>3 DEF TaskClear
    <2>2. src' \in Sources
      BY <1>0, <2>1, LostKeepsType
    <2>3. bg' = "poll" /\ UNCHANGED <<sync, keep, ever, active, sntp, edge, fpga, net, second>>
      BY <1>3 DEF TaskClear
    <2> QED
      BY <2>2, <2>3 DEF TypeOK, Sources
  <1>4. CASE sntp_poll
    <2>1. /\ sntp.countdown \in Nat /\ sntp.countdown <= FullValid /\ FullValid \in Nat
          /\ sntp.tick \in 0 .. Poll - 1 /\ Poll \in Nat /\ Poll > 0 /\ 0 \in 0 .. Poll - 1
          /\ SntpStable > 0 /\ SntpStable \in Nat /\ 0 \in 0 .. SntpStable - 1
      BY <1>0, Thresholds DEF Answers, FullValid
    <2>2. Max({0, sntp.countdown - 1}) \in 0 .. FullValid
      BY <2>1, CountedDown
    <2>3. DEFINE asks == sync_logic_allow_sntp_update /\ sntp.tick + 1 >= Poll
    <2>4. /\ sntp' = IF sync_logic_allow_sntp_update
                     THEN [sntp EXCEPT !.countdown = Max({0, sntp.countdown - 1}),
                                       !.tick = IF asks THEN 0 ELSE sntp.tick + 1]
                     ELSE [sntp EXCEPT !.tick = 0]
          /\ net' = (net \/ asks) /\ bg' = "choose"
          /\ UNCHANGED <<sync, keep, ever, src, active, edge, fpga, second>>
      BY <1>4 DEF sntp_poll
    <2>5. sync_logic_allow_sntp_update => (IF asks THEN 0 ELSE sntp.tick + 1) \in 0 .. Poll - 1
      BY <2>1
    <2>6. sntp' \in Answers
      <3> HIDE DEF asks
      <3>1. CASE sync_logic_allow_sntp_update
        BY <1>0, <2>1, <2>2, <2>4, <2>5, <3>1, AnswersType
      <3>2. CASE ~ sync_logic_allow_sntp_update
        BY <1>0, <2>1, <2>2, <2>4, <3>2, AnswersType
      <3> QED
        BY <3>1, <3>2
    <2>7. net' \in BOOLEAN
      BY <2>4 DEF sync_logic_allow_sntp_update
    <2> QED
      BY <2>4, <2>6, <2>7 DEF TypeOK, Answers
  <1>5. CASE ChooseActive
    <2>1. active' \in {"irigb", "sntp"} /\ bg' \in {"show", "idle"}
      BY <1>5, SyncTimeAssumption DEF ChooseActive, NewActive
    <2>2. UNCHANGED <<sync, keep, ever, src, sntp, edge, fpga, net, second>>
      BY <1>5 DEF ChooseActive
    <2> QED
      BY <2>1, <2>2 DEF TypeOK
  <1>6. CASE ShowSntp
    <2>1. edge' \in Edges
      BY <1>0, <1>6, ShowsType DEF ShowSntp, Flags, Qualities
    <2>2. bg' = "idle" /\ UNCHANGED <<sync, keep, ever, src, active, sntp, fpga, net, second>>
      BY <1>6 DEF ShowSntp
    <2> QED
      BY <2>1, <2>2 DEF TypeOK, Edges
  <1> QED
    BY <1>1, <1>2, <1>3, <1>4, <1>5, <1>6 DEF Task

LEMMA TypeCallback ==
    ASSUME TypeOK, Callback PROVE TypeOK'
  <1>1. CASE AnswerLost
    <2>1. net' \in BOOLEAN /\ UNCHANGED <<sync, keep, ever, src, active, sntp, edge, fpga, bg, second>>
      BY <1>1 DEF AnswerLost
    <2> QED
      BY <2>1 DEF TypeOK
  <1>2. CASE AnswerArrives
    <2>1. /\ net' \in BOOLEAN /\ bg' \in {"answer", "idle"}
          /\ UNCHANGED <<sync, keep, ever, src, active, sntp, edge, fpga, second>>
      BY <1>2 DEF AnswerArrives
    <2> QED
      BY <2>1 DEF TypeOK
  <1>3. ASSUME NEW near \in BOOLEAN, AnswerTaken(near) PROVE TypeOK'
    <2>1. sntp \in Answers /\ edge \in Edges /\ FullValid \in Nat /\ SntpStable \in Nat /\ SntpStable > 0
      BY Thresholds DEF TypeOK, Answers, Edges, FullValid
    <2>2. sntp' \in Answers
      <3> DEFINE sets == near \/ sntp.stable + 1 >= SntpStable
      <3>1. (IF sets THEN 0 ELSE sntp.stable + 1) \in 0 .. SntpStable - 1
        BY <2>1 DEF Answers
      <3>2. FullValid \in 0 .. FullValid /\ 0 \in 0 .. Poll - 1
        BY <2>1, Thresholds
      <3>3. sntp' = [sntp EXCEPT !.stable = IF sets THEN 0 ELSE sntp.stable + 1,
                                 !.countdown = FullValid]
        BY <1>3 DEF AnswerTaken
      <3> HIDE DEF sets
      <3> QED
        BY <2>1, <3>1, <3>2, <3>3, AnswersType
    <2>3. edge' \in Edges
      BY <1>3, <2>1 DEF AnswerTaken, Edges
    <2>4. bg' = "idle" /\ UNCHANGED <<sync, keep, ever, src, active, fpga, net, second>>
      BY <1>3 DEF AnswerTaken
    <2> QED
      BY <2>2, <2>3, <2>4 DEF TypeOK, Answers, Edges
  <1> QED
    BY <1>1, <1>2, <1>3 DEF Callback

LEMMA TypeStep == TypeOK /\ [Next]_vars => TypeOK'
  <1> SUFFICES ASSUME TypeOK, [Next]_vars PROVE TypeOK'
    OBVIOUS
  <1>1. CASE Next
    BY <1>1, TypeInterrupt, TypeTask, TypeCallback DEF Next
  <1>2. CASE UNCHANGED vars
    BY <1>2 DEF vars, TypeOK
  <1> QED
    BY <1>1, <1>2

(* Every variable has its type, and every counter stays below the          *)
(* threshold it is compared with.                                          *)
THEOREM TypeCorrect == Spec => []TypeOK
  BY TypeInit, TypeStep, PTL DEF Spec

-----------------------------------------------------------------------------
(* The inductive invariant: what the state machine knows of the source ... *)
LoseUnsteady == sync = "Lose" => ~ Stable(src)
LoseBeforeEver == ~ ever => sync = "Lose"
ForgottenShake == ~ src.alive /\ bg # "clear" => src.no_shake = 0
KeepingUnsteady ==
    sync = "Keeping" /\ bg # "clear"
        => src.no_shake <= src.err /\ (src.err = ErrMax => src.no_shake <= 1)
KeepingAlone == sync = "Keeping" /\ keep.mode = 0 => ~ src.alive

(* ... and where the background may be, with which source active.          *)
SourceOrLose == sync = "Lose" \/ (sync = "Follow" /\ src.alive)
ByMode ==
    /\ SyncMode = "sntp" /\ active = "irigb" /\ bg \in {"idle", "answer"} => SourceOrLose
    /\ SyncMode = "irigb" => active = "irigb" /\ bg # "answer" /\ sntp.countdown = 0
    /\ bg = "answer" => active = "sntp" \/ SourceOrLose
    /\ bg = "show" => active = "sntp"

(* A state shown as followed, at every step of the background.             *)
ShownByIrigb ==
    /\ active = "irigb" /\ sync = "Lose"
    /\ \/ sntp.countdown = FullValid
       \/ /\ bg = "choose" /\ (SyncMode = "sntp" \/ IrigbGone)
          /\ sntp.countdown >= FullValid - 1
ShownBySntp == active = "sntp" /\ (bg \in {"choose", "show"} \/ sntp.countdown > 0)
ShownInStep == "Follow" \in edge.state => sync = "Follow" \/ ShownBySntp \/ ShownByIrigb

SourceKnown == LoseUnsteady /\ LoseBeforeEver /\ ForgottenShake /\ KeepingUnsteady /\ KeepingAlone
IInv == TypeOK /\ ValidNotWhenLost /\ SourceKnown /\ ByMode /\ ShownInStep

(* The values a proof needs of TypeOK.                                     *)
LEMMA Values ==
    ASSUME TypeOK
    PROVE  /\ sync \in States /\ active \in {"irigb", "sntp"}
           /\ src.alive \in BOOLEAN /\ src.no_shake \in Nat /\ src.err \in 0 .. ErrMax
           /\ src.no_shake <= StableNeeded
           /\ keep.mode \in {0, 1} /\ sntp.countdown \in Nat
           /\ edge.state \in SUBSET Flags
  <1>1. /\ src \in Sources /\ keep \in Keeps /\ sntp \in Answers /\ edge \in Edges
        /\ sync \in States /\ active \in {"irigb", "sntp"} /\ StableNeeded \in Nat
    BY Thresholds DEF TypeOK, Sources, Keeps, Answers, Edges, States
  <1>2. src.alive \in BOOLEAN /\ src.no_shake \in 0 .. StableNeeded /\ src.err \in 0 .. ErrMax
    BY <1>1 DEF Sources
  <1>3. keep.mode \in {0, 1} /\ edge.state \in SUBSET Flags
    BY <1>1 DEF Keeps, Edges, Flags
  <1>4. sntp.countdown \in 0 .. FullValid
    BY <1>1 DEF Answers
  <1> QED
    BY <1>1, <1>2, <1>3, <1>4

LEMMA Window == FullValid \in Nat /\ FullValid >= 2
  BY Thresholds DEF FullValid

(* What one run of the state machine does, for any source s and time e.    *)
SourceAfter(s) ==
    src'.alive = s.alive /\ src'.err = s.err /\ src'.no_shake \in {s.no_shake, 0}
ShownAfter == "Follow" \in edge'.state => sync' = "Follow"
LoseAfter(s) ==
    /\ sync' = "Lose" => src'.no_shake = 0 \/ (sync = "Lose" /\ src' = s /\ ~ MayFollow(s))
    /\ sync = "Lose" => sync' = "Lose" \/ (sync' = "Follow" /\ s.alive)
FollowAfter(s) == sync = "Follow" /\ s.alive => sync' = "Follow"
EverAfter == ~ ever' => ~ ever /\ (sync = "Lose" => sync' = "Lose")
KeepingAfter(s) ==
    sync' = "Keeping" =>
        /\ src' = s
        /\ keep'.mode = 0 => ~ s.alive
        /\ s.alive => /\ sync = "Keeping" /\ s.err # 0
                      /\ keep.mode = 1 => s.err < ErrMax
After(s) ==
    SourceAfter(s) /\ ShownAfter /\ LoseAfter(s) /\ FollowAfter(s) /\ EverAfter /\ KeepingAfter(s)

LEMMA LoseNowAfter ==
    ASSUME NEW s \in Sources, NEW e \in Edges, NEW flags \in SUBSET Flags, "Follow" \notin flags,
           sync = "Keeping", LoseNow(s, e, flags)
    PROVE  After(s)
  <1>1. edge'.state = flags
    BY ShowsType DEF LoseNow, QualityKept, Edges, Qualities
  <1>2. sync' = "Lose" /\ ever' = ever /\ src' = [s EXCEPT !.no_shake = 0]
    BY DEF LoseNow
  <1>3. src'.alive = s.alive /\ src'.err = s.err /\ src'.no_shake = 0
    BY <1>2 DEF Sources
  <1> QED
    BY <1>1, <1>2, <1>3
       DEF After, SourceAfter, ShownAfter, LoseAfter, FollowAfter, EverAfter, KeepingAfter

LEMMA KeepOnAfter ==
    ASSUME TypeOK, NEW s \in Sources, NEW e \in Edges, NEW flags \in SUBSET Flags,
           "Follow" \notin flags, sync = "Keeping", KeepOn(s, e, IF s.alive THEN 1 ELSE 0, flags),
           ~ (s.alive /\ s.err = 0), s.alive /\ keep.mode = 1 => s.err < ErrMax
    PROVE  After(s)
  <1>1. edge'.state = flags
    BY ShowsType DEF KeepOn, QualityKept, Edges, Qualities
  <1>2. sync' = "Keeping" /\ ever' = ever /\ src' = s
    BY DEF KeepOn
  <1>3. keep'.mode = IF s.alive THEN 1 ELSE 0
    <2>1. keep \in Keeps /\ keep' = [keep EXCEPT !.mode = IF s.alive THEN 1 ELSE 0]
      BY DEF KeepOn, TypeOK, Keeps
    <2> QED
      BY <2>1 DEF Keeps
  <1>4. keep'.mode = 0 => ~ s.alive
    BY <1>3
  <1> QED
    BY <1>1, <1>2, <1>4
       DEF After, SourceAfter, ShownAfter, LoseAfter, FollowAfter, EverAfter, KeepingAfter

LEMMA MachineStep ==
    ASSUME TypeOK, NEW s \in Sources, NEW e \in Edges, synctime_sync_statemachine(s, e)
    PROVE  After(s)
  <1>1. /\ {} \in SUBSET Flags /\ {"SrcOk"} \in SUBSET Flags /\ {"Keep"} \in SUBSET Flags
        /\ {"SrcOk", "Follow"} \in SUBSET Flags /\ {"SrcOk", "Keep"} \in SUBSET Flags
        /\ "source" \in Qualities /\ e.quality \in Qualities
    BY DEF Flags, Qualities, Edges
  <1>2. ASSUME NEW flags, flags \in {{}, {"SrcOk"}, {"Keep"}, {"SrcOk", "Keep"}}
        PROVE  flags \in SUBSET Flags /\ "Follow" \notin flags
    BY <1>2 DEF Flags
  <1>3. CASE LoseToFollow(s, e)
    BY <1>3 DEF LoseToFollow, MayFollow,
          After, SourceAfter, ShownAfter, LoseAfter, FollowAfter, EverAfter, KeepingAfter
  <1>4. CASE StayLose(s, e)
    <2>1. "Follow" \notin edge'.state
      BY <1>1, <1>2, <1>4, ShowsType DEF StayLose
    <2> QED
      BY <1>4, <2>1 DEF StayLose,
            After, SourceAfter, ShownAfter, LoseAfter, FollowAfter, EverAfter, KeepingAfter
  <1>5. CASE FollowStep(s, e)
    <2>1. CASE s.alive
      BY <1>5, <2>1 DEF FollowStep,
            After, SourceAfter, ShownAfter, LoseAfter, FollowAfter, EverAfter, KeepingAfter
    <2>2. CASE ~ s.alive
      <3>1. "Follow" \notin edge'.state
        BY <1>1, <1>2, <1>5, <2>2, ShowsType DEF FollowStep
      <3>2. sync' = "Keeping" /\ src' = s /\ ever' = ever /\ sync = "Follow"
        BY <1>5, <2>2 DEF FollowStep
      <3> QED
        BY <2>2, <3>1, <3>2
           DEF After, SourceAfter, ShownAfter, LoseAfter, FollowAfter, EverAfter, KeepingAfter
    <2> QED
      BY <2>1, <2>2
  <1>6. CASE KeepingToFollow(s, e)
    BY <1>6 DEF KeepingToFollow,
          After, SourceAfter, ShownAfter, LoseAfter, FollowAfter, EverAfter, KeepingAfter
  <1>7. CASE KeepingWithout(s, e)
    <2>1. sync = "Keeping" /\ ~ (s.alive /\ s.err = 0) /\ keep.mode = 0
      BY <1>7 DEF KeepingWithout
    <2>2. CASE LoseNow(s, e, {})
      BY <1>2, <2>1, <2>2, LoseNowAfter
    <2>3. CASE KeepOn(s, e, IF s.alive THEN 1 ELSE 0, {"Keep"})
      BY <1>2, <2>1, <2>3, KeepOnAfter
    <2> QED
      BY <1>7, <2>2, <2>3 DEF KeepingWithout
  <1>8. CASE KeepingWithSource(s, e)
    <2>1. sync = "Keeping" /\ ~ (s.alive /\ s.err = 0) /\ keep.mode = 1
      BY <1>8 DEF KeepingWithSource
    <2>2. CASE s.alive /\ s.err >= ErrMax
      BY <1>2, <1>8, <2>1, <2>2, LoseNowAfter DEF KeepingWithSource
    <2>3. CASE ~ (s.alive /\ s.err >= ErrMax)
      <3>1. s.alive => s.err < ErrMax
        BY <2>3, Thresholds DEF Sources
      <3>2. CASE s.alive
        <4>1. KeepOn(s, e, IF s.alive THEN 1 ELSE 0, {"SrcOk", "Keep"})
          BY <1>8, <2>3, <3>2 DEF KeepingWithSource
        <4> QED
          BY <1>2, <2>1, <3>1, <4>1, KeepOnAfter
      <3>3. CASE ~ s.alive
        <4>1. KeepOn(s, e, IF s.alive THEN 1 ELSE 0, {"Keep"})
          BY <1>8, <2>3, <3>3 DEF KeepingWithSource
        <4> QED
          BY <1>2, <2>1, <3>1, <4>1, KeepOnAfter
      <3> QED
        BY <3>2, <3>3
    <2> QED
      BY <2>2, <2>3
  <1> QED
    BY <1>3, <1>4, <1>5, <1>6, <1>7, <1>8 DEF synctime_sync_statemachine

-----------------------------------------------------------------------------
(* The hard interrupt: it touches neither the background nor the choice.   *)
Background == <<active, sntp, bg, net>>

LEMMA ToldTruth ==
    ASSUME NEW offTime, send_cpu_2_fpga_inf_prog(offTime), LoseUnsteady'
    PROVE  ValidNotWhenLost'
  BY DEF send_cpu_2_fpga_inf_prog, LoseUnsteady, ValidNotWhenLost, Stable

LEMMA SourceInv ==
    ASSUME IInv, TypeOK', UNCHANGED Background, NEW s \in Sources, After(s),
           sync = "Lose" /\ ~ s.alive => s.no_shake = src.no_shake
    PROVE  LoseUnsteady' /\ LoseBeforeEver' /\ KeepingAlone' /\ ShownInStep'
  <1>1. StableNeeded \in Nat /\ StableNeeded > 1
    BY Thresholds
  <1>2. LoseUnsteady'
    <2>1. CASE sync' = "Lose" /\ src'.no_shake = 0
      BY <1>1, <2>1 DEF LoseUnsteady, Stable
    <2>2. CASE sync = "Lose" /\ src' = s /\ ~ MayFollow(s)
      <3>1. ~ Stable(src)
        BY <2>2 DEF IInv, SourceKnown, LoseUnsteady
      <3>2. ~ Stable(s)
        BY <2>2, <3>1 DEF MayFollow, Stable
      <3> QED
        BY <2>2, <3>2 DEF LoseUnsteady, Stable
    <2> QED
      BY <2>1, <2>2 DEF After, LoseAfter, LoseUnsteady
  <1>3. LoseBeforeEver'
    BY DEF After, EverAfter, IInv, SourceKnown, LoseBeforeEver
  <1>4. KeepingAlone'
    BY DEF After, KeepingAfter, SourceAfter, KeepingAlone
  <1>5. ShownInStep'
    BY DEF After, ShownAfter, ShownInStep
  <1> QED
    BY <1>2, <1>3, <1>4, <1>5

LEMMA ByModeInterrupt ==
    ASSUME IInv, UNCHANGED Background, NEW s \in Sources, After(s), src.alive => s.alive
    PROVE  ByMode'
  <1>1. SourceOrLose => SourceOrLose'
    <2>1. CASE sync = "Lose"
      BY <2>1 DEF After, LoseAfter, SourceAfter, SourceOrLose
    <2>2. CASE sync = "Follow" /\ src.alive
      BY <2>2 DEF After, FollowAfter, SourceAfter, SourceOrLose
    <2> QED
      BY <2>1, <2>2 DEF SourceOrLose
  <1> QED
    BY <1>1 DEF IInv, ByMode, Background

LEMMA NoSourceInv ==
    ASSUME IInv, NoSourceReport PROVE IInv'
  <1>1. /\ synctime_sync_statemachine(LostSource, edge) /\ send_cpu_2_fpga_inf_prog(FALSE)
        /\ UNCHANGED Background /\ ~ src.alive
    BY DEF NoSourceReport, LostSource, Background
  <1>2. TypeOK /\ TypeOK'
    BY TypeInterrupt DEF IInv, HardInterrupt
  <1>3. After(LostSource) /\ LostSource \in Sources
    BY <1>1, <1>2, MachineStep, NoSourceType
  <1>4. ~ LostSource.alive /\ LostSource.no_shake = src.no_shake
    BY <1>1, <1>2, NoSourceType
  <1>5. LoseUnsteady' /\ LoseBeforeEver' /\ KeepingAlone' /\ ShownInStep'
    BY <1>1, <1>2, <1>3, <1>4, SourceInv
  <1>6. ValidNotWhenLost'
    BY <1>1, <1>5, ToldTruth
  <1>7. bg # "clear" => src'.no_shake = 0
    <2>1. bg # "clear" => src.no_shake = 0
      BY <1>1 DEF IInv, SourceKnown, ForgottenShake
    <2> QED
      BY <1>3, <1>4, <2>1 DEF After, SourceAfter
  <1>8. ForgottenShake'
    BY <1>1, <1>7 DEF ForgottenShake, Background
  <1>9. KeepingUnsteady'
    <2>1. src'.err \in Nat
      BY <1>2, Thresholds DEF TypeOK
    <2> QED
      BY <1>1, <1>7, <2>1 DEF KeepingUnsteady, Background
  <1>10. ByMode'
    BY <1>1, <1>3, ByModeInterrupt
  <1> QED
    BY <1>2, <1>5, <1>6, <1>8, <1>9, <1>10 DEF IInv, SourceKnown

LEMMA FrameInv ==
    ASSUME IInv, NEW f \in Frames, Frame(f) PROVE IInv'
  <1> DEFINE s == FrameSource(f)
  <1>1. /\ synctime_sync_statemachine(s, FrameEdge(f))
        /\ send_cpu_2_fpga_inf_prog("ontime" \notin f) /\ UNCHANGED Background
    BY FrameMachine DEF Background
  <1>2. TypeOK /\ TypeOK'
    BY TypeInterrupt DEF IInv, HardInterrupt
  <1>3. After(s) /\ s \in Sources
    BY <1>1, <1>2, FrameType, MachineStep
  <1>4. s.alive /\ s.no_shake = FrameShake(f)
        /\ s.err = IF "ontime" \in f THEN 0 ELSE UpTo(ErrMax, src.err + 1)
    BY DEF FrameSource
  <1>5. LoseUnsteady' /\ LoseBeforeEver' /\ KeepingAlone' /\ ShownInStep'
    BY <1>1, <1>2, <1>3, <1>4, SourceInv
  <1>6. ValidNotWhenLost'
    BY <1>1, <1>5, ToldTruth
  <1>7. ForgottenShake'
    BY <1>3, <1>4 DEF After, SourceAfter, ForgottenShake
  <1>8. KeepingUnsteady'
    <2> SUFFICES ASSUME sync' = "Keeping", bg # "clear"
                 PROVE  /\ src'.no_shake <= src'.err
                        /\ src'.err = ErrMax => src'.no_shake <= 1
      BY <1>1 DEF KeepingUnsteady, Background
    <2>1. src' = s /\ sync = "Keeping" /\ s.err # 0 /\ (keep.mode = 1 => s.err < ErrMax)
      BY <1>3, <1>4 DEF After, KeepingAfter
    <2>2. /\ src.no_shake <= src.err /\ (src.err = ErrMax => src.no_shake <= 1)
          /\ keep.mode = 0 => ~ src.alive /\ src.no_shake = 0
      BY <2>1 DEF IInv, SourceKnown, KeepingUnsteady, KeepingAlone, ForgottenShake
    <2>3. /\ src.no_shake \in Nat /\ src.err \in Nat /\ ErrMax \in Nat /\ StableNeeded \in Nat
          /\ src.err <= ErrMax /\ keep.mode \in {0, 1}
      BY <1>2, Values, Thresholds
    <2>4. FrameShake(f) \in Nat /\ FrameShake(f) <= src.no_shake + 1
      <3>1. UpTo(StableNeeded, src.no_shake + 1) \in 0 .. StableNeeded
        BY <2>3, UpToFacts
      <3>2. UpTo(StableNeeded, src.no_shake + 1) <= src.no_shake + 1
        BY <2>3, UpToFacts
      <3>3. FrameShake(f) \in {src.no_shake, UpTo(StableNeeded, src.no_shake + 1), 0}
        <4>1. ContinueMin \in Nat /\ src.cont + 1 \in Nat /\ ContinueMin + 1 \in Nat
          BY <1>2, Thresholds DEF TypeOK
        <4>2. FrameCont \in Int
          BY <4>1, UpToFacts DEF FrameCont
        <4>3. CASE FrameCont <= ContinueMin
          BY <4>3 DEF FrameShake
        <4>4. CASE ~ (FrameCont <= ContinueMin)
          BY <4>1, <4>2, <4>4 DEF FrameShake
        <4> QED
          BY <4>3, <4>4
      <3> QED
        BY <2>3, <3>1, <3>2, <3>3
    <2>5. s.err = UpTo(ErrMax, src.err + 1)
      BY <1>4, <2>1
    <2>6. /\ src.err + 1 <= ErrMax => s.err = src.err + 1
          /\ src.err + 1 > ErrMax => s.err = ErrMax
      <3>1. src.err + 1 \in Nat /\ ErrMax \in Nat
        BY <2>3
      <3>2. /\ src.err + 1 <= ErrMax => UpTo(ErrMax, src.err + 1) = src.err + 1
            /\ src.err + 1 > ErrMax => UpTo(ErrMax, src.err + 1) = ErrMax
        BY <3>1, UpToFacts
      <3> QED
        BY <2>5, <3>2
    <2>7. CASE keep.mode = 1
      BY <1>4, <2>1, <2>2, <2>3, <2>4, <2>6, <2>7
    <2>8. CASE keep.mode = 0
      <3>1. s.no_shake \in Nat /\ s.no_shake <= 1
        BY <1>4, <2>2, <2>4, <2>8
      <3>2. s.err \in Nat /\ s.err > 0
        BY <2>1, <2>3, <2>6, Thresholds
      <3> QED
        BY <2>1, <3>1, <3>2
    <2> QED
      BY <2>3, <2>7, <2>8
  <1>9. ByMode'
    BY <1>1, <1>3, <1>4, ByModeInterrupt
  <1> QED
    BY <1>2, <1>5, <1>6, <1>7, <1>8, <1>9 DEF IInv, SourceKnown

-----------------------------------------------------------------------------
(* The background.                                                         *)
LEMMA SourceUntouched ==
    ASSUME SourceKnown, UNCHANGED <<sync, ever, src, keep>>, bg # "clear"
    PROVE  SourceKnown'
  BY DEF SourceKnown, LoseUnsteady, Stable, LoseBeforeEver, ForgottenShake,
         KeepingUnsteady, KeepingAlone

LEMMA CountInv == ASSUME IInv, TaskCount PROVE IInv'
  <1>1. TypeOK /\ TypeOK'
    BY TypeTask DEF IInv, Task
  <1>2. /\ bg = "idle" /\ bg' \in {"reset", "poll"}
        /\ UNCHANGED <<sync, ever, active, sntp, edge, fpga, net>>
        /\ keep' = [keep EXCEPT !.unfollow = UpTo(KeepMax + 1, @ + 1)]
        /\ src' = [src EXCEPT !.not_rec = UpTo(NeverWait, @ + 1)]
    BY DEF TaskCount
  <1>3. keep'.mode = keep.mode
    <2>1. keep \in Keeps
      BY <1>1 DEF TypeOK, Keeps
    <2> QED
      BY <1>2, <2>1 DEF Keeps
  <1>4. src'.alive = src.alive /\ src'.no_shake = src.no_shake /\ src'.err = src.err
    <2>1. src \in Sources
      BY <1>1 DEF TypeOK, Sources
    <2> QED
      BY <1>2, <2>1 DEF Sources
  <1>5. SourceKnown'
    BY <1>2, <1>3, <1>4
       DEF IInv, SourceKnown, LoseUnsteady, Stable, LoseBeforeEver, ForgottenShake,
           KeepingUnsteady, KeepingAlone
  <1>6. ByMode' /\ ValidNotWhenLost'
    BY <1>2 DEF IInv, ByMode, ValidNotWhenLost
  <1>7. ShownInStep'
    BY <1>2 DEF IInv, ShownInStep, ShownBySntp, ShownByIrigb
  <1> QED
    BY <1>1, <1>5, <1>6, <1>7 DEF IInv

LEMMA ResetInv == ASSUME IInv, TaskReset PROVE IInv'
  <1>1. TypeOK /\ TypeOK'
    BY TypeTask DEF IInv, Task
  <1>2. /\ bg = "reset" /\ bg' = "clear"
        /\ UNCHANGED <<sync, keep, ever, active, sntp, edge, fpga>>
        /\ src' = [src EXCEPT !.cont = 0, !.alive = FALSE]
    BY DEF TaskReset
  <1>3. src'.alive = FALSE /\ src'.no_shake = src.no_shake
    <2>1. src \in Sources
      BY <1>1 DEF TypeOK, Sources
    <2> QED
      BY <1>2, <2>1 DEF Sources
  <1>4. SourceKnown'
    BY <1>2, <1>3
       DEF IInv, SourceKnown, LoseUnsteady, Stable, LoseBeforeEver, ForgottenShake,
           KeepingUnsteady, KeepingAlone
  <1>5. ByMode' /\ ValidNotWhenLost'
    BY <1>2 DEF IInv, ByMode, ValidNotWhenLost
  <1>6. ShownInStep'
    BY <1>2 DEF IInv, ShownInStep, ShownBySntp, ShownByIrigb
  <1> QED
    BY <1>1, <1>4, <1>5, <1>6 DEF IInv

LEMMA ClearInv == ASSUME IInv, TaskClear PROVE IInv'
  <1>1. TypeOK /\ TypeOK'
    BY TypeTask DEF IInv, Task
  <1>2. /\ bg = "clear" /\ bg' = "poll"
        /\ UNCHANGED <<sync, keep, ever, active, sntp, edge, fpga>>
        /\ src' = [src EXCEPT !.err = 0, !.no_shake = 0]
    BY DEF TaskClear
  <1>3. src'.alive = src.alive /\ src'.no_shake = 0 /\ src'.err = 0
    <2>1. src \in Sources
      BY <1>1 DEF TypeOK, Sources
    <2> QED
      BY <1>2, <2>1 DEF Sources
  <1>4. SourceKnown'
    <2>1. LoseUnsteady' /\ KeepingUnsteady'
      BY <1>3, Thresholds DEF LoseUnsteady, KeepingUnsteady, Stable
    <2>2. LoseBeforeEver' /\ ForgottenShake' /\ KeepingAlone'
      BY <1>2, <1>3 DEF IInv, SourceKnown, LoseBeforeEver, ForgottenShake, KeepingAlone
    <2> QED
      BY <2>1, <2>2 DEF SourceKnown
  <1>5. ByMode' /\ ValidNotWhenLost'
    BY <1>2 DEF IInv, ByMode, ValidNotWhenLost
  <1>6. ShownInStep'
    BY <1>2 DEF IInv, ShownInStep, ShownBySntp, ShownByIrigb
  <1> QED
    BY <1>1, <1>4, <1>5, <1>6 DEF IInv

LEMMA PollInv == ASSUME IInv, sntp_poll PROVE IInv'
  <1>1. TypeOK /\ TypeOK'
    BY TypeTask DEF IInv, Task
  <1>2. /\ bg = "poll" /\ bg' = "choose"
        /\ UNCHANGED <<sync, keep, ever, src, active, edge, fpga>>
    BY DEF sntp_poll
  <1>3. sntp.countdown \in Nat /\ FullValid \in Nat /\ FullValid >= 2
    BY <1>1, Values, Window
  <1>4. /\ sync_logic_allow_sntp_update => sntp'.countdown = Max({0, sntp.countdown - 1})
        /\ ~ sync_logic_allow_sntp_update => sntp'.countdown = sntp.countdown
    <2> DEFINE i == IF sync_logic_allow_sntp_update /\ sntp.tick + 1 >= Poll
                    THEN 0 ELSE sntp.tick + 1
    <2>1. sntp \in Answers
      BY <1>1 DEF TypeOK, Answers
    <2>2. sntp' = IF sync_logic_allow_sntp_update
                  THEN [sntp EXCEPT !.countdown = Max({0, sntp.countdown - 1}), !.tick = i]
                  ELSE [sntp EXCEPT !.tick = 0]
      BY DEF sntp_poll
    <2> HIDE DEF i
    <2> QED
      BY <2>1, <2>2 DEF Answers
  <1>5. sntp.countdown = FullValid /\ sync_logic_allow_sntp_update
          => sntp'.countdown = FullValid - 1
    BY <1>3, <1>4, CountedDown
  <1>6. SourceKnown'
    BY <1>2, SourceUntouched DEF IInv
  <1>7. SyncMode = "irigb" => ~ sync_logic_allow_sntp_update
    BY DEF sync_logic_allow_sntp_update
  <1>8. ByMode' /\ ValidNotWhenLost'
    BY <1>2, <1>4, <1>7 DEF IInv, ByMode, ValidNotWhenLost
  <1>9. ShownInStep'
    <2> SUFFICES ASSUME "Follow" \in edge.state, sync # "Follow"
                 PROVE  ShownBySntp' \/ ShownByIrigb'
      BY <1>2 DEF ShownInStep
    <2>1. CASE active = "sntp"
      BY <1>2, <2>1 DEF ShownBySntp
    <2>2. CASE active # "sntp"
      <3>1. active = "irigb" /\ sync = "Lose" /\ sntp.countdown = FullValid
        BY <1>2, <2>2 DEF IInv, ShownInStep, ShownBySntp, ShownByIrigb
      <3>2. CASE sync_logic_allow_sntp_update
        <4>1. SyncMode = "sntp" \/ IrigbGone
          BY <3>1, <3>2 DEF sync_logic_allow_sntp_update
        <4>2. SyncMode = "sntp" \/ IrigbGone'
          BY <1>2, <4>1 DEF IrigbGone
        <4> QED
          BY <1>2, <1>3, <1>5, <3>1, <3>2, <4>2 DEF ShownByIrigb
      <3>3. CASE ~ sync_logic_allow_sntp_update
        BY <1>2, <1>4, <3>1, <3>3 DEF ShownByIrigb
      <3> QED
        BY <3>2, <3>3
    <2> QED
      BY <2>1, <2>2
  <1> QED
    BY <1>1, <1>6, <1>8, <1>9 DEF IInv

LEMMA ChooseInv == ASSUME IInv, ChooseActive PROVE IInv'
  <1>1. TypeOK /\ TypeOK'
    BY TypeTask DEF IInv, Task
  <1>2. /\ bg = "choose" /\ active' = NewActive
        /\ bg' = IF active' = "sntp" THEN "show" ELSE "idle"
        /\ UNCHANGED <<sync, keep, ever, src, sntp, edge, fpga>>
    BY DEF ChooseActive
  <1>3. SourceKnown'
    BY <1>2, SourceUntouched DEF IInv
  <1>4. /\ SyncMode = "sntp" => active' = "sntp"
        /\ SyncMode = "irigb" => active' = "irigb"
    BY <1>2 DEF NewActive
  <1>5. ByMode' /\ ValidNotWhenLost'
    BY <1>2, <1>4 DEF IInv, ByMode, ValidNotWhenLost
  <1>6. ShownInStep'
    <2> SUFFICES ASSUME "Follow" \in edge.state, sync # "Follow"
                 PROVE  ShownBySntp' \/ ShownByIrigb'
      BY <1>2 DEF ShownInStep
    <2>1. CASE active' = "sntp"
      BY <1>2, <2>1 DEF ShownBySntp
    <2>2. CASE active' # "sntp"
      <3>1. active' = "irigb" /\ SyncMode # "sntp"
        BY <1>1, <1>4, <2>2 DEF TypeOK
      <3>2. sync \in {"Lose", "Keeping"} /\ active \in {"irigb", "sntp"}
        BY <1>1 DEF TypeOK
      <3>3. ASSUME active = "sntp" PROVE FALSE
        <4>1. SyncMode = "dual"
          BY <3>1, <3>3, SyncTimeAssumption DEF IInv, ByMode
        <4>2. Stable(src)
          BY <1>2, <3>1, <3>3, <4>1 DEF NewActive
        <4>3. sync = "Keeping"
          BY <3>2, <4>2 DEF IInv, SourceKnown, LoseUnsteady
        <4>4. src.no_shake <= src.err /\ (src.err = ErrMax => src.no_shake <= 1)
          BY <1>2, <4>3 DEF IInv, SourceKnown, KeepingUnsteady
        <4>5. /\ src.no_shake \in Nat /\ src.err \in Nat /\ src.err <= ErrMax
              /\ ErrMax \in Nat /\ StableNeeded \in Nat
              /\ ErrMax <= StableNeeded /\ StableNeeded > 1
          BY <1>1, Values, Thresholds
        <4>6. src.no_shake >= StableNeeded
          BY <4>2 DEF Stable
        <4> QED
          BY <4>4, <4>5, <4>6
      <3>4. ShownByIrigb
        BY <3>2, <3>3 DEF IInv, ShownInStep, ShownBySntp
      <3>5. CASE sntp.countdown = FullValid
        BY <1>2, <3>1, <3>4, <3>5 DEF ShownByIrigb
      <3>6. CASE IrigbGone /\ sntp.countdown >= FullValid - 1
        <4>1. sntp.countdown > 0
          BY <1>1, <3>6, Values, Window
        <4>2. SyncMode = "dual"
          BY <3>1, <4>1, SyncTimeAssumption DEF IInv, ByMode
        <4> QED
          BY <1>2, <3>1, <3>4, <3>6, <4>1, <4>2 DEF NewActive, sntp_is_valid, ShownByIrigb
      <3> QED
        BY <3>1, <3>4, <3>5, <3>6 DEF ShownByIrigb
    <2> QED
      BY <2>1, <2>2
  <1> QED
    BY <1>1, <1>3, <1>5, <1>6 DEF IInv

LEMMA ShowInv == ASSUME IInv, ShowSntp PROVE IInv'
  <1>1. TypeOK /\ TypeOK'
    BY TypeTask DEF IInv, Task
  <1>2. /\ bg = "show" /\ bg' = "idle"
        /\ UNCHANGED <<sync, keep, ever, src, active, sntp, fpga>>
    BY DEF ShowSntp
  <1>3. SourceKnown'
    BY <1>2, SourceUntouched DEF IInv
  <1>4. active = "sntp"
    BY <1>2 DEF IInv, ByMode
  <1>5. ByMode' /\ ValidNotWhenLost'
    BY <1>2, <1>4 DEF IInv, ByMode, ValidNotWhenLost
  <1>6. "Follow" \in edge'.state => sntp.countdown > 0
    <2>1. edge \in Edges /\ {} \in SUBSET Flags /\ "bad" \in Qualities
      BY <1>1 DEF TypeOK, Edges, Flags, Qualities
    <2>2. ~ sntp_is_valid => edge'.state = {}
      BY <2>1, ShowsType DEF ShowSntp
    <2> QED
      BY <2>2 DEF sntp_is_valid
  <1>7. ShownInStep'
    BY <1>2, <1>4, <1>6 DEF ShownInStep, ShownBySntp
  <1> QED
    BY <1>1, <1>3, <1>5, <1>7 DEF IInv

LEMMA LostAnswerInv == ASSUME IInv, AnswerLost PROVE IInv'
  <1>1. TypeOK'
    BY TypeCallback DEF IInv, Callback
  <1>2. UNCHANGED <<sync, keep, ever, src, active, sntp, edge, fpga, bg>>
    BY DEF AnswerLost
  <1>3. SourceKnown' /\ ByMode' /\ ValidNotWhenLost'
    BY <1>2 DEF IInv, SourceKnown, LoseUnsteady, Stable, LoseBeforeEver, ForgottenShake,
                KeepingUnsteady, KeepingAlone, ByMode, SourceOrLose, ValidNotWhenLost
  <1>4. ShownInStep'
    BY <1>2 DEF IInv, ShownInStep, ShownBySntp, ShownByIrigb, IrigbGone
  <1> QED
    BY <1>1, <1>3, <1>4 DEF IInv

LEMMA ArrivesInv == ASSUME IInv, AnswerArrives PROVE IInv'
  <1>1. TypeOK /\ TypeOK'
    BY TypeCallback DEF IInv, Callback
  <1>2. /\ bg = "idle" /\ bg' = IF sync_logic_allow_sntp_update THEN "answer" ELSE "idle"
        /\ UNCHANGED <<sync, keep, ever, src, active, sntp, edge, fpga>>
    BY DEF AnswerArrives
  <1>3. SourceKnown'
    BY <1>2, SourceUntouched DEF IInv
  <1>4. sync_logic_allow_sntp_update => active = "sntp" \/ SourceOrLose
    <2> SUFFICES ASSUME sync_logic_allow_sntp_update, active # "sntp"
                 PROVE  SourceOrLose
      OBVIOUS
    <2>1. active = "irigb"
      BY <1>1 DEF TypeOK
    <2>2. CASE SyncMode = "sntp"
      BY <1>2, <2>1, <2>2 DEF IInv, ByMode
    <2>3. CASE IrigbGone
      BY <2>3 DEF IrigbGone, IInv, SourceKnown, LoseBeforeEver, SourceOrLose
    <2> QED
      BY <2>2, <2>3 DEF sync_logic_allow_sntp_update
  <1>5. SourceOrLose <=> SourceOrLose'
    BY <1>2 DEF SourceOrLose
  <1>6. SyncMode = "irigb" => ~ sync_logic_allow_sntp_update
    BY DEF sync_logic_allow_sntp_update
  <1>7. ByMode' /\ ValidNotWhenLost'
    BY <1>2, <1>4, <1>5, <1>6 DEF IInv, ByMode, ValidNotWhenLost
  <1>8. ShownInStep'
    BY <1>2 DEF IInv, ShownInStep, ShownBySntp, ShownByIrigb
  <1> QED
    BY <1>1, <1>3, <1>7, <1>8 DEF IInv

LEMMA TakenInv == ASSUME IInv, NEW near \in BOOLEAN, AnswerTaken(near) PROVE IInv'
  <1>1. TypeOK /\ TypeOK'
    BY TypeCallback DEF IInv, Callback
  <1>2. /\ bg = "answer" /\ bg' = "idle"
        /\ UNCHANGED <<sync, keep, ever, src, active, fpga>>
    BY DEF AnswerTaken
  <1>3. sntp'.countdown = FullValid
    <2> DEFINE n == IF near \/ sntp.stable + 1 >= SntpStable THEN 0 ELSE sntp.stable + 1
    <2>1. sntp \in Answers
      BY <1>1 DEF TypeOK, Answers
    <2>2. sntp' = [sntp EXCEPT !.stable = n, !.countdown = FullValid]
      BY DEF AnswerTaken
    <2> HIDE DEF n
    <2> QED
      BY <2>1, <2>2 DEF Answers
  <1>4. FullValid > 0
    BY Window
  <1>5. SourceKnown'
    BY <1>2, SourceUntouched DEF IInv
  <1>6. SyncMode # "irigb" /\ (active = "sntp" \/ SourceOrLose) /\ active \in {"irigb", "sntp"}
    BY <1>1, <1>2 DEF IInv, ByMode, TypeOK
  <1>7. SourceOrLose <=> SourceOrLose'
    BY <1>2 DEF SourceOrLose
  <1>8. ByMode' /\ ValidNotWhenLost'
    BY <1>2, <1>6, <1>7 DEF IInv, ByMode, ValidNotWhenLost
  <1>9. ShownInStep'
    BY <1>2, <1>3, <1>4, <1>6 DEF ShownInStep, ShownBySntp, ShownByIrigb, SourceOrLose
  <1> QED
    BY <1>1, <1>5, <1>8, <1>9 DEF IInv

-----------------------------------------------------------------------------
LEMMA InvInit == Init => IInv
  <1> SUFFICES ASSUME Init PROVE IInv
    OBVIOUS
  <1>1. /\ sync = "Lose" /\ ever = FALSE /\ src.no_shake = 0 /\ src.alive = FALSE
        /\ active = "irigb" /\ sntp.countdown = 0 /\ edge.state = {} /\ fpga.valid = FALSE
        /\ bg = "idle"
    BY DEF Init
  <1>2. SourceKnown
    BY <1>1, Thresholds
       DEF SourceKnown, LoseUnsteady, Stable, LoseBeforeEver, ForgottenShake,
           KeepingUnsteady, KeepingAlone
  <1>3. ByMode /\ ShownInStep /\ ValidNotWhenLost
    BY <1>1 DEF ByMode, SourceOrLose, ShownInStep, ValidNotWhenLost
  <1> QED
    BY <1>2, <1>3, TypeInit DEF IInv

LEMMA InvStep == IInv /\ [Next]_vars => IInv'
  <1> SUFFICES ASSUME IInv, [Next]_vars PROVE IInv'
    OBVIOUS
  <1>1. CASE HardInterrupt
    BY <1>1, NoSourceInv, FrameInv DEF HardInterrupt
  <1>2. CASE Task
    BY <1>2, CountInv, ResetInv, ClearInv, PollInv, ChooseInv, ShowInv DEF Task
  <1>3. CASE Callback
    BY <1>3, LostAnswerInv, ArrivesInv, TakenInv DEF Callback
  <1>4. CASE UNCHANGED vars
    <2>1. TypeOK'
      BY <1>4, TypeStep DEF IInv
    <2>2. UNCHANGED <<sync, keep, ever, src, active, sntp, edge, fpga, bg>>
      BY <1>4 DEF vars
    <2>3. SourceKnown' /\ ByMode' /\ ValidNotWhenLost'
      BY <2>2 DEF IInv, SourceKnown, LoseUnsteady, Stable, LoseBeforeEver, ForgottenShake,
                  KeepingUnsteady, KeepingAlone, ByMode, SourceOrLose, ValidNotWhenLost
    <2>4. ShownInStep'
      BY <2>2 DEF IInv, ShownInStep, ShownBySntp, ShownByIrigb, IrigbGone
    <2> QED
      BY <2>1, <2>3, <2>4 DEF IInv
  <1> QED
    BY <1>1, <1>2, <1>3, <1>4 DEF Next

LEMMA Invariant == Spec => []IInv
  BY InvInit, InvStep, PTL DEF Spec

LEMMA ShownAtRest == IInv => FollowClaimed
  <1> SUFFICES ASSUME IInv, bg = "idle", "Follow" \in edge.state
               PROVE  sync = "Follow" \/ (sntp_is_valid /\ (active = "sntp" \/ sync = "Lose"))
    BY DEF FollowClaimed
  <1>1. sync = "Follow" \/ ShownBySntp \/ ShownByIrigb
    BY DEF IInv, ShownInStep
  <1>2. FullValid > 0
    BY Window
  <1> QED
    BY <1>1, <1>2 DEF ShownBySntp, ShownByIrigb, sntp_is_valid

(* The FPGA is never told, in one report, that the source is valid and that *)
(* the device has lost it: the steady frames that make a source valid are   *)
(* forgotten whenever Lose is entered, and end it when they are complete.   *)
THEOREM NeverValidWhenLost == Spec => []ValidNotWhenLost
  <1>1. IInv => ValidNotWhenLost
    BY DEF IInv
  <1> QED
    BY <1>1, Invariant, PTL

(* Outside the 1-second task, the time is shown as following a source only  *)
(* when the state machine follows IRIG-B, or when an answer of the server   *)
(* is valid and SNTP is active or IRIG-B is lost, whatever the interrupt    *)
(* did between the steps of the task and of the callback.                   *)
THEOREM OnlyFollowedShown == Spec => []FollowClaimed
  BY Invariant, ShownAtRest, PTL
=============================================================================
