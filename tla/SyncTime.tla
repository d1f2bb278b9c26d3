------------------------------ MODULE SyncTime ------------------------------
(***************************************************************************)
(* The device's clock, kept by core R0 from an IRIG-B source and, when     *)
(* that is lost, from an SNTP server.  Three activities share its state:   *)
(*   - the hard interrupt, which preempts the others: a good IRIG-B frame, *)
(*     or once a second without a source, runs the synchronisation state   *)
(*     machine and reports to the FPGA (synctime_main_prog);               *)
(*   - the 1-second task: timeouts, the SNTP poll and the choice of the    *)
(*     active source (irigb_sync_task_1s);                                 *)
(*   - the callback for an answer of the server (sntp_recv_callback).      *)
(* The last two run in the background, one after the other.                *)
(*                                                                         *)
(* Counters are kept up to the threshold they are compared with.  A frame  *)
(* is steady (its second as long as the one before, within 10 us), on time *)
(* (its edge within the threshold of the device's own) and next (its UTC   *)
(* follows the last one's), or not.                                        *)
(***************************************************************************)
EXTENDS Integers, FiniteSetsExt

CONSTANTS
    SyncMode,      \* "irigb", "sntp" or "dual"
    Frames,        \* the kinds of frames that arrive: a set of sets of adjectives
    PerSecond,     \* frames between two runs of the 1-second task at most
    StableNeeded,  \* steady frames to trust the source: 9
    ContinueMin,   \* frames before steadiness is looked at: 2
    UtcStable,     \* frames in sequence before their UTC is taken: 3
    LostAfter,     \* seconds without a frame that do not lose the source: 3
    NeverWait,     \* seconds without any frame before SNTP is used: 30
    KeepMax,       \* MAX_SYNC_KEEP_TIME_S, 600
    ErrMax,        \* frames off time that end holdover: 4, fewer than StableNeeded
    Poll,          \* SNTP_POLL_INTERVAL_SEC, 20
    SntpStable     \* SNTP_STABLE_THRESHOLD, 5

ASSUME SyncTimeAssumption ==
    /\ SyncMode \in {"irigb", "sntp", "dual"}
    /\ Frames \subseteq SUBSET {"steady", "ontime", "next"}
    /\ PerSecond \in Nat \ {0} /\ StableNeeded \in Nat \ {0, 1} /\ ContinueMin \in Nat
    /\ UtcStable \in Nat /\ LostAfter \in Nat /\ NeverWait \in Nat /\ NeverWait > LostAfter
    /\ KeepMax \in Nat /\ ErrMax \in 1 .. StableNeeded
    /\ Poll \in Nat \ {0} /\ SntpStable \in Nat \ {0}

VARIABLES
    sync,       \* sync_logic_inf.m_SyncState
    keep,       \* m_KeepMode and m_UnFollowTimeSec
    ever,       \* g_has_ever_synced_irigb
    src,        \* Irigb_shake_inf, and the decoder's utc_stable_cnt
    active,     \* g_sync_active_source
    sntp,       \* sntp_valid_countdown, sntp_tick_counter, sntp_stable_counter
    edge,       \* Clk_Time_Edge: nTimeState, nTimeQuality and who set nUTC
    fpga,       \* the last report to the FPGA, and PPS_Edge_Err_Over_2_Fpga_Number
    bg,         \* where the background is
    net,        \* a request is on its way to the server, or its answer back
    second      \* frames and reports since the last run of the 1-second task

vars == <<sync, keep, ever, src, active, sntp, edge, fpga, bg, net, second>>

UpTo(limit, n) == Min({limit, n})
FullValid == 2 * Poll

TypeOK ==
    /\ sync \in {"Lose", "Follow", "Keeping"}
    /\ keep \in [mode : {0, 1}, unfollow : 0 .. KeepMax + 1]
    /\ ever \in BOOLEAN
    /\ src \in [alive : BOOLEAN, not_rec : 0 .. NeverWait, cont : 0 .. ContinueMin + 1,
                no_shake : 0 .. StableNeeded, err : 0 .. ErrMax, utc : 0 .. UtcStable]
    /\ active \in {"irigb", "sntp"}
    /\ sntp \in [countdown : 0 .. FullValid, tick : 0 .. Poll - 1, stable : 0 .. SntpStable - 1]
    /\ edge \in [state : SUBSET {"SrcOk", "Follow", "Keep"},
                 quality : {"source", "good", "bad"}, utc : {"rtc", "irigb", "sntp"}]
    /\ fpga \in [sync : {"Lose", "Follow", "Keeping"}, valid : BOOLEAN, err : 0 .. 2]
    /\ bg \in {"idle", "reset", "clear", "poll", "choose", "show", "answer"}
    /\ net \in BOOLEAN
    /\ second \in [frames : 0 .. PerSecond, report : BOOLEAN]

\* synctime_time_init.
Init ==
    /\ sync = "Lose" /\ keep = [mode |-> 0, unfollow |-> 0] /\ ever = FALSE
    /\ src = [alive |-> FALSE, not_rec |-> 0, cont |-> 0, no_shake |-> 0, err |-> 0, utc |-> 0]
    /\ active = "irigb"
    /\ sntp = [countdown |-> 0, tick |-> 0, stable |-> 0]
    /\ edge = [state |-> {}, quality |-> "bad", utc |-> "rtc"]
    /\ fpga = [sync |-> "Lose", valid |-> FALSE, err |-> 0]
    /\ bg = "idle" /\ net = FALSE /\ second = [frames |-> 0, report |-> FALSE]
-----------------------------------------------------------------------------
(* Which source may set the clock.                                         *)

sntp_is_valid == sntp.countdown > 0

IrigbGone == IF ever THEN sync = "Lose" ELSE src.not_rec >= NeverWait

sync_logic_allow_irigb_update == SyncMode = "irigb" \/ (SyncMode = "dual" /\ active = "irigb")

\* (A mutant: a device that was never synchronised waits for ever.)
AllowOnlyAfterSync ==
    SyncMode = "sntp" \/ (SyncMode = "dual" /\ (active = "sntp" \/ (ever /\ IrigbGone)))

sync_logic_allow_sntp_update ==
    SyncMode = "sntp" \/ (SyncMode = "dual" /\ (active = "sntp" \/ IrigbGone))
-----------------------------------------------------------------------------
(* The state machine, run in the hard interrupt with the source as s.      *)

Stable(s) == s.no_shake >= StableNeeded
KeptTooLong == keep.unfollow > KeepMax
Shows(e, flags, quality) == [e EXCEPT !.state = flags, !.quality = quality]

\* (A mutant: a source off the device's own second is not followed.)
MayFollowOnTime(s) == Stable(s) /\ s.alive /\ s.err = 0

MayFollow(s) == Stable(s) /\ s.alive

LoseToFollow(s, e) ==
    /\ sync = "Lose" /\ MayFollow(s)
    /\ sync' = "Follow" /\ ever' = TRUE
    /\ edge' = Shows(e, {"SrcOk", "Follow"}, "source")
    /\ src' = s /\ UNCHANGED keep

StayLose(s, e) ==
    /\ sync = "Lose" /\ ~ MayFollow(s)
    /\ edge' = Shows(e, IF s.alive THEN {"SrcOk"} ELSE {}, e.quality)
    /\ src' = s /\ UNCHANGED <<sync, keep, ever>>

FollowStep(s, e) ==
    /\ sync = "Follow"
    /\ IF s.alive
       THEN /\ edge' = Shows(e, e.state, "source")
            /\ keep' = [keep EXCEPT !.unfollow = 0]
            /\ UNCHANGED sync
       ELSE /\ sync' = "Keeping"
            /\ edge' = Shows(e, {"Keep"}, e.quality)
            /\ keep' = [mode |-> 0, unfollow |-> 0]
    /\ src' = s /\ UNCHANGED ever

KeepingToFollow(s, e) ==
    /\ sync = "Keeping" /\ s.alive /\ s.err = 0
    /\ sync' = "Follow"
    /\ edge' = Shows(e, {"SrcOk", "Follow"}, "source")
    /\ src' = s /\ UNCHANGED <<keep, ever>>

QualityKept(e) == IF KeptTooLong THEN "bad" ELSE e.quality

LoseNow(s, e, flags) ==
    /\ sync' = "Lose"
    /\ edge' = Shows(e, flags, QualityKept(e))
    /\ src' = [s EXCEPT !.no_shake = 0]
    /\ UNCHANGED <<keep, ever>>

KeepOn(s, e, mode, flags) ==
    /\ keep' = [keep EXCEPT !.mode = mode]
    /\ edge' = Shows(e, flags, QualityKept(e))
    /\ src' = s /\ UNCHANGED <<sync, ever>>

\* (A mutant: holdover without a source has no end.)
KeepForever(s, e) ==
    /\ sync = "Keeping" /\ ~ (s.alive /\ s.err = 0) /\ keep.mode = 0
    /\ KeepOn(s, e, IF s.alive THEN 1 ELSE 0, {"Keep"})

KeepingWithout(s, e) ==       \* m_KeepMode = 0
    /\ sync = "Keeping" /\ ~ (s.alive /\ s.err = 0) /\ keep.mode = 0
    /\ IF ~ s.alive /\ KeptTooLong THEN LoseNow(s, e, {})
       ELSE KeepOn(s, e, IF s.alive THEN 1 ELSE 0, {"Keep"})

KeepingWithSource(s, e) ==    \* m_KeepMode = 1
    /\ sync = "Keeping" /\ ~ (s.alive /\ s.err = 0) /\ keep.mode = 1
    /\ IF s.alive /\ s.err >= ErrMax THEN LoseNow(s, e, {"SrcOk"})
       ELSE KeepOn(s, e, IF s.alive THEN 1 ELSE 0, IF s.alive THEN {"SrcOk", "Keep"} ELSE {"Keep"})

synctime_sync_statemachine(s, e) ==
    \/ LoseToFollow(s, e) \/ StayLose(s, e)
    \/ FollowStep(s, e)
    \/ KeepingToFollow(s, e) \/ KeepingWithout(s, e) \/ KeepingWithSource(s, e)

\* What the FPGA is told, after the state machine; offTime as in this frame.
send_cpu_2_fpga_inf_prog(offTime) ==
    fpga' = [sync |-> sync', valid |-> Stable(src'),
             err |-> IF Stable(src') /\ offTime THEN UpTo(2, fpga.err + 1) ELSE 0]
-----------------------------------------------------------------------------
(* The hard interrupt.                                                     *)

\* irigb_decoder_main with a complete good frame, the checks of its width and
\* of its edge, and the state machine.
Frame(f) ==
    LET cont == UpTo(ContinueMin + 1, src.cont + 1)
        utc == IF "next" \in f THEN UpTo(UtcStable, src.utc + 1) ELSE 0
        no_shake == CASE cont <= ContinueMin -> src.no_shake
                      [] cont > ContinueMin /\ "steady" \in f -> UpTo(StableNeeded, src.no_shake + 1)
                      [] OTHER -> 0
        s == [alive |-> TRUE, not_rec |-> 0, cont |-> cont, no_shake |-> no_shake,
              err |-> IF "ontime" \in f THEN 0 ELSE UpTo(ErrMax, src.err + 1), utc |-> utc]
        e == IF utc >= UtcStable /\ sync_logic_allow_irigb_update
             THEN [edge EXCEPT !.utc = "irigb"] ELSE edge
    IN  /\ second.frames < PerSecond
        /\ second' = [second EXCEPT !.frames = @ + 1]
        /\ synctime_sync_statemachine(s, e)
        /\ send_cpu_2_fpga_inf_prog("ontime" \notin f)
        /\ UNCHANGED <<active, sntp, bg, net>>

EndsLost == sync = "Lose" \/ (sync = "Keeping" /\ keep.mode = 0 /\ KeptTooLong)

\* Without a source, at nine tenths of each second.  If the state machine ends
\* in Lose, the error count grows.
NoSourceReport ==
    LET s == IF EndsLost THEN [src EXCEPT !.err = UpTo(ErrMax, @ + 1)] ELSE src
    IN  /\ ~ src.alive
        /\ ~ second.report
        /\ second' = [second EXCEPT !.report = TRUE]
        /\ synctime_sync_statemachine(s, edge)
        /\ send_cpu_2_fpga_inf_prog(FALSE)
        /\ UNCHANGED <<active, sntp, bg, net>>
-----------------------------------------------------------------------------
(* The 1-second task.                                                      *)

TaskCount ==
    /\ bg = "idle"
    /\ keep' = [keep EXCEPT !.unfollow = UpTo(KeepMax + 1, @ + 1)]
    /\ src' = [src EXCEPT !.not_rec = UpTo(NeverWait, @ + 1)]
    /\ bg' = IF src'.not_rec > LostAfter THEN "reset" ELSE "poll"
    /\ second' = [frames |-> 0, report |-> FALSE]
    /\ UNCHANGED <<sync, ever, active, sntp, edge, fpga, net>>

\* The test has been made; a frame may have arrived since, and may arrive
\* between the assignments.
TaskReset ==
    /\ bg = "reset"
    /\ src' = [src EXCEPT !.cont = 0, !.alive = FALSE]
    /\ bg' = "clear"
    /\ UNCHANGED <<sync, keep, ever, active, sntp, edge, fpga, net, second>>

TaskClear ==
    /\ bg = "clear"
    /\ src' = [src EXCEPT !.err = 0, !.no_shake = 0]
    /\ bg' = "poll"
    /\ UNCHANGED <<sync, keep, ever, active, sntp, edge, fpga, net, second>>

\* (A mutant: the interval is compared one second late.)
PollOneLate ==
    LET asks == sync_logic_allow_sntp_update /\ sntp.tick >= Poll
    IN  /\ bg = "poll"
        /\ sntp' = IF sync_logic_allow_sntp_update
                   THEN [sntp EXCEPT !.countdown = Max({0, @ - 1}),
                                     !.tick = IF asks THEN 0 ELSE @ + 1]
                   ELSE [sntp EXCEPT !.tick = 0]
        /\ net' = (net \/ asks)
        /\ bg' = "choose"
        /\ UNCHANGED <<sync, keep, ever, src, active, edge, fpga, second>>

sntp_poll ==
    LET asks == sync_logic_allow_sntp_update /\ sntp.tick + 1 >= Poll
    IN  /\ bg = "poll"
        /\ sntp' = IF sync_logic_allow_sntp_update
                   THEN [sntp EXCEPT !.countdown = Max({0, @ - 1}),
                                     !.tick = IF asks THEN 0 ELSE @ + 1]
                   ELSE [sntp EXCEPT !.tick = 0]
        /\ net' = (net \/ asks)
        /\ bg' = "choose"
        /\ UNCHANGED <<sync, keep, ever, src, active, edge, fpga, second>>

\* (A mutant: IRIG-B is active again only when the last answer has expired.)
SntpUntilExpired ==
    CASE SyncMode # "dual" -> SyncMode
      [] SyncMode = "dual" /\ active = "irigb" ->
           IF sntp_is_valid /\ IrigbGone THEN "sntp" ELSE "irigb"
      [] OTHER -> IF src.alive /\ Stable(src) /\ ~ sntp_is_valid THEN "irigb" ELSE "sntp"

\* sync_logic_update_active_source: the source is chosen ...
NewActive ==
    CASE SyncMode # "dual" -> SyncMode
      [] SyncMode = "dual" /\ active = "irigb" ->
           IF sntp_is_valid /\ IrigbGone THEN "sntp" ELSE "irigb"
      [] OTHER -> IF src.alive /\ Stable(src) THEN "irigb" ELSE "sntp"

ChooseActive ==
    /\ bg = "choose"
    /\ active' = NewActive
    /\ bg' = IF active' = "sntp" THEN "show" ELSE "idle"
    /\ UNCHANGED <<sync, keep, ever, src, sntp, edge, fpga, net, second>>

\* (A mutant: an expired answer leaves the state shown as it was.)
ShowOnlyValid ==
    /\ bg = "show"
    /\ edge' = IF sntp_is_valid THEN Shows(edge, {"SrcOk", "Follow"}, "good") ELSE edge
    /\ bg' = "idle"
    /\ UNCHANGED <<sync, keep, ever, src, active, sntp, fpga, net, second>>

\* ... and, if it is SNTP, the state of the time is overwritten.
ShowSntp ==
    /\ bg = "show"
    /\ edge' = IF sntp_is_valid THEN Shows(edge, {"SrcOk", "Follow"}, "good")
               ELSE Shows(edge, {}, "bad")
    /\ bg' = "idle"
    /\ UNCHANGED <<sync, keep, ever, src, active, sntp, fpga, net, second>>
-----------------------------------------------------------------------------
(* Answers of the server (external), lost, late or duplicated.             *)

AnswerLost == /\ net /\ net' = FALSE
              /\ UNCHANGED <<sync, keep, ever, src, active, sntp, edge, fpga, bg, second>>

\* sntp_recv_callback: the test of the synchronisation state ...
AnswerArrives ==
    /\ bg = "idle" /\ net
    /\ net' \in BOOLEAN
    /\ bg' = IF sync_logic_allow_sntp_update THEN "answer" ELSE "idle"
    /\ UNCHANGED <<sync, keep, ever, src, active, sntp, edge, fpga, second>>

\* ... and what is done after it; near, when within SNTP_DIFF_THRESHOLD.
AnswerTaken(near) ==
    LET sets == near \/ sntp.stable + 1 >= SntpStable
    IN  /\ bg = "answer"
        /\ sntp' = [sntp EXCEPT !.stable = IF sets THEN 0 ELSE @ + 1, !.countdown = FullValid]
        /\ edge' = [state |-> {"SrcOk", "Follow"}, quality |-> "good",
                    utc |-> IF sets THEN "sntp" ELSE edge.utc]
        /\ bg' = "idle"
        /\ UNCHANGED <<sync, keep, ever, src, active, fpga, net, second>>
-----------------------------------------------------------------------------
HardInterrupt == NoSourceReport \/ \E f \in Frames : Frame(f)
Task == TaskCount \/ TaskReset \/ TaskClear \/ sntp_poll \/ ChooseActive \/ ShowSntp
Callback == AnswerLost \/ AnswerArrives \/ \E near \in BOOLEAN : AnswerTaken(near)
Next == HardInterrupt \/ Task \/ Callback

Spec == Init /\ [][Next]_vars

\* The interrupt comes every 200 us; the task comes every second, whatever
\* answers arrive, and is worked through, as is an accepted answer.
Fairness == /\ WF_vars(NoSourceReport) /\ SF_vars(Task)
            /\ WF_vars(\E near \in BOOLEAN : AnswerTaken(near))
FairSpec == Spec /\ Fairness
-----------------------------------------------------------------------------
(* Properties.                                                             *)

\* The FPGA is never told that the source is valid and, in the same report,
\* that the device has lost it (the requirement at IRIGB_RELIABLE_STATE_SRC_VALID):
\* the steady frames that make it valid also end Lose, at once.
ValidNotWhenLost == fpga.valid => fpga.sync # "Lose"

\* The time is shown as following a source only when one is followed: the
\* state machine is in Follow; or an answer of the server is valid and SNTP is
\* active or, from the next choice on, will be (outside the 1-second task).
FollowClaimed ==
    bg = "idle" /\ "Follow" \in edge.state
        => sync = "Follow" \/ (sntp_is_valid /\ (active = "sntp" \/ sync = "Lose"))

\* A source that stays steady and on time is in the end followed, and is the
\* active one again, whatever SNTP did in between (sync_logic_update_active_source).
SourceGood == src.alive /\ Stable(src) /\ src.err = 0
ReturnsToIrigb == <>[]SourceGood => <>[](sync = "Follow" /\ active = "irigb")

\* When the source is gone for good, holdover ends, the server is asked again
\* and again, and if it answers, SNTP becomes and stays the active source.
AsksOn == <>[](~ src.alive) => []<>net
TakesOver ==
    <>[](~ src.alive) /\ []<>(sntp.countdown = FullValid)
        => <>[](sync = "Lose" /\ active = "sntp")
=============================================================================
