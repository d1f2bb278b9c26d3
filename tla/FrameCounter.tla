---------------------------- MODULE FrameCounter ----------------------------
(***************************************************************************)
(* The counter carried by every frame and report that crosses a shared     *)
(* memory, and the comparison that tells a new one from an old one         *)
(* (check_frame_u32_cnt_add and check_frame_u16_cnt_add in ipc_common.c,   *)
(* the same function at two widths).                                       *)
(*                                                                         *)
(* In the code CntMax = 16^8 - 1, Half = 2^31, Window = 16 (u32), or       *)
(* CntMax = 16^4 - 1, Half = 2^15, Window = 16 (u16): 0xFFFFFFF0 and       *)
(* 0xFFF0 are CntMax - Window + 1.                                         *)
(***************************************************************************)
EXTENDS Integers

CONSTANTS
    CntMax,   \* largest value of the counter; the next one is 1, never 0
    Half,     \* the two halves in which counters are compared by size
    Window    \* width of the zones at both ends that recognise a wrap

ASSUME FrameCounterAssumption ==
    /\ CntMax \in Nat /\ Half \in Nat /\ Window \in Nat
    /\ 1 < Window
    /\ 2 * Window < Half
    /\ Half + 2 * Window < CntMax

Counters == 0 .. CntMax

NearTop == CntMax - Window + 1

\* (A mutant of NextCnt: the wrap passes through 0.)
WrapToZero(c) == IF c = CntMax THEN 0 ELSE c + 1

\* The sender's increment: the counter wraps to 0 and 0 is skipped.
NextCnt(c) == IF c = CntMax THEN 1 ELSE c + 1

\* The counter d frames before c, for d < CntMax.
CntBefore(c, d) == IF d < c THEN c - d ELSE c - d + CntMax

SameHalf(a, b) == \/ a >= Half /\ b >= Half
                  \/ a <= Half /\ b <= Half

InMiddle(c) == Window < c /\ c < NearTop

\* (Mutants: any other counter is new; after a counter of 0 nothing is.)
AnyChangeIsNew(new, old) == new # 0 /\ new # old
FirstRefused(new, old) == new # 0 /\ old # 0 /\ SameHalf(new, old) /\ new > old

\* TRUE when new counts as a successor of old.
check_frame_cnt_add(new, old) ==
    /\ new # 0
    /\ new # old
    /\ \/ SameHalf(new, old) /\ new > old
       \/ ~ SameHalf(new, old) /\ new < Window /\ old > NearTop
       \/ ~ SameHalf(new, old) /\ InMiddle(new) /\ InMiddle(old) /\ new > old
=============================================================================
