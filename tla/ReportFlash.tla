---------------------------- MODULE ReportFlash -----------------------------
(***************************************************************************)
(* The report store (report_interface.c): per report type, a ring of       *)
(* 128-byte reports in NOR flash, two to a page, erased one sector at a    *)
(* time just before the first write into it.  Which sector was erased last *)
(* is kept in RAM and, for all types together, in a record sector of its   *)
(* own, rewritten after every erase.  After a power cycle the place to go  *)
(* on writing is found by reading the ring (find_report_new_index).        *)
(*                                                                         *)
(* The flash is external: an erase blanks a sector, a program only clears  *)
(* bits, so programming a slot that is not blank garbles it.  A power      *)
(* failure or an error of the driver leaves an erase or a write undone,    *)
(* done in part or done: the driver writes a page in pieces and may give   *)
(* up after any of them, or wait in vain for what the chip then does       *)
(* (nor_qspi.c).                                                           *)
(***************************************************************************)
EXTENDS FrameCounter

CONSTANTS
    Types,       \* report types, each with its region of flash
    Sectors,     \* sectors of a region
    PerSector,   \* REPORT_SECTOR_NUM, reports per sector
    PowerFails,  \* when power may fail: "between" saves, "within" one
    Faults,      \* TRUE: an erase or a write may return an error
    Torn,        \* TRUE: what fails or is cut off may be done, or done in part
    MaxSaves,    \* bound on the saves begun, per type
    MaxMishaps   \* bound on the power failures and flash errors together

max_count == Sectors * PerSector

\* So few operations fail that the counters in the ring lie well within a half:
\* in the code 1024 reports at most, and counters of 16 bits.
FewMishaps == /\ max_count + MaxMishaps + Window < Half
              /\ Half + max_count + MaxMishaps + Window < CntMax

\* And so few that cut-off saves do not fill the ring, but for a sector.
FewerThanRing == MaxMishaps < max_count - PerSector

ASSUME ReportFlashAssumption ==
    /\ Sectors \in Nat /\ Sectors > 1
    /\ PerSector \in Nat /\ PerSector > 1 /\ PerSector % 2 = 0
    /\ (CntMax + 1) % max_count = 0
    /\ PowerFails \subseteq {"between", "within"} /\ Faults \in BOOLEAN /\ Torn \in BOOLEAN
    /\ MaxSaves \in Nat /\ MaxMishaps \in Nat

VARIABLES
    flash,     \* the slots of each region
    record,    \* the record sector: the sector last erased in each region
    ram,       \* report_regions
    op,        \* the save under way, or "idle", or "off"
    begun,     \* number of saves begun, per type
    acked,     \* numbers of the saves that returned TRUE, per type
    marred,    \* of them, those written over what a failed save had left
    mishaps,   \* number of power failures and flash errors
    ordinary   \* per type: no boot so far met a case find_report_new_index misses

vars == <<flash, record, ram, op, begun, acked, marred, mishaps, ordinary>>

Slots == 0 .. max_count - 1
LastSlot == max_count - 1
SectorOf(i) == i \div PerSector
NoSector == Sectors           \* 0xFFFFFFFF, as read from the blank record

\* A slot: the valid flag, the index, whether the checksum fits, and the save
\* it holds.  Blank is all ones; Scrap has index bytes but no flag; one that was
\* programmed twice is known by the save that did it, and is not intact.
Contents == [flag : {"valid", "erased"}, idx : Counters, ok : BOOLEAN, num : Nat]
Blank == [flag |-> "erased", idx |-> CntMax, ok |-> FALSE, num |-> 0]
Scrap(idx) == [flag |-> "erased", idx |-> idx, ok |-> FALSE, num |-> 0]
Broken(idx) == [flag |-> "valid", idx |-> idx, ok |-> FALSE, num |-> 0]
Report(idx, num) == [flag |-> "valid", idx |-> idx, ok |-> TRUE, num |-> num]
Twice(c) == ~ c.ok /\ c.num # 0

\* read_idx = -1 is the uint32_t 0xFFFFFFFF.
Regions == [report_new_cnt : Counters, write_idx : Slots, read_idx : Slots \cup {-1},
            last_erase_sectorID : 0 .. NoSector]

Idle == [pc |-> "idle"]
Off == [pc |-> "off"]
Saving(pc, type, copy) == [pc |-> pc, type |-> type, copy |-> copy]

Ops == {Idle, Off} \cup
       [pc : {"erase", "erase_record", "write_record", "write"}, type : Types,
        copy : [Types -> 0 .. NoSector]]

TypeOK ==
    /\ flash \in [Types -> [Slots -> Contents]]
    /\ record \in [Types -> 0 .. NoSector]
    /\ ram \in [Types -> Regions]
    /\ op \in Ops
    /\ begun \in [Types -> Nat]
    /\ acked \in [Types -> SUBSET Nat] /\ marred \in [Types -> SUBSET Nat]
    /\ mishaps \in Nat
    /\ ordinary \in [Types -> BOOLEAN]

NoRegion == [report_new_cnt |-> 0, write_idx |-> 0, read_idx |-> 0,
             last_erase_sectorID |-> NoSector]

\* A new board: all flash blank, started once.
Init ==
    /\ flash = [t \in Types |-> [i \in Slots |-> Blank]]
    /\ record = [t \in Types |-> NoSector]
    /\ ram = [t \in Types |-> NoRegion]
    /\ op = Idle
    /\ begun = [t \in Types |-> 0]
    /\ acked = [t \in Types |-> {}] /\ marred = [t \in Types |-> {}]
    /\ mishaps = 0
    /\ ordinary = [t \in Types |-> TRUE]
-----------------------------------------------------------------------------
(* Save_Report_to_Flash, one action per operation on the flash.            *)

\* The sector a save of type t writes to.
Target(t) == SectorOf(ram[t].write_idx)

\* (A mutant: erase when the last slot of a sector is written.)
ErasedTooLate(t) == ram[t].write_idx % PerSector = PerSector - 1

\* erase_if_needed compares with the sector last erased, in RAM.
MustErase(t) == Target(t) # ram[t].last_erase_sectorID

\* (A mutant: the index runs past the region.)
NextSlotUnmasked(i) == i + 1

NextSlot(i) == (i + 1) % max_count

SaveBegin(t) ==
    /\ op = Idle
    /\ begun[t] < MaxSaves
    /\ begun' = [begun EXCEPT ![t] = @ + 1]
    /\ ram' = [ram EXCEPT ![t].report_new_cnt = (@ + 1) % (CntMax + 1)]
    /\ op' = Saving(IF MustErase(t) THEN "erase" ELSE "write", t, record)
    /\ UNCHANGED <<flash, record, acked, marred, mishaps, ordinary>>

EraseSector ==
    LET t == op.type IN
    /\ op.pc = "erase"
    /\ flash' = [flash EXCEPT ![t] =
                   [i \in Slots |-> IF SectorOf(i) = Target(t) THEN Blank ELSE @[i]]]
    /\ ram' = [ram EXCEPT ![t].last_erase_sectorID = Target(t)]
    /\ op' = Saving("erase_record", t, op.copy)
    /\ UNCHANGED <<record, begun, acked, marred, mishaps, ordinary>>

\* The record is read, this type's entry changed in the copy, the sector erased.
EraseRecord ==
    LET t == op.type IN
    /\ op.pc = "erase_record"
    /\ op' = Saving("write_record", t, [record EXCEPT ![t] = ram[t].last_erase_sectorID])
    /\ record' = [x \in Types |-> NoSector]
    /\ UNCHANGED <<flash, ram, begun, acked, marred, mishaps, ordinary>>

WriteRecord ==
    /\ op.pc = "write_record"
    /\ record' = op.copy
    /\ op' = Saving("write", op.type, op.copy)
    /\ UNCHANGED <<flash, ram, begun, acked, marred, mishaps, ordinary>>

\* Programming only clears bits.
And[a \in Counters] ==
    [b \in Counters |-> IF a = 0 THEN 0
                        ELSE 2 * And[a \div 2][b \div 2] + ((a % 2) * (b % 2))]

\* What a slot holds after save n has programmed new over old.
Programmed(old, new, n) ==
    IF old = Blank THEN new
    ELSE [flag |-> IF "valid" \in {old.flag, new.flag} THEN "valid" ELSE "erased",
          idx |-> And[old.idx][new.idx], ok |-> FALSE, num |-> n]

\* The second report of a page is written with the first, read back, in front
\* of it, which leaves the first as it is.  The slot was found blank, or else
\* TRUE is returned of a report that cannot be read.
WriteReport ==
    LET t == op.type
        i == ram[t].write_idx
        n == begun[t] IN
    /\ op.pc = "write"
    /\ flash' = [flash EXCEPT ![t][i] = Programmed(@, Report(ram[t].report_new_cnt, n), n)]
    /\ ram' = [ram EXCEPT ![t].read_idx = i, ![t].write_idx = NextSlot(i)]
    /\ acked' = [acked EXCEPT ![t] = @ \cup {n}]
    /\ marred' = [marred EXCEPT ![t] = IF flash[t][i] = Blank THEN @ ELSE @ \cup {n}]
    /\ op' = Idle
    /\ UNCHANGED <<record, begun, mishaps, ordinary>>

\* What may be left of a report whose write is not seen through: its first
\* piece has the index, or the index and the flag, the last the checksum.
Parts(idx, n) == {Scrap(idx), Broken(idx), Report(idx, n)}

\* The operation under way on the flash not done, done in part or done.  A
\* slot of a sector half erased is as it was, blank, or without its flag.
CutOff ==
    LET t == op.type
        i == ram[t].write_idx IN
    \/ UNCHANGED <<flash, record>>
    \/ /\ Torn /\ op.pc = "erase"
       /\ \E part \in [{j \in Slots : SectorOf(j) = Target(t)} -> {"old", "blank", "scrap"}] :
             flash' = [flash EXCEPT ![t] =
                         [j \in Slots |-> IF SectorOf(j) # Target(t) \/ part[j] = "old" THEN @[j]
                                          ELSE IF part[j] = "blank" THEN Blank
                                          ELSE Scrap(@[j].idx)]]
       /\ UNCHANGED record
    \/ /\ Torn /\ op.pc \in {"erase_record", "write_record"}
       /\ record' \in [Types -> 0 .. NoSector]
       /\ UNCHANGED flash
    \/ /\ Torn /\ op.pc = "write"
       /\ \E c \in Parts(ram[t].report_new_cnt, begun[t]) :
             flash' = [flash EXCEPT ![t][i] = Programmed(@, c, begun[t])]
       /\ UNCHANGED record

\* The flash operation returns an error, and the save returns FALSE: it leaves
\* the index where it is, so that the next one writes the same slot.
FlashError ==
    /\ Faults
    /\ mishaps < MaxMishaps
    /\ mishaps' = mishaps + 1
    /\ op.pc \in {"erase", "erase_record", "write_record", "write"}
    /\ CutOff
    /\ op' = Idle
    /\ UNCHANGED <<ram, begun, acked, marred, ordinary>>
-----------------------------------------------------------------------------
(* Power cycles.                                                           *)

PowerFail ==
    /\ mishaps < MaxMishaps
    /\ mishaps' = mishaps + 1
    /\ \/ "between" \in PowerFails /\ op = Idle /\ UNCHANGED <<flash, record>>
       \/ "within" \in PowerFails /\ op \notin {Idle, Off} /\ CutOff
    /\ op' = Off
    /\ UNCHANGED <<ram, begun, acked, marred, ordinary>>

\* The index accepted before slot i, in a scan that accepted all slots before.
IdxBefore(f, i) == IF i = 0 THEN 0 ELSE f[i - 1].idx

Accepted(f, i) == f[i].flag = "valid" /\ check_frame_cnt_add(f[i].idx, IdxBefore(f, i))

Found(cnt, write, read) ==
    [report_new_cnt |-> cnt, write_idx |-> write, read_idx |-> read]

\* Where the scan stops.
Stop(f) == CHOOSE i \in Slots : ~ Accepted(f, i) /\ \A j \in 0 .. i - 1 : Accepted(f, j)

\* (A mutant: the first slot refused is taken for the newest report.)
FoundOffByOne(f) ==
    IF \A i \in Slots : Accepted(f, i) THEN Found(0, 0, 0)
    ELSE Found(IdxBefore(f, Stop(f)), Stop(f), Stop(f))

\* What is made of the place where the scan stops.  When it stops nowhere the
\* region keeps the zeros of report_init.
find_report_new_index(f) ==
    IF \A i \in Slots : Accepted(f, i) THEN Found(0, 0, 0)
    ELSE LET i == Stop(f)
         IN  IF f[i].flag = "valid" /\ f[i].idx = 0 THEN Found(0, 0, i)
             ELSE IF f[i].flag = "erased" /\ i = 0 THEN
                  IF f[LastSlot].flag = "erased" THEN Found(0, 0, 0)
                  ELSE Found(f[LastSlot].idx, 0, LastSlot)
             ELSE Found(IdxBefore(f, i), i, i - 1)

\* The cases a boot does not get right: a ring written exactly to its end, of
\* which sector 0 is not yet erased, or only in part; an index in slot 0 past half
\* of the counter; an index of 0 in a slot that is not the last, for which the scan
\* goes back to slot 0; the older reports of the turn before the counter's wrap
\* taken for newer ones; a slot programmed twice, of whatever index; a record that
\* would have a sector in use erased, or one not blank programmed (a record lost or
\* left stale while it was rewritten, a half-written report without its flag).
WrittenToTheEnd(f) ==
    \/ \A i \in Slots : Accepted(f, i)
    \/ /\ f[0].flag = "valid" /\ f[LastSlot].flag = "valid"
       /\ f[0].idx < f[LastSlot].idx /\ f[LastSlot].idx - f[0].idx <= Half
PastHalf(f) == f[0].flag = "valid" /\ f[0].idx > Half
ZeroInside(f) == Stop(f) # LastSlot /\ f[Stop(f)].flag = "valid" /\ f[Stop(f)].idx = 0
WrapInside(f) == \E i \in 1 .. Stop(f) - 1 : f[i].idx - f[i - 1].idx > Half
ProgrammedTwice(f) == \E i \in Slots : Twice(f[i])
RecordWrong(t) ==
    LET w == find_report_new_index(flash[t]).write_idx
    IN  IF record[t] = SectorOf(w)
        THEN \E i \in Slots : SectorOf(i) = SectorOf(w) /\ w <= i /\ flash[t][i] # Blank
        ELSE w % PerSector # 0

report_init ==
    /\ op = Off
    /\ ram' = [t \in Types |->
                 LET found == find_report_new_index(flash[t])
                 IN  [report_new_cnt |-> found.report_new_cnt,
                      write_idx |-> found.write_idx,
                      read_idx |-> found.read_idx,
                      last_erase_sectorID |-> record[t]]]
    /\ ordinary' = [t \in Types |-> /\ ordinary[t]
                                    /\ ~ WrittenToTheEnd(flash[t])
                                    /\ ~ PastHalf(flash[t])
                                    /\ ~ ZeroInside(flash[t])
                                    /\ ~ WrapInside(flash[t])
                                    /\ ~ ProgrammedTwice(flash[t])
                                    /\ ~ RecordWrong(t)]
    /\ op' = Idle
    /\ UNCHANGED <<flash, record, begun, acked, marred, mishaps>>

Save == \/ \E t \in Types : SaveBegin(t)
        \/ EraseSector \/ EraseRecord \/ WriteRecord \/ WriteReport
Next == Save \/ FlashError \/ PowerFail \/ report_init

Spec == Init /\ [][Next]_vars
-----------------------------------------------------------------------------
(* Properties.                                                             *)

\* The saves that returned TRUE of a report written to a blank slot.
Sound(t) == acked[t] \ marred[t]

\* Read_Report_Content: the slot of the report id places before the latest.
SlotRead(t, id) ==
    LET r == ram[t].read_idx IN IF r >= id THEN r - id ELSE max_count + r - id

\* Reading backwards from the latest, the first report whose checksum fits is
\* the newest one that was saved, or a later one of a save cut off when done.
NewestIsRead(t) ==
    \E id \in Slots :
       LET c == flash[t][SlotRead(t, id)] IN
       /\ c.ok /\ \A n \in Sound(t) : n <= c.num
       /\ \A j \in 0 .. id - 1 : ~ flash[t][SlotRead(t, j)].ok

\* Across any number of power cycles and failed saves, but for the boots listed
\* (Save_Report_to_Flash, find_report_new_index, Read_Report_Content).
NewestReadable ==
    \A t \in Types :
       op = Idle /\ Sound(t) # {} /\ ordinary[t] => NewestIsRead(t)

\* A save's report is in the flash, intact.
Intact(t, n) == \E i \in Slots : flash[t][i].ok /\ flash[t][i].num = n

\* A report whose save returned TRUE stays in the flash, intact, until the ring
\* comes round to its sector.
Kept(t) == \A n \in Sound(t) : begun[t] - n >= max_count - PerSector \/ Intact(t, n)

\* However many saves fail in part or are cut off, but for the boots listed, a
\* report saved stays; what a failed save left costs the one report that is
\* written over it, and no other (Save_Report_to_Flash, erase_if_needed).
SavedReportsKept == \A t \in Types : ordinary[t] => Kept(t)

\* The same of every boot and of every save that returned TRUE, also one written
\* over what a failed save left (report_init finds the places of all types,
\* Save_Report_to_Flash returns TRUE for correct).
SavedReportsKeptAlways ==
    \A t \in Types : \A n \in acked[t] :
       begun[t] - n >= max_count - PerSector \/ Intact(t, n)
=============================================================================
