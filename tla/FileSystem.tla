------------------------------ MODULE FileSystem -----------------------------
(***************************************************************************)
(* The files in flash (file_system/src/file_system.c), seen through one    *)
(* item of the FAT table.  A file is its pages in flash and its info       *)
(* sector; the file system keeps the page being filled, the running        *)
(* checksum and the last sector erased in RAM.  Every call is the set of   *)
(* its outcomes: the flash operations it makes are done one after another, *)
(* and while a fault is left one of them may fail or be cut by a power    *)
(* failure, with the page or sector it was working on torn or untouched.   *)
(*                                                                         *)
(* A page is <<version, number>>.  A checksum is the list of pages it was  *)
(* taken over: two lists of pages have the same 32-bit sum only if they    *)
(* are equal.                                                              *)
(***************************************************************************)
EXTENDS Integers, Sequences, SequencesExt

CONSTANTS Blank,       \* an erased page or info sector
          Torn,        \* a page or info sector that cannot be read back
          SectorPages, \* pages in a sector (16 in the code)
          FilePages    \* pages of the longest file

ASSUME FlashAssumption == SectorPages \in Nat \ {0} /\ FilePages \in Nat \ {0}

NoSector == -1         \* last_erased_sector = 0xFFFF
NoPage == << >>        \* PageBuffer_size = 0
NoSum == << >>         \* a checksum of 0

Sector(page) == page \div SectorPages
Pages == 0..FilePages-1

(* RAM of the file system when no file is open.                            *)
ClosedRam == [flag |-> "closed", buffer |-> NoPage, checksum |-> NoSum,
              size |-> 0, erased |-> NoSector]

(* What flash and RAM hold, of pages from the set data.                    *)
Infos(data) == [size : Nat, src : Seq(data), sum : Seq(data)]
Flashes(data) == [pages : [Pages -> data \cup {Blank, Torn}],
                  info : Infos(data) \cup {Blank, Torn}]
Rams(data) == [flag : {"closed", "read", "write"}, buffer : data \cup {NoPage},
               checksum : Seq(data), size : Nat, erased : Nat \cup {NoSector}]

-----------------------------------------------------------------------------
(* A run of flash operations: the flash and the sector erased last, the    *)
(* pages written, how it goes (done, an error or a power failure) and the  *)
(* number of faults left.                                                  *)
Run(flash, erased, n, end, left) ==
    [flash |-> flash, erased |-> erased, n |-> n, end |-> end, left |-> left]

Begun(flash, ram, faults) == Run(flash, ram.erased, 0, "done", faults)

(* One more operation, which makes the flash full if it is done and torn   *)
(* if it is interrupted.                                                   *)
Tried(r, full, torn) ==
    {Run(full, r.erased, r.n, "done", r.left)}
    \cup IF r.left = 0 THEN {}
         ELSE {Run(f, r.erased, r.n, e, r.left - 1) :
                 f \in {r.flash, torn}, e \in {"error", "off"}}

SectorOf(flash, page, value) ==
    [flash EXCEPT !.pages = [p \in Pages |->
       IF Sector(p) = Sector(page) THEN value ELSE @[p]]]
PageIs(flash, page, value) == [flash EXCEPT !.pages[page] = value]
InfoIs(flash, value) == [flash EXCEPT !.info = value]

(* Programming over what is not erased garbles it.                         *)
Programmed(old, new) == IF old \in {Blank, new} THEN new ELSE Torn

(* (A mutant: every page erases its sector.)                               *)
EraseAgain(r, page) ==
    {IF e.end = "done" THEN [e EXCEPT !.erased = Sector(page)] ELSE e :
       e \in Tried(r, SectorOf(r.flash, page, Blank), SectorOf(r.flash, page, Torn))}

(* flash_erase_sector: no second erase of the sector erased last.          *)
flash_erase_sector(r, page) ==
    IF Sector(page) = r.erased THEN {r}
    ELSE {IF e.end = "done" THEN [e EXCEPT !.erased = Sector(page)] ELSE e :
            e \in Tried(r, SectorOf(r.flash, page, Blank), SectorOf(r.flash, page, Torn))}

Flash_write(r, page, data) ==
    {IF w.end = "done" THEN [w EXCEPT !.n = @ + 1] ELSE w :
       w \in Tried(r, PageIs(r.flash, page, Programmed(r.flash.pages[page], data)),
                      PageIs(r.flash, page, Torn))}

WritePage(r, page, data) ==
    UNION {IF e.end = "done" THEN Flash_write(e, page, data) ELSE {e} :
             e \in flash_erase_sector(r, page)}

(* The loop of file_write: page by page until one fails.                   *)
OnePageMore(runs, page, data) ==
    UNION {IF w.end = "done" THEN WritePage(w, page, data) ELSE {w} : w \in runs}

WritePages(r, offset, data) ==
    LET upTo[i \in 0..Len(data)] ==
          IF i = 0 THEN {r} ELSE OnePageMore(upTo[i - 1], offset + i - 1, data[i])
    IN  upTo[Len(data)]

(* file_info_write: the sector is erased and written, and only the status  *)
(* of the write counts.                                                    *)
file_info_write(r, info) ==
    UNION {
      IF e.end = "off" THEN {e}
      ELSE Tried(e, InfoIs(e.flash, Programmed(e.flash.info, info)), InfoIs(e.flash, Torn)) :
      e \in Tried(r, InfoIs(r.flash, Blank), InfoIs(r.flash, Torn))}

-----------------------------------------------------------------------------
(* An outcome of a call: the flash and the RAM after it, what it returned, *)
(* the faults left, and whether the power failed in the middle of it.     *)
Outcome(flash, ram, ret, faults, off) ==
    [flash |-> flash, ram |-> ram, ret |-> ret, faults |-> faults, off |-> off]

(* (A mutant: the last part is written without erasing for it.)            *)
FlushUnerased(r, ram) == Flash_write(r, ram.size, ram.buffer)

(* file_close, of the file's last part and of its info.  The result of     *)
(* file_info_write is not looked at.                                       *)
FlushPage(r, ram) == WritePage(r, ram.size, ram.buffer)

Flushed(flash, ram, faults) ==
    IF ram.buffer = NoPage
      THEN {Outcome(flash, ram, 0, faults, FALSE)}
      ELSE {Outcome(r.flash,
                    [ram EXCEPT !.checksum = Append(@, ram.buffer),
                                !.erased = r.erased, !.size = @ + r.n],
                    IF r.end = "done" THEN 0 ELSE -1,
                    r.left, r.end = "off") :
              r \in FlushPage(Begun(flash, ram, faults), ram)}

Recorded(f, src) ==
    LET info == [size |-> f.ram.size, src |-> src, sum |-> f.ram.checksum]
    IN  {Outcome(r.flash,
                 ClosedRam,
                 IF src = f.ram.checksum THEN f.ram.size ELSE -3,
                 r.left, r.end = "off") :
           r \in file_info_write(Begun(f.flash, f.ram, f.faults), info)}

file_close(flash, ram, src, faults) ==
    CASE ram.flag = "closed" -> {Outcome(flash, ram, -1, faults, FALSE)}
      [] ram.flag = "read" ->
           {Outcome(flash, [ram EXCEPT !.flag = "closed"], 0, faults, FALSE)}
      [] ram.flag = "write" ->
           UNION {IF f.off \/ f.ret = -1 THEN {f} ELSE Recorded(f, src) :
                    f \in Flushed(flash, ram, faults)}

(* file_open: an open file is closed first, whatever that returns.         *)
Opened(c, mode) ==
    CASE c.off -> c
      [] ~c.off /\ c.ram # ClosedRam -> [c EXCEPT !.ret = -3]
      [] ~c.off /\ c.ram = ClosedRam -> [c EXCEPT !.ret = 0, !.ram.flag = mode]

file_open(flash, ram, mode, faults) ==
    LET closed == IF ram.flag = "closed" THEN {Outcome(flash, ram, 0, faults, FALSE)}
                                         ELSE file_close(flash, ram, NoSum, faults)
    IN  {Opened(c, mode) : c \in closed}

(* file_write of whole pages and perhaps of a part of one more: a page     *)
(* goes into the checksum before it is erased for and written; the part    *)
(* waits in the page buffer.  (The page buffer is empty on entry: all the  *)
(* blocks of a download but the last are whole pages.)                     *)
file_write(flash, ram, offset, data, part, faults) ==
    IF ram.flag # "write" THEN {Outcome(flash, ram, -1, faults, FALSE)}
    ELSE {LET all == r.end = "done"
          IN  Outcome(r.flash,
                      [ram EXCEPT !.checksum = @ \o SubSeq(data, 1, IF all THEN Len(data)
                                                                           ELSE r.n + 1),
                                  !.erased = r.erased, !.size = @ + r.n,
                                  !.buffer = IF all THEN part ELSE @],
                      IF all THEN Len(data) ELSE -1,
                      r.left, r.end = "off") :
            r \in WritePages(Begun(flash, ram, faults), offset, data)}

(* file_read of n pages.                                                   *)
ReadFails(flash, ram, ret, faults) ==
    IF faults = 0 THEN {} ELSE {Outcome(flash, ram, ret, faults - 1, off) : off \in BOOLEAN}

file_read(flash, ram, n, faults) ==
    IF ram.flag # "read" THEN {Outcome(flash, ram, -1, faults, FALSE)}
    ELSE {Outcome(flash, ram, n, faults, FALSE)} \cup ReadFails(flash, ram, -1, faults)

(* file_info_read, and the comparison DIFF makes: the length and checksum  *)
(* of the file, or nothing.                                                *)
Readable(info) == info \notin {Blank, Torn}

file_info_read(flash, ram, faults) ==
    {Outcome(flash, ram, IF Readable(flash.info) THEN 1 ELSE 0, faults, FALSE)}
    \cup ReadFails(flash, ram, 0, faults)
InfoValid(info) == Readable(info) /\ info.src = info.sum
==============================================================================
