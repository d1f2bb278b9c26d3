-------------------------- MODULE FileSystem_proofs --------------------------
(***************************************************************************)
(* What the calls of the file system do to a file, whatever flash          *)
(* operations fail and however many: the pages counted in the size of a    *)
(* file that is open for writing are those its checksum was taken over, a  *)
(* page is only ever programmed on an erased one, erasing never hits a     *)
(* page already written, and a file that is closed leaves an info that     *)
(* tells the truth, the old one, or none.                                  *)
(*                                                                         *)
(* D is the set of pages.  The loop of file_write is a recursive function, *)
(* whose existence and properties are proved by least counterexample.     *)
(***************************************************************************)
EXTENDS FileSystem, WellFoundedInduction, TLAPS

\* A set of natural numbers has a least member.
LEMMA HasLeast ==
    ASSUME NEW S \in SUBSET Nat, S # {}
    PROVE  \E m \in S : \A k \in S : m <= k
  <1> DEFINE R == OpToRel(<, Nat)
  <1>1. IsWellFoundedOn(R, Nat)
    BY NatLessThanWellFounded
  <1> HIDE DEF R
  <1>2. PICK m \in S : \A k \in S : ~ (<<k, m>> \in R)
    BY <1>1, WFMin
  <1>3. \A k \in S : ~ (k < m)
    BY <1>2 DEF R, OpToRel
  <1> QED BY <1>3

\* One sequence after another.
LEMMA CatIs ==
    ASSUME NEW S, NEW s \in Seq(S), NEW n \in Nat, Len(s) = n, NEW t \in Seq(S)
    PROVE  /\ s \o t \in Seq(S) /\ Len(s \o t) = n + Len(t)
           /\ \A i \in 1..Len(t) : (s \o t)[n + i] = t[i]
           /\ \A i \in 1..n : (s \o t)[i] = s[i]
  <1>1. s \o t \in Seq(S) /\ Len(s \o t) = n + Len(t)
    OBVIOUS
  <1>2. \A i \in 1..n : (s \o t)[i] = s[i]
    OBVIOUS
  <1>3. Len(t) \in Nat
    OBVIOUS
  <1>4. ASSUME NEW i \in 1..Len(t) PROVE (s \o t)[n + i] = t[i]
    <2>1. n + i \in 1..(n + Len(t)) /\ ~(n + i <= n) /\ n + i - n = i
      BY <1>3
    <2>2. QED
      BY <2>1
  <1>5. QED
    BY <1>1, <1>2, <1>4

-----------------------------------------------------------------------------
(* Sectors.                                                                *)
LEMMA SectorIs ==
    ASSUME NEW p \in Nat
    PROVE  /\ Sector(p) \in Nat
           /\ Sector(p) * SectorPages <= p /\ p < (Sector(p) + 1) * SectorPages
  BY FlashAssumption DEF Sector

LEMMA SectorOrder ==
    ASSUME NEW p \in Nat, NEW q \in Nat, p <= q
    PROVE  Sector(p) <= Sector(q)
  <1> DEFINE a == Sector(p)
             b == Sector(q)
  <1>1. a \in Nat /\ b \in Nat /\ a * SectorPages <= p /\ q < (b + 1) * SectorPages
    BY SectorIs
  <1> HIDE DEF a, b
  <1>2. SUFFICES ASSUME b + 1 <= a PROVE FALSE
    BY <1>1 DEF a, b
  <1>3. (b + 1) * SectorPages <= a * SectorPages
    BY <1>1, <1>2, FlashAssumption
  <1>4. b + 1 \in Nat /\ (b + 1) * SectorPages \in Nat /\ a * SectorPages \in Nat
    BY <1>1, FlashAssumption
  <1>5. QED
    BY <1>1, <1>3, <1>4

-----------------------------------------------------------------------------
(* Parts of a file that is open for writing.                               *)
Prefix(f, size, sum) == \A p \in Pages : p < size => f.pages[p] = sum[p + 1]

\* Where the next page goes is erased, or erasing its sector hits no page written.
EraseSafe(erased, size) ==
    erased = Sector(size) \/ \A p \in 0..size-1 : Sector(p) # Sector(size)

BlankRest(f, erased, size) ==
    \A p \in Pages : p >= size /\ Sector(p) = erased => f.pages[p] = Blank

\* Behind the page written last.
LEMMA NextPageSafe ==
    ASSUME NEW size \in Nat PROVE EraseSafe(Sector(size), size + 1)
  <1>1. SUFFICES ASSUME Sector(size + 1) # Sector(size), NEW p \in 0..size
                 PROVE  Sector(p) # Sector(size + 1)
    BY DEF EraseSafe
  <1>2. /\ Sector(p) <= Sector(size) /\ Sector(size) <= Sector(size + 1)
        /\ Sector(p) \in Nat /\ Sector(size) \in Nat /\ Sector(size + 1) \in Nat
    BY SectorOrder, SectorIs
  <1>3. QED
    BY <1>1, <1>2

-----------------------------------------------------------------------------
(* Flash operations.                                                       *)
RunsOf(D) == [flash : Flashes(D), erased : Nat \cup {NoSector}, n : Nat,
              end : {"done", "error", "off"}, left : Nat]

LEMMA TriedIs ==
    ASSUME NEW r, NEW full, NEW torn, NEW x \in Tried(r, full, torn)
    PROVE  /\ x = Run(x.flash, r.erased, r.n, x.end, x.left)
           /\ x.end \in {"done", "error", "off"}
           /\ x.end = "done" => x.flash = full /\ x.left = r.left
           /\ x.end # "done" => /\ x.flash \in {r.flash, torn}
                                /\ r.left # 0 /\ x.left = r.left - 1
  BY DEF Tried, Run

LEMMA FlashParts ==
    ASSUME NEW D, NEW f \in Flashes(D)
    PROVE  /\ f.pages \in [Pages -> D \cup {Blank, Torn}]
           /\ f.info \in Infos(D) \cup {Blank, Torn}
           /\ f = [pages |-> f.pages, info |-> f.info]
  BY DEF Flashes

LEMMA SectorOfIs ==
    ASSUME NEW D, NEW f \in Flashes(D), NEW page, NEW value, value \in {Blank, Torn}
    PROVE  /\ SectorOf(f, page, value) \in Flashes(D)
           /\ SectorOf(f, page, value).info = f.info
           /\ \A p \in Pages :
                /\ Sector(p) = Sector(page) => SectorOf(f, page, value).pages[p] = value
                /\ Sector(p) # Sector(page) => SectorOf(f, page, value).pages[p] = f.pages[p]
  BY FlashParts DEF SectorOf, Flashes

LEMMA PageIsIs ==
    ASSUME NEW D, NEW f \in Flashes(D), NEW page, NEW value,
           page \in Pages => value \in D \cup {Blank, Torn}
    PROVE  LET g == PageIs(f, page, value)
           IN  /\ g \in Flashes(D) /\ g.info = f.info
               /\ \A p \in Pages : g.pages[p] = IF p = page THEN value ELSE f.pages[p]
  BY FlashParts DEF PageIs, Flashes

LEMMA InfoIsIs ==
    ASSUME NEW D, NEW f \in Flashes(D), NEW value \in Infos(D) \cup {Blank, Torn}
    PROVE  LET g == InfoIs(f, value)
           IN  g \in Flashes(D) /\ g.info = value /\ g.pages = f.pages
  BY FlashParts DEF InfoIs, Flashes

LEMMA RunIs ==
    ASSUME NEW D, NEW r \in RunsOf(D)
    PROVE  /\ r.flash \in Flashes(D) /\ r.erased \in Nat \cup {NoSector} /\ r.n \in Nat
           /\ r.end \in {"done", "error", "off"} /\ r.left \in Nat
           /\ r = Run(r.flash, r.erased, r.n, r.end, r.left)
  BY DEF RunsOf, Run

LEMMA RunTyped ==
    ASSUME NEW D, NEW f \in Flashes(D), NEW e \in Nat \cup {NoSector}, NEW n \in Nat,
           NEW end \in {"done", "error", "off"}, NEW l \in Nat
    PROVE  Run(f, e, n, end, l) \in RunsOf(D)
  BY DEF RunsOf, Run

\* What a flash operation leaves of run r: x, which counts no more faults.
Goes(D, r, x) == x \in RunsOf(D) /\ x.left <= r.left /\ x.flash.info = r.flash.info

LEMMA TriedGoes ==
    ASSUME NEW D, NEW r \in RunsOf(D), NEW full, NEW torn, NEW x \in Tried(r, full, torn),
           full \in Flashes(D), full.info = r.flash.info,
           torn \in Flashes(D), torn.info = r.flash.info
    PROVE  Goes(D, r, x) /\ x.erased = r.erased /\ x.n = r.n
  <1>1. /\ x = Run(x.flash, r.erased, r.n, x.end, x.left)
        /\ x.end \in {"done", "error", "off"}
        /\ x.flash \in {full, torn, r.flash} /\ x.left \in Nat /\ x.left <= r.left
    <2>1. r.left \in Nat
      BY RunIs
    <2>2. /\ x = Run(x.flash, r.erased, r.n, x.end, x.left)
          /\ x.end \in {"done", "error", "off"}
          /\ x.end = "done" => x.flash = full /\ x.left = r.left
          /\ x.end # "done" => x.flash \in {r.flash, torn} /\ r.left # 0 /\ x.left = r.left - 1
      BY TriedIs
    <2>3. QED
      BY <2>1, <2>2
  <1>2. x \in RunsOf(D)
    <2>1. /\ r.flash \in Flashes(D) /\ r.erased \in Nat \cup {NoSector} /\ r.n \in Nat
          /\ x.flash \in Flashes(D)
      BY <1>1, RunIs
    <2>2. Run(x.flash, r.erased, r.n, x.end, x.left) \in RunsOf(D)
      BY <1>1, <2>1, RunTyped
    <2>3. QED
      BY <1>1, <2>2
  <1>3. x.erased = r.erased /\ x.n = r.n
    BY <1>1 DEF Run
  <1>4. QED
    BY <1>1, <1>2, <1>3, RunIs DEF Goes

LEMMA EraseDoes ==
    ASSUME NEW D, NEW r \in RunsOf(D), r.end = "done", NEW page \in Nat,
           NEW x \in flash_erase_sector(r, page)
    PROVE  /\ Goes(D, r, x) /\ x.n = r.n
           /\ x.erased = IF x.end = "done" THEN Sector(page) ELSE r.erased
           /\ Sector(page) = r.erased => x = r
           /\ \A p \in Pages : Sector(p) # Sector(page) => x.flash.pages[p] = r.flash.pages[p]
           /\ Sector(page) # r.erased /\ x.end = "done" =>
                \A p \in Pages : Sector(p) = Sector(page) => x.flash.pages[p] = Blank
  <1> DEFINE full == SectorOf(r.flash, page, Blank)
             torn == SectorOf(r.flash, page, Torn)
  <1>f. /\ full \in Flashes(D) /\ full.info = r.flash.info
        /\ torn \in Flashes(D) /\ torn.info = r.flash.info
        /\ \A p \in Pages : Sector(p) = Sector(page) => full.pages[p] = Blank
        /\ \A p \in Pages : Sector(p) # Sector(page) => /\ full.pages[p] = r.flash.pages[p]
                                                        /\ torn.pages[p] = r.flash.pages[p]
    <2>1. r.flash \in Flashes(D)
      BY RunIs
    <2>2. /\ full \in Flashes(D) /\ full.info = r.flash.info
          /\ \A p \in Pages : /\ Sector(p) = Sector(page) => full.pages[p] = Blank
                              /\ Sector(p) # Sector(page) => full.pages[p] = r.flash.pages[p]
      BY <2>1, SectorOfIs
    <2>3. /\ torn \in Flashes(D) /\ torn.info = r.flash.info
          /\ \A p \in Pages : Sector(p) # Sector(page) => torn.pages[p] = r.flash.pages[p]
      BY <2>1, SectorOfIs
    <2>4. QED
      BY <2>2, <2>3
  <1>1. CASE Sector(page) = r.erased
    <2>1. x = r
      BY <1>1 DEF flash_erase_sector
    <2>2. QED
      BY <1>1, <2>1, RunIs DEF Goes
  <1>2. CASE Sector(page) # r.erased
    <2>1. PICK e \in Tried(r, full, torn) :
            x = IF e.end = "done" THEN [e EXCEPT !.erased = Sector(page)] ELSE e
      BY <1>2 DEF flash_erase_sector
    <2>2. Goes(D, r, e) /\ e.erased = r.erased /\ e.n = r.n
      BY <1>f, <2>1, TriedGoes
    <2>3. /\ e.end = "done" => e.flash = full
          /\ e.end # "done" => e.flash \in {r.flash, torn}
      BY <2>1, TriedIs
    <2> HIDE DEF full, torn
    <2>e. e \in RunsOf(D) /\ e = Run(e.flash, e.erased, e.n, e.end, e.left)
      BY <2>2, RunIs DEF Goes
    <2>4. CASE e.end = "done"
      <3>1. x = Run(e.flash, Sector(page), e.n, e.end, e.left)
        BY <2>1, <2>4, <2>e DEF Run
      <3>2. x \in RunsOf(D)
        BY <2>e, <3>1, RunTyped, RunIs, SectorIs
      <3>3. x.flash = full /\ x.erased = Sector(page) /\ x.n = r.n /\ x.left = e.left /\ x.end = "done"
        BY <2>2, <2>3, <2>4, <3>1 DEF Run
      <3>4. QED
        BY <1>2, <1>f, <2>2, <3>2, <3>3 DEF Goes
    <2>5. CASE e.end # "done"
      BY <1>2, <1>f, <2>1, <2>2, <2>3, <2>5
    <2>6. QED
      BY <2>4, <2>5
  <1>3. QED
    BY <1>1, <1>2

LEMMA WriteDoes ==
    ASSUME NEW D, NEW r \in RunsOf(D), r.end = "done", NEW page \in Nat, NEW data \in D,
           NEW x \in Flash_write(r, page, data)
    PROVE  /\ Goes(D, r, x) /\ x.erased = r.erased
           /\ x.n = IF x.end = "done" THEN r.n + 1 ELSE r.n
           /\ \A p \in Pages : p # page => x.flash.pages[p] = r.flash.pages[p]
           /\ x.end = "done" /\ page \in Pages /\ r.flash.pages[page] = Blank =>
                x.flash.pages[page] = data
  <1> DEFINE value == Programmed(r.flash.pages[page], data)
             full == PageIs(r.flash, page, value)
             torn == PageIs(r.flash, page, Torn)
  <1>1. value \in D \cup {Blank, Torn} /\ (r.flash.pages[page] = Blank => value = data)
    BY DEF Programmed
  <1> HIDE DEF value
  <1>f. /\ full \in Flashes(D) /\ full.info = r.flash.info
        /\ torn \in Flashes(D) /\ torn.info = r.flash.info
        /\ \A p \in Pages : /\ full.pages[p] = IF p = page THEN value ELSE r.flash.pages[p]
                            /\ torn.pages[p] = IF p = page THEN Torn ELSE r.flash.pages[p]
    BY <1>1, PageIsIs, RunIs
  <1>2. PICK w \in Tried(r, full, torn) :
          x = IF w.end = "done" THEN [w EXCEPT !.n = @ + 1] ELSE w
    BY DEF Flash_write, value
  <1>3. Goes(D, r, w) /\ w.erased = r.erased /\ w.n = r.n
    BY <1>f, <1>2, TriedGoes
  <1>4. /\ w.end = "done" => w.flash = full
        /\ w.end # "done" => w.flash \in {r.flash, torn}
    BY <1>2, TriedIs
  <1> HIDE DEF full, torn
  <1>w. w \in RunsOf(D) /\ w = Run(w.flash, w.erased, w.n, w.end, w.left)
    BY <1>3, RunIs DEF Goes
  <1>5. CASE w.end = "done"
    <2>1. x = Run(w.flash, w.erased, w.n + 1, w.end, w.left)
      BY <1>2, <1>5, <1>w DEF Run
    <2>2. x \in RunsOf(D)
      <3>1. w.n \in Nat /\ w.n + 1 \in Nat
        BY <1>w, RunIs
      <3>2. QED
        BY <1>w, <2>1, <3>1, RunTyped, RunIs
    <2>3. x.flash = full /\ x.erased = r.erased /\ x.n = r.n + 1 /\ x.left = w.left /\ x.end = "done"
      BY <1>3, <1>4, <1>5, <2>1 DEF Run
    <2>4. QED
      BY <1>1, <1>f, <1>3, <2>2, <2>3 DEF Goes
  <1>6. CASE w.end # "done"
    BY <1>f, <1>2, <1>3, <1>4, <1>6
  <1>7. QED
    BY <1>5, <1>6

-----------------------------------------------------------------------------
(* One page: whatever happens to it, the pages before it stay; and if its  *)
(* sector was erased for it and it is written, it is there.                *)
LEMMA WritePageDoes ==
    ASSUME NEW D, NEW r \in RunsOf(D), r.end = "done", NEW size \in Nat, NEW data \in D,
           EraseSafe(r.erased, size), NEW x \in WritePage(r, size, data)
    PROVE  /\ Goes(D, r, x) /\ x.n = IF x.end = "done" THEN r.n + 1 ELSE r.n
           /\ x.end # "done" => EraseSafe(x.erased, size)
           /\ x.end = "done" => x.erased = Sector(size)
           /\ \A p \in Pages : p < size => x.flash.pages[p] = r.flash.pages[p]
           /\ x.end = "done" /\ BlankRest(r.flash, r.erased, size) =>
                /\ size \in Pages => x.flash.pages[size] = data
                /\ BlankRest(x.flash, x.erased, size + 1)
  <1>1. PICK e \in flash_erase_sector(r, size) :
          x \in IF e.end = "done" THEN Flash_write(e, size, data) ELSE {e}
    BY DEF WritePage
  <1>2. /\ Goes(D, r, e) /\ e.n = r.n
        /\ e.erased = IF e.end = "done" THEN Sector(size) ELSE r.erased
        /\ Sector(size) = r.erased => e = r
        /\ \A p \in Pages : Sector(p) # Sector(size) => e.flash.pages[p] = r.flash.pages[p]
        /\ Sector(size) # r.erased /\ e.end = "done" =>
             \A p \in Pages : Sector(p) = Sector(size) => e.flash.pages[p] = Blank
    BY <1>1, EraseDoes
  <1>3. \A p \in Pages : p < size => e.flash.pages[p] = r.flash.pages[p]
    <2>1. SUFFICES ASSUME NEW p \in Pages, p < size
                   PROVE  e.flash.pages[p] = r.flash.pages[p]
      OBVIOUS
    <2>2. p \in 0..size-1
      BY <2>1, FlashAssumption DEF Pages
    <2>3. QED
      BY <1>2, <2>2 DEF EraseSafe
  <1>4. CASE e.end # "done"
    <2>1. x = e
      BY <1>1, <1>4
    <2>2. QED
      BY <1>2, <1>3, <1>4, <2>1
  <1>5. CASE e.end = "done"
    <2>1. e \in RunsOf(D) /\ x \in Flash_write(e, size, data)
      BY <1>1, <1>2, <1>5 DEF Goes
    <2>2. /\ Goes(D, e, x) /\ x.erased = e.erased
          /\ x.n = IF x.end = "done" THEN e.n + 1 ELSE e.n
          /\ \A p \in Pages : p # size => x.flash.pages[p] = e.flash.pages[p]
          /\ x.end = "done" /\ size \in Pages /\ e.flash.pages[size] = Blank =>
               x.flash.pages[size] = data
      BY <1>5, <2>1, WriteDoes
    <2>3. Goes(D, r, x)
      <3>1. e.left \in Nat /\ x.left \in Nat /\ r.left \in Nat
        BY <2>1, <2>2, RunIs DEF Goes
      <3>2. QED
        BY <1>2, <2>2, <3>1 DEF Goes
    <2>4. EraseSafe(x.erased, size) /\ x.erased = Sector(size)
      BY <1>2, <1>5, <2>2 DEF EraseSafe
    <2>5. \A p \in Pages : p < size => x.flash.pages[p] = r.flash.pages[p]
      <3>1. \A p \in Pages : p \in Nat
        BY FlashAssumption DEF Pages
      <3>2. QED
        BY <1>3, <2>2, <3>1
    <2>6. ASSUME x.end = "done", BlankRest(r.flash, r.erased, size)
          PROVE  /\ size \in Pages => x.flash.pages[size] = data
                 /\ BlankRest(x.flash, x.erased, size + 1)
      <3>1. \A p \in Pages : p >= size /\ Sector(p) = Sector(size) => e.flash.pages[p] = Blank
        BY <1>2, <1>5, <2>6 DEF BlankRest
      <3>2. \A p \in Pages : p \in Nat
        BY FlashAssumption DEF Pages
      <3>3. size \in Pages => x.flash.pages[size] = data
        BY <2>2, <2>6, <3>1
      <3>4. BlankRest(x.flash, x.erased, size + 1)
        BY <2>2, <2>4, <3>1, <3>2 DEF BlankRest
      <3>5. QED
        BY <3>3, <3>4
    <2>7. QED
      BY <1>2, <2>2, <2>3, <2>4, <2>5, <2>6
  <1>6. QED
    BY <1>4, <1>5

-----------------------------------------------------------------------------
(* The loop of file_write.                                                 *)

\* One step of the recursion by which WritePages is defined.
MoreOf(u, r, offset, data, i) ==
    IF i = 0 THEN {r} ELSE OnePageMore(u[i - 1], offset + i - 1, data[i])

LoopUpTo(n, u, r, offset, data) == u = [i \in 0..n |-> MoreOf(u, r, offset, data, i)]

LEMMA LoopExists ==
    ASSUME NEW r, NEW offset, NEW data
    PROVE  \A n \in Nat : \E u : LoopUpTo(n, u, r, offset, data)
  <1> DEFINE Bad == {n \in Nat : ~ \E u : LoopUpTo(n, u, r, offset, data)}
  <1> SUFFICES ASSUME Bad # {} PROVE FALSE
    OBVIOUS
  <1>1. PICK n \in Bad : \A k \in Bad : n <= k
    BY HasLeast
  <1>2. CASE n = 0
    <2> DEFINE f == [i \in 0..0 |-> {r}]
    <2>1. \A i \in 0..0 : i = 0
      OBVIOUS
    <2>2. f = [i \in 0..0 |-> MoreOf(f, r, offset, data, i)]
      BY <2>1 DEF MoreOf
    <2>3. LoopUpTo(0, f, r, offset, data)
      BY <2>2 DEF LoopUpTo
    <2>4. QED
      BY <1>2, <2>3
  <1>3. CASE n # 0
    <2>1. n - 1 \in Nat /\ n \in Nat /\ n - 1 \notin Bad
      BY <1>1, <1>3
    <2>2. PICK g : LoopUpTo(n - 1, g, r, offset, data)
      BY <2>1
    <2>3. /\ \A i \in 0..n-1 : g[i] = MoreOf(g, r, offset, data, i)
      BY <2>2 DEF LoopUpTo
    <2> DEFINE f == [i \in 0..n |-> IF i < n THEN g[i] ELSE MoreOf(g, r, offset, data, n)]
    <2>4. \A i \in 0..n : f[i] = MoreOf(f, r, offset, data, i)
      <3>1. SUFFICES ASSUME NEW i \in 0..n PROVE f[i] = MoreOf(f, r, offset, data, i)
        OBVIOUS
      <3>2. f[i] = MoreOf(g, r, offset, data, i)
        BY <2>1, <2>3
      <3>3. CASE i = 0
        BY <3>2, <3>3 DEF MoreOf
      <3>4. CASE i # 0
        <4>1. i - 1 \in 0..n /\ i - 1 < n
          BY <2>1, <3>4
        <4>2. f[i - 1] = g[i - 1]
          BY <4>1
        <4>3. QED
          BY <3>2, <3>4, <4>2 DEF MoreOf
      <3>5. QED
        BY <3>3, <3>4
    <2>5. f = [i \in 0..n |-> f[i]]
      OBVIOUS
    <2> HIDE DEF f
    <2>6. LoopUpTo(n, f, r, offset, data)
      BY <2>4, <2>5 DEF LoopUpTo
    <2>7. QED
      BY <1>1, <2>6
  <1>4. QED
    BY <1>2, <1>3

LEMMA WritePagesIs ==
    ASSUME NEW r, NEW offset, NEW data, Len(data) \in Nat
    PROVE  \E u : /\ \A i \in 0..Len(data) : u[i] = MoreOf(u, r, offset, data, i)
                  /\ WritePages(r, offset, data) = u[Len(data)]
  <1> DEFINE upTo == CHOOSE u : u = [i \in 0..Len(data) |->
                       IF i = 0 THEN {r} ELSE OnePageMore(u[i - 1], offset + i - 1, data[i])]
  <1>1. PICK u : u = [i \in 0..Len(data) |->
                       IF i = 0 THEN {r} ELSE OnePageMore(u[i - 1], offset + i - 1, data[i])]
    <2>1. PICK u : LoopUpTo(Len(data), u, r, offset, data)
      BY LoopExists
    <2>2. u = [i \in 0..Len(data) |-> MoreOf(u, r, offset, data, i)]
      BY <2>1 DEF LoopUpTo
    <2>3. QED
      BY <2>2 DEF MoreOf
  <1>2. upTo = [i \in 0..Len(data) |->
                  IF i = 0 THEN {r} ELSE OnePageMore(upTo[i - 1], offset + i - 1, data[i])]
    BY <1>1
  <1>3. WritePages(r, offset, data) = upTo[Len(data)]
    BY DEF WritePages
  <1> HIDE DEF upTo
  <1>4. \A i \in 0..Len(data) : upTo[i] = MoreOf(upTo, r, offset, data, i)
    BY <1>2 DEF MoreOf
  <1>5. QED
    BY <1>3, <1>4

\* Run x of a loop that began with run r and has come to page i of the data.
LoopAt(D, r, x, offset, sum, i) ==
    /\ Goes(D, r, x)
    /\ IF x.end = "done" THEN x.n = i ELSE x.n < i
    /\ Prefix(x.flash, offset + x.n, sum)
    /\ EraseSafe(x.erased, offset + x.n)
    /\ x.end = "done" => BlankRest(x.flash, x.erased, offset + x.n)

LEMMA LoopStep ==
    ASSUME NEW D, NEW r \in RunsOf(D), NEW w, NEW offset \in Nat, NEW sum, NEW i \in Nat,
           LoopAt(D, r, w, offset, sum, i), NEW data \in D, sum[offset + i + 1] = data,
           NEW x \in IF w.end = "done" THEN WritePage(w, offset + i, data) ELSE {w}
    PROVE  LoopAt(D, r, x, offset, sum, i + 1)
  <1>1. w \in RunsOf(D) /\ w.n \in Nat /\ w.left \in Nat /\ r.left \in Nat
    BY RunIs DEF LoopAt, Goes
  <1>2. CASE w.end # "done"
    BY <1>1, <1>2 DEF LoopAt
  <1>3. CASE w.end = "done"
    <2> DEFINE size == offset + i
    <2>1. size \in Nat /\ w.n = i /\ EraseSafe(w.erased, size) /\ x \in WritePage(w, size, data)
          /\ BlankRest(w.flash, w.erased, size) /\ Prefix(w.flash, size, sum)
      BY <1>3 DEF LoopAt
    <2>2. sum[size + 1] = data
      OBVIOUS
    <2> HIDE DEF size
    <2>3. /\ Goes(D, w, x) /\ x.n = IF x.end = "done" THEN w.n + 1 ELSE w.n
          /\ x.end # "done" => EraseSafe(x.erased, size)
          /\ x.end = "done" => x.erased = Sector(size)
          /\ \A p \in Pages : p < size => x.flash.pages[p] = w.flash.pages[p]
          /\ x.end = "done" => /\ size \in Pages => x.flash.pages[size] = data
                               /\ BlankRest(x.flash, x.erased, size + 1)
      BY <1>1, <1>3, <2>1, WritePageDoes
    <2>4. Goes(D, r, x)
      <3>1. x.left \in Nat
        BY <2>3, RunIs DEF Goes
      <3>2. QED
        BY <1>1, <2>3, <3>1 DEF LoopAt, Goes
    <2>5. Prefix(x.flash, size, sum)
      BY <2>1, <2>3 DEF Prefix
    <2>6. CASE x.end # "done"
      <3>1. x.n = i /\ x.n < i + 1 /\ offset + x.n = size
        BY <2>1, <2>3, <2>6 DEF size
      <3>2. QED
        BY <2>3, <2>4, <2>5, <2>6, <3>1 DEF LoopAt
    <2>7. CASE x.end = "done"
      <3>1. x.n = i + 1 /\ offset + x.n = size + 1
        BY <2>1, <2>3, <2>7 DEF size
      <3>2. EraseSafe(x.erased, size + 1)
        BY <2>1, <2>3, <2>7, NextPageSafe
      <3>3. Prefix(x.flash, size + 1, sum)
        <4>1. SUFFICES ASSUME NEW p \in Pages, p < size + 1
                       PROVE  x.flash.pages[p] = sum[p + 1]
          BY DEF Prefix
        <4>2. p < size \/ p = size
          BY <2>1, <4>1, FlashAssumption DEF Pages
        <4>3. QED
          BY <2>2, <2>3, <2>5, <2>7, <4>2 DEF Prefix
      <3>4. QED
        BY <2>3, <2>4, <2>7, <3>1, <3>2, <3>3 DEF LoopAt
    <2>8. QED
      BY <2>6, <2>7
  <1>4. QED
    BY <1>2, <1>3

LEMMA WritePagesDoes ==
    ASSUME NEW D, NEW r \in RunsOf(D), r.end = "done", r.n = 0,
           NEW offset \in Nat, NEW sum, NEW data \in Seq(D),
           \A i \in 1..Len(data) : sum[offset + i] = data[i],
           Prefix(r.flash, offset, sum), EraseSafe(r.erased, offset),
           BlankRest(r.flash, r.erased, offset),
           NEW x \in WritePages(r, offset, data)
    PROVE  LoopAt(D, r, x, offset, sum, Len(data))
  <1>0. Len(data) \in Nat
    OBVIOUS
  <1>1. PICK u : /\ \A i \in 0..Len(data) : u[i] = MoreOf(u, r, offset, data, i)
                 /\ WritePages(r, offset, data) = u[Len(data)]
    BY <1>0, WritePagesIs
  <1> DEFINE Bad == {i \in 0..Len(data) : ~ \A w \in u[i] : LoopAt(D, r, w, offset, sum, i)}
  <1>2. Bad = {}
    <2> SUFFICES ASSUME Bad # {} PROVE FALSE
      OBVIOUS
    <2>1. PICK i \in Bad : \A k \in Bad : i <= k
      <3>1. Bad \in SUBSET Nat
        OBVIOUS
      <3>2. QED
        BY <3>1, HasLeast
    <2>2. PICK x0 \in u[i] : ~ LoopAt(D, r, x0, offset, sum, i)
      BY <2>1
    <2>3. i \in 0..Len(data) /\ u[i] = MoreOf(u, r, offset, data, i)
      BY <1>1, <2>1
    <2>4. CASE i = 0
      <3>1. x0 = r
        BY <2>2, <2>3, <2>4 DEF MoreOf
      <3>2. LoopAt(D, r, r, offset, sum, 0)
        <4>1. r.left \in Nat /\ offset + r.n = offset
          BY RunIs
        <4>2. QED
          BY <4>1 DEF LoopAt, Goes
      <3>3. QED
        BY <2>2, <2>4, <3>1, <3>2
    <2>5. CASE i # 0
      <3>1. i - 1 \in Nat /\ i - 1 \in 0..Len(data) /\ i \in 1..Len(data) /\ ~(i <= i - 1)
        BY <1>0, <2>3, <2>5
      <3>2. i - 1 \notin Bad
        BY <2>1, <3>1
      <3>3. x0 \in OnePageMore(u[i - 1], offset + i - 1, data[i])
        BY <2>2, <2>3, <2>5 DEF MoreOf
      <3>4. PICK w \in u[i - 1] :
              x0 \in IF w.end = "done" THEN WritePage(w, offset + i - 1, data[i]) ELSE {w}
        BY <3>3 DEF OnePageMore
      <3>5. LoopAt(D, r, w, offset, sum, i - 1)
        BY <3>1, <3>2, <3>4
      <3> DEFINE j == i - 1
      <3>6. /\ j \in Nat /\ offset + i - 1 = offset + j /\ i = j + 1
            /\ sum[offset + j + 1] = data[i] /\ data[i] \in D
        <4>1. sum[offset + i] = data[i] /\ data[i] \in D
          BY <3>1
        <4>2. offset + j + 1 = offset + i
          BY <3>1
        <4>3. QED
          BY <3>1, <4>1, <4>2
      <3> HIDE DEF j
      <3>7. LoopAt(D, r, w, offset, sum, j)
        BY <3>5 DEF j
      <3>8. x0 \in IF w.end = "done" THEN WritePage(w, offset + j, data[i]) ELSE {w}
        BY <3>4, <3>6
      <3>9. LoopAt(D, r, x0, offset, sum, j + 1)
        <4>1. PICK d \in D : d = data[i] /\ sum[offset + j + 1] = d
          BY <3>6
        <4>2. x0 \in IF w.end = "done" THEN WritePage(w, offset + j, d) ELSE {w}
          BY <3>8, <4>1
        <4>3. j \in Nat
          BY <3>6
        <4>4. QED
          BY <3>7, <4>1, <4>2, <4>3, LoopStep
      <3>10. QED
        BY <2>2, <3>6, <3>9
    <2>6. QED
      BY <2>4, <2>5
  <1>3. QED
    BY <1>0, <1>1, <1>2

-----------------------------------------------------------------------------
(* Files.                                                                  *)

\* No page of the file is in its checksum without being in flash.
Whole(r) == Len(r.checksum) = r.size

\* A file that is open for writing.
OpenFile(f, r) ==
    r.flag = "write" =>
      /\ r.size <= Len(r.checksum)
      /\ Prefix(f, r.size, r.checksum)
      /\ EraseSafe(r.erased, r.size)
      /\ Whole(r) => BlankRest(f, r.erased, r.size)
      /\ r.buffer = NoPage => Whole(r)
      /\ ~Whole(r) => r.checksum[Len(r.checksum)] = r.buffer

\* An info whose checksums agree is that of the pages in flash.
Truthful(f) ==
    InfoValid(f.info) => Prefix(f, f.info.size, f.info.sum)

\* An outcome of a call on flash f and RAM r.
Result(D, f, r, faults, o) ==
    /\ o.flash \in Flashes(D) /\ o.ram \in Rams(D)
    /\ o.faults \in Nat /\ o.faults <= faults /\ o.ret \in Int /\ o.off \in BOOLEAN
    /\ r.flag # "write" => o.flash = f
    /\ o.flash.info # f.info => Truthful(o.flash)

(* An outcome that leaves flash as it is.                                  *)
LEMMA KeepsFlash ==
    ASSUME NEW D, NEW f \in Flashes(D), NEW r, NEW faults \in Nat, NEW o,
           o.flash = f, o.ram \in Rams(D), o.faults = faults, o.ret \in Int, o.off = FALSE
    PROVE  Result(D, f, r, faults, o)
  <1>1. faults <= faults
    OBVIOUS
  <1>2. o.faults \in Nat /\ o.faults <= faults
    BY <1>1
  <1>3. o.flash \in Flashes(D) /\ o.off \in BOOLEAN /\ o.flash.info = f.info
    OBVIOUS
  <1>4. QED
    BY <1>2, <1>3 DEF Result

LEMMA RamIs ==
    ASSUME NEW D, NEW r \in Rams(D)
    PROVE  /\ r.flag \in {"closed", "read", "write"} /\ r.buffer \in D \cup {NoPage}
           /\ r.checksum \in Seq(D) /\ Len(r.checksum) \in Nat /\ r.size \in Nat
           /\ r.erased \in Nat \cup {NoSector}
  BY DEF Rams

LEMMA ClosedRamIs ==
    ASSUME NEW D
    PROVE  /\ ClosedRam \in Rams(D) /\ ClosedRam.flag = "closed"
           /\ \A mode \in {"read", "write"} :
                LET r == [ClosedRam EXCEPT !.flag = mode]
                IN  /\ r \in Rams(D) /\ r.flag = mode /\ r.buffer = NoPage
                    /\ r.checksum = << >> /\ r.size = 0 /\ r.erased = NoSector
  <1>1. << >> \in Seq(D) /\ 0 \in Nat
    OBVIOUS
  <1>2. ClosedRam = [flag |-> "closed", buffer |-> << >>, checksum |-> << >>, size |-> 0,
                     erased |-> NoSector]
    BY DEF ClosedRam, NoPage, NoSum
  <1>3. \A flag \in {"closed", "read", "write"} :
          [flag |-> flag, buffer |-> << >>, checksum |-> << >>, size |-> 0,
           erased |-> NoSector] \in Rams(D)
    BY <1>1 DEF Rams, NoPage
  <1>4. \A mode : [ClosedRam EXCEPT !.flag = mode] =
                   [flag |-> mode, buffer |-> << >>, checksum |-> << >>, size |-> 0,
                    erased |-> NoSector]
    BY <1>2
  <1>5. QED
    BY <1>2, <1>3, <1>4 DEF NoPage

LEMMA BegunIs ==
    ASSUME NEW D, NEW f \in Flashes(D), NEW r \in Rams(D), NEW faults \in Nat
    PROVE  LET b == Begun(f, r, faults)
           IN  /\ b \in RunsOf(D) /\ b.flash = f /\ b.erased = r.erased /\ b.n = 0
               /\ b.end = "done" /\ b.left = faults
  <1>1. r.erased \in Nat \cup {NoSector}
    BY RamIs
  <1>2. Run(f, r.erased, 0, "done", faults) \in RunsOf(D)
    BY <1>1, RunTyped
  <1>3. QED
    BY <1>2 DEF Begun, Run

(* An empty file, and a file that is not open for writing.                 *)
LEMMA EmptyIsOpen ==
    ASSUME NEW f, NEW r, r.checksum = << >>, r.size = 0, r.erased = NoSector, r.buffer = NoPage
    PROVE  OpenFile(f, r)
  <1>1. \A p \in Pages : p \in Nat /\ ~(p < 0) /\ Sector(p) # NoSector
    <2>1. \A p \in Pages : p \in Nat /\ ~(p < 0)
      BY FlashAssumption DEF Pages
    <2>2. \A p \in Pages : Sector(p) \in Nat
      BY <2>1, SectorIs
    <2>3. QED
      BY <2>1, <2>2 DEF NoSector
  <1>2. Len(r.checksum) = 0 /\ 0..0-1 = {}
    OBVIOUS
  <1>3. QED
    BY <1>1, <1>2 DEF OpenFile, Whole, Prefix, EraseSafe, BlankRest

-----------------------------------------------------------------------------
(* file_write, at the end of the file: the pages it counts are there.      *)
LEMMA FileWriteDoes ==
    ASSUME NEW D, NEW f \in Flashes(D), NEW r \in Rams(D), NEW faults \in Nat,
           r.flag = "write", r.buffer = NoPage, OpenFile(f, r),
           NEW data \in Seq(D), NEW part \in D \cup {NoPage},
           NEW o \in file_write(f, r, r.size, data, part, faults)
    PROVE  /\ Result(D, f, r, faults, o)
           /\ o.flash.info = f.info /\ o.ram.flag = "write"
           /\ o.off => o.ret < 0
           /\ o.ret < 0 => o.ram.buffer = NoPage /\ o.ram.size <= Len(o.ram.checksum)
           /\ ~(o.ret < 0) => /\ OpenFile(o.flash, o.ram) /\ Whole(o.ram)
                              /\ o.ram.buffer = part /\ o.ram.size = r.size + Len(data)
  <1> DEFINE sum == r.checksum \o data
             b == Begun(f, r, faults)
  <1>1. PICK x \in WritePages(b, r.size, data) :
          LET all == x.end = "done"
          IN  o = Outcome(x.flash,
                      [r EXCEPT !.checksum = @ \o SubSeq(data, 1, IF all THEN Len(data)
                                                                         ELSE x.n + 1),
                                !.erased = x.erased, !.size = @ + x.n,
                                !.buffer = IF all THEN part ELSE @],
                      IF all THEN Len(data) ELSE -1,
                      x.left, x.end = "off")
    BY DEF file_write
  <1>2. /\ r.checksum \in Seq(D) /\ Len(r.checksum) = r.size /\ r.size \in Nat
        /\ Len(data) \in Nat
    BY RamIs DEF OpenFile, Whole
  <1>3. /\ sum \in Seq(D) /\ Len(sum) = r.size + Len(data)
        /\ \A i \in 1..Len(data) : sum[r.size + i] = data[i]
        /\ \A i \in 1..r.size : sum[i] = r.checksum[i]
    <2>1. ASSUME NEW s \in Seq(D), NEW n \in Nat, Len(s) = n
          PROVE  /\ s \o data \in Seq(D) /\ Len(s \o data) = n + Len(data)
                 /\ \A i \in 1..Len(data) : (s \o data)[n + i] = data[i]
                 /\ \A i \in 1..n : (s \o data)[i] = s[i]
      BY <2>1, CatIs
    <2>2. QED
      BY <1>2, <2>1
  <1>4. b \in RunsOf(D) /\ b.flash = f /\ b.erased = r.erased /\ b.n = 0 /\ b.end = "done" /\ b.left = faults
    BY BegunIs
  <1> HIDE DEF sum, b
  <1>5. Prefix(f, r.size, sum)
    <2>1. \A p \in Pages : p < r.size => p + 1 \in 1..r.size
      BY <1>2, FlashAssumption DEF Pages
    <2>2. QED
      BY <1>3, <2>1 DEF OpenFile, Prefix
  <1>6. LoopAt(D, b, x, r.size, sum, Len(data))
    <2>1. Prefix(b.flash, r.size, sum) /\ EraseSafe(b.erased, r.size) /\ BlankRest(b.flash, b.erased, r.size)
      BY <1>2, <1>4, <1>5 DEF OpenFile, Whole
    <2>2. QED
      BY <1>1, <1>2, <1>3, <1>4, <2>1, WritePagesDoes
  <1>7. /\ x \in RunsOf(D) /\ x.left <= faults /\ x.flash.info = f.info
        /\ x.flash \in Flashes(D) /\ x.erased \in Nat \cup {NoSector} /\ x.n \in Nat
        /\ x.left \in Nat /\ x.end \in {"done", "error", "off"}
    BY <1>4, <1>6, RunIs DEF LoopAt, Goes
  <1>8. CASE x.end = "done"
    <2>1. x.n = Len(data) /\ SubSeq(data, 1, Len(data)) = data
      BY <1>2, <1>6, <1>8 DEF LoopAt
    <2>2. o = Outcome(x.flash, [r EXCEPT !.checksum = sum, !.erased = x.erased,
                                         !.size = r.size + Len(data), !.buffer = part],
                      Len(data), x.left, FALSE)
      BY <1>1, <1>8, <2>1 DEF sum
    <2>3. /\ o.flash = x.flash /\ o.ret = Len(data) /\ o.faults = x.left /\ o.off = FALSE
          /\ o.ram = [r EXCEPT !.checksum = sum, !.erased = x.erased,
                               !.size = r.size + Len(data), !.buffer = part]
      BY <2>2 DEF Outcome
    <2>4. /\ o.ram \in Rams(D) /\ o.ram.flag = "write" /\ o.ram.checksum = sum
          /\ o.ram.erased = x.erased /\ o.ram.size = r.size + Len(data) /\ o.ram.buffer = part
      <3>1. r.size + Len(data) \in Nat
        BY <1>2
      <3>2. QED
        BY <1>3, <1>7, <2>3, <3>1 DEF Rams
    <2>5. Result(D, f, r, faults, o)
      <3>1. Len(data) \in Int /\ r.flag = "write" /\ x.left <= faults /\ x.left \in Nat
        BY <1>2, <1>7
      <3>2. /\ o.flash \in Flashes(D) /\ o.ram \in Rams(D) /\ o.flash.info = f.info
            /\ o.ret \in Int /\ o.off \in BOOLEAN /\ o.faults \in Nat /\ o.faults <= faults
        BY <1>7, <2>3, <2>4, <3>1
      <3>3. QED
        BY <3>1, <3>2 DEF Result
    <2>6. OpenFile(o.flash, o.ram) /\ Whole(o.ram)
      BY <1>2, <1>3, <1>6, <1>8, <2>1, <2>3, <2>4 DEF OpenFile, Whole, LoopAt
    <2>7. QED
      BY <1>2, <1>7, <2>3, <2>4, <2>5, <2>6
  <1>9. CASE x.end # "done"
    <2>1. x.n < Len(data) /\ x.n + 1 \in 1..Len(data)
      BY <1>2, <1>6, <1>7, <1>9 DEF LoopAt
    <2> DEFINE more == SubSeq(data, 1, x.n + 1)
    <2>2. more \in Seq(D) /\ Len(more) = x.n + 1
      BY <2>1
    <2>3. o = Outcome(x.flash, [r EXCEPT !.checksum = r.checksum \o more, !.erased = x.erased,
                                         !.size = r.size + x.n],
                      -1, x.left, x.end = "off")
      BY <1>1, <1>9
    <2> HIDE DEF more
    <2>4. /\ r.checksum \o more \in Seq(D) /\ Len(r.checksum \o more) = r.size + x.n + 1
      <3>1. r.checksum \in Seq(D) /\ more \in Seq(D)
        BY <1>2, <2>2
      <3>2. r.checksum \o more \in Seq(D) /\ Len(r.checksum \o more) = Len(r.checksum) + Len(more)
        BY <3>1
      <3>3. QED
        BY <1>2, <1>7, <2>2, <3>2
    <2>5. /\ o.flash = x.flash /\ o.ret = -1 /\ o.faults = x.left /\ o.off \in BOOLEAN
          /\ o.ram = [r EXCEPT !.checksum = r.checksum \o more, !.erased = x.erased,
                               !.size = r.size + x.n]
      BY <2>3 DEF Outcome
    <2>6. /\ o.ram \in Rams(D) /\ o.ram.flag = "write" /\ o.ram.checksum = r.checksum \o more
          /\ o.ram.size = r.size + x.n /\ o.ram.buffer = NoPage
      <3>1. r.size + x.n \in Nat
        BY <1>2, <1>7
      <3>2. QED
        BY <1>7, <2>4, <2>5, <3>1 DEF Rams
    <2>7. Result(D, f, r, faults, o)
      BY <1>2, <1>7, <2>5, <2>6 DEF Result
    <2>8. o.ram.size <= Len(o.ram.checksum)
      BY <1>2, <1>7, <2>4, <2>6
    <2>9. QED
      BY <1>7, <2>5, <2>6, <2>7, <2>8
  <1>10. QED
    BY <1>8, <1>9

-----------------------------------------------------------------------------
(* file_close: the last part of the file.  A part that failed before and   *)
(* is written now is twice in the checksum.                                *)
Twice(sum) == Len(sum) >= 2 /\ sum[Len(sum)] = sum[Len(sum) - 1]

LEMMA FlushDoes ==
    ASSUME NEW D, NEW f \in Flashes(D), NEW r \in Rams(D), NEW faults \in Nat,
           r.flag = "write", OpenFile(f, r), NEW o \in Flushed(f, r, faults)
    PROVE  /\ Result(D, f, r, faults, o)
           /\ o.flash.info = f.info /\ o.ram.flag = "write"
           /\ o.ret \in {0, -1} /\ (o.off => o.ret = -1)
           /\ o.ret = -1 => OpenFile(o.flash, o.ram)
           /\ o.ret = 0 => /\ o.ram.size <= Len(o.ram.checksum)
                           /\ Whole(o.ram) => Prefix(o.flash, o.ram.size, o.ram.checksum)
                           /\ ~Whole(o.ram) => Twice(o.ram.checksum)
           /\ r.buffer = NoPage => o.ret = 0
  <1>r. /\ r.checksum \in Seq(D) /\ Len(r.checksum) \in Nat /\ r.size \in Nat
        /\ r.size <= Len(r.checksum)
    BY RamIs DEF OpenFile
  <1>1. CASE r.buffer = NoPage
    <2>1. o.flash = f /\ o.ram = r /\ o.ret = 0 /\ o.faults = faults /\ o.off = FALSE
      BY <1>1 DEF Flushed, Outcome
    <2>2. Result(D, f, r, faults, o)
      <3>1. o.ret \in Int
        BY <2>1
      <3>2. o.ram \in Rams(D)
        BY <2>1
      <3>3. QED
        BY <2>1, <3>1, <3>2, KeepsFlash
    <2>3. QED
      BY <1>r, <1>1, <2>1, <2>2 DEF OpenFile
  <1>2. CASE r.buffer # NoPage
    <2> DEFINE b == Begun(f, r, faults)
               sum == Append(r.checksum, r.buffer)
    <2>1. PICK x \in WritePage(b, r.size, r.buffer) :
            o = Outcome(x.flash, [r EXCEPT !.checksum = sum, !.erased = x.erased,
                                           !.size = @ + x.n],
                        IF x.end = "done" THEN 0 ELSE -1, x.left, x.end = "off")
      BY <1>2 DEF Flushed, FlushPage
    <2>2. /\ b \in RunsOf(D) /\ b.flash = f /\ b.erased = r.erased /\ b.n = 0
          /\ b.end = "done" /\ b.left = faults
      BY BegunIs
    <2>3. r.buffer \in D /\ sum \in Seq(D) /\ Len(sum) = Len(r.checksum) + 1
          /\ sum[Len(r.checksum) + 1] = r.buffer
          /\ \A i \in 1..Len(r.checksum) : sum[i] = r.checksum[i]
      BY <1>r, <1>2, RamIs
    <2> HIDE DEF b, sum
    <2>4. /\ Goes(D, b, x) /\ x.n = IF x.end = "done" THEN 1 ELSE 0
          /\ x.end # "done" => EraseSafe(x.erased, r.size)
          /\ x.end = "done" => x.erased = Sector(r.size)
          /\ \A p \in Pages : p < r.size => x.flash.pages[p] = f.pages[p]
          /\ x.end = "done" /\ BlankRest(f, r.erased, r.size) =>
               /\ r.size \in Pages => x.flash.pages[r.size] = r.buffer
               /\ BlankRest(x.flash, x.erased, r.size + 1)
      BY <1>r, <2>1, <2>2, <2>3, WritePageDoes DEF OpenFile
    <2>5. /\ x \in RunsOf(D) /\ x.left <= faults /\ x.flash.info = f.info
          /\ x.flash \in Flashes(D) /\ x.erased \in Nat \cup {NoSector}
          /\ x.left \in Nat /\ x.end \in {"done", "error", "off"} /\ x.n \in {0, 1}
      BY <2>2, <2>4, RunIs DEF Goes
    <2>6. /\ o.flash = x.flash /\ o.faults = x.left /\ o.off = (x.end = "off")
          /\ o.ret = IF x.end = "done" THEN 0 ELSE -1
          /\ o.ram = [r EXCEPT !.checksum = sum, !.erased = x.erased, !.size = r.size + x.n]
      BY <2>1 DEF Outcome
    <2>7. /\ o.ram \in Rams(D) /\ o.ram.flag = "write" /\ o.ram.checksum = sum
          /\ o.ram.erased = x.erased /\ o.ram.size = r.size + x.n /\ o.ram.buffer = r.buffer
      <3>1. r.size + x.n \in Nat
        BY <1>r, <2>5
      <3>2. QED
        BY <2>3, <2>5, <2>6, <3>1 DEF Rams
    <2>8. Result(D, f, r, faults, o)
      <3>1. /\ o.flash \in Flashes(D) /\ o.flash.info = f.info
            /\ o.ret \in Int /\ o.off \in BOOLEAN /\ o.faults \in Nat /\ o.faults <= faults
        BY <2>5, <2>6
      <3>2. QED
        BY <2>7, <3>1 DEF Result
    <2>9. \A p \in Pages : p < r.size => x.flash.pages[p] = sum[p + 1]
      <3>1. \A p \in Pages : p < r.size => p + 1 \in 1..Len(r.checksum)
        BY <1>r, FlashAssumption DEF Pages
      <3>2. QED
        BY <2>3, <2>4, <3>1 DEF OpenFile, Prefix
    <2>10. CASE x.end # "done"
      <3>1. o.ret = -1 /\ o.ram.size = r.size /\ ~Whole(o.ram)
        BY <1>r, <2>3, <2>4, <2>6, <2>7, <2>10 DEF Whole
      <3>2. Prefix(o.flash, o.ram.size, o.ram.checksum)
        BY <2>6, <2>7, <2>9, <3>1 DEF Prefix
      <3>3. OpenFile(o.flash, o.ram)
        BY <1>r, <1>2, <2>3, <2>4, <2>6, <2>7, <2>10, <3>1, <3>2 DEF OpenFile
      <3>4. QED
        BY <1>2, <2>5, <2>6, <2>7, <2>8, <3>1, <3>3
    <2>11. CASE x.end = "done"
      <3>1. o.ret = 0 /\ o.off = FALSE /\ o.ram.size = r.size + 1 /\ x.n = 1
        BY <2>4, <2>6, <2>7, <2>11
      <3>2. o.ram.size <= Len(o.ram.checksum)
        BY <1>r, <2>3, <2>7, <3>1
      <3>3. ASSUME Whole(o.ram) PROVE Prefix(o.flash, o.ram.size, o.ram.checksum)
        <4>1. Len(r.checksum) = r.size
          BY <1>r, <2>3, <2>7, <3>1, <3>3 DEF Whole
        <4>2. r.size \in Pages => x.flash.pages[r.size] = sum[r.size + 1]
          BY <2>3, <2>4, <2>11, <4>1 DEF OpenFile, Whole
        <4>3. \A p \in Pages : p < r.size + 1 => p < r.size \/ p = r.size
          BY <1>r, FlashAssumption DEF Pages
        <4>4. QED
          BY <2>6, <2>7, <2>9, <3>1, <4>2, <4>3 DEF Prefix
      <3>4. ASSUME ~Whole(o.ram) PROVE Twice(o.ram.checksum)
        <4>1. ~Whole(r)
          BY <1>r, <2>3, <2>7, <3>1, <3>4 DEF Whole
        <4>2. Len(r.checksum) >= 1 /\ r.checksum[Len(r.checksum)] = r.buffer
          BY <1>r, <4>1 DEF OpenFile, Whole
        <4>3. sum[Len(r.checksum)] = r.buffer
          BY <1>r, <2>3, <4>2
        <4>4. Len(sum) - 1 = Len(r.checksum) /\ Len(sum) >= 2
          BY <1>r, <2>3, <4>2
        <4>5. QED
          BY <2>3, <2>7, <4>3, <4>4 DEF Twice
      <3>5. QED
        BY <1>2, <2>5, <2>6, <2>7, <2>8, <3>1, <3>2, <3>3, <3>4
    <2>12. QED
      BY <2>10, <2>11
  <1>3. QED
    BY <1>1, <1>2

-----------------------------------------------------------------------------
(* file_info_write: the info is the new one, the old one, or none.         *)
LEMMA InfoWriteDoes ==
    ASSUME NEW D, NEW r \in RunsOf(D), NEW info \in Infos(D), NEW x \in file_info_write(r, info)
    PROVE  /\ x \in RunsOf(D) /\ x.left <= r.left
           /\ x.flash.pages = r.flash.pages
           /\ x.flash.info \in {r.flash.info, Blank, Torn, info}
           /\ x.left = r.left => x.flash.info = info
  <1> DEFINE full == InfoIs(r.flash, Blank)
             torn == InfoIs(r.flash, Torn)
  <1>0. r.flash \in Flashes(D) /\ r.left \in Nat /\ r.erased \in Nat \cup {NoSector} /\ r.n \in Nat
    BY RunIs
  <1>1. PICK e \in Tried(r, full, torn) :
          x \in IF e.end = "off" THEN {e}
                ELSE Tried(e, InfoIs(e.flash, Programmed(e.flash.info, info)),
                              InfoIs(e.flash, Torn))
    BY DEF file_info_write
  <1>2. /\ full \in Flashes(D) /\ full.info = Blank /\ full.pages = r.flash.pages
        /\ torn \in Flashes(D) /\ torn.info = Torn /\ torn.pages = r.flash.pages
    BY <1>0, InfoIsIs
  <1>3. /\ e = Run(e.flash, r.erased, r.n, e.end, e.left)
        /\ e.end \in {"done", "error", "off"} /\ e.flash \in {full, torn, r.flash}
        /\ e.left \in Nat /\ e.left <= r.left
        /\ e.end # "done" => e.left # r.left
        /\ e.end = "done" => e.flash = full
    BY <1>0, <1>1, TriedIs
  <1> HIDE DEF full, torn
  <1>4. /\ e \in RunsOf(D) /\ e.flash \in Flashes(D) /\ e.flash.pages = r.flash.pages
        /\ e.flash.info \in {r.flash.info, Blank, Torn}
    <2>1. /\ e.flash \in Flashes(D) /\ e.flash.pages = r.flash.pages
          /\ e.flash.info \in {r.flash.info, Blank, Torn}
      BY <1>0, <1>2, <1>3
    <2>2. Run(e.flash, r.erased, r.n, e.end, e.left) \in RunsOf(D)
      BY <1>0, <1>3, <2>1, RunTyped
    <2>3. QED
      BY <1>3, <2>1, <2>2
  <1>5. CASE e.end = "off"
    <2>1. x = e /\ x.left # r.left
      BY <1>1, <1>3, <1>5
    <2>2. QED
      BY <1>3, <1>4, <2>1
  <1>6. CASE e.end # "off"
    <2> DEFINE value == Programmed(e.flash.info, info)
               done == InfoIs(e.flash, value)
               cut == InfoIs(e.flash, Torn)
    <2>1. value \in {info, Torn} /\ (e.flash.info = Blank => value = info)
      BY DEF Programmed
    <2>2. x \in Tried(e, done, cut)
      BY <1>1, <1>6
    <2> HIDE DEF value
    <2>3. /\ done \in Flashes(D) /\ done.info = value /\ done.pages = r.flash.pages
          /\ cut \in Flashes(D) /\ cut.info = Torn /\ cut.pages = r.flash.pages
      BY <1>4, <2>1, InfoIsIs
    <2> HIDE DEF done, cut
    <2>4. /\ x = Run(x.flash, e.erased, e.n, x.end, x.left)
          /\ x.end \in {"done", "error", "off"} /\ x.flash \in {done, cut, e.flash}
          /\ x.left \in Nat /\ x.left <= e.left
          /\ x.end # "done" => x.left # e.left
          /\ x.end = "done" => x.flash = done
      BY <1>3, <2>2, TriedIs
    <2>5. /\ x.flash \in Flashes(D) /\ x.flash.pages = r.flash.pages
          /\ x.flash.info \in {r.flash.info, Blank, Torn, info}
      BY <1>4, <2>1, <2>3, <2>4
    <2>6. x \in RunsOf(D)
      <3>1. e.erased \in Nat \cup {NoSector} /\ e.n \in Nat
        BY <1>4, RunIs
      <3>2. Run(x.flash, e.erased, e.n, x.end, x.left) \in RunsOf(D)
        BY <2>4, <2>5, <3>1, RunTyped
      <3>3. QED
        BY <2>4, <3>2
    <2>7. x.left <= r.left
      BY <1>0, <1>3, <2>4
    <2>8. ASSUME x.left = r.left PROVE x.flash.info = info
      <3>1. e.left = r.left /\ x.left = e.left
        BY <1>0, <1>3, <2>4, <2>8
      <3>2. e.flash = full /\ e.flash.info = Blank
        BY <1>2, <1>3, <3>1
      <3>3. x.flash = done
        BY <2>4, <3>1
      <3>4. QED
        BY <2>1, <2>3, <3>2, <3>3
    <2>9. QED
      BY <2>5, <2>6, <2>7, <2>8
  <1>7. QED
    BY <1>5, <1>6

\* The file is closed: what becomes of its pages and its info.
RecordedAs(f, size, src, sum, o) ==
    /\ o.ram = ClosedRam
    /\ o.flash.pages = f.pages
    /\ o.flash.info \in {f.info, Blank, Torn, [size |-> size, src |-> src, sum |-> sum]}
    /\ o.ret = IF src = sum THEN size ELSE -3

LEMMA RecordedDoes ==
    ASSUME NEW D, NEW g, g.flash \in Flashes(D), g.ram \in Rams(D), g.faults \in Nat,
           NEW src \in Seq(D), NEW o \in Recorded(g, src)
    PROVE  /\ RecordedAs(g.flash, g.ram.size, src, g.ram.checksum, o)
           /\ o.flash \in Flashes(D) /\ o.faults \in Nat /\ o.faults <= g.faults
           /\ o.off \in BOOLEAN
           /\ o.faults = g.faults =>
                o.flash.info = [size |-> g.ram.size, src |-> src, sum |-> g.ram.checksum]
  <1> DEFINE info == [size |-> g.ram.size, src |-> src, sum |-> g.ram.checksum]
             b == Begun(g.flash, g.ram, g.faults)
  <1>1. PICK x \in file_info_write(b, info) :
          o = Outcome(x.flash, ClosedRam,
                      IF src = g.ram.checksum THEN g.ram.size ELSE -3, x.left, x.end = "off")
    BY DEF Recorded
  <1>2. info \in Infos(D)
    BY RamIs DEF Infos
  <1>3. b \in RunsOf(D) /\ b.flash = g.flash /\ b.left = g.faults
    BY BegunIs
  <1> HIDE DEF b
  <1>4. /\ x \in RunsOf(D) /\ x.left <= b.left
        /\ x.flash.pages = b.flash.pages
        /\ x.flash.info \in {b.flash.info, Blank, Torn, info}
        /\ x.left = b.left => x.flash.info = info
    BY <1>1, <1>2, <1>3, InfoWriteDoes
  <1>5. x.flash \in Flashes(D) /\ x.left \in Nat
    BY <1>4, RunIs
  <1>6. /\ o.flash = x.flash /\ o.ram = ClosedRam /\ o.faults = x.left /\ o.off = (x.end = "off")
        /\ o.ret = IF src = g.ram.checksum THEN g.ram.size ELSE -3
    BY <1>1 DEF Outcome
  <1>7. QED
    BY <1>3, <1>4, <1>5, <1>6 DEF RecordedAs

(* The info tells the truth if the pages are those of the checksum, or if  *)
(* the checksums differ, or if nothing was written.                        *)
LEMMA RecordedIsTruthful ==
    ASSUME NEW f, NEW size \in Nat, NEW src, NEW sum, NEW o,
           RecordedAs(f, size, src, sum, o),
           src = sum => Prefix(f, size, sum)
    PROVE  o.flash.info # f.info => Truthful(o.flash)
  <1>1. SUFFICES ASSUME o.flash.info # f.info, Readable(o.flash.info),
                        o.flash.info.src = o.flash.info.sum
                 PROVE  Prefix(o.flash, o.flash.info.size, o.flash.info.sum)
    BY DEF Truthful, InfoValid
  <1>2. o.flash.info = [size |-> size, src |-> src, sum |-> sum]
    BY <1>1 DEF RecordedAs, Readable
  <1>3. o.flash.info.size = size /\ o.flash.info.sum = sum /\ o.flash.info.src = src
    BY <1>2
  <1>4. QED
    BY <1>1, <1>3 DEF RecordedAs, Prefix

\* A close that returns more than 0: the file is there, and if nothing failed its info.
ClosedAs(f, r, src, faults, o) ==
    o.ret > 0 =>
      LET info == [size |-> Len(src), src |-> src, sum |-> src]
      IN  /\ r.flag = "write"
          /\ Prefix(o.flash, Len(src), src)
          /\ o.flash.info \in {f.info, Blank, Torn, info}
          /\ o.faults = faults => o.flash.info = info

(* file_close: the file of the host (no two pages of it follow each other  *)
(* that are the same), or one whose checksum is not known.                 *)
LEMMA FileCloseDoes ==
    ASSUME NEW D, NEW f \in Flashes(D), NEW r \in Rams(D), NEW faults \in Nat,
           OpenFile(f, r), NEW src \in Seq(D), ~Twice(src),
           NEW o \in file_close(f, r, src, faults)
    PROVE  /\ Result(D, f, r, faults, o)
           /\ o.ram.flag \in {"closed", "write"} /\ OpenFile(o.flash, o.ram)
           /\ o.ram.flag = "write" => r.flag = "write" /\ o.flash.info = f.info /\ o.ret = -1
           /\ r.flag # "write" => ~o.off
           /\ ClosedAs(f, r, src, faults, o)
  <1>1. CASE r.flag = "closed"
    <2>1. o = Outcome(f, r, -1, faults, FALSE)
      BY <1>1 DEF file_close
    <2>2. o.flash = f /\ o.ram = r /\ o.ret = -1 /\ o.faults = faults /\ o.off = FALSE
      BY <2>1 DEF Outcome
    <2>3. o.ret \in Int /\ ~(o.ret > 0)
      BY <2>2
    <2>4. o.ram \in Rams(D) /\ o.ram.flag = "closed"
      BY <1>1, <2>2
    <2>5. Result(D, f, r, faults, o)
      BY <2>2, <2>3, <2>4, KeepsFlash
    <2>6. QED
      BY <1>1, <2>2, <2>3, <2>4, <2>5 DEF OpenFile, ClosedAs
  <1>2. CASE r.flag = "read"
    <2>1. o = Outcome(f, [r EXCEPT !.flag = "closed"], 0, faults, FALSE)
      BY <1>2 DEF file_close
    <2>2. /\ o.flash = f /\ o.ram = [r EXCEPT !.flag = "closed"] /\ o.ret = 0
          /\ o.faults = faults /\ o.off = FALSE
      BY <2>1 DEF Outcome
    <2>3. o.ram \in Rams(D) /\ o.ram.flag = "closed"
      BY <2>2 DEF Rams
    <2>4. o.ret \in Int /\ ~(o.ret > 0)
      BY <2>2
    <2>5. Result(D, f, r, faults, o)
      BY <2>2, <2>3, <2>4, KeepsFlash
    <2>6. QED
      BY <1>2, <2>2, <2>3, <2>4, <2>5 DEF OpenFile, ClosedAs
  <1>3. CASE r.flag = "write"
    <2>1. PICK g \in Flushed(f, r, faults) :
            o \in IF g.off \/ g.ret = -1 THEN {g} ELSE Recorded(g, src)
      BY <1>3 DEF file_close
    <2>2. /\ Result(D, f, r, faults, g)
          /\ g.flash.info = f.info /\ g.ram.flag = "write"
          /\ g.ret \in {0, -1} /\ (g.off => g.ret = -1)
          /\ g.ret = -1 => OpenFile(g.flash, g.ram)
          /\ g.ret = 0 => /\ g.ram.size <= Len(g.ram.checksum)
                          /\ Whole(g.ram) => Prefix(g.flash, g.ram.size, g.ram.checksum)
                          /\ ~Whole(g.ram) => Twice(g.ram.checksum)
      BY <1>3, <2>1, FlushDoes
    <2>3. CASE g.ret = -1
      <3>1. o = g /\ ~(o.ret > 0)
        BY <2>1, <2>3
      <3>2. QED
        BY <1>3, <2>2, <2>3, <3>1 DEF ClosedAs
    <2>4. CASE g.ret = 0
      <3>1. o \in Recorded(g, src)
        BY <2>1, <2>2, <2>4
      <3>2. /\ g.flash \in Flashes(D) /\ g.ram \in Rams(D) /\ g.faults \in Nat /\ g.faults <= faults
        BY <2>2 DEF Result
      <3>3. /\ RecordedAs(g.flash, g.ram.size, src, g.ram.checksum, o)
            /\ o.flash \in Flashes(D) /\ o.faults \in Nat /\ o.faults <= g.faults
            /\ o.off \in BOOLEAN
            /\ o.faults = g.faults =>
                 o.flash.info = [size |-> g.ram.size, src |-> src, sum |-> g.ram.checksum]
        BY <3>1, <3>2, RecordedDoes
      <3>4. g.ram.size \in Nat /\ g.ram.checksum \in Seq(D) /\ Len(g.ram.checksum) \in Nat
        BY <3>2, RamIs
      <3>5. src = g.ram.checksum => Whole(g.ram) /\ Prefix(g.flash, g.ram.size, g.ram.checksum)
        BY <2>2, <2>4
      <3>6. o.flash.info # f.info => Truthful(o.flash)
        BY <2>2, <3>3, <3>4, <3>5, RecordedIsTruthful
      <3>7. o.ram = ClosedRam /\ o.ram \in Rams(D) /\ o.ram.flag = "closed" /\ OpenFile(o.flash, o.ram)
        BY <3>3, ClosedRamIs DEF RecordedAs, OpenFile
      <3>8. o.ret \in Int /\ (o.ret > 0 => src = g.ram.checksum)
        BY <3>3, <3>4 DEF RecordedAs
      <3>9. Result(D, f, r, faults, o)
        <4>1. o.faults <= faults
          BY <3>2, <3>3
        <4>2. QED
          BY <1>3, <3>3, <3>6, <3>7, <3>8, <4>1 DEF Result
      <3>10. ASSUME o.ret > 0
             PROVE  /\ Prefix(o.flash, Len(src), src)
                    /\ o.flash.info \in {f.info, Blank, Torn,
                                         [size |-> Len(src), src |-> src, sum |-> src]}
                    /\ o.faults = faults =>
                         o.flash.info = [size |-> Len(src), src |-> src, sum |-> src]
        <4>1. src = g.ram.checksum /\ g.ram.size = Len(src) /\ Prefix(g.flash, Len(src), src)
          BY <3>5, <3>8, <3>10 DEF Whole
        <4>2. o.faults = faults => o.faults = g.faults
          BY <3>2, <3>3
        <4>3. QED
          BY <2>2, <3>3, <4>1, <4>2 DEF RecordedAs, Prefix
      <3>11. QED
        BY <1>3, <3>7, <3>9, <3>10 DEF ClosedAs
    <2>5. QED
      BY <2>2, <2>3, <2>4
  <1>4. QED
    BY <1>1, <1>2, <1>3, RamIs

(* file_close after a file_write that failed.                              *)
LEMMA BrokenCloseDoes ==
    ASSUME NEW D, NEW f \in Flashes(D), NEW r \in Rams(D), NEW faults \in Nat,
           r.flag = "write", r.buffer = NoPage, r.size <= Len(r.checksum),
           NEW o \in file_close(f, r, NoSum, faults)
    PROVE  /\ Result(D, f, r, faults, o) /\ o.ram = ClosedRam
  <1> DEFINE g == Outcome(f, r, 0, faults, FALSE)
  <1>1. g.flash = f /\ g.ram = r /\ g.ret = 0 /\ g.faults = faults /\ g.off = FALSE
    BY DEF Outcome
  <1>2. Flushed(f, r, faults) = {g}
    BY DEF Flushed
  <1> HIDE DEF g
  <1>3. o \in Recorded(g, NoSum)
    BY <1>1, <1>2 DEF file_close
  <1>4. NoSum \in Seq(D) /\ Len(NoSum) = 0
    BY DEF NoSum
  <1>5. /\ RecordedAs(f, r.size, NoSum, r.checksum, o)
        /\ o.flash \in Flashes(D) /\ o.faults \in Nat /\ o.faults <= faults
        /\ o.off \in BOOLEAN
    BY <1>1, <1>3, <1>4, RecordedDoes
  <1>6. NoSum = r.checksum => Prefix(f, r.size, r.checksum)
    <2>1. r.size \in Nat
      BY RamIs
    <2>2. NoSum = r.checksum => \A p \in Pages : ~(p < r.size)
      BY <1>4, <2>1, FlashAssumption DEF Pages
    <2>3. QED
      BY <2>2 DEF Prefix
  <1>7. r.size \in Nat /\ o.flash.info # f.info => Truthful(o.flash)
    BY <1>5, <1>6, RecordedIsTruthful
  <1>8. o.ram = ClosedRam /\ o.ret \in Int /\ r.size \in Nat
    BY <1>5, RamIs DEF RecordedAs
  <1>9. QED
    BY <1>5, <1>7, <1>8, ClosedRamIs DEF Result

LEMMA CloseIsOutcome ==
    ASSUME NEW D, NEW f, NEW r \in Rams(D), NEW src, NEW faults,
           NEW o \in file_close(f, r, src, faults)
    PROVE  o = Outcome(o.flash, o.ram, o.ret, o.faults, o.off)
  <1>1. r.flag \in {"closed", "read", "write"}
    BY RamIs
  <1>2. CASE r.flag = "closed"
    <2>1. o = Outcome(f, r, -1, faults, FALSE)
      BY <1>2 DEF file_close
    <2>2. QED
      BY <2>1 DEF Outcome
  <1>3. CASE r.flag = "read"
    <2>1. o = Outcome(f, [r EXCEPT !.flag = "closed"], 0, faults, FALSE)
      BY <1>3 DEF file_close
    <2>2. QED
      BY <2>1 DEF Outcome
  <1>4. CASE r.flag = "write"
    <2>1. PICK g \in Flushed(f, r, faults) :
            o \in IF g.off \/ g.ret = -1 THEN {g} ELSE Recorded(g, src)
      BY <1>4 DEF file_close
    <2>2. CASE o \in Recorded(g, src)
      <3>1. PICK x \in file_info_write(Begun(g.flash, g.ram, g.faults),
                          [size |-> g.ram.size, src |-> src, sum |-> g.ram.checksum]) :
              o = Outcome(x.flash, ClosedRam,
                          IF src = g.ram.checksum THEN g.ram.size ELSE -3,
                          x.left, x.end = "off")
        BY <2>2 DEF Recorded
      <3>2. QED
        BY <3>1 DEF Outcome
    <2>3. CASE o = g
      <3>1. CASE r.buffer = NoPage
        <4>1. o = Outcome(f, r, 0, faults, FALSE)
          BY <2>1, <2>3, <3>1 DEF Flushed
        <4>2. QED
          BY <4>1 DEF Outcome
      <3>2. CASE r.buffer # NoPage
        <4>1. PICK x \in FlushPage(Begun(f, r, faults), r) :
                o = Outcome(x.flash, [r EXCEPT !.checksum = Append(@, r.buffer),
                                               !.erased = x.erased, !.size = @ + x.n],
                            IF x.end = "done" THEN 0 ELSE -1, x.left, x.end = "off")
          BY <2>1, <2>3, <3>2 DEF Flushed
        <4>2. QED
          BY <4>1 DEF Outcome
      <3>3. QED
        BY <3>1, <3>2
    <2>4. QED
      BY <2>1, <2>2, <2>3
  <1>5. QED
    BY <1>1, <1>2, <1>3, <1>4

(* file_open.                                                              *)
LEMMA FileOpenDoes ==
    ASSUME NEW D, NEW f \in Flashes(D), NEW r \in Rams(D), NEW faults \in Nat,
           OpenFile(f, r), NEW mode \in {"read", "write"},
           NEW o \in file_open(f, r, mode, faults)
    PROVE  /\ Result(D, f, r, faults, o) /\ OpenFile(o.flash, o.ram)
           /\ r.flag # "write" => ~o.off
           /\ ~o.off /\ ~(o.ret < 0) => o.ram = [ClosedRam EXCEPT !.flag = mode]
           /\ o.off \/ o.ret < 0 => \/ o.ram.flag = "closed"
                                    \/ /\ o.ram.flag = "write" /\ r.flag = "write"
                                       /\ o.flash.info = f.info
  <1> DEFINE closed == IF r.flag = "closed" THEN {Outcome(f, r, 0, faults, FALSE)}
                                            ELSE file_close(f, r, NoSum, faults)
  <1>1. PICK c \in closed : o = Opened(c, mode)
    BY DEF file_open
  <1>2. NoSum \in Seq(D) /\ ~Twice(NoSum)
    BY DEF NoSum, Twice
  <1>3. /\ Result(D, f, r, faults, c)
        /\ c.ram.flag \in {"closed", "write"} /\ OpenFile(c.flash, c.ram)
        /\ c.ram.flag = "write" => r.flag = "write" /\ c.flash.info = f.info
        /\ r.flag # "write" => ~c.off
        /\ c = Outcome(c.flash, c.ram, c.ret, c.faults, c.off)
    <2>1. CASE r.flag = "closed"
      <3>1. c = Outcome(f, r, 0, faults, FALSE)
        BY <1>1, <2>1
      <3>2. c.flash = f /\ c.ram = r /\ c.ret = 0 /\ c.faults = faults /\ c.off = FALSE
        BY <3>1 DEF Outcome
      <3>3. c.ret \in Int
        BY <3>2
      <3>4. c.ram \in Rams(D) /\ c.ram.flag = "closed"
        BY <2>1, <3>2
      <3>5. Result(D, f, r, faults, c)
        BY <3>2, <3>3, <3>4, KeepsFlash
      <3>6. c = Outcome(c.flash, c.ram, c.ret, c.faults, c.off)
        BY <3>1 DEF Outcome
      <3>7. QED
        BY <2>1, <3>2, <3>4, <3>5, <3>6 DEF OpenFile
    <2>2. CASE r.flag # "closed"
      <3>1. c \in file_close(f, r, NoSum, faults)
        BY <1>1, <2>2
      <3>2. c = Outcome(c.flash, c.ram, c.ret, c.faults, c.off)
        BY <3>1, CloseIsOutcome
      <3>3. /\ Result(D, f, r, faults, c)
            /\ c.ram.flag \in {"closed", "write"} /\ OpenFile(c.flash, c.ram)
            /\ c.ram.flag = "write" => r.flag = "write" /\ c.flash.info = f.info
            /\ r.flag # "write" => ~c.off
        <4> HIDE DEF closed
        <4>1. QED
          BY <1>2, <3>1, FileCloseDoes
      <3>4. QED
        BY <3>2, <3>3
    <2>3. QED
      BY <2>1, <2>2
  <1>c. /\ c.flash \in Flashes(D) /\ c.ram \in Rams(D) /\ c.faults \in Nat /\ c.faults <= faults
        /\ c.ret \in Int /\ c.off \in BOOLEAN
    BY <1>3 DEF Result
  <1>4. CASE c.off
    <2>1. o = c
      BY <1>1, <1>4 DEF Opened
    <2>2. QED
      BY <1>3, <1>4, <2>1
  <1>5. CASE ~c.off /\ c.ram # ClosedRam
    <2>1. o = [c EXCEPT !.ret = -3]
      BY <1>1, <1>5 DEF Opened
    <2>2. o = Outcome(c.flash, c.ram, -3, c.faults, c.off)
      BY <1>3, <2>1 DEF Outcome
    <2>3. o.flash = c.flash /\ o.ram = c.ram /\ o.ret = -3 /\ o.faults = c.faults /\ o.off = c.off
      BY <2>2 DEF Outcome
    <2>4. o.ret \in Int /\ o.ret < 0
      BY <2>3
    <2>5. QED
      BY <1>3, <1>5, <2>3, <2>4 DEF Result
  <1>6. CASE ~c.off /\ c.ram = ClosedRam
    <2>1. o = [c EXCEPT !.ret = 0, !.ram.flag = mode]
      BY <1>1, <1>6 DEF Opened
    <2>2. o = Outcome(c.flash, [ClosedRam EXCEPT !.flag = mode], 0, c.faults, c.off)
      BY <1>3, <1>6, <2>1 DEF Outcome
    <2>3. /\ o.flash = c.flash /\ o.ram = [ClosedRam EXCEPT !.flag = mode] /\ o.ret = 0
          /\ o.faults = c.faults /\ o.off = c.off
      BY <2>2 DEF Outcome
    <2>4. o.ram \in Rams(D) /\ OpenFile(o.flash, o.ram)
      <3>1. /\ o.ram \in Rams(D) /\ o.ram.buffer = NoPage
            /\ o.ram.checksum = << >> /\ o.ram.size = 0 /\ o.ram.erased = NoSector
        BY <2>3, ClosedRamIs
      <3>2. QED
        BY <3>1, EmptyIsOpen
    <2>5. o.ret \in Int /\ ~(o.ret < 0)
      BY <2>3
    <2>6. QED
      BY <1>3, <1>c, <1>6, <2>3, <2>4, <2>5 DEF Result
  <1>7. QED
    BY <1>4, <1>5, <1>6

-----------------------------------------------------------------------------
(* What no call does, whatever flash and RAM hold: touch flash while no    *)
(* file is open for writing, or begin to write one (but for file_open).    *)
RamLike(r) == /\ DOMAIN r = {"flag", "buffer", "checksum", "size", "erased"}
              /\ r.flag \in {"closed", "read", "write"}

IsOutcome(o) == o = Outcome(o.flash, o.ram, o.ret, o.faults, o.off) /\ RamLike(o.ram)

Calm(f, r, o) == /\ IsOutcome(o)
                 /\ r.flag # "write" => o.flash = f
                 /\ o.ram.flag = "write" => r.flag = "write"

LEMMA ClosedRamLike == RamLike(ClosedRam) /\ ClosedRam.flag = "closed"
  BY DEF RamLike, ClosedRam

LEMMA OutcomeIs ==
    ASSUME NEW f, NEW r, NEW ret, NEW n, NEW off, RamLike(r)
    PROVE  LET o == Outcome(f, r, ret, n, off)
           IN  /\ IsOutcome(o) /\ o.flash = f /\ o.ram = r /\ o.ret = ret
               /\ o.faults = n /\ o.off = off
  BY DEF IsOutcome, Outcome

LEMMA ThenCalm ==
    ASSUME NEW f, NEW r, NEW o, NEW c, Calm(f, r, o), Calm(o.flash, o.ram, c)
    PROVE  Calm(f, r, c)
  BY DEF Calm

LEMMA CloseCalm ==
    ASSUME NEW f, NEW r, RamLike(r), NEW src, NEW n, NEW o \in file_close(f, r, src, n)
    PROVE  Calm(f, r, o)
  <1>1. CASE r.flag = "closed"
    <2>1. o = Outcome(f, r, -1, n, FALSE)
      BY <1>1 DEF file_close
    <2>2. QED
      BY <2>1 DEF Calm, IsOutcome, Outcome
  <1>2. CASE r.flag = "read"
    <2>1. o = Outcome(f, [r EXCEPT !.flag = "closed"], 0, n, FALSE)
      BY <1>2 DEF file_close
    <2>2. RamLike([r EXCEPT !.flag = "closed"]) /\ [r EXCEPT !.flag = "closed"].flag = "closed"
      BY DEF RamLike
    <2>3. QED
      BY <2>1, <2>2 DEF Calm, IsOutcome, Outcome
  <1>3. CASE r.flag = "write"
    <2>1. PICK g \in Flushed(f, r, n) : o \in IF g.off \/ g.ret = -1 THEN {g} ELSE Recorded(g, src)
      BY <1>3 DEF file_close
    <2>2. IsOutcome(g)
      <3>1. CASE r.buffer = NoPage
        <4>1. g = Outcome(f, r, 0, n, FALSE)
          BY <3>1 DEF Flushed
        <4>2. QED
          BY <4>1, OutcomeIs
      <3>2. CASE r.buffer # NoPage
        <4>1. PICK x \in FlushPage(Begun(f, r, n), r) :
                g = Outcome(x.flash, [r EXCEPT !.checksum = Append(@, r.buffer),
                                               !.erased = x.erased, !.size = @ + x.n],
                            IF x.end = "done" THEN 0 ELSE -1, x.left, x.end = "off")
          BY <3>2 DEF Flushed
        <4>2. RamLike([r EXCEPT !.checksum = Append(@, r.buffer),
                                !.erased = x.erased, !.size = @ + x.n])
          BY DEF RamLike
        <4>3. QED
          BY <4>1, <4>2, OutcomeIs
      <3>3. QED
        BY <3>1, <3>2
    <2>3. o \in Recorded(g, src) => IsOutcome(o)
      <3>1. SUFFICES ASSUME o \in Recorded(g, src) PROVE IsOutcome(o)
        OBVIOUS
      <3>2. PICK x \in file_info_write(Begun(g.flash, g.ram, g.faults),
                          [size |-> g.ram.size, src |-> src, sum |-> g.ram.checksum]) :
              o = Outcome(x.flash, ClosedRam,
                          IF src = g.ram.checksum THEN g.ram.size ELSE -3,
                          x.left, x.end = "off")
        BY <3>1 DEF Recorded
      <3>3. QED
        BY <3>2, ClosedRamLike, OutcomeIs
    <2>4. IsOutcome(o)
      BY <2>1, <2>2, <2>3
    <2>5. QED
      BY <1>3, <2>4 DEF Calm
  <1>4. QED
    BY <1>1, <1>2, <1>3 DEF RamLike

LEMMA OpenCalm ==
    ASSUME NEW f, NEW r, RamLike(r), NEW mode \in {"read", "write"}, NEW n,
           NEW o \in file_open(f, r, mode, n)
    PROVE  /\ IsOutcome(o)
           /\ r.flag # "write" => o.flash = f
           /\ o.ram.flag = "write" => \/ r.flag = "write"
                                      \/ mode = "write" /\ ~o.off /\ o.ret = 0
           /\ mode = "read" => Calm(f, r, o)
           /\ o.off \/ o.ret < 0 => Calm(f, r, o)
  <1> DEFINE closed == IF r.flag = "closed" THEN {Outcome(f, r, 0, n, FALSE)}
                                            ELSE file_close(f, r, NoSum, n)
  <1>1. PICK c \in closed : o = Opened(c, mode)
    BY DEF file_open
  <1>2. Calm(f, r, c)
    <2>1. CASE r.flag = "closed"
      BY <1>1, <2>1 DEF Calm, IsOutcome, Outcome
    <2>2. CASE r.flag # "closed"
      BY <1>1, <2>2, CloseCalm
    <2>3. QED
      BY <2>1, <2>2
  <1> HIDE DEF closed
  <1>3. CASE c.off
    <2>1. o = c
      BY <1>1, <1>3 DEF Opened
    <2>2. QED
      BY <1>2, <2>1 DEF Calm
  <1>4. CASE ~c.off /\ c.ram # ClosedRam
    <2>1. o = [c EXCEPT !.ret = -3]
      BY <1>1, <1>4 DEF Opened
    <2>2. c = Outcome(c.flash, c.ram, c.ret, c.faults, c.off) /\ RamLike(c.ram)
      BY <1>2 DEF Calm, IsOutcome
    <2>3. o = Outcome(c.flash, c.ram, -3, c.faults, c.off)
      BY <2>1, <2>2 DEF Outcome
    <2>4. IsOutcome(o) /\ o.flash = c.flash /\ o.ram = c.ram
      BY <2>2, <2>3, OutcomeIs
    <2>5. QED
      BY <1>2, <2>4 DEF Calm
  <1>5. CASE ~c.off /\ c.ram = ClosedRam
    <2>1. o = [c EXCEPT !.ret = 0, !.ram.flag = mode]
      BY <1>1, <1>5 DEF Opened
    <2>2. c = Outcome(c.flash, c.ram, c.ret, c.faults, c.off)
      BY <1>2 DEF Calm, IsOutcome
    <2>3. o = Outcome(c.flash, [ClosedRam EXCEPT !.flag = mode], 0, c.faults, c.off)
      BY <1>5, <2>1, <2>2 DEF Outcome
    <2>4. LET m == [ClosedRam EXCEPT !.flag = mode] IN RamLike(m) /\ m.flag = mode
      BY DEF ClosedRam, RamLike
    <2>5. /\ IsOutcome(o) /\ o.flash = c.flash /\ o.ret = 0 /\ o.off = c.off
          /\ o.ram.flag = mode
      BY <2>3, <2>4 DEF IsOutcome, Outcome
    <2>6. ~(o.ret < 0)
      BY <2>5
    <2>7. QED
      BY <1>2, <1>5, <2>5, <2>6 DEF Calm
  <1>6. QED
    BY <1>3, <1>4, <1>5

LEMMA WriteCalm ==
    ASSUME NEW f, NEW r, RamLike(r), NEW offset, NEW data, NEW part, NEW n,
           NEW o \in file_write(f, r, offset, data, part, n)
    PROVE  Calm(f, r, o)
  <1>1. CASE r.flag # "write"
    <2>1. o = Outcome(f, r, -1, n, FALSE)
      BY <1>1 DEF file_write
    <2>2. QED
      BY <2>1 DEF Calm, IsOutcome, Outcome
  <1>2. CASE r.flag = "write"
    <2>1. PICK x \in WritePages(Begun(f, r, n), offset, data) :
          LET all == x.end = "done"
          IN  o = Outcome(x.flash,
                      [r EXCEPT !.checksum = @ \o SubSeq(data, 1, IF all THEN Len(data)
                                                                         ELSE x.n + 1),
                                !.erased = x.erased, !.size = @ + x.n,
                                !.buffer = IF all THEN part ELSE @],
                      IF all THEN Len(data) ELSE -1,
                      x.left, x.end = "off")
      BY <1>2 DEF file_write
    <2>2. \A sum, erased, size, buffer :
            RamLike([r EXCEPT !.checksum = sum, !.erased = erased, !.size = size,
                              !.buffer = buffer])
      BY DEF RamLike
    <2>3. \E m, ret : RamLike(m) /\ o = Outcome(x.flash, m, ret, x.left, x.end = "off")
      BY <2>1, <2>2
    <2>4. IsOutcome(o)
      BY <2>3, OutcomeIs
    <2>5. QED
      BY <1>2, <2>4 DEF Calm
  <1>3. QED
    BY <1>1, <1>2

LEMMA ReadCalm ==
    ASSUME NEW f, NEW r, RamLike(r), NEW m, NEW n,
           NEW o \in file_read(f, r, m, n) \cup file_info_read(f, r, n)
    PROVE  Calm(f, r, o) /\ o.flash = f /\ o.ram = r
  <1>1. \E ret, left, off : o = Outcome(f, r, ret, left, off)
    BY DEF file_read, file_info_read, ReadFails
  <1>2. QED
    BY <1>1, OutcomeIs DEF Calm
==============================================================================
