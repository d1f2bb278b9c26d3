------------------------- MODULE ReportFlash_proofs --------------------------
(***************************************************************************)
(* For every number of types and sectors, every size of a sector, width of *)
(* the counter and number of saves: the variables keep their types; and    *)
(* when the mishaps are few against the counter's half, a report saved     *)
(* stays until the ring comes round to its sector and, when they are fewer *)
(* than the ring has slots, the newest is found by reading back.           *)
(*                                                                         *)
(* The argument is a ring (Ring) that every step of a save leaves a ring,  *)
(* and that a boot finds again at the place where it was left (BootFinds). *)
(* What a ring means for the reports in it is Store.  The flash itself may *)
(* differ from such a ring in three ways only (Stands): a slot programmed  *)
(* twice, a sector half erased, and what a failed save left in the slot to *)
(* be written next.  StoreInv says that the RAM agrees with it.            *)
(***************************************************************************)
EXTENDS ReportFlash, WellFoundedInduction, TLAPS

\* A set of natural numbers has a least member.
LEMMA HasLeast ==
    ASSUME NEW S \in SUBSET Nat, S # {}
    PROVE  \E m \in S : \A k \in S : m <= k
<1> DEFINE R == OpToRel(<, Nat)
<1>1. IsWellFoundedOn(R, Nat)
  BY NatLessThanWellFounded
<1> HIDE DEF R
<1>2. PICK m \in S : \A k \in S : ~ (<<k, m>> \in R)
  BY <1>1, WFMin
<1>3. \A k \in S : ~ (k < m)
  BY <1>2 DEF R, OpToRel
<1> QED BY <1>3

-----------------------------------------------------------------------------
(* What programming over a slot leaves.                                    *)

\* One step of the recursion by which And is defined.
AndOf(h, a) ==
    [b \in Counters |-> IF a = 0 THEN 0 ELSE 2 * h[b \div 2] + ((a % 2) * (b % 2))]

AndUpTo(n, f) ==
    /\ f \in [0 .. n -> [Counters -> Nat]]
    /\ \A a \in 0 .. n : f[a] = AndOf(f[a \div 2], a)

LEMMA HalfIs ==
    /\ \A n \in Nat : n \div 2 \in Nat /\ n \div 2 <= n /\ (n > 0 => n \div 2 < n)
                      /\ n % 2 \in {0, 1} /\ n = 2 * (n \div 2) + (n % 2)
    /\ \A b \in Counters : b \div 2 \in Counters /\ b % 2 \in {0, 1}
<1>1. \A n \in Nat : n \div 2 \in Nat /\ n \div 2 <= n /\ (n > 0 => n \div 2 < n)
                     /\ n % 2 \in {0, 1} /\ n = 2 * (n \div 2) + (n % 2)
  OBVIOUS
<1> QED BY <1>1, FrameCounterAssumption DEF Counters

LEMMA AndOfType ==
    ASSUME NEW h \in [Counters -> Nat], NEW a \in Nat
    PROVE  AndOf(h, a) \in [Counters -> Nat]
<1>1. \A b \in Counters : 2 * h[b \div 2] + ((a % 2) * (b % 2)) \in Nat
  <2> SUFFICES ASSUME NEW b \in Counters PROVE 2 * h[b \div 2] + ((a % 2) * (b % 2)) \in Nat
    OBVIOUS
  <2>1. h[b \div 2] \in Nat /\ a % 2 \in {0, 1} /\ b % 2 \in {0, 1}
    BY HalfIs
  <2> QED BY <2>1
<1> QED BY <1>1 DEF AndOf

LEMMA AndExists == \A n \in Nat : \E f : AndUpTo(n, f)
<1> DEFINE Bad == {n \in Nat : ~ \E f : AndUpTo(n, f)}
<1> SUFFICES ASSUME Bad # {} PROVE FALSE
  OBVIOUS
<1>1. PICK n \in Bad : \A k \in Bad : n <= k
  BY HasLeast
<1>2. CASE n = 0
  <2> DEFINE f == [a \in 0 .. 0 |-> [b \in Counters |-> 0]]
  <2>1. \A h : AndOf(h, 0) = [b \in Counters |-> 0]
    BY DEF AndOf
  <2>2. \A a \in 0 .. 0 : a = 0
    OBVIOUS
  <2>3. f \in [0 .. 0 -> [Counters -> Nat]]
    OBVIOUS
  <2>4. \A a \in 0 .. 0 : f[a] = AndOf(f[a \div 2], a)
    BY <2>1, <2>2
  <2>5. AndUpTo(0, f)
    BY <2>3, <2>4 DEF AndUpTo
  <2> QED BY <1>2, <2>5
<1>3. CASE n # 0
  <2>1. n - 1 \in Nat /\ n \in Nat /\ n - 1 \notin Bad
    BY <1>1, <1>3
  <2>2. PICK g : AndUpTo(n - 1, g)
    BY <2>1
  <2>g. g \in [0 .. n - 1 -> [Counters -> Nat]] /\ \A a \in 0 .. n - 1 : g[a] = AndOf(g[a \div 2], a)
    BY <2>2 DEF AndUpTo
  <2> DEFINE f == [a \in 0 .. n |-> IF a < n THEN g[a] ELSE AndOf(g[n \div 2], n)]
  <2>3. n \div 2 \in 0 .. n - 1
    BY <1>3, <2>1, HalfIs
  <2>4. AndOf(g[n \div 2], n) \in [Counters -> Nat]
    BY <2>1, <2>3, <2>g, AndOfType
  <2>5. \A a \in 0 .. n : f[a] \in [Counters -> Nat]
    <3> SUFFICES ASSUME NEW a \in 0 .. n PROVE f[a] \in [Counters -> Nat]
      OBVIOUS
    <3>1. CASE a < n
      <4>1. a \in 0 .. n - 1 /\ f[a] = g[a]
        BY <2>1, <3>1
      <4> QED BY <2>g, <4>1
    <3>2. CASE ~ (a < n)
      BY <2>4, <3>2
    <3> QED BY <3>1, <3>2
  <2>6. f \in [0 .. n -> [Counters -> Nat]]
    BY <2>5
  <2>7. \A a \in 0 .. n : f[a] = AndOf(f[a \div 2], a)
    <3> SUFFICES ASSUME NEW a \in 0 .. n PROVE f[a] = AndOf(f[a \div 2], a)
      OBVIOUS
    <3>0. a \in Nat /\ a \div 2 \in 0 .. n /\ (a > 0 => a \div 2 < a)
      BY <2>1, HalfIs
    <3>1. CASE a < n
      <4>1. a \in 0 .. n - 1 /\ a \div 2 < n /\ f[a] = g[a] /\ f[a \div 2] = g[a \div 2]
        BY <2>1, <3>0, <3>1
      <4> QED BY <2>g, <4>1
    <3>2. CASE ~ (a < n)
      <4>1. a = n /\ f[n] = AndOf(g[n \div 2], n)
        BY <2>1, <3>2
      <4>2. f[n \div 2] = g[n \div 2]
        BY <2>1, <2>3
      <4> QED BY <4>1, <4>2
    <3> QED BY <3>1, <3>2
  <2>8. AndUpTo(n, f)
    BY <2>6, <2>7 DEF AndUpTo
  <2> QED BY <2>8, <1>1
<1> QED BY <1>2, <1>3

LEMMA AndIs ==
    /\ And \in [Counters -> [Counters -> Nat]]
    /\ \A a \in Counters : And[a] = AndOf(And[a \div 2], a)
<1>1. PICK f : AndUpTo(CntMax, f)
  BY AndExists, FrameCounterAssumption
<1>2. f \in [Counters -> [Counters -> Nat]] /\ \A a \in Counters : f[a] = AndOf(f[a \div 2], a)
  BY <1>1 DEF AndUpTo, Counters
<1>3. f = [a \in Counters |->
             [b \in Counters |-> IF a = 0 THEN 0
                                 ELSE 2 * f[a \div 2][b \div 2] + ((a % 2) * (b % 2))]]
  BY <1>2 DEF AndOf
<1>4. And = [a \in Counters |->
             [b \in Counters |-> IF a = 0 THEN 0
                                 ELSE 2 * And[a \div 2][b \div 2] + ((a % 2) * (b % 2))]]
  BY <1>3 DEF And
<1>5. \A a \in Counters : And[a] = AndOf(And[a \div 2], a)
  BY <1>4 DEF AndOf
<1> DEFINE Bad == {a \in Counters : And[a] \notin [Counters -> Nat]}
<1>6. Bad = {}
  <2> SUFFICES ASSUME Bad # {} PROVE FALSE
    OBVIOUS
  <2>0. Bad \subseteq Nat
    BY DEF Counters
  <2>1. PICK n \in Bad : \A k \in Bad : n <= k
    BY <2>0, HasLeast
  <2>2. CASE n = 0
    <3>1. And[n] = [b \in Counters |-> 0]
      BY <1>5, <2>2 DEF AndOf
    <3> QED BY <2>1, <3>1
  <2>3. CASE n # 0
    <3>1. n \in Nat /\ n \div 2 \in Counters /\ n \div 2 < n
      BY <2>3, HalfIs DEF Counters
    <3>2. n \div 2 \notin Bad
      BY <2>1, <3>1
    <3>3. And[n \div 2] \in [Counters -> Nat]
      BY <3>1, <3>2
    <3> QED BY <1>5, <2>1, <3>1, <3>3, AndOfType
  <2> QED BY <2>2, <2>3
<1>7. And \in [Counters -> [Counters -> Nat]]
  BY <1>4, <1>6
<1> QED BY <1>5, <1>7

LEMMA AndType == ASSUME NEW a \in Counters, NEW b \in Counters PROVE And[a][b] \in Counters
<1> DEFINE Bad == {x \in Counters : \E y \in Counters : ~ (And[x][y] <= x)}
<1>1. Bad = {}
  <2> SUFFICES ASSUME Bad # {} PROVE FALSE
    OBVIOUS
  <2>0. Bad \subseteq Nat
    BY DEF Counters
  <2>1. PICK n \in Bad : \A k \in Bad : n <= k
    BY <2>0, HasLeast
  <2>2. PICK y \in Counters : ~ (And[n][y] <= n)
    BY <2>1
  <2>3. And[n] = AndOf(And[n \div 2], n) /\ n \in Counters /\ n \in Nat
    BY AndIs, <2>0
  <2>4. CASE n = 0
    <3>1. And[n] = [z \in Counters |-> 0]
      BY <2>3, <2>4 DEF AndOf
    <3> QED BY <2>2, <2>4, <3>1
  <2>5. CASE n # 0
    <3>1. /\ n \div 2 \in Counters /\ n \div 2 < n /\ n = 2 * (n \div 2) + (n % 2)
          /\ y \div 2 \in Counters /\ n % 2 \in {0, 1} /\ y % 2 \in {0, 1} /\ n \div 2 \in Nat
      BY <2>3, <2>5, HalfIs
    <3>2. n \div 2 \notin Bad
      BY <2>1, <2>3, <3>1
    <3>3. And[n \div 2][y \div 2] <= n \div 2
      BY <3>1, <3>2
    <3>4. And[n \div 2][y \div 2] \in Nat
      BY <3>1, AndIs
    <3>5. And[n][y] = 2 * And[n \div 2][y \div 2] + ((n % 2) * (y % 2))
      BY <2>3, <2>5 DEF AndOf
    <3>6. (n % 2) * (y % 2) <= n % 2 /\ (n % 2) * (y % 2) \in Nat
      BY <3>1
    <3> QED BY <2>2, <3>1, <3>3, <3>4, <3>5, <3>6
  <2> QED BY <2>4, <2>5
<1>2. And[a][b] \in Nat
  BY AndIs
<1>3. And[a][b] <= a
  BY <1>1
<1>4. a \in Nat /\ a <= CntMax
  BY FrameCounterAssumption DEF Counters
<1>5. And[a][b] <= CntMax
  BY <1>2, <1>3, <1>4, FrameCounterAssumption
<1> QED BY <1>2, <1>5, FrameCounterAssumption DEF Counters

-----------------------------------------------------------------------------
(* The numbers of slots and sectors, and the types of what is read.        *)

LEMMA Numbers ==
    /\ CntMax \in Nat /\ Half \in Nat /\ Window \in Nat /\ 1 < Window
    /\ 2 * Window < Half /\ Half + (2 * Window) < CntMax
    /\ Sectors \in Nat /\ PerSector \in Nat /\ Sectors > 1 /\ PerSector > 1
    /\ max_count \in Nat /\ max_count > 1 /\ PerSector < max_count
    /\ LastSlot \in Slots /\ 0 \in Slots /\ MaxMishaps \in Nat
<1>1. /\ Sectors \in Nat /\ PerSector \in Nat /\ Sectors > 1 /\ PerSector > 1 /\ MaxMishaps \in Nat
  BY ReportFlashAssumption
<1>2. max_count \in Nat /\ max_count > 1 /\ PerSector < max_count
  <2>1. PICK k \in Nat : Sectors = k + 2
    <3>1. Sectors - 2 \in Nat /\ Sectors = (Sectors - 2) + 2
      BY <1>1
    <3> QED BY <3>1
  <2>2. max_count = (k * PerSector) + (2 * PerSector)
    BY <1>1, <2>1 DEF max_count
  <2>3. k * PerSector \in Nat
    BY <1>1
  <2> QED BY <1>1, <2>2, <2>3
<1>3. LastSlot \in Slots /\ 0 \in Slots
  BY <1>2 DEF LastSlot, Slots
<1> QED BY <1>1, <1>2, <1>3, FrameCounterAssumption

\* A slot is so many after the first of its sector.
LEMMA InSector ==
    ASSUME NEW i \in Slots
    PROVE  /\ SectorOf(i) \in 0 .. Sectors - 1
           /\ i % PerSector \in 0 .. PerSector - 1
           /\ i = (SectorOf(i) * PerSector) + (i % PerSector)
<1>1. i \in Nat /\ i < max_count
  BY Numbers DEF Slots
<1>2. i % PerSector \in 0 .. PerSector - 1 /\ i = ((i \div PerSector) * PerSector) + (i % PerSector)
      /\ i \div PerSector \in Nat
  BY <1>1, Numbers
<1>3. i \div PerSector < Sectors
  <2> SUFFICES ASSUME i \div PerSector >= Sectors PROVE FALSE
    BY <1>2, Numbers
  <2> DEFINE s == i \div PerSector
             k == s - Sectors
  <2>1. k \in Nat /\ s = k + Sectors /\ s \in Nat
    BY <1>2, Numbers
  <2>2. i = (s * PerSector) + (i % PerSector)
    BY <1>2
  <2> HIDE DEF s, k
  <2>3. s * PerSector = (k * PerSector) + (Sectors * PerSector)
    BY <2>1, Numbers
  <2>4. k * PerSector \in Nat
    BY <2>1, Numbers
  <2> QED BY <1>1, <1>2, <2>2, <2>3, <2>4, Numbers DEF max_count
<1> QED BY <1>1, <1>2, <1>3, Numbers DEF SectorOf

\* Two slots of one sector are less than a sector apart.
LEMMA SameSector ==
    ASSUME NEW i \in Slots, NEW j \in Slots
    PROVE  /\ SectorOf(i) = SectorOf(j) => i - j = (i % PerSector) - (j % PerSector)
           /\ i < j /\ SectorOf(i) # SectorOf(j) => (j - i) >= PerSector - (i % PerSector)
<1>1. /\ SectorOf(i) \in Nat /\ SectorOf(j) \in Nat
      /\ i % PerSector \in Nat /\ j % PerSector \in Nat
      /\ i = (SectorOf(i) * PerSector) + (i % PerSector)
      /\ j = (SectorOf(j) * PerSector) + (j % PerSector)
      /\ i % PerSector < PerSector /\ j % PerSector < PerSector
  <2>1. \A s \in Slots : /\ SectorOf(s) \in Nat /\ s % PerSector \in Nat
                          /\ s = (SectorOf(s) * PerSector) + (s % PerSector)
                          /\ s % PerSector < PerSector
    <3> SUFFICES ASSUME NEW s \in Slots
                 PROVE  /\ SectorOf(s) \in Nat /\ s % PerSector \in Nat
                        /\ s = (SectorOf(s) * PerSector) + (s % PerSector)
                        /\ s % PerSector < PerSector
      OBVIOUS
    <3>1. /\ SectorOf(s) \in 0 .. Sectors - 1
          /\ s % PerSector \in 0 .. PerSector - 1
          /\ s = (SectorOf(s) * PerSector) + (s % PerSector)
      BY InSector
    <3> QED BY <3>1, Numbers
  <2> QED BY <2>1
<1>2. SectorOf(i) = SectorOf(j) => i - j = (i % PerSector) - (j % PerSector)
  BY <1>1, Numbers
<1>3. ASSUME i < j, SectorOf(i) # SectorOf(j)
      PROVE  (j - i) >= PerSector - (i % PerSector)
  <2>1. CASE SectorOf(i) < SectorOf(j)
    <3>1. PICK k \in Nat : SectorOf(j) = SectorOf(i) + 1 + k
      <4>1. SectorOf(j) - SectorOf(i) - 1 \in Nat
        BY <1>1, <2>1
      <4> QED BY <4>1, <1>1
    <3>2. SectorOf(j) * PerSector = (SectorOf(i) * PerSector) + PerSector + (k * PerSector)
      BY <1>1, <3>1, Numbers
    <3>3. k * PerSector \in Nat
      BY Numbers
    <3> DEFINE a == SectorOf(i) * PerSector
               b == k * PerSector
    <3>4. a \in Nat
      BY <1>1, Numbers
    <3> HIDE DEF a, b
    <3>5. i = a + (i % PerSector) /\ j = a + PerSector + b + (j % PerSector) /\ b \in Nat
      BY <1>1, <3>2, <3>3 DEF a, b
    <3> QED BY <3>4, <3>5, <1>1, Numbers
  <2>2. CASE SectorOf(j) < SectorOf(i)
    <3>1. PICK k \in Nat : SectorOf(i) = SectorOf(j) + 1 + k
      <4>1. SectorOf(i) - SectorOf(j) - 1 \in Nat
        BY <1>1, <2>2
      <4> QED BY <4>1, <1>1
    <3>2. SectorOf(i) * PerSector = (SectorOf(j) * PerSector) + PerSector + (k * PerSector)
      BY <1>1, <3>1, Numbers
    <3>3. k * PerSector \in Nat
      BY Numbers
    <3> DEFINE a == SectorOf(j) * PerSector
               b == k * PerSector
    <3>4. a \in Nat
      BY <1>1, Numbers
    <3> HIDE DEF a, b
    <3>5. j = a + (j % PerSector) /\ i = a + PerSector + b + (i % PerSector) /\ b \in Nat
      BY <1>1, <3>2, <3>3 DEF a, b
    <3> QED BY <1>3, <3>4, <3>5, <1>1, Numbers
  <2> QED BY <1>1, <1>3, <2>1, <2>2
<1> QED BY <1>2, <1>3

\* The slot after another: the next of the sector, or the first of another one.
LEMMA NextSlotIs ==
    ASSUME NEW i \in Slots
    PROVE  /\ NextSlot(i) \in Slots
           /\ NextSlot(i) = IF i = LastSlot THEN 0 ELSE i + 1
           /\ \/ NextSlot(i) = i + 1 /\ SectorOf(NextSlot(i)) = SectorOf(i)
              \/ /\ NextSlot(i) % PerSector = 0
                 /\ SectorOf(NextSlot(i)) # SectorOf(i)
                 /\ i % PerSector = PerSector - 1
<1>0. i \in Nat /\ i < max_count /\ max_count \in Nat /\ max_count > 1
  BY Numbers DEF Slots
<1>1. NextSlot(i) = IF i = LastSlot THEN 0 ELSE i + 1
  <2>1. CASE i = LastSlot
    <3>1. i + 1 = max_count /\ max_count % max_count = 0
      BY <1>0, <2>1 DEF LastSlot
    <3> QED BY <2>1, <3>1 DEF NextSlot
  <2>2. CASE i # LastSlot
    <3>1. i + 1 \in Nat /\ i + 1 < max_count
      BY <1>0, <2>2 DEF LastSlot
    <3>2. (i + 1) % max_count = i + 1
      BY <3>1, <1>0
    <3> QED BY <2>2, <3>2 DEF NextSlot
  <2> QED BY <2>1, <2>2
<1>2. NextSlot(i) \in Slots
  BY <1>0, <1>1 DEF Slots, LastSlot
<1>3. /\ i % PerSector \in 0 .. PerSector - 1 /\ NextSlot(i) % PerSector \in 0 .. PerSector - 1
      /\ SectorOf(NextSlot(i)) \in Nat
  BY <1>2, InSector
<1>4. CASE i # LastSlot /\ SectorOf(NextSlot(i)) = SectorOf(i)
  BY <1>1, <1>2, <1>4
<1>5. CASE i # LastSlot /\ SectorOf(NextSlot(i)) # SectorOf(i)
  <2>1. NextSlot(i) = i + 1 /\ i < NextSlot(i)
    BY <1>0, <1>1, <1>5
  <2>2. 1 >= PerSector - (i % PerSector)
    BY <1>0, <1>2, <2>1, <1>5, SameSector
  <2>3. i % PerSector = PerSector - 1
    BY <1>3, <2>2, Numbers
  <2>4. NextSlot(i) % PerSector = 0
    <3>1. i = (SectorOf(i) * PerSector) + PerSector - 1 /\ SectorOf(i) \in Nat
      BY <2>3, InSector, Numbers
    <3>2. i + 1 = (SectorOf(i) + 1) * PerSector
      BY <3>1, Numbers
    <3>3. ((SectorOf(i) + 1) * PerSector) % PerSector = 0
      BY <3>1, Numbers
    <3> QED BY <2>1, <3>2, <3>3
  <2> QED BY <1>1, <1>2, <1>5, <2>3, <2>4
<1>6. CASE i = LastSlot
  <2>1. NextSlot(i) = 0
    BY <1>1, <1>6
  <2>2. 0 % PerSector = 0 /\ SectorOf(0) = 0
    BY Numbers DEF SectorOf
  <2>3. SectorOf(i) = Sectors - 1 /\ i % PerSector = PerSector - 1
    <3>1. i = ((Sectors - 1) * PerSector) + (PerSector - 1)
      BY <1>6, Numbers DEF LastSlot, max_count
    <3>2. i = (SectorOf(i) * PerSector) + (i % PerSector) /\ SectorOf(i) \in 0 .. Sectors - 1
      BY InSector
    <3>3. ~ (SectorOf(i) < Sectors - 1)
      <4> SUFFICES ASSUME SectorOf(i) < Sectors - 1 PROVE FALSE
        OBVIOUS
      <4>1. PICK k \in Nat : Sectors - 1 = SectorOf(i) + 1 + k
        <5>1. Sectors - 2 - SectorOf(i) \in Nat
          BY <3>2, Numbers
        <5> QED BY <5>1, <3>2, Numbers
      <4>2. (Sectors - 1) * PerSector = (SectorOf(i) * PerSector) + PerSector + (k * PerSector)
        BY <4>1, <3>2, Numbers
      <4>3. k * PerSector \in Nat /\ SectorOf(i) * PerSector \in Nat
        BY <3>2, Numbers
      <4> DEFINE a == SectorOf(i) * PerSector
                 b == k * PerSector
      <4>4. a \in Nat /\ b \in Nat /\ i = a + PerSector + b + (PerSector - 1) /\ i = a + (i % PerSector)
        BY <4>2, <4>3, <3>1, <3>2
      <4> HIDE DEF a, b
      <4> QED BY <4>4, <1>3, Numbers
    <3>4. SectorOf(i) = Sectors - 1
      BY <3>2, <3>3, Numbers
    <3>5. i % PerSector = PerSector - 1
      <4> DEFINE a == (Sectors - 1) * PerSector
      <4>1. a \in Int /\ i = a + (PerSector - 1) /\ i = a + (i % PerSector)
        BY <3>1, <3>2, <3>4, Numbers
      <4> HIDE DEF a
      <4> QED BY <4>1, <1>3, Numbers
    <3> QED BY <3>4, <3>5
  <2>4. SectorOf(i) # 0
    BY <2>3, Numbers
  <2> QED BY <1>1, <1>2, <2>1, <2>2, <2>3, <2>4
<1> QED BY <1>4, <1>5, <1>6

-----------------------------------------------------------------------------
(* Types.                                                                  *)

LEMMA ContentsTypes ==
    /\ Blank \in Contents
    /\ \A x \in Counters : Scrap(x) \in Contents /\ Broken(x) \in Contents
    /\ \A x \in Counters, n \in Nat : Report(x, n) \in Contents
  BY FrameCounterAssumption DEF Contents, Blank, Scrap, Broken, Report, Counters

LEMMA SlotTypes ==
    ASSUME NEW f \in [Slots -> Contents], NEW i \in Slots
    PROVE  f[i].flag \in {"valid", "erased"} /\ f[i].idx \in Counters
           /\ f[i].ok \in BOOLEAN /\ f[i].num \in Nat /\ IdxBefore(f, i) \in Counters
<1>1. \A j \in Slots : f[j].flag \in {"valid", "erased"} /\ f[j].idx \in Counters
                        /\ f[j].ok \in BOOLEAN /\ f[j].num \in Nat
  BY DEF Contents
<1>2. i # 0 => i - 1 \in Slots
  BY Numbers DEF Slots
<1>3. 0 \in Counters
  BY FrameCounterAssumption DEF Counters
<1> QED BY <1>1, <1>2, <1>3 DEF IdxBefore

LEMMA StopIs ==
    ASSUME NEW f \in [Slots -> Contents], ~ \A i \in Slots : Accepted(f, i)
    PROVE  /\ Stop(f) \in Slots /\ ~ Accepted(f, Stop(f))
           /\ \A j \in 0 .. Stop(f) - 1 : Accepted(f, j)
<1> DEFINE S == {i \in Slots : ~ Accepted(f, i)}
<1>1. S \in SUBSET Nat /\ S # {}
  BY Numbers DEF Slots
<1>2. PICK m \in S : \A k \in S : m <= k
  BY <1>1, HasLeast
<1>3. \A j \in 0 .. m - 1 : j \in Slots /\ ~ (m <= j)
  BY <1>2, Numbers DEF Slots
<1>4. \A j \in 0 .. m - 1 : Accepted(f, j)
  BY <1>2, <1>3
<1>5. \E i \in Slots : ~ Accepted(f, i) /\ \A j \in 0 .. i - 1 : Accepted(f, j)
  BY <1>2, <1>4
<1> QED BY <1>5 DEF Stop

LEMMA FoundTypes ==
    ASSUME NEW f \in [Slots -> Contents]
    PROVE  find_report_new_index(f) \in
             [report_new_cnt : Counters, write_idx : Slots, read_idx : Slots \cup {-1}]
<1> DEFINE F == [report_new_cnt : Counters, write_idx : Slots, read_idx : Slots \cup {-1}]
<1>1. \A x \in Counters, w \in Slots, r \in Slots \cup {-1} : Found(x, w, r) \in F
  BY DEF Found
<1> HIDE DEF F
<1>2. 0 \in Counters /\ 0 \in Slots /\ LastSlot \in Slots /\ f[LastSlot].idx \in Counters
  <2>1. 0 \in Counters
    BY FrameCounterAssumption DEF Counters
  <2>2. LastSlot \in Slots /\ 0 \in Slots
    BY Numbers
  <2> QED BY <2>1, <2>2, SlotTypes
<1>3. ASSUME \A i \in Slots : Accepted(f, i) PROVE find_report_new_index(f) \in F
  <2>1. Found(0, 0, 0) \in F
    BY <1>1, <1>2
  <2> QED BY <1>3, <2>1 DEF find_report_new_index
<1>4. ASSUME ~ \A i \in Slots : Accepted(f, i) PROVE find_report_new_index(f) \in F
  <2>1. Stop(f) \in Slots
    BY <1>4, StopIs
  <2>2. Stop(f) - 1 \in Slots \cup {-1} /\ IdxBefore(f, Stop(f)) \in Counters
    BY <2>1, SlotTypes, Numbers DEF Slots
  <2>3. Found(0, 0, Stop(f)) \in F /\ Found(0, 0, 0) \in F
    BY <1>1, <1>2, <2>1
  <2>4. Found(f[LastSlot].idx, 0, LastSlot) \in F
    BY <1>1, <1>2
  <2>5. Found(IdxBefore(f, Stop(f)), Stop(f), Stop(f) - 1) \in F
    BY <1>1, <2>1, <2>2
  <2> QED BY <1>4, <2>3, <2>4, <2>5 DEF find_report_new_index
<1>5. find_report_new_index(f) \in F
  BY <1>3, <1>4
<1> QED BY <1>5 DEF F

\* A save under way, and what is not one.
Steps == {"erase", "erase_record", "write_record", "write"}

LEMMA OpIs ==
    /\ op \in Ops /\ op.pc \in Steps => op.type \in Types /\ op.copy \in [Types -> 0 .. NoSector]
    /\ op \in Ops => (op.pc \in Steps <=> op \notin {Idle, Off})
    /\ \A pc \in Steps, t \in Types, copy \in [Types -> 0 .. NoSector] :
         Saving(pc, t, copy) \in Ops /\ Saving(pc, t, copy).pc = pc /\ Saving(pc, t, copy).type = t
    /\ Idle \in Ops /\ Off \in Ops /\ Idle # Off
    /\ Idle.pc \notin Steps /\ Off.pc \notin Steps
<1>1. Idle.pc = "idle" /\ Off.pc = "off"
  BY DEF Idle, Off
<1>2. Idle \in Ops /\ Off \in Ops
  BY DEF Ops
<1>3. \A pc \in Steps, t \in Types, copy \in [Types -> 0 .. NoSector] :
         Saving(pc, t, copy) \in Ops /\ Saving(pc, t, copy).pc = pc /\ Saving(pc, t, copy).type = t
  BY DEF Steps, Ops, Saving
<1>4. ASSUME op \in Ops, op.pc \in Steps
      PROVE  op.type \in Types /\ op.copy \in [Types -> 0 .. NoSector] /\ op \notin {Idle, Off}
  <2>1. op \notin {Idle, Off}
    BY <1>1, <1>4 DEF Steps
  <2>2. op \in [pc : Steps, type : Types, copy : [Types -> 0 .. NoSector]]
    BY <1>4, <2>1 DEF Ops, Steps
  <2> QED BY <2>1, <2>2
<1>5. ASSUME op \in Ops, op \notin {Idle, Off} PROVE op.pc \in Steps
  <2>1. op \in [pc : Steps, type : Types, copy : [Types -> 0 .. NoSector]]
    BY <1>5 DEF Ops, Steps
  <2> QED BY <2>1
<1> QED BY <1>1, <1>2, <1>3, <1>4, <1>5 DEF Steps

\* The fields of a region.
LEMMA RegionIs ==
    ASSUME NEW r \in Regions
    PROVE  /\ r.report_new_cnt \in Counters /\ r.write_idx \in Slots
           /\ r.read_idx \in Slots \cup {-1} /\ r.last_erase_sectorID \in 0 .. NoSector
           /\ r = [report_new_cnt |-> r.report_new_cnt, write_idx |-> r.write_idx,
                   read_idx |-> r.read_idx, last_erase_sectorID |-> r.last_erase_sectorID]
  BY DEF Regions

LEMMA SectorIs == \A i \in Slots : SectorOf(i) \in 0 .. NoSector
<1>1. \A i \in Slots : SectorOf(i) \in 0 .. Sectors - 1
  BY InSector
<1> QED BY <1>1, Numbers DEF NoSector

LEMMA ProgrammedType ==
    ASSUME NEW old \in Contents, NEW new \in Contents, NEW n \in Nat
    PROVE  Programmed(old, new, n) \in Contents
<1>1. old.idx \in Counters /\ new.idx \in Counters
  BY DEF Contents
<1> DEFINE x == And[old.idx][new.idx]
           g == IF "valid" \in {old.flag, new.flag} THEN "valid" ELSE "erased"
<1>2. x \in Counters /\ g \in {"valid", "erased"}
  BY <1>1, AndType
<1>3. Programmed(old, new, n) =
        IF old = Blank THEN new ELSE [flag |-> g, idx |-> x, ok |-> FALSE, num |-> n]
  BY DEF Programmed
<1> HIDE DEF x, g
<1>4. [flag |-> g, idx |-> x, ok |-> FALSE, num |-> n] \in Contents
  BY <1>2 DEF Contents
<1> QED BY <1>3, <1>4

\* What a save not seen through leaves is of the types of the flash.
LEMMA CutOffType ==
    ASSUME TypeOK, CutOff, op.pc \in Steps
    PROVE  flash' \in [Types -> [Slots -> Contents]] /\ record' \in [Types -> 0 .. NoSector]
<1>t. /\ flash \in [Types -> [Slots -> Contents]] /\ record \in [Types -> 0 .. NoSector]
      /\ ram \in [Types -> Regions] /\ op \in Ops /\ begun \in [Types -> Nat]
  BY DEF TypeOK
<1> DEFINE t == op.type
           i == ram[t].write_idx
<1>0. t \in Types /\ ram[t] \in Regions /\ begun[t] \in Nat /\ flash[t] \in [Slots -> Contents]
  BY <1>t, OpIs
<1>c. i \in Slots /\ ram[t].report_new_cnt \in Counters
  BY <1>0, RegionIs
<1>1. CASE UNCHANGED <<flash, record>>
  BY <1>1, <1>t
<1>2. CASE /\ \E part \in [{j \in Slots : SectorOf(j) = Target(t)} -> {"old", "blank", "scrap"}] :
                 flash' = [flash EXCEPT ![t] =
                             [j \in Slots |-> IF SectorOf(j) # Target(t) \/ part[j] = "old" THEN @[j]
                                              ELSE IF part[j] = "blank" THEN Blank
                                              ELSE Scrap(@[j].idx)]]
           /\ UNCHANGED record
  <2>1. PICK part :
                 flash' = [flash EXCEPT ![t] =
                             [j \in Slots |-> IF SectorOf(j) # Target(t) \/ part[j] = "old" THEN @[j]
                                              ELSE IF part[j] = "blank" THEN Blank
                                              ELSE Scrap(@[j].idx)]]
    BY <1>2
  <2> HIDE DEF t
  <2> DEFINE f == [j \in Slots |-> IF SectorOf(j) # Target(t) \/ part[j] = "old" THEN flash[t][j]
                                   ELSE IF part[j] = "blank" THEN Blank
                                   ELSE Scrap(flash[t][j].idx)]
  <2>2. \A j \in Slots : flash[t][j] \in Contents /\ Scrap(flash[t][j].idx) \in Contents /\ Blank \in Contents
    BY <1>0, SlotTypes, ContentsTypes
  <2>3. f \in [Slots -> Contents]
    BY <2>2
  <2>4. flash' = [flash EXCEPT ![t] = f]
    BY <2>1, <1>0, <1>t
  <2> HIDE DEF f
  <2> QED BY <1>2, <1>0, <1>t, <2>3, <2>4
<1>3. CASE record' \in [Types -> 0 .. NoSector] /\ UNCHANGED flash
  BY <1>3, <1>t
<1>4. CASE /\ \E c \in Parts(ram[t].report_new_cnt, begun[t]) :
                 flash' = [flash EXCEPT ![t][i] = Programmed(@, c, begun[t])]
           /\ UNCHANGED record
  <2>1. PICK c \in Parts(ram[t].report_new_cnt, begun[t]) :
                 flash' = [flash EXCEPT ![t][i] = Programmed(@, c, begun[t])]
    BY <1>4
  <2>2. c \in Contents
    BY <1>0, <1>c, <2>1, ContentsTypes DEF Parts
  <2>3. Programmed(flash[t][i], c, begun[t]) \in Contents
    BY <1>0, <1>c, <2>2, ProgrammedType
  <2> HIDE DEF t, i
  <2> QED BY <1>4, <1>0, <1>c, <1>t, <2>1, <2>3
<1> QED BY <1>1, <1>2, <1>3, <1>4, Zenon DEF CutOff

LEMMA NextCounter == \A x \in Counters : (x + 1) % (CntMax + 1) \in Counters
<1> SUFFICES ASSUME NEW x \in Counters PROVE (x + 1) % (CntMax + 1) \in Counters
  OBVIOUS
<1> DEFINE n == x + 1
           m == CntMax + 1
<1>1. n \in Nat /\ m \in Nat /\ m > 0
  BY FrameCounterAssumption DEF Counters
<1> HIDE DEF n, m
<1>2. n % m \in 0 .. m - 1
  BY <1>1
<1> QED BY <1>2, FrameCounterAssumption DEF n, m, Counters

LEMMA TypeInit == Init => TypeOK
<1> SUFFICES ASSUME Init PROVE TypeOK
  OBVIOUS
<1>1. NoRegion \in Regions
  BY Numbers, FrameCounterAssumption DEF NoRegion, Regions, NoSector, Counters
<1>2. NoSector \in 0 .. NoSector
  BY Numbers DEF NoSector
<1>3. flash \in [Types -> [Slots -> Contents]]
  BY ContentsTypes DEF Init
<1>4. ram \in [Types -> Regions] /\ record \in [Types -> 0 .. NoSector]
  BY <1>1, <1>2 DEF Init
<1> QED BY <1>3, <1>4, OpIs DEF Init, TypeOK

LEMMA TypeStep == TypeOK /\ [Next]_vars => TypeOK'
<1> SUFFICES ASSUME TypeOK, [Next]_vars PROVE TypeOK'
  OBVIOUS
<1>t. /\ flash \in [Types -> [Slots -> Contents]] /\ record \in [Types -> 0 .. NoSector]
      /\ ram \in [Types -> Regions] /\ op \in Ops /\ begun \in [Types -> Nat]
      /\ acked \in [Types -> SUBSET Nat] /\ marred \in [Types -> SUBSET Nat]
      /\ mishaps \in Nat /\ ordinary \in [Types -> BOOLEAN]
  BY DEF TypeOK
<1>o. op.pc \in Steps => op.type \in Types /\ op.copy \in [Types -> 0 .. NoSector]
  BY <1>t, OpIs
<1>1. ASSUME NEW t \in Types, SaveBegin(t) PROVE TypeOK'
  <2>1. ram[t] \in Regions
    BY <1>t
  <2>2. (ram[t].report_new_cnt + 1) % (CntMax + 1) \in Counters
    BY <2>1, RegionIs, NextCounter
  <2> DEFINE r == [ram[t] EXCEPT !.report_new_cnt = (@ + 1) % (CntMax + 1)]
  <2>3. r \in Regions
    BY <2>1, <2>2 DEF Regions
  <2>4. ram' = [ram EXCEPT ![t] = r]
    BY <1>1 DEF SaveBegin
  <2> HIDE DEF r
  <2>5. ram' \in [Types -> Regions]
    BY <1>t, <2>3, <2>4
  <2>6. op' \in Ops
    BY <1>1, <1>t, OpIs DEF SaveBegin, Steps
  <2>7. begun' \in [Types -> Nat]
    BY <1>1, <1>t DEF SaveBegin
  <2> QED BY <1>1, <1>t, <2>5, <2>6, <2>7 DEF SaveBegin, TypeOK
<1>2. CASE EraseSector
  <2>1. op.pc \in Steps
    BY <1>2 DEF EraseSector, Steps
  <2> DEFINE t == op.type
  <2>2. t \in Types /\ op.copy \in [Types -> 0 .. NoSector] /\ ram[t] \in Regions
    BY <1>t, <1>o, <2>1
  <2>3. Target(t) \in 0 .. NoSector
    BY <2>2, RegionIs, SectorIs DEF Target
  <2> DEFINE r == [ram[t] EXCEPT !.last_erase_sectorID = Target(t)]
             f == [i \in Slots |-> IF SectorOf(i) = Target(t) THEN Blank ELSE flash[t][i]]
  <2>4. r \in Regions
    BY <2>2, <2>3 DEF Regions
  <2>5. f \in [Slots -> Contents]
    BY <1>t, <2>2, ContentsTypes
  <2>6. ram' = [ram EXCEPT ![t] = r] /\ flash' = [flash EXCEPT ![t] = f]
    BY <1>2 DEF EraseSector
  <2>7. op' \in Ops
    BY <1>2, <2>2, OpIs DEF EraseSector, Steps
  <2> HIDE DEF r, f, t
  <2>8. ram' \in [Types -> Regions] /\ flash' \in [Types -> [Slots -> Contents]]
    BY <1>t, <2>4, <2>5, <2>6
  <2> QED BY <1>2, <1>t, <2>7, <2>8 DEF EraseSector, TypeOK
<1>3. CASE EraseRecord
  <2>1. op.type \in Types /\ op.pc \in Steps
    BY <1>3, <1>o DEF EraseRecord, Steps
  <2>2. ram[op.type].last_erase_sectorID \in 0 .. NoSector
    BY <1>t, <2>1, RegionIs
  <2>3. [record EXCEPT ![op.type] = ram[op.type].last_erase_sectorID] \in [Types -> 0 .. NoSector]
    BY <1>t, <2>2
  <2>4. op' \in Ops
    BY <1>3, <2>1, <2>3, OpIs DEF EraseRecord, Steps
  <2>5. record' \in [Types -> 0 .. NoSector]
    BY <1>3, Numbers DEF EraseRecord, NoSector
  <2> QED BY <1>3, <1>t, <2>4, <2>5 DEF EraseRecord, TypeOK
<1>4. CASE WriteRecord
  <2>1. op.type \in Types /\ op.copy \in [Types -> 0 .. NoSector]
    BY <1>4, <1>o DEF WriteRecord, Steps
  <2>2. op' \in Ops
    BY <1>4, <2>1, OpIs DEF WriteRecord, Steps
  <2> QED BY <1>4, <1>t, <2>1, <2>2 DEF WriteRecord, TypeOK
<1>5. CASE WriteReport
  <2> DEFINE t == op.type
             i == ram[t].write_idx
  <2>1. t \in Types /\ ram[t] \in Regions
    BY <1>5, <1>o, <1>t DEF WriteReport, Steps
  <2>2. i \in Slots /\ ram[t].report_new_cnt \in Counters /\ NextSlot(i) \in Slots
    BY <2>1, RegionIs, NextSlotIs
  <2> DEFINE s == Programmed(flash[t][i], Report(ram[t].report_new_cnt, begun[t]), begun[t])
             r == [ram[t] EXCEPT !.read_idx = i, !.write_idx = NextSlot(i)]
             f == [flash[t] EXCEPT ![i] = s]
  <2>3. s \in Contents
    <3>1. flash[t][i] \in Contents /\ begun[t] \in Nat
      BY <1>t, <2>1, <2>2
    <3> QED BY <3>1, <2>2, ContentsTypes, ProgrammedType
  <2>4. r \in Regions
    BY <2>1, <2>2 DEF Regions
  <2>5. f \in [Slots -> Contents]
    <3> HIDE DEF s
    <3> QED BY <1>t, <2>1, <2>2, <2>3
  <2>6. ram' = [ram EXCEPT ![t] = r] /\ flash' = [flash EXCEPT ![t] = f]
    BY <1>5 DEF WriteReport
  <2>7. acked' \in [Types -> SUBSET Nat] /\ marred' \in [Types -> SUBSET Nat]
    BY <1>5, <1>t, <2>1 DEF WriteReport
  <2> HIDE DEF r, f, t
  <2>8. ram' \in [Types -> Regions] /\ flash' \in [Types -> [Slots -> Contents]]
    BY <1>t, <2>4, <2>5, <2>6
  <2> QED BY <1>5, <1>t, <2>7, <2>8, OpIs DEF WriteReport, TypeOK
<1>6. CASE FlashError
  <2>1. op.pc \in Steps
    BY <1>6 DEF FlashError, Steps
  <2>2. flash' \in [Types -> [Slots -> Contents]] /\ record' \in [Types -> 0 .. NoSector]
    BY <1>6, <2>1, CutOffType DEF FlashError
  <2> QED BY <1>6, <1>t, <2>2, OpIs DEF FlashError, TypeOK
<1>7. CASE PowerFail
  <2>1. flash' \in [Types -> [Slots -> Contents]] /\ record' \in [Types -> 0 .. NoSector]
    <3>1. CASE UNCHANGED <<flash, record>>
      BY <1>t, <3>1
    <3>2. CASE op \notin {Idle, Off} /\ CutOff
      <4>1. op.pc \in Steps
        BY <3>2, <1>t, OpIs
      <4> QED BY <3>2, <4>1, CutOffType
    <3> QED BY <1>7, <3>1, <3>2 DEF PowerFail
  <2> QED BY <1>7, <1>t, <2>1, OpIs DEF PowerFail, TypeOK
<1>8. CASE report_init
  <2>1. \A t \in Types :
           [report_new_cnt |-> find_report_new_index(flash[t]).report_new_cnt,
            write_idx |-> find_report_new_index(flash[t]).write_idx,
            read_idx |-> find_report_new_index(flash[t]).read_idx,
            last_erase_sectorID |-> record[t]] \in Regions
    <3> SUFFICES ASSUME NEW t \in Types
                 PROVE  [report_new_cnt |-> find_report_new_index(flash[t]).report_new_cnt,
                         write_idx |-> find_report_new_index(flash[t]).write_idx,
                         read_idx |-> find_report_new_index(flash[t]).read_idx,
                         last_erase_sectorID |-> record[t]] \in Regions
      OBVIOUS
    <3>1. find_report_new_index(flash[t]) \in
            [report_new_cnt : Counters, write_idx : Slots, read_idx : Slots \cup {-1}]
      BY <1>t, FoundTypes
    <3>2. record[t] \in 0 .. NoSector
      BY <1>t
    <3> QED BY <3>1, <3>2 DEF Regions
  <2>2. ram' \in [Types -> Regions]
    BY <1>8, <2>1 DEF report_init
  <2>3. ordinary' \in [Types -> BOOLEAN]
    BY <1>8 DEF report_init
  <2> QED BY <1>8, <1>t, <2>2, <2>3, OpIs DEF report_init, TypeOK
<1>9. CASE UNCHANGED vars
  BY <1>9, <1>t DEF vars, TypeOK
<1> QED BY <1>1, <1>2, <1>3, <1>4, <1>5, <1>6, <1>7, <1>8, <1>9 DEF Next, Save

LEMMA TypeInv == Spec => []TypeOK
  BY TypeInit, TypeStep, PTL DEF Spec

-----------------------------------------------------------------------------
(* The ring of one type: f its slots, c the counter, p the slot to write   *)
(* next, m the mishaps so far, e = 1 while a save is under way, b the      *)
(* number of saves begun.                                                  *)

Valid(f, j) == f[j].flag = "valid"

\* How many writes before the next one slot j was written.
Age(p, j) == IF j < p THEN p - 1 - j ELSE p - 1 - j + max_count

\* How many steps the counter went from x to c.
Lag(c, x) == IF x <= c THEN c - x ELSE c - x + (CntMax + 1)

\* The slots before p are written, and so is what is younger than a written one.
Front(f, p) ==
    /\ \A j \in Slots : j < p => Valid(f, j)
    /\ \A j \in Slots, k \in Slots : Valid(f, j) /\ Age(p, k) < Age(p, j) => Valid(f, k)

\* The older a slot, the older its index; and no slot's index is behind by more
\* than the mishaps explain, each of which used up one index or none.
InOrder(f, c, p) ==
    \A j \in Slots, k \in Slots :
       Valid(f, j) /\ Valid(f, k) /\ Age(p, j) < Age(p, k) => Lag(c, f[j].idx) < Lag(c, f[k].idx)
Near(f, c, p, m, e) ==
    \A j \in Slots : Valid(f, j) => /\ e <= Lag(c, f[j].idx)
                                    /\ Lag(c, f[j].idx) <= Age(p, j) + m + e

\* A report so old was saved at least so many saves ago.
Numbered(f, p, e, b) ==
    \A j \in Slots : f[j].ok => Valid(f, j) /\ f[j].num + Age(p, j) + e <= b

\* The rest of the sector begun is blank, and the others are blank or written as
\* a whole.
Rest(f, p) ==
    f[p] = Blank \/ p % PerSector # 0 =>
       \A j \in Slots : SectorOf(j) = SectorOf(p) /\ p < j => f[j] = Blank
Whole(f, p) ==
    \A j \in Slots, k \in Slots :
       SectorOf(j) = SectorOf(k) /\ SectorOf(j) # SectorOf(p) /\ f[j] = Blank => f[k] = Blank
Tip(f, p) == Valid(f, p) => p % PerSector = 0

RingTypes(f, c, p, m, e, b) ==
    /\ f \in [Slots -> Contents] /\ c \in Counters /\ p \in Slots
    /\ m \in Nat /\ e \in {0, 1} /\ b \in Nat

Ring(f, c, p, m, e, b) ==
    /\ RingTypes(f, c, p, m, e, b)
    /\ Front(f, p) /\ InOrder(f, c, p) /\ Near(f, c, p, m, e) /\ Numbered(f, p, e, b)
    /\ Rest(f, p) /\ Whole(f, p) /\ Tip(f, p)

LEMMA AgeIs ==
    ASSUME NEW p \in Slots, NEW j \in Slots
    PROVE  /\ Age(p, j) \in 0 .. max_count - 1
           /\ Age(p, p) = max_count - 1
           /\ j # p => Age(NextSlot(p), j) = Age(p, j) + 1
           /\ Age(NextSlot(p), p) = 0
<1>1. p \in Nat /\ j \in Nat /\ p < max_count /\ j < max_count /\ max_count \in Nat
  BY Numbers DEF Slots
<1>2. NextSlot(p) = IF p = LastSlot THEN 0 ELSE p + 1
  BY NextSlotIs
<1>3. Age(p, j) \in 0 .. max_count - 1 /\ Age(p, p) = max_count - 1
  BY <1>1 DEF Age
<1>4. CASE p = LastSlot
  <2>1. NextSlot(p) = 0 /\ p = max_count - 1
    BY <1>2, <1>4 DEF LastSlot
  <2>2. Age(0, p) = 0 /\ (j # p => Age(0, j) = Age(p, j) + 1)
    BY <1>1, <2>1 DEF Age
  <2> QED BY <1>3, <2>1, <2>2
<1>5. CASE p # LastSlot
  <2>1. NextSlot(p) = p + 1
    BY <1>2, <1>5
  <2>2. Age(p + 1, p) = 0 /\ (j # p => Age(p + 1, j) = Age(p, j) + 1)
    BY <1>1 DEF Age
  <2> QED BY <1>3, <2>1, <2>2
<1> QED BY <1>4, <1>5

LEMMA SameAge ==
    ASSUME NEW p \in Slots, NEW j \in Slots, NEW k \in Slots
    PROVE  /\ Age(p, j) = Age(p, k) => j = k
           /\ j < p /\ p <= k => Age(p, j) < Age(p, k)
           /\ j < k /\ k < p => Age(p, j) = Age(p, k) + (k - j)
           /\ p <= j /\ j < k => Age(p, j) = Age(p, k) + (k - j)
<1>1. p \in Nat /\ j \in Nat /\ k \in Nat /\ p < max_count /\ j < max_count /\ k < max_count
      /\ max_count \in Nat
  BY Numbers DEF Slots
<1> QED BY <1>1 DEF Age

LEMMA LagIs ==
    ASSUME NEW c \in Counters, NEW x \in Counters
    PROVE  /\ Lag(c, x) \in 0 .. CntMax /\ Lag(c, c) = 0
           /\ Lag(c, x) < CntMax => Lag((c + 1) % (CntMax + 1), x) = Lag(c, x) + 1
<1>1. c \in Nat /\ x \in Nat /\ c <= CntMax /\ x <= CntMax /\ CntMax \in Nat
  BY FrameCounterAssumption DEF Counters
<1>2. Lag(c, x) \in 0 .. CntMax /\ Lag(c, c) = 0
  BY <1>1 DEF Lag
<1>3. CASE c = CntMax
  <2>1. (c + 1) % (CntMax + 1) = 0
    BY <1>1, <1>3
  <2>2. Lag(c, x) < CntMax => Lag(0, x) = Lag(c, x) + 1
    BY <1>1, <1>3 DEF Lag
  <2> QED BY <1>2, <2>1, <2>2
<1>4. CASE c # CntMax
  <2>1. (c + 1) % (CntMax + 1) = c + 1
    BY <1>1, <1>4
  <2>2. Lag(c, x) < CntMax => Lag(c + 1, x) = Lag(c, x) + 1
    BY <1>1, <1>4 DEF Lag
  <2> QED BY <1>2, <2>1, <2>2
<1> QED BY <1>3, <1>4

LEMMA LagFrom ==
    ASSUME NEW c \in Counters, NEW x \in Counters, NEW y \in Counters, Lag(c, x) <= Lag(c, y)
    PROVE  /\ Lag(x, y) = Lag(c, y) - Lag(c, x)
           /\ \/ x - y = Lag(c, y) - Lag(c, x)
              \/ y - x = (CntMax + 1) - (Lag(c, y) - Lag(c, x))
<1>1. c \in Nat /\ x \in Nat /\ y \in Nat /\ c <= CntMax /\ x <= CntMax /\ y <= CntMax /\ CntMax \in Nat
  BY FrameCounterAssumption DEF Counters
<1> QED BY <1>1 DEF Lag

\* What is known of a slot of a ring.
LEMMA RingSlot ==
    ASSUME NEW f, NEW c, NEW p, NEW m, NEW e, NEW b, Ring(f, c, p, m, e, b), NEW j \in Slots
    PROVE  /\ f[j] \in Contents /\ f[j].idx \in Counters /\ f[j].num \in Nat
           /\ f[j].ok \in BOOLEAN /\ f[j].flag \in {"valid", "erased"}
           /\ Age(p, j) \in Nat /\ Age(p, j) < max_count
           /\ Lag(c, f[j].idx) \in Nat /\ Lag(c, f[j].idx) <= CntMax
           /\ m \in Nat /\ e \in {0, 1} /\ b \in Nat /\ p \in Slots /\ c \in Counters
           /\ f \in [Slots -> Contents]
<1>1. f \in [Slots -> Contents] /\ c \in Counters /\ p \in Slots /\ m \in Nat /\ e \in {0, 1} /\ b \in Nat
  BY DEF Ring, RingTypes
<1>2. /\ f[j] \in Contents /\ f[j].idx \in Counters /\ f[j].num \in Nat
      /\ f[j].ok \in BOOLEAN /\ f[j].flag \in {"valid", "erased"}
  BY <1>1, SlotTypes
<1>3. Age(p, j) \in 0 .. max_count - 1
  BY <1>1, AgeIs
<1>4. Lag(c, f[j].idx) \in 0 .. CntMax
  BY <1>1, <1>2, LagIs
<1> QED BY <1>1, <1>2, <1>3, <1>4, Numbers

LEMMA RingSave ==
    ASSUME NEW f, NEW c, NEW p, NEW m, NEW b, Ring(f, c, p, m, 0, b),
           FewMishaps, m <= MaxMishaps
    PROVE  Ring(f, (c + 1) % (CntMax + 1), p, m, 1, b + 1)
<1> DEFINE d == (c + 1) % (CntMax + 1)
<1>t. f \in [Slots -> Contents] /\ c \in Counters /\ p \in Slots /\ m \in Nat /\ b \in Nat
  BY DEF Ring, RingTypes
<1>1. RingTypes(f, d, p, m, 1, b + 1)
  BY <1>t, NextCounter DEF RingTypes
<1>2. \A j \in Slots : Valid(f, j) => Lag(d, f[j].idx) = Lag(c, f[j].idx) + 1
  <2> SUFFICES ASSUME NEW j \in Slots, Valid(f, j) PROVE Lag(d, f[j].idx) = Lag(c, f[j].idx) + 1
    OBVIOUS
  <2>1. f[j].idx \in Counters /\ Age(p, j) \in Nat /\ Age(p, j) < max_count /\ Lag(c, f[j].idx) \in Nat
    BY RingSlot
  <2>2. Lag(c, f[j].idx) <= Age(p, j) + m + 0
    BY DEF Ring, Near
  <2>3. Lag(c, f[j].idx) < CntMax
    BY <1>t, <2>1, <2>2, Numbers DEF FewMishaps
  <2> QED BY <1>t, <2>1, <2>3, LagIs
<1> HIDE DEF d
<1>3. InOrder(f, d, p)
  <2> SUFFICES ASSUME NEW j \in Slots, NEW k \in Slots, Valid(f, j), Valid(f, k), Age(p, j) < Age(p, k)
               PROVE  Lag(d, f[j].idx) < Lag(d, f[k].idx)
    BY DEF InOrder
  <2>1. Lag(c, f[j].idx) < Lag(c, f[k].idx)
    BY DEF Ring, InOrder
  <2>2. Lag(c, f[j].idx) \in Nat /\ Lag(c, f[k].idx) \in Nat
    BY RingSlot
  <2> QED BY <1>2, <2>1, <2>2
<1>4. Near(f, d, p, m, 1)
  <2> SUFFICES ASSUME NEW j \in Slots, Valid(f, j)
               PROVE  1 <= Lag(d, f[j].idx) /\ Lag(d, f[j].idx) <= Age(p, j) + m + 1
    BY DEF Near
  <2>1. 0 <= Lag(c, f[j].idx) /\ Lag(c, f[j].idx) <= Age(p, j) + m + 0
    BY DEF Ring, Near
  <2>2. Lag(c, f[j].idx) \in Nat /\ Age(p, j) \in Nat
    BY RingSlot
  <2> QED BY <1>2, <1>t, <2>1, <2>2
<1>5. Numbered(f, p, 1, b + 1)
  <2> SUFFICES ASSUME NEW j \in Slots, f[j].ok
               PROVE  Valid(f, j) /\ f[j].num + Age(p, j) + 1 <= b + 1
    BY DEF Numbered
  <2>1. Valid(f, j) /\ f[j].num + Age(p, j) + 0 <= b
    BY DEF Ring, Numbered
  <2>2. f[j].num \in Nat /\ Age(p, j) \in Nat
    BY RingSlot
  <2> QED BY <1>t, <2>1, <2>2
<1>6. Ring(f, d, p, m, 1, b + 1)
  BY <1>1, <1>3, <1>4, <1>5 DEF Ring
<1> QED BY <1>6 DEF d

LEMMA RingMishap ==
    ASSUME NEW f, NEW c, NEW p, NEW m, NEW e, NEW b, Ring(f, c, p, m, e, b)
    PROVE  Ring(f, c, p, m + 1, 0, b)
<1>t. f \in [Slots -> Contents] /\ c \in Counters /\ p \in Slots /\ m \in Nat /\ e \in {0, 1} /\ b \in Nat
  BY DEF Ring, RingTypes
<1>1. RingTypes(f, c, p, m + 1, 0, b)
  BY <1>t DEF RingTypes
<1>2. Near(f, c, p, m + 1, 0)
  <2> SUFFICES ASSUME NEW j \in Slots, Valid(f, j)
               PROVE  0 <= Lag(c, f[j].idx) /\ Lag(c, f[j].idx) <= Age(p, j) + (m + 1) + 0
    BY DEF Near
  <2>1. e <= Lag(c, f[j].idx) /\ Lag(c, f[j].idx) <= Age(p, j) + m + e
    BY DEF Ring, Near
  <2>2. Lag(c, f[j].idx) \in Nat /\ Age(p, j) \in Nat
    BY RingSlot
  <2> QED BY <1>t, <2>1, <2>2
<1>3. Numbered(f, p, 0, b)
  <2> SUFFICES ASSUME NEW j \in Slots, f[j].ok
               PROVE  Valid(f, j) /\ f[j].num + Age(p, j) + 0 <= b
    BY DEF Numbered
  <2>1. Valid(f, j) /\ f[j].num + Age(p, j) + e <= b
    BY DEF Ring, Numbered
  <2>2. f[j].num \in Nat /\ Age(p, j) \in Nat
    BY RingSlot
  <2> QED BY <1>t, <2>1, <2>2
<1> QED BY <1>1, <1>2, <1>3 DEF Ring

\* The sector begun at p holds the oldest slots.
LEMMA SectorAges ==
    ASSUME NEW p \in Slots, NEW j \in Slots, p % PerSector = 0
    PROVE  SectorOf(j) = SectorOf(p) <=> Age(p, j) >= max_count - PerSector
<1>1. p \in Nat /\ j \in Nat /\ p < max_count /\ j < max_count
  BY Numbers DEF Slots
<1>2. p + PerSector <= max_count
  <2>1. p = SectorOf(p) * PerSector /\ SectorOf(p) \in 0 .. Sectors - 1
    <3>1. p = (SectorOf(p) * PerSector) + (p % PerSector) /\ SectorOf(p) \in 0 .. Sectors - 1
      BY InSector
    <3> DEFINE a == SectorOf(p) * PerSector
    <3>n. SectorOf(p) \in Nat /\ PerSector \in Nat
      BY <3>1, Numbers
    <3>2. a \in Nat
      BY <3>n
    <3>3. p = a + (p % PerSector)
      BY <3>1
    <3> HIDE DEF a
    <3>4. p = a + 0
      BY <3>3
    <3>5. p = a
      BY <3>2, <3>4
    <3> QED BY <3>1, <3>5 DEF a
  <2>2. PICK k \in Nat : Sectors = SectorOf(p) + 1 + k
    <3>1. Sectors - 1 - SectorOf(p) \in Nat
      BY <2>1, Numbers
    <3> QED BY <3>1, <2>1, Numbers
  <2>3. Sectors * PerSector = (SectorOf(p) * PerSector) + PerSector + (k * PerSector)
    BY <2>1, <2>2, Numbers
  <2>4. k * PerSector \in Nat /\ SectorOf(p) * PerSector \in Nat
    BY <2>1, <2>2, Numbers
  <2> QED BY <2>1, <2>3, <2>4, Numbers DEF max_count
<1>3. j % PerSector \in 0 .. PerSector - 1
  BY InSector
<1>4. ASSUME SectorOf(j) = SectorOf(p) PROVE Age(p, j) >= max_count - PerSector
  <2>1. j - p = (j % PerSector) - (p % PerSector)
    BY <1>4, SameSector
  <2>2. p <= j /\ j < p + PerSector
    BY <1>1, <1>3, <2>1, Numbers
  <2> QED BY <1>1, <2>2, Numbers DEF Age
<1>5. ASSUME SectorOf(j) # SectorOf(p) PROVE Age(p, j) < max_count - PerSector
  <2>1. CASE j < p
    BY <1>1, <1>2, <2>1, Numbers DEF Age
  <2>2. CASE p < j
    <3>1. (j - p) >= PerSector - (p % PerSector)
      BY <1>5, <2>2, SameSector
    <3>2. j - p >= PerSector
      BY <3>1, <1>1, Numbers
    <3> QED BY <1>1, <2>2, <3>2, Numbers DEF Age
  <2>3. j # p
    BY <1>5
  <2> QED BY <1>1, <2>1, <2>2, <2>3
<1>6. Age(p, j) \in 0 .. max_count - 1
  BY AgeIs
<1> QED BY <1>4, <1>5, <1>6, Numbers

Erasing(f, p) == [i \in Slots |-> IF SectorOf(i) = SectorOf(p) THEN Blank ELSE f[i]]

LEMMA ErasingIs ==
    ASSUME NEW f, NEW p \in Slots, NEW j \in Slots
    PROVE  /\ SectorOf(j) = SectorOf(p) => Erasing(f, p)[j] = Blank
           /\ SectorOf(j) # SectorOf(p) => Erasing(f, p)[j] = f[j]
           /\ Valid(Erasing(f, p), j) => SectorOf(j) # SectorOf(p) /\ Valid(f, j)
           /\ Erasing(f, p)[j].ok => SectorOf(j) # SectorOf(p)
<1>1. Blank.flag = "erased" /\ Blank.ok = FALSE
  BY DEF Blank
<1>2. /\ SectorOf(j) = SectorOf(p) => Erasing(f, p)[j] = Blank
      /\ SectorOf(j) # SectorOf(p) => Erasing(f, p)[j] = f[j]
  BY DEF Erasing
<1> QED BY <1>1, <1>2 DEF Valid

LEMMA RingErase ==
    ASSUME NEW f, NEW c, NEW p, NEW m, NEW e, NEW b, Ring(f, c, p, m, e, b), p % PerSector = 0
    PROVE  Ring(Erasing(f, p), c, p, m, e, b)
<1> DEFINE g == Erasing(f, p)
<1>t. f \in [Slots -> Contents] /\ c \in Counters /\ p \in Slots /\ m \in Nat /\ e \in {0, 1} /\ b \in Nat
  BY DEF Ring, RingTypes
<1>0. \A j \in Slots : /\ SectorOf(j) = SectorOf(p) => g[j] = Blank
                       /\ SectorOf(j) # SectorOf(p) => g[j] = f[j]
                       /\ Valid(g, j) => SectorOf(j) # SectorOf(p) /\ Valid(f, j)
                       /\ g[j].ok => SectorOf(j) # SectorOf(p)
  BY <1>t, ErasingIs
<1>a. \A j \in Slots : /\ Age(p, j) \in Nat
                       /\ SectorOf(j) = SectorOf(p) <=> Age(p, j) >= max_count - PerSector
  <2> SUFFICES ASSUME NEW j \in Slots
               PROVE  Age(p, j) \in Nat /\ (SectorOf(j) = SectorOf(p) <=> Age(p, j) >= max_count - PerSector)
    OBVIOUS
  <2>1. Age(p, j) \in 0 .. max_count - 1
    BY <1>t, AgeIs
  <2> QED BY <1>t, <2>1, SectorAges
<1>1. RingTypes(g, c, p, m, e, b)
  <2>1. g \in [Slots -> Contents]
    BY <1>t, ContentsTypes DEF Erasing
  <2> QED BY <1>t, <2>1 DEF RingTypes
<1> HIDE DEF g
<1>2. Front(g, p)
  <2>1. ASSUME NEW j \in Slots, j < p PROVE Valid(g, j)
    <3>1. SectorOf(j) # SectorOf(p)
      <4> DEFINE r == j % PerSector
                 s == p % PerSector
      <4>1. SectorOf(j) = SectorOf(p) => p - j = s - r
        BY <1>t, SameSector
      <4>2. r \in 0 .. PerSector - 1 /\ s = 0
        BY <1>t, InSector
      <4>3. j \in Nat /\ p \in Nat
        BY <1>t, Numbers DEF Slots
      <4> HIDE DEF r, s
      <4> QED BY <2>1, <4>1, <4>2, <4>3, Numbers
    <3>2. Valid(f, j)
      BY <2>1 DEF Ring, Front
    <3> QED BY <1>0, <3>1, <3>2 DEF Valid
  <2>2. ASSUME NEW j \in Slots, NEW k \in Slots, Valid(g, j), Age(p, k) < Age(p, j) PROVE Valid(g, k)
    <3>1. Valid(f, k)
      BY <1>0, <2>2 DEF Ring, Front
    <3>2. SectorOf(k) # SectorOf(p)
      BY <1>0, <1>a, <2>2, Numbers
    <3> QED BY <1>0, <3>1, <3>2 DEF Valid
  <2> QED BY <2>1, <2>2 DEF Front
<1>3. InOrder(g, c, p)
  BY <1>0 DEF Ring, InOrder
<1>4. Near(g, c, p, m, e)
  BY <1>0 DEF Ring, Near
<1>5. Numbered(g, p, e, b)
  <2> SUFFICES ASSUME NEW j \in Slots, g[j].ok PROVE Valid(g, j) /\ g[j].num + Age(p, j) + e <= b
    BY DEF Numbered
  <2>1. g[j] = f[j]
    BY <1>0
  <2> QED BY <2>1 DEF Ring, Numbered, Valid
<1>6. Rest(g, p)
  BY <1>0 DEF Rest
<1>7. Whole(g, p)
  <2> SUFFICES ASSUME NEW j \in Slots, NEW k \in Slots,
                      SectorOf(j) = SectorOf(k), SectorOf(j) # SectorOf(p), g[j] = Blank
               PROVE  g[k] = Blank
    BY DEF Whole
  <2>1. g[j] = f[j] /\ g[k] = f[k]
    BY <1>0
  <2> QED BY <2>1 DEF Ring, Whole
<1>8. Tip(g, p)
  BY DEF Tip
<1>9. Ring(g, c, p, m, e, b)
  BY <1>1, <1>2, <1>3, <1>4, <1>5, <1>6, <1>7, <1>8 DEF Ring
<1> QED BY <1>9 DEF g

\* A blank slot is not a written one.
LEMMA BlankIs ==
    ASSUME NEW f, NEW j, f[j] = Blank PROVE ~ Valid(f, j) /\ ~ f[j].ok
  BY DEF Valid, Blank

LEMMA RingWrite ==
    ASSUME NEW f, NEW c, NEW p, NEW m, NEW b, Ring(f, c, p, m, 1, b), f[p] = Blank,
           NEW x \in Contents, x.flag = "valid", x.idx = c, x.ok => x.num = b
    PROVE  Ring([f EXCEPT ![p] = x], c, NextSlot(p), m, 0, b)
<1> DEFINE g == [f EXCEPT ![p] = x]
           q == NextSlot(p)
<1>t. f \in [Slots -> Contents] /\ c \in Counters /\ p \in Slots /\ m \in Nat /\ b \in Nat
  BY DEF Ring, RingTypes
<1>q. /\ q \in Slots
      /\ q = IF p = LastSlot THEN 0 ELSE p + 1
      /\ \/ q = p + 1 /\ SectorOf(q) = SectorOf(p)
         \/ q % PerSector = 0 /\ SectorOf(q) # SectorOf(p) /\ p % PerSector = PerSector - 1
  BY <1>t, NextSlotIs
<1>0. g[p] = x /\ g \in [Slots -> Contents] /\ \A j \in Slots : j # p => g[j] = f[j]
  BY <1>t
<1>a. \A j \in Slots : /\ Age(p, j) \in Nat /\ Age(p, j) < max_count /\ Age(p, p) = max_count - 1
                       /\ j # p => Age(q, j) = Age(p, j) + 1
                       /\ Age(q, p) = 0
  <2> SUFFICES ASSUME NEW j \in Slots
               PROVE  /\ Age(p, j) \in Nat /\ Age(p, j) < max_count /\ Age(p, p) = max_count - 1
                      /\ j # p => Age(q, j) = Age(p, j) + 1
                      /\ Age(q, p) = 0
    OBVIOUS
  <2>1. Age(p, j) \in 0 .. max_count - 1 /\ Age(p, p) = max_count - 1
    BY <1>t, AgeIs
  <2>2. (j # p => Age(q, j) = Age(p, j) + 1) /\ Age(q, p) = 0
    BY <1>t, AgeIs
  <2> QED BY <2>1, <2>2, Numbers
<1>v. Valid(g, p) /\ ~ Valid(f, p) /\ \A j \in Slots : j # p => (Valid(g, j) <=> Valid(f, j))
  BY <1>0, BlankIs DEF Valid
<1>s. \A s \in Slots : s \in Nat
  BY Numbers DEF Slots
<1> HIDE DEF g, q
<1>1. RingTypes(g, c, q, m, 0, b)
  BY <1>t, <1>0, <1>q DEF RingTypes
<1>2. Front(g, q)
  <2>1. ASSUME NEW j \in Slots, j < q PROVE Valid(g, j)
    <3>1. j < p \/ j = p
      BY <1>q, <1>s, <1>t, <2>1
    <3>2. j < p => Valid(f, j)
      BY DEF Ring, Front
    <3> QED BY <1>t, <1>s, <1>v, <3>1, <3>2
  <2>2. ASSUME NEW j \in Slots, NEW k \in Slots, Valid(g, j), Age(q, k) < Age(q, j) PROVE Valid(g, k)
    <3>1. CASE k = p
      BY <1>v, <3>1
    <3>2. CASE k # p
      <4>1. j # p
        BY <1>a, <2>2, <3>2
      <4>2. Age(p, k) < Age(p, j) /\ Valid(f, j)
        BY <1>a, <1>v, <2>2, <3>2, <4>1
      <4>3. Valid(f, k)
        BY <4>2 DEF Ring, Front
      <4> QED BY <1>v, <3>2, <4>3
    <3> QED BY <3>1, <3>2
  <2> QED BY <2>1, <2>2 DEF Front
<1>n. \A j \in Slots : Valid(f, j) => /\ Lag(c, f[j].idx) \in Nat /\ 1 <= Lag(c, f[j].idx)
                                      /\ Lag(c, f[j].idx) <= Age(p, j) + m + 1
  <2> SUFFICES ASSUME NEW j \in Slots, Valid(f, j)
               PROVE  /\ Lag(c, f[j].idx) \in Nat /\ 1 <= Lag(c, f[j].idx)
                      /\ Lag(c, f[j].idx) <= Age(p, j) + m + 1
    OBVIOUS
  <2>1. Lag(c, f[j].idx) \in Nat
    BY RingSlot
  <2> QED BY <2>1 DEF Ring, Near
<1>x. Lag(c, x.idx) = 0
  BY <1>t, LagIs
<1>3. InOrder(g, c, q)
  <2> SUFFICES ASSUME NEW j \in Slots, NEW k \in Slots, Valid(g, j), Valid(g, k), Age(q, j) < Age(q, k)
               PROVE  Lag(c, g[j].idx) < Lag(c, g[k].idx)
    BY DEF InOrder
  <2>1. k # p
    <3> SUFFICES ASSUME k = p PROVE FALSE
      OBVIOUS
    <3>1. j = p \/ Age(q, j) = Age(p, j) + 1
      BY <1>a
    <3> QED BY <1>a, <3>1
  <2>2. Valid(f, k) /\ g[k] = f[k]
    BY <1>0, <1>v, <2>1
  <2>3. CASE j = p
    BY <1>0, <1>n, <1>x, <2>2, <2>3
  <2>4. CASE j # p
    <3>1. Valid(f, j) /\ g[j] = f[j] /\ Age(p, j) < Age(p, k)
      BY <1>0, <1>a, <1>v, <2>1, <2>4
    <3> QED BY <2>2, <3>1 DEF Ring, InOrder
  <2> QED BY <2>3, <2>4
<1>4. Near(g, c, q, m, 0)
  <2> SUFFICES ASSUME NEW j \in Slots, Valid(g, j)
               PROVE  0 <= Lag(c, g[j].idx) /\ Lag(c, g[j].idx) <= Age(q, j) + m + 0
    BY DEF Near
  <2>1. CASE j = p
    BY <1>0, <1>a, <1>x, <1>t, <2>1
  <2>2. CASE j # p
    <3>1. Valid(f, j) /\ g[j] = f[j] /\ Age(q, j) = Age(p, j) + 1 /\ Age(p, j) \in Nat
      BY <1>0, <1>a, <1>v, <2>2
    <3> QED BY <1>n, <1>t, <3>1
  <2> QED BY <2>1, <2>2
<1>5. Numbered(g, q, 0, b)
  <2> SUFFICES ASSUME NEW j \in Slots, g[j].ok PROVE Valid(g, j) /\ g[j].num + Age(q, j) + 0 <= b
    BY DEF Numbered
  <2>1. CASE j = p
    BY <1>0, <1>a, <1>v, <1>t, <2>1
  <2>2. CASE j # p
    <3>1. g[j] = f[j] /\ Age(q, j) = Age(p, j) + 1 /\ Age(p, j) \in Nat
      BY <1>0, <1>a, <2>2
    <3>2. Valid(f, j) /\ f[j].num + Age(p, j) + 1 <= b
      BY <3>1 DEF Ring, Numbered
    <3>3. f[j].num \in Nat
      BY RingSlot
    <3> QED BY <1>t, <1>v, <2>2, <3>1, <3>2, <3>3
  <2> QED BY <2>1, <2>2
<1>r. \A j \in Slots : SectorOf(j) = SectorOf(p) /\ p < j => f[j] = Blank
  BY DEF Ring, Rest
<1>6. Rest(g, q)
  <2> SUFFICES ASSUME g[q] = Blank \/ q % PerSector # 0, NEW j \in Slots, SectorOf(j) = SectorOf(q), q < j
               PROVE  g[j] = Blank
    BY DEF Rest
  <2>1. CASE q = p + 1 /\ SectorOf(q) = SectorOf(p)
    <3>1. p < j /\ j # p
      BY <1>s, <1>t, <2>1
    <3> QED BY <1>0, <1>r, <2>1, <3>1
  <2>2. CASE q % PerSector = 0 /\ SectorOf(q) # SectorOf(p)
    <3>1. q # p /\ j # p
      BY <2>2
    <3>2. f[q] = Blank
      BY <1>0, <1>q, <2>2, <3>1
    <3>3. f[j] = Blank
      BY <1>q, <2>2, <3>2 DEF Ring, Whole
    <3> QED BY <1>0, <3>1, <3>3
  <2> QED BY <1>q, <2>1, <2>2
<1>7. Whole(g, q)
  <2> SUFFICES ASSUME NEW j \in Slots, NEW k \in Slots,
                      SectorOf(j) = SectorOf(k), SectorOf(j) # SectorOf(q), g[j] = Blank
               PROVE  g[k] = Blank
    BY DEF Whole
  <2>1. CASE SectorOf(j) = SectorOf(p)
    <3>1. p % PerSector = PerSector - 1
      BY <1>q, <2>1
    <3>2. j <= p
      <4>1. j - p = (j % PerSector) - (p % PerSector)
        BY <1>t, <2>1, SameSector
      <4>2. j % PerSector \in 0 .. PerSector - 1
        BY InSector
      <4> QED BY <1>s, <1>t, <3>1, <4>1, <4>2, Numbers
    <3>3. Valid(g, j)
      <4>1. j < p => Valid(f, j)
        BY DEF Ring, Front
      <4> QED BY <1>s, <1>t, <1>v, <3>2, <4>1
    <3> QED BY <3>3, BlankIs
  <2>2. CASE SectorOf(j) # SectorOf(p)
    <3>1. j # p /\ k # p
      BY <2>2
    <3>2. f[k] = Blank
      BY <1>0, <2>2, <3>1 DEF Ring, Whole
    <3> QED BY <1>0, <3>1, <3>2
  <2> QED BY <2>1, <2>2
<1>8. Tip(g, q)
  <2> SUFFICES ASSUME q % PerSector # 0 PROVE ~ Valid(g, q)
    BY DEF Tip
  <2>1. q = p + 1 /\ SectorOf(q) = SectorOf(p)
    BY <1>q
  <2>2. p < q /\ q # p
    BY <1>s, <1>t, <2>1
  <2>3. f[q] = Blank
    BY <1>q, <1>r, <2>1, <2>2
  <2> QED BY <1>q, <1>v, <2>2, <2>3, BlankIs
<1>9. Ring(g, c, q, m, 0, b)
  BY <1>1, <1>2, <1>3, <1>4, <1>5, <1>6, <1>7, <1>8 DEF Ring
<1> QED BY <1>9 DEF g, q

LEMMA RingScrap ==
    ASSUME NEW f, NEW c, NEW p, NEW m, NEW e, NEW b, Ring(f, c, p, m, e, b), f[p] = Blank,
           NEW x \in Contents, x.flag = "erased", x.ok = FALSE
    PROVE  Ring([f EXCEPT ![p] = x], c, p, m, e, b)
<1> DEFINE g == [f EXCEPT ![p] = x]
<1>t. f \in [Slots -> Contents] /\ c \in Counters /\ p \in Slots /\ m \in Nat /\ e \in {0, 1} /\ b \in Nat
  BY DEF Ring, RingTypes
<1>0. g[p] = x /\ g \in [Slots -> Contents] /\ \A j \in Slots : j # p => g[j] = f[j]
  BY <1>t
<1>v. ~ Valid(g, p) /\ ~ Valid(f, p) /\ \A j \in Slots : Valid(g, j) <=> Valid(f, j)
  BY <1>0, BlankIs DEF Valid
<1>o. \A j \in Slots : (Valid(g, j) => g[j] = f[j]) /\ (g[j].ok => g[j] = f[j])
  BY <1>0, <1>v
<1> HIDE DEF g
<1>s. \A s \in Slots : s \in Nat
  BY Numbers DEF Slots
<1>1. RingTypes(g, c, p, m, e, b)
  BY <1>t, <1>0 DEF RingTypes
<1>2. Front(g, p)
  BY <1>v DEF Ring, Front
<1>3. InOrder(g, c, p)
  BY <1>v, <1>o DEF Ring, InOrder
<1>4. Near(g, c, p, m, e)
  BY <1>v, <1>o DEF Ring, Near
<1>5. Numbered(g, p, e, b)
  BY <1>v, <1>o DEF Ring, Numbered
<1>6. Rest(g, p)
  <2> SUFFICES ASSUME NEW j \in Slots, SectorOf(j) = SectorOf(p), p < j PROVE g[j] = Blank
    BY DEF Rest
  <2>1. f[j] = Blank
    BY DEF Ring, Rest
  <2>2. j # p
    BY <1>s, <1>t
  <2> QED BY <1>0, <2>1, <2>2
<1>7. Whole(g, p)
  <2> SUFFICES ASSUME NEW j \in Slots, NEW k \in Slots,
                      SectorOf(j) = SectorOf(k), SectorOf(j) # SectorOf(p), g[j] = Blank
               PROVE  g[k] = Blank
    BY DEF Whole
  <2>1. j # p /\ k # p
    OBVIOUS
  <2> QED BY <1>0, <2>1 DEF Ring, Whole
<1>8. Tip(g, p)
  BY <1>v DEF Tip
<1>9. Ring(g, c, p, m, e, b)
  BY <1>1, <1>2, <1>3, <1>4, <1>5, <1>6, <1>7, <1>8 DEF Ring
<1> QED BY <1>9 DEF g

-----------------------------------------------------------------------------
(* What a boot finds.                                                      *)

\* More than any two indexes in a ring differ by.
Spread == max_count + MaxMishaps

LEMMA SpreadIs ==
    ASSUME FewMishaps
    PROVE  /\ Spread \in Nat /\ Spread + Window < Half /\ Half + Spread + Window < CntMax
           /\ CntMax \in Nat /\ Half \in Nat /\ Window \in Nat
  BY Numbers DEF FewMishaps, Spread

\* The next index in the ring is accepted, up to some way past half.
LEMMA NextAccepted ==
    ASSUME FewMishaps, NEW x \in Counters, NEW y \in Counters,
           y < x, x <= y + Spread, x <= Half + Spread
    PROVE  check_frame_cnt_add(x, y)
<1>1. x \in Nat /\ y \in Nat
  BY FrameCounterAssumption DEF Counters
<1> QED BY <1>1, SpreadIs DEF check_frame_cnt_add, SameHalf, InMiddle, NearTop

\* An older one is accepted only across the wrap of the counter.
LEMMA OldAccepted ==
    ASSUME FewMishaps, NEW x \in Counters, NEW y \in Counters, NEW d \in Nat,
           0 < d, d <= Spread, y - x = d \/ x - y = (CntMax + 1) - d,
           check_frame_cnt_add(x, y)
    PROVE  x - y > Half
<1>1. x \in Nat /\ y \in Nat
  BY FrameCounterAssumption DEF Counters
<1>2. y - x # d
  BY <1>1, SpreadIs, Numbers DEF check_frame_cnt_add, SameHalf, InMiddle, NearTop
<1> QED BY <1>1, <1>2, SpreadIs

\* In a ring, the younger of two indexes is so much ahead.
LEMMA Ahead ==
    ASSUME FewMishaps, NEW f, NEW c, NEW p, NEW m, NEW b, Ring(f, c, p, m, 0, b), m <= MaxMishaps,
           NEW j \in Slots, NEW k \in Slots, Valid(f, j), Valid(f, k), Age(p, j) < Age(p, k)
    PROVE  \E d \in Nat : /\ 0 < d /\ d <= Spread
                          /\ f[j].idx - f[k].idx = d \/ f[k].idx - f[j].idx = (CntMax + 1) - d
<1>1. /\ f[j].idx \in Counters /\ f[k].idx \in Counters /\ c \in Counters
      /\ Lag(c, f[j].idx) \in Nat /\ Lag(c, f[k].idx) \in Nat
      /\ Age(p, k) \in Nat /\ Age(p, k) < max_count /\ m \in Nat
  BY RingSlot
<1>2. Lag(c, f[j].idx) < Lag(c, f[k].idx) /\ Lag(c, f[k].idx) <= Age(p, k) + m + 0
  BY DEF Ring, InOrder, Near
<1>3. \/ f[j].idx - f[k].idx = Lag(c, f[k].idx) - Lag(c, f[j].idx)
      \/ f[k].idx - f[j].idx = (CntMax + 1) - (Lag(c, f[k].idx) - Lag(c, f[j].idx))
  BY <1>1, <1>2, LagFrom
<1> DEFINE d == Lag(c, f[k].idx) - Lag(c, f[j].idx)
<1>4. d \in Nat /\ 0 < d /\ d <= Spread
  BY <1>1, <1>2, Numbers DEF Spread
<1> QED BY <1>3, <1>4

\* From slot 0 on, up to the slot before p, all is accepted.
LEMMA AcceptedTo ==
    ASSUME FewMishaps, NEW f, NEW c, NEW p, NEW m, NEW b, Ring(f, c, p, m, 0, b), m <= MaxMishaps,
           0 < f[0].idx, f[0].idx <= Half,
           NEW i \in Slots, i < p
    PROVE  Accepted(f, i)
<1>0. i \in Nat /\ p \in Slots /\ p \in Nat /\ 0 \in Slots
  BY RingSlot, Numbers DEF Slots
<1>1. \A k \in Slots : k <= i => Valid(f, k) /\ (0 < k => Age(p, k) < Age(p, 0))
  <2> SUFFICES ASSUME NEW k \in Slots, k <= i PROVE Valid(f, k) /\ (0 < k => Age(p, k) < Age(p, 0))
    OBVIOUS
  <2>0. k \in Nat
    BY Numbers DEF Slots
  <2>a. Age(p, k) \in Nat /\ Age(p, 0) \in Nat
    BY <1>0, RingSlot
  <2>1. k < p
    BY <1>0, <2>0
  <2>2. Valid(f, k)
    BY <2>1 DEF Ring, Front
  <2>3. 0 < k => Age(p, 0) = Age(p, k) + (k - 0)
    BY <1>0, <2>1, SameAge
  <2> QED BY <2>0, <2>a, <2>2, <2>3
<1>2. Valid(f, i)
  BY <1>0, <1>1
<1>3. f[0].idx \in Counters /\ f[0].idx \in Nat /\ 0 \in Counters
  BY <1>0, RingSlot, FrameCounterAssumption DEF Counters
<1>4. CASE i = 0
  <2>1. check_frame_cnt_add(f[0].idx, 0)
    BY <1>3, SpreadIs DEF check_frame_cnt_add, SameHalf
  <2> QED BY <1>2, <1>4, <2>1 DEF Accepted, IdxBefore, Valid
<1>5. CASE i # 0
  <2>1. i - 1 \in Slots /\ i - 1 <= i /\ i - 1 \in Nat /\ 0 < i
    BY <1>0, <1>5, Numbers DEF Slots
  <2>2. \A k \in Slots : k <= i => f[k].idx \in Counters /\ f[k].idx \in Nat /\ f[k].idx <= f[0].idx + Spread
                                           /\ f[0].idx <= f[k].idx
    <3> SUFFICES ASSUME NEW k \in Slots, k <= i
                 PROVE  /\ f[k].idx \in Counters /\ f[k].idx \in Nat
                        /\ f[k].idx <= f[0].idx + Spread /\ f[0].idx <= f[k].idx
      OBVIOUS
    <3>1. f[k].idx \in Counters /\ f[k].idx \in Nat
      BY RingSlot, FrameCounterAssumption DEF Counters
    <3>2. CASE k = 0
      BY <1>3, <3>2, SpreadIs
    <3>3. CASE k # 0
      <4>1. 0 < k
        BY <3>3, Numbers DEF Slots
      <4>2. PICK d \in Nat : /\ 0 < d /\ d <= Spread
                             /\ f[k].idx - f[0].idx = d \/ f[0].idx - f[k].idx = (CntMax + 1) - d
        BY <1>0, <1>1, <4>1, Ahead
      <4> QED BY <1>3, <3>1, <4>2, SpreadIs
    <3> QED BY <3>1, <3>2, <3>3
  <2>3. Age(p, i) < Age(p, i - 1)
    <3>1. Age(p, i - 1) = Age(p, i) + (i - (i - 1))
      BY <1>0, <2>1, SameAge
    <3>2. Age(p, i) \in Nat
      BY RingSlot
    <3> QED BY <1>0, <3>1, <3>2
  <2>4. PICK d \in Nat : /\ 0 < d /\ d <= Spread
                         /\ f[i].idx - f[i - 1].idx = d \/ f[i - 1].idx - f[i].idx = (CntMax + 1) - d
    BY <1>1, <1>2, <2>1, <2>3, Ahead
  <2>5. /\ f[i].idx \in Nat /\ f[i].idx \in Counters /\ f[i - 1].idx \in Nat /\ f[i - 1].idx \in Counters
        /\ f[i].idx <= Half + Spread /\ f[i - 1].idx <= f[i].idx + Spread
    <3>1. i <= i
      BY <1>0
    <3>2. /\ f[i].idx \in Counters /\ f[i].idx \in Nat
          /\ f[i].idx <= f[0].idx + Spread /\ f[0].idx <= f[i].idx
      BY <2>2, <3>1
    <3>3. f[i - 1].idx \in Counters /\ f[i - 1].idx \in Nat /\ f[i - 1].idx <= f[0].idx + Spread
      BY <2>1, <2>2
    <3> DEFINE y == f[i - 1].idx
               x == f[i].idx
               z == f[0].idx
    <3>4. z \in Nat /\ z <= Half /\ y \in Nat /\ x \in Nat /\ y <= z + Spread /\ x <= z + Spread
          /\ z <= x
      BY <1>3, <3>2, <3>3
    <3> HIDE DEF x, y, z
    <3>5. x <= Half + Spread /\ y <= x + Spread
      BY <3>4, SpreadIs
    <3> QED BY <3>2, <3>3, <3>5 DEF x, y
  <2>6. f[i].idx - f[i - 1].idx = d
    BY <2>4, <2>5, SpreadIs
  <2>7. check_frame_cnt_add(f[i].idx, f[i - 1].idx)
    BY <2>4, <2>5, <2>6, NextAccepted, SpreadIs
  <2> QED BY <1>2, <1>5, <2>7 DEF Accepted, IdxBefore, Valid
<1> QED BY <1>4, <1>5

\* The sector that the next save erases, if it is to begin one.
Under(p, j) == p % PerSector = 0 /\ SectorOf(j) = SectorOf(p)

\* A ring whose next sector may be half erased already.
HalfErased(g, f, p) ==
    \A j \in Slots : g[j] = f[j] \/ (Under(p, j) /\ g[j].flag = "erased" /\ ~ g[j].ok)

LEMMA UnderIs ==
    ASSUME NEW p \in Slots, NEW j \in Slots, Under(p, j)
    PROVE  p <= j /\ Age(p, j) >= max_count - PerSector
<1>1. p - j = (p % PerSector) - (j % PerSector) /\ p % PerSector = 0
  BY SameSector DEF Under
<1>2. j % PerSector \in 0 .. PerSector - 1
  BY InSector
<1>3. p \in Nat /\ j \in Nat
  BY Numbers DEF Slots
<1>4. p <= j
  <2> DEFINE a == j % PerSector
             z == p % PerSector
  <2>1. a \in 0 .. PerSector - 1 /\ z = 0 /\ p - j = z - a
    BY <1>1, <1>2
  <2> HIDE DEF a, z
  <2> QED BY <1>3, <2>1, Numbers
<1>5. Age(p, j) >= max_count - PerSector
  BY SectorAges DEF Under
<1> QED BY <1>4, <1>5

\* The place found is the one to write next, and the counter that of the newest.
LEMMA BootFinds ==
    ASSUME FewMishaps, NEW f, NEW c, NEW p, NEW m, NEW b, Ring(f, c, p, m, 0, b), m <= MaxMishaps,
           NEW g \in [Slots -> Contents], HalfErased(g, f, p),
           ~ WrittenToTheEnd(g), ~ PastHalf(g), ~ ZeroInside(g), ~ WrapInside(g)
    PROVE  /\ find_report_new_index(g).write_idx = p
           /\ \/ \A j \in Slots : ~ Valid(f, j)
              \/ \E r \in Slots : /\ find_report_new_index(g).read_idx = r
                                  /\ NextSlot(r) = p /\ Valid(f, r)
                                  /\ find_report_new_index(g).report_new_cnt = f[r].idx
<1> DEFINE s == Stop(g)
<1>0. p \in Slots /\ p \in Nat /\ 0 \in Slots /\ LastSlot \in Slots /\ f \in [Slots -> Contents]
      /\ LastSlot \in Nat /\ 0 < LastSlot /\ \A i \in Slots : i \in Nat
  BY RingSlot, Numbers DEF Slots, LastSlot
<1>1. s \in Slots /\ s \in Nat /\ ~ Accepted(g, s) /\ \A j \in 0 .. s - 1 : Accepted(g, j)
  BY <1>0, StopIs DEF WrittenToTheEnd
<1>f. find_report_new_index(g) =
        IF g[s].flag = "valid" /\ g[s].idx = 0 THEN Found(0, 0, s)
        ELSE IF g[s].flag = "erased" /\ s = 0 THEN
             IF g[LastSlot].flag = "erased" THEN Found(0, 0, 0)
             ELSE Found(g[LastSlot].idx, 0, LastSlot)
        ELSE Found(IdxBefore(g, s), s, s - 1)
  BY DEF WrittenToTheEnd, find_report_new_index
<1>F. \A x, w, r : /\ Found(x, w, r).report_new_cnt = x /\ Found(x, w, r).write_idx = w
                   /\ Found(x, w, r).read_idx = r
  BY DEF Found
<1>g. \A j \in Slots : g[j].flag \in {"valid", "erased"} /\ (Valid(g, j) <=> g[j].flag = "valid")
  BY <1>0, SlotTypes DEF Valid
<1>z. ~ (s # LastSlot /\ g[s].flag = "valid" /\ g[s].idx = 0)
  BY DEF ZeroInside
<1>w. \A i \in 1 .. s - 1 : ~ (g[i].idx - g[i - 1].idx > Half)
  BY DEF WrapInside
<1> HIDE DEF s
<1>e. /\ \A j \in Slots : Valid(g, j) => g[j] = f[j]
      /\ \A j \in Slots : j < p => g[j] = f[j]
      /\ p = 0 => g[LastSlot] = f[LastSlot]
  <2>1. \A j \in Slots : Valid(g, j) => g[j] = f[j]
    BY DEF HalfErased, Valid
  <2>2. \A j \in Slots : j < p => g[j] = f[j]
    <3> SUFFICES ASSUME NEW j \in Slots, j < p PROVE g[j] = f[j]
      OBVIOUS
    <3>1. ~ Under(p, j)
      BY <1>0, UnderIs
    <3> QED BY <3>1 DEF HalfErased
  <2>3. ASSUME p = 0 PROVE g[LastSlot] = f[LastSlot]
    <3>1. NextSlot(LastSlot) = 0
      BY <1>0, NextSlotIs
    <3>2. Age(p, LastSlot) = 0
      BY <1>0, <2>3, <3>1, AgeIs
    <3>3. ~ Under(p, LastSlot)
      BY <1>0, <3>2, UnderIs, Numbers
    <3> QED BY <1>0, <3>3 DEF HalfErased
  <2> QED BY <2>1, <2>2, <2>3
<1>3. CASE p = 0
  <2>4. NextSlot(LastSlot) = 0 /\ Age(p, LastSlot) = 0
    <3>1. NextSlot(LastSlot) = 0
      BY <1>0, NextSlotIs
    <3> QED BY <1>0, <1>3, <3>1, AgeIs
  <2>1. ~ Valid(g, 0)
    <3> SUFFICES ASSUME Valid(g, 0) PROVE FALSE
      OBVIOUS
    <3>1. Valid(f, 0) /\ g[0] = f[0] /\ g[LastSlot] = f[LastSlot]
      BY <1>0, <1>3, <1>e DEF Valid
    <3>2. Age(p, LastSlot) < Age(p, 0)
      BY <1>0, <1>3, <2>4, AgeIs, Numbers
    <3>3. Valid(f, LastSlot)
      BY <1>0, <3>1, <3>2 DEF Ring, Front
    <3>4. PICK d \in Nat : /\ 0 < d /\ d <= Spread
                           /\ \/ f[LastSlot].idx - f[0].idx = d
                              \/ f[0].idx - f[LastSlot].idx = (CntMax + 1) - d
      BY <1>0, <3>1, <3>2, <3>3, Ahead
    <3>5. f[LastSlot].idx \in Nat /\ f[0].idx \in Nat
      BY <1>0, SlotTypes, FrameCounterAssumption DEF Counters
    <3>6. ~ (f[0].idx > Half)
      BY <3>1 DEF PastHalf, Valid
    <3>7. f[0].idx < f[LastSlot].idx /\ f[LastSlot].idx - f[0].idx <= Half
      BY <3>4, <3>5, <3>6, SpreadIs
    <3> QED BY <3>1, <3>3, <3>7 DEF WrittenToTheEnd, Valid
  <2>2. s = 0
    <3>1. ~ Accepted(g, 0)
      BY <2>1 DEF Accepted, Valid
    <3>2. s > 0 => 0 \in 0 .. s - 1
      BY <1>1
    <3> QED BY <1>1, <3>1, <3>2
  <2>3. g[s].flag = "erased" /\ "erased" # "valid"
    BY <1>0, <1>g, <2>1, <2>2
  <2>5. CASE g[LastSlot].flag = "erased"
    <3>1. find_report_new_index(g) = Found(0, 0, 0)
      BY <1>f, <2>2, <2>3, <2>5
    <3>2. \A j \in Slots : ~ Valid(f, j)
      <4> SUFFICES ASSUME NEW j \in Slots, Valid(f, j) PROVE FALSE
        OBVIOUS
      <4>1. ~ Valid(f, LastSlot)
        BY <1>3, <1>e, <2>3, <2>5 DEF Valid
      <4>2. Age(p, j) \in Nat
        BY RingSlot
      <4>3. Age(p, j) # 0
        BY <1>0, <2>4, <4>1, SameAge
      <4>4. Valid(f, LastSlot)
        BY <1>0, <2>4, <4>2, <4>3 DEF Ring, Front
      <4> QED BY <4>1, <4>4
    <3> QED BY <1>3, <1>F, <3>1, <3>2
  <2>6. CASE g[LastSlot].flag # "erased"
    <3>1. find_report_new_index(g) = Found(f[LastSlot].idx, 0, LastSlot)
      BY <1>3, <1>e, <1>f, <2>2, <2>3, <2>6
    <3>2. Valid(f, LastSlot)
      BY <1>0, <1>3, <1>e, <1>g, <2>6 DEF Valid
    <3> QED BY <1>0, <1>3, <1>F, <2>4, <3>1, <3>2
  <2> QED BY <2>5, <2>6
<1>4. CASE p # 0
  <2>1. p - 1 \in Slots /\ p - 1 \in Nat /\ p - 1 < p /\ 0 < p
    BY <1>0, <1>4, Numbers DEF Slots
  <2>2. Valid(f, p - 1) /\ Valid(f, 0) /\ g[0] = f[0] /\ g[p - 1] = f[p - 1]
    BY <1>0, <1>e, <2>1 DEF Ring, Front
  <2>a. 0 < f[0].idx /\ f[0].idx <= Half
    <3>1. f[0].idx \in Nat /\ Half \in Nat
      BY <1>0, SlotTypes, FrameCounterAssumption DEF Counters
    <3>2. ~ (f[0].idx > Half)
      BY <2>2 DEF PastHalf, Valid
    <3>3. f[0].idx # 0
      <4> SUFFICES ASSUME f[0].idx = 0 PROVE FALSE
        OBVIOUS
      <4>1. ~ Accepted(g, 0)
        BY <2>2 DEF Accepted, check_frame_cnt_add
      <4>2. s = 0
        <5>1. s > 0 => 0 \in 0 .. s - 1
          BY <1>1
        <5> QED BY <1>1, <4>1, <5>1
      <4> QED BY <1>0, <1>z, <2>2, <4>2 DEF Valid
    <3> QED BY <3>1, <3>2, <3>3
  <2>3. \A i \in Slots : i < p => Accepted(g, i)
    <3> SUFFICES ASSUME NEW i \in Slots, i < p PROVE Accepted(g, i)
      OBVIOUS
    <3>1. Accepted(f, i)
      BY <2>a, AcceptedTo
    <3>2. g[i] = f[i]
      BY <1>e
    <3>3. i # 0 => i - 1 \in Slots /\ i - 1 < p
      BY <1>0, Numbers DEF Slots
    <3>4. IdxBefore(g, i) = IdxBefore(f, i)
      BY <1>e, <3>3 DEF IdxBefore
    <3> QED BY <3>1, <3>2, <3>4 DEF Accepted
  <2>4. NextSlot(p - 1) = p /\ Age(p, p - 1) = 0
    <3>1. NextSlot(p - 1) = p
      <4>1. p - 1 # LastSlot
        BY <1>0, <2>1, Numbers DEF Slots, LastSlot
      <4>2. NextSlot(p - 1) = (p - 1) + 1
        BY <2>1, <4>1, NextSlotIs
      <4> QED BY <1>0, <4>2
    <3> QED BY <2>1, <3>1, AgeIs
  <2>5. s = p
    <3> SUFFICES ASSUME s # p PROVE FALSE
      OBVIOUS
    <3>1. p < s
      BY <1>0, <1>1, <2>3
    <3>2. p \in 1 .. s - 1 /\ p \in 0 .. s - 1
      BY <1>0, <1>1, <2>1, <3>1
    <3>3. Accepted(g, p)
      BY <1>1, <3>2
    <3>4. Valid(g, p) /\ check_frame_cnt_add(g[p].idx, g[p - 1].idx)
      BY <1>4, <3>3 DEF Accepted, Valid, IdxBefore
    <3>a. g[p] = f[p] /\ Valid(f, p) /\ check_frame_cnt_add(f[p].idx, f[p - 1].idx)
      BY <1>0, <1>e, <2>2, <3>4 DEF Valid
    <3>5. Age(p, p - 1) < Age(p, p)
      BY <1>0, <2>4, AgeIs, Numbers
    <3>6. PICK d \in Nat : /\ 0 < d /\ d <= Spread
                           /\ f[p - 1].idx - f[p].idx = d \/ f[p].idx - f[p - 1].idx = (CntMax + 1) - d
      BY <1>0, <2>1, <2>2, <3>a, <3>5, Ahead
    <3>7. f[p].idx \in Counters /\ f[p - 1].idx \in Counters
      BY <1>0, <2>1, SlotTypes
    <3>8. f[p].idx - f[p - 1].idx > Half
      BY <3>a, <3>6, <3>7, OldAccepted
    <3> QED BY <1>w, <2>2, <3>2, <3>8, <3>a
  <2>6. ~ (g[p].flag = "valid" /\ g[p].idx = 0)
    <3> SUFFICES ASSUME g[p].flag = "valid", g[p].idx = 0 PROVE FALSE
      OBVIOUS
    <3>0. Valid(f, p)
      BY <1>0, <1>e DEF Valid
    <3>1. p % PerSector = 0
      BY <3>0 DEF Ring, Tip
    <3>2. LastSlot % PerSector = PerSector - 1
      <4>1. NextSlot(LastSlot) = 0
        BY <1>0, NextSlotIs
      <4> QED BY <1>0, <4>1, NextSlotIs
    <3>3. p # LastSlot
      <4> DEFINE a == p % PerSector
                 z == LastSlot % PerSector
      <4>1. a = 0 /\ z = PerSector - 1 /\ (p = LastSlot => a = z)
        BY <3>1, <3>2
      <4> HIDE DEF a, z
      <4> QED BY <4>1, Numbers
    <3> QED BY <1>z, <2>5, <3>3
  <2>7. find_report_new_index(g) = Found(IdxBefore(g, p), p, p - 1)
    BY <1>f, <1>4, <2>5, <2>6
  <2>8. IdxBefore(g, p) = f[p - 1].idx
    BY <1>4, <2>2 DEF IdxBefore
  <2> QED BY <1>F, <2>1, <2>2, <2>4, <2>7, <2>8
<1> QED BY <1>3, <1>4

LEMMA RingRecount ==
    ASSUME NEW f, NEW c, NEW p, NEW m, NEW b, Ring(f, c, p, m, 0, b),
           NEW r \in Slots, NextSlot(r) = p, Valid(f, r)
    PROVE  Ring(f, f[r].idx, p, m, 0, b)
<1> DEFINE d == f[r].idx
<1>t. f \in [Slots -> Contents] /\ c \in Counters /\ p \in Slots /\ m \in Nat /\ b \in Nat /\ d \in Counters
  BY RingSlot
<1>r. Age(p, r) = 0
  BY AgeIs
<1>1. \A j \in Slots : Valid(f, j) => /\ Lag(d, f[j].idx) = Lag(c, f[j].idx) - Lag(c, d)
                                      /\ Lag(c, f[j].idx) \in Nat /\ Lag(c, d) \in Nat
                                      /\ Lag(c, d) <= Lag(c, f[j].idx)
  <2> SUFFICES ASSUME NEW j \in Slots, Valid(f, j)
               PROVE  /\ Lag(d, f[j].idx) = Lag(c, f[j].idx) - Lag(c, d)
                      /\ Lag(c, f[j].idx) \in Nat /\ Lag(c, d) \in Nat
                      /\ Lag(c, d) <= Lag(c, f[j].idx)
    OBVIOUS
  <2>1. Lag(c, f[j].idx) \in Nat /\ f[j].idx \in Counters /\ Age(p, j) \in Nat
    BY RingSlot
  <2>2. Lag(c, d) \in Nat
    BY RingSlot
  <2>3. Lag(c, d) <= Lag(c, f[j].idx)
    <3>1. CASE j = r
      BY <2>2, <3>1
    <3>2. CASE j # r
      <4>1. Age(p, r) < Age(p, j)
        BY <1>r, <1>t, <2>1, <3>2, SameAge
      <4>2. Lag(c, d) < Lag(c, f[j].idx)
        BY <4>1 DEF Ring, InOrder
      <4> QED BY <2>1, <2>2, <4>2
    <3> QED BY <3>1, <3>2
  <2> QED BY <1>t, <2>1, <2>2, <2>3, LagFrom
<1> HIDE DEF d
<1>2. RingTypes(f, d, p, m, 0, b)
  BY <1>t DEF RingTypes
<1>3. InOrder(f, d, p)
  <2> SUFFICES ASSUME NEW j \in Slots, NEW k \in Slots, Valid(f, j), Valid(f, k), Age(p, j) < Age(p, k)
               PROVE  Lag(d, f[j].idx) < Lag(d, f[k].idx)
    BY DEF InOrder
  <2>1. Lag(c, f[j].idx) < Lag(c, f[k].idx)
    BY DEF Ring, InOrder
  <2> QED BY <1>1, <2>1
<1>4. Near(f, d, p, m, 0)
  <2> SUFFICES ASSUME NEW j \in Slots, Valid(f, j)
               PROVE  0 <= Lag(d, f[j].idx) /\ Lag(d, f[j].idx) <= Age(p, j) + m + 0
    BY DEF Near
  <2>1. Lag(c, f[j].idx) <= Age(p, j) + m + 0
    BY DEF Ring, Near
  <2>2. Age(p, j) \in Nat
    BY RingSlot
  <2> QED BY <1>1, <1>t, <2>1, <2>2
<1>5. Ring(f, d, p, m, 0, b)
  BY <1>2, <1>3, <1>4 DEF Ring
<1> QED BY <1>5 DEF d

LEMMA RingEmpty ==
    ASSUME NEW f, NEW c, NEW p, NEW m, NEW e, NEW b, Ring(f, c, p, m, e, b),
           \A j \in Slots : ~ Valid(f, j), NEW d \in Counters
    PROVE  Ring(f, d, p, m, e, b)
<1>1. RingTypes(f, d, p, m, e, b)
  BY DEF Ring, RingTypes
<1>2. InOrder(f, d, p) /\ Near(f, d, p, m, e)
  BY DEF InOrder, Near
<1> QED BY <1>1, <1>2 DEF Ring

LEMMA RingBoot ==
    ASSUME FewMishaps, NEW f, NEW c, NEW p, NEW m, NEW b, Ring(f, c, p, m, 0, b), m <= MaxMishaps,
           NEW g \in [Slots -> Contents], HalfErased(g, f, p),
           ~ WrittenToTheEnd(g), ~ PastHalf(g), ~ ZeroInside(g), ~ WrapInside(g)
    PROVE  /\ find_report_new_index(g).write_idx = p
           /\ Ring(f, find_report_new_index(g).report_new_cnt, p, m, 0, b)
           /\ \/ \A j \in Slots : ~ f[j].ok
              \/ \E r \in Slots : find_report_new_index(g).read_idx = r /\ NextSlot(r) = p
<1>2. find_report_new_index(g).report_new_cnt \in Counters
  BY FoundTypes
<1>3. /\ find_report_new_index(g).write_idx = p
      /\ \/ \A j \in Slots : ~ Valid(f, j)
         \/ \E r \in Slots : /\ find_report_new_index(g).read_idx = r
                             /\ NextSlot(r) = p /\ Valid(f, r)
                             /\ find_report_new_index(g).report_new_cnt = f[r].idx
  BY BootFinds
<1>4. CASE \A j \in Slots : ~ Valid(f, j)
  <2>1. Ring(f, find_report_new_index(g).report_new_cnt, p, m, 0, b)
    BY <1>2, <1>4, RingEmpty
  <2>2. \A j \in Slots : ~ f[j].ok
    BY <1>4 DEF Ring, Numbered
  <2> QED BY <1>3, <2>1, <2>2
<1>5. CASE ~ \A j \in Slots : ~ Valid(f, j)
  <2>1. PICK r \in Slots : /\ find_report_new_index(g).read_idx = r
                           /\ NextSlot(r) = p /\ Valid(f, r)
                           /\ find_report_new_index(g).report_new_cnt = f[r].idx
    BY <1>3, <1>5
  <2>2. Ring(f, f[r].idx, p, m, 0, b)
    BY <2>1, RingRecount
  <2> QED BY <1>3, <2>1, <2>2
<1> QED BY <1>4, <1>5

-----------------------------------------------------------------------------
(* What is left of the reports saved: A the numbers of the sound saves.     *)

Acks(A, e, b) == A \in SUBSET Nat /\ e <= b /\ \A n \in A : n + e <= b

Keep(f, A, b) ==
    \A n \in A : b - n >= max_count - PerSector \/ \E i \in Slots : f[i].ok /\ f[i].num = n

\* The newest of them, or one not sound but later, lies behind cut-off saves only,
\* one for each mishap.
Top(f, A, p, m) ==
    A # {} => \E j \in Slots : /\ f[j].ok /\ (\A n \in A : n <= f[j].num)
                               /\ Age(p, j) <= m
                               /\ \A k \in Slots : Age(p, k) < Age(p, j) => ~ f[k].ok

Store(f, A, c, p, m, e, b) ==
    /\ Ring(f, c, p, m, e, b)
    /\ Acks(A, e, b)
    /\ Keep(f, A, b)
    /\ FewerThanRing => Top(f, A, p, m)

LEMMA StoreSave ==
    ASSUME FewMishaps, NEW f, NEW A, NEW c, NEW p, NEW m, NEW b, Store(f, A, c, p, m, 0, b),
           m <= MaxMishaps
    PROVE  Store(f, A, (c + 1) % (CntMax + 1), p, m, 1, b + 1)
<1>1. Ring(f, (c + 1) % (CntMax + 1), p, m, 1, b + 1)
  BY RingSave DEF Store
<1>2. b \in Nat /\ A \in SUBSET Nat /\ 1 <= b + 1 /\ \A n \in A : n + 0 <= b
  BY DEF Store, Ring, RingTypes, Acks
<1>3. Acks(A, 1, b + 1)
  BY <1>2 DEF Acks
<1>4. Keep(f, A, b + 1)
  <2> SUFFICES ASSUME NEW n \in A
               PROVE  (b + 1) - n >= max_count - PerSector \/ \E i \in Slots : f[i].ok /\ f[i].num = n
    BY DEF Keep
  <2>1. b - n >= max_count - PerSector \/ \E i \in Slots : f[i].ok /\ f[i].num = n
    BY DEF Store, Keep
  <2> QED BY <1>2, <2>1, Numbers
<1> QED BY <1>1, <1>3, <1>4 DEF Store

LEMMA TopMore ==
    ASSUME NEW f, NEW A, NEW p \in Slots, NEW m \in Int, Top(f, A, p, m)
    PROVE  Top(f, A, p, m + 1)
<1> SUFFICES ASSUME A # {} PROVE Top(f, A, p, m + 1)
  BY DEF Top
<1>1. PICK j \in Slots : /\ f[j].ok /\ (\A n \in A : n <= f[j].num)
                         /\ Age(p, j) <= m
                         /\ \A k \in Slots : Age(p, k) < Age(p, j) => ~ f[k].ok
  BY DEF Top
<1>2. Age(p, j) \in 0 .. max_count - 1
  BY AgeIs
<1>3. Age(p, j) <= m + 1
  BY <1>1, <1>2, Numbers
<1> QED BY <1>1, <1>3 DEF Top

LEMMA StoreMishap ==
    ASSUME NEW f, NEW A, NEW c, NEW p, NEW m, NEW e, NEW b, Store(f, A, c, p, m, e, b)
    PROVE  Store(f, A, c, p, m + 1, 0, b)
<1>1. Ring(f, c, p, m + 1, 0, b)
  BY RingMishap DEF Store
<1>2. b \in Nat /\ e \in {0, 1} /\ A \in SUBSET Nat /\ m \in Nat /\ p \in Slots /\ \A n \in A : n + e <= b
  BY DEF Store, Ring, RingTypes, Acks
<1>3. Acks(A, 0, b)
  BY <1>2 DEF Acks
<1>4. FewerThanRing => Top(f, A, p, m + 1)
  BY <1>2, TopMore DEF Store
<1> QED BY <1>1, <1>3, <1>4 DEF Store

LEMMA StoreErase ==
    ASSUME NEW f, NEW A, NEW c, NEW p, NEW m, NEW e, NEW b, Store(f, A, c, p, m, e, b),
           p % PerSector = 0, m <= MaxMishaps
    PROVE  Store(Erasing(f, p), A, c, p, m, e, b)
<1>0. Ring(f, c, p, m, e, b) /\ Acks(A, e, b)
  BY DEF Store
<1>1. Ring(Erasing(f, p), c, p, m, e, b)
  BY <1>0, RingErase
<1>2. b \in Nat /\ e \in {0, 1} /\ m \in Nat /\ p \in Slots /\ A \in SUBSET Nat
  BY <1>0 DEF Ring, RingTypes, Acks
<1>a. \A j \in Slots : /\ Age(p, j) \in Nat
                       /\ SectorOf(j) = SectorOf(p) <=> Age(p, j) >= max_count - PerSector
  <2> SUFFICES ASSUME NEW j \in Slots
               PROVE  Age(p, j) \in Nat /\ (SectorOf(j) = SectorOf(p) <=> Age(p, j) >= max_count - PerSector)
    OBVIOUS
  <2>1. Age(p, j) \in 0 .. max_count - 1
    BY <1>2, AgeIs
  <2> QED BY <1>2, <2>1, SectorAges
<1>e. \A j \in Slots : /\ SectorOf(j) # SectorOf(p) => Erasing(f, p)[j] = f[j]
                       /\ Erasing(f, p)[j].ok => SectorOf(j) # SectorOf(p)
  BY <1>2, ErasingIs
<1>3. Keep(Erasing(f, p), A, b)
  <2> SUFFICES ASSUME NEW n \in A, ~ (b - n >= max_count - PerSector)
               PROVE  \E i \in Slots : Erasing(f, p)[i].ok /\ Erasing(f, p)[i].num = n
    BY DEF Keep
  <2>1. PICK i \in Slots : f[i].ok /\ f[i].num = n
    BY DEF Store, Keep
  <2>2. f[i].num + Age(p, i) + e <= b
    BY <1>0, <2>1 DEF Ring, Numbered
  <2>n. n \in Nat
    BY <1>2
  <2>3. Age(p, i) < max_count - PerSector
    BY <1>2, <1>a, <2>n, <2>1, <2>2, Numbers
  <2>4. SectorOf(i) # SectorOf(p)
    BY <1>a, <2>3, Numbers
  <2> QED BY <1>e, <2>1, <2>4
<1>4. FewerThanRing => Top(Erasing(f, p), A, p, m)
  <2> SUFFICES ASSUME FewerThanRing, A # {} PROVE Top(Erasing(f, p), A, p, m)
    BY DEF Top
  <2>1. PICK j \in Slots : /\ f[j].ok /\ (\A n \in A : n <= f[j].num)
                           /\ Age(p, j) <= m
                           /\ \A k \in Slots : Age(p, k) < Age(p, j) => ~ f[k].ok
    BY DEF Store, Top
  <2>2. Age(p, j) < max_count - PerSector
    BY <1>2, <1>a, <2>1, Numbers DEF FewerThanRing
  <2>3. Erasing(f, p)[j] = f[j]
    BY <1>a, <1>e, <2>2, Numbers
  <2>4. \A k \in Slots : Age(p, k) < Age(p, j) => ~ Erasing(f, p)[k].ok
    <3> SUFFICES ASSUME NEW k \in Slots, Age(p, k) < Age(p, j), Erasing(f, p)[k].ok PROVE FALSE
      OBVIOUS
    <3>1. Erasing(f, p)[k] = f[k]
      BY <1>e
    <3> QED BY <2>1, <3>1
  <2> QED BY <2>1, <2>3, <2>4 DEF Top
<1> QED BY <1>0, <1>1, <1>3, <1>4 DEF Store

\* What is put into a blank slot leaves the reports.
LEMMA PutIs ==
    ASSUME NEW f \in [Slots -> Contents], NEW p \in Slots, NEW x, f[p] = Blank
    PROVE  /\ [f EXCEPT ![p] = x][p] = x /\ ~ f[p].ok
           /\ \A j \in Slots : j # p => [f EXCEPT ![p] = x][j] = f[j]
           /\ \A j \in Slots : f[j].ok => j # p /\ [f EXCEPT ![p] = x][j] = f[j]
<1>1. ~ f[p].ok
  BY BlankIs
<1> QED BY <1>1

LEMMA KeepPut ==
    ASSUME NEW f \in [Slots -> Contents], NEW p \in Slots, NEW x, f[p] = Blank, NEW A, NEW b, Keep(f, A, b)
    PROVE  Keep([f EXCEPT ![p] = x], A, b)
<1> SUFFICES ASSUME NEW n \in A, ~ (b - n >= max_count - PerSector)
             PROVE  \E i \in Slots : [f EXCEPT ![p] = x][i].ok /\ [f EXCEPT ![p] = x][i].num = n
  BY DEF Keep
<1>1. PICK i \in Slots : f[i].ok /\ f[i].num = n
  BY DEF Keep
<1>2. [f EXCEPT ![p] = x][i] = f[i]
  BY <1>1, PutIs
<1> QED BY <1>1, <1>2

LEMMA StoreWrite ==
    ASSUME NEW f, NEW A, NEW c, NEW p, NEW m, NEW b, Store(f, A, c, p, m, 1, b), f[p] = Blank
    PROVE  Store([f EXCEPT ![p] = Report(c, b)], A \cup {b}, c, NextSlot(p), m, 0, b)
<1> DEFINE x == Report(c, b)
           g == [f EXCEPT ![p] = x]
<1>0. Ring(f, c, p, m, 1, b) /\ Acks(A, 1, b) /\ Keep(f, A, b)
  BY DEF Store
<1>t. f \in [Slots -> Contents] /\ c \in Counters /\ p \in Slots /\ m \in Nat /\ b \in Nat
  BY <1>0 DEF Ring, RingTypes
<1>x. x \in Contents /\ x.flag = "valid" /\ x.idx = c /\ x.num = b /\ x.ok
  <2>1. x \in Contents
    BY <1>t, ContentsTypes
  <2> QED BY <2>1 DEF Report
<1> HIDE DEF x
<1>1. Ring(g, c, NextSlot(p), m, 0, b)
  BY <1>0, <1>x, RingWrite
<1>g. g[p] = x
  BY <1>t, PutIs
<1>3. Keep(g, A, b)
  BY <1>0, <1>t, KeepPut
<1> HIDE DEF g
<1>2. Acks(A \cup {b}, 0, b)
  BY <1>0, <1>t DEF Acks
<1>4. Keep(g, A \cup {b}, b)
  BY <1>g, <1>t, <1>x, <1>3 DEF Keep
<1>5. Top(g, A \cup {b}, NextSlot(p), m)
  <2>1. Age(NextSlot(p), p) = 0
    BY <1>t, AgeIs
  <2>2. \A k \in Slots : ~ (Age(NextSlot(p), k) < 0)
    BY <1>t, AgeIs, NextSlotIs
  <2>3. \A n \in A \cup {b} : n <= b
    BY <1>0, <1>t DEF Acks
  <2> QED BY <1>g, <1>t, <1>x, <2>1, <2>2, <2>3 DEF Top
<1>6. Store(g, A \cup {b}, c, NextSlot(p), m, 0, b)
  BY <1>1, <1>2, <1>4, <1>5 DEF Store
<1> QED BY <1>6 DEF g, x

LEMMA StoreFewer ==
    ASSUME NEW f, NEW A, NEW B \in SUBSET A, NEW c, NEW p, NEW m, NEW e, NEW b, Store(f, A, c, p, m, e, b)
    PROVE  Store(f, B, c, p, m, e, b)
<1>1. Acks(B, e, b) /\ Keep(f, B, b)
  BY DEF Store, Acks, Keep
<1>2. FewerThanRing => Top(f, B, p, m)
  BY DEF Store, Top
<1> QED BY <1>1, <1>2 DEF Store

\* A report written in full by a save that was cut off when done.
LEMMA StoreDone ==
    ASSUME NEW f, NEW A, NEW c, NEW p, NEW m, NEW b, Store(f, A, c, p, m, 1, b), f[p] = Blank
    PROVE  Store([f EXCEPT ![p] = Report(c, b)], A, c, NextSlot(p), m, 0, b)
<1>1. Store([f EXCEPT ![p] = Report(c, b)], A \cup {b}, c, NextSlot(p), m, 0, b)
  BY StoreWrite
<1>2. A \in SUBSET (A \cup {b})
  OBVIOUS
<1> QED BY <1>1, <1>2, StoreFewer

\* A report written over what a failed save left, which used up the slot.
LEMMA StoreOver ==
    ASSUME NEW f, NEW A, NEW c, NEW p, NEW m, NEW b, Store(f, A, c, p, m, 1, b), f[p] = Blank,
           FewerThanRing => Top(f, A, p, m - 1)
    PROVE  Store([f EXCEPT ![p] = Broken(c)], A, c, NextSlot(p), m, 0, b)
<1> DEFINE x == Broken(c)
           g == [f EXCEPT ![p] = x]
           q == NextSlot(p)
<1>0. Ring(f, c, p, m, 1, b) /\ Acks(A, 1, b) /\ Keep(f, A, b)
  BY DEF Store
<1>t. f \in [Slots -> Contents] /\ c \in Counters /\ p \in Slots /\ m \in Nat /\ b \in Nat
  BY <1>0 DEF Ring, RingTypes
<1>x. x \in Contents /\ x.flag = "valid" /\ x.idx = c /\ x.ok = FALSE
  <2>1. x \in Contents
    BY <1>t, ContentsTypes
  <2> QED BY <2>1 DEF Broken
<1> HIDE DEF x
<1>1. Ring(g, c, q, m, 0, b)
  BY <1>0, <1>x, RingWrite
<1>2. Acks(A, 0, b)
  BY <1>0, <1>t DEF Acks
<1>3. Keep(g, A, b)
  BY <1>0, <1>t, KeepPut
<1>g. g[p] = x /\ (\A j \in Slots : j # p => g[j] = f[j]) /\ \A j \in Slots : f[j].ok => j # p /\ g[j] = f[j]
  BY <1>t, PutIs
<1> HIDE DEF g
<1>4. FewerThanRing => Top(g, A, q, m)
  <2> SUFFICES ASSUME FewerThanRing, A # {} PROVE Top(g, A, q, m)
    BY DEF Top
  <2>1. PICK j \in Slots : /\ f[j].ok /\ (\A n \in A : n <= f[j].num)
                           /\ Age(p, j) <= m - 1
                           /\ \A k \in Slots : Age(p, k) < Age(p, j) => ~ f[k].ok
    BY DEF Top
  <2>a. \A k \in Slots : Age(p, k) \in Nat /\ (k # p => Age(q, k) = Age(p, k) + 1)
    <3> SUFFICES ASSUME NEW k \in Slots PROVE Age(p, k) \in Nat /\ (k # p => Age(q, k) = Age(p, k) + 1)
      OBVIOUS
    <3>1. Age(p, k) \in 0 .. max_count - 1
      BY <1>t, AgeIs
    <3>2. k # p => Age(q, k) = Age(p, k) + 1
      BY <1>t, AgeIs
    <3> QED BY <3>1, <3>2, Numbers
  <2>2. j # p /\ g[j] = f[j] /\ Age(q, j) <= m
    BY <1>g, <1>t, <2>1, <2>a
  <2>3. \A k \in Slots : Age(q, k) < Age(q, j) => ~ g[k].ok
    <3> SUFFICES ASSUME NEW k \in Slots, Age(q, k) < Age(q, j) PROVE ~ g[k].ok
      OBVIOUS
    <3>1. CASE k = p
      BY <1>g, <1>x, <3>1
    <3>2. CASE k # p
      <4>1. Age(p, k) < Age(p, j)
        BY <2>2, <2>a, <3>2
      <4> QED BY <1>g, <2>1, <3>2, <4>1
    <3> QED BY <3>1, <3>2
  <2> QED BY <2>1, <2>2, <2>3 DEF Top
<1>5. Store(g, A, c, q, m, 0, b)
  BY <1>1, <1>2, <1>3, <1>4 DEF Store
<1> QED BY <1>5 DEF g, x

LEMMA StoreBroken ==
    ASSUME NEW f, NEW A, NEW c, NEW p, NEW m, NEW b, Store(f, A, c, p, m, 1, b), f[p] = Blank
    PROVE  Store([f EXCEPT ![p] = Broken(c)], A, c, NextSlot(p), m + 1, 0, b)
<1>0. Ring(f, c, p, m, 1, b) /\ p \in Slots /\ m \in Nat
  BY DEF Store, Ring, RingTypes
<1>1. Near(f, c, p, m + 1, 1)
  <2> SUFFICES ASSUME NEW j \in Slots, Valid(f, j)
               PROVE  1 <= Lag(c, f[j].idx) /\ Lag(c, f[j].idx) <= Age(p, j) + (m + 1) + 1
    BY DEF Near
  <2>1. 1 <= Lag(c, f[j].idx) /\ Lag(c, f[j].idx) <= Age(p, j) + m + 1
    BY <1>0 DEF Ring, Near
  <2>2. Lag(c, f[j].idx) \in Nat /\ Age(p, j) \in Nat
    BY <1>0, RingSlot
  <2> QED BY <1>0, <2>1, <2>2
<1>2. Ring(f, c, p, m + 1, 1, b)
  BY <1>0, <1>1 DEF Ring, RingTypes
<1>3. (m + 1) - 1 = m
  BY <1>0
<1>4. FewerThanRing => Top(f, A, p, m + 1) /\ Top(f, A, p, (m + 1) - 1)
  BY <1>0, <1>3, TopMore DEF Store
<1>5. Store(f, A, c, p, m + 1, 1, b)
  BY <1>2, <1>4 DEF Store
<1> QED BY <1>4, <1>5, StoreOver

LEMMA StoreScrap ==
    ASSUME NEW f, NEW A, NEW c, NEW p, NEW m, NEW e, NEW b, Store(f, A, c, p, m, e, b), f[p] = Blank
    PROVE  Store([f EXCEPT ![p] = Scrap(c)], A, c, p, m, e, b)
<1> DEFINE x == Scrap(c)
           g == [f EXCEPT ![p] = x]
<1>0. Ring(f, c, p, m, e, b) /\ Acks(A, e, b) /\ Keep(f, A, b)
  BY DEF Store
<1>t. f \in [Slots -> Contents] /\ c \in Counters /\ p \in Slots /\ m \in Nat /\ b \in Nat
  BY <1>0 DEF Ring, RingTypes
<1>x. x \in Contents /\ x.flag = "erased" /\ x.ok = FALSE
  <2>1. x \in Contents
    BY <1>t, ContentsTypes
  <2> QED BY <2>1 DEF Scrap
<1> HIDE DEF x
<1>1. Ring(g, c, p, m, e, b)
  BY <1>0, <1>x, RingScrap
<1>3. Keep(g, A, b)
  BY <1>0, <1>t, KeepPut
<1>g. g[p] = x /\ (\A j \in Slots : j # p => g[j] = f[j]) /\ \A j \in Slots : f[j].ok => j # p /\ g[j] = f[j]
  BY <1>t, PutIs
<1> HIDE DEF g
<1>4. FewerThanRing => Top(g, A, p, m)
  <2> SUFFICES ASSUME FewerThanRing, A # {} PROVE Top(g, A, p, m)
    BY DEF Top
  <2>1. PICK j \in Slots : /\ f[j].ok /\ (\A n \in A : n <= f[j].num)
                           /\ Age(p, j) <= m
                           /\ \A k \in Slots : Age(p, k) < Age(p, j) => ~ f[k].ok
    BY DEF Store, Top
  <2>2. g[j] = f[j]
    BY <1>g, <2>1
  <2>3. \A k \in Slots : Age(p, k) < Age(p, j) => ~ g[k].ok
    BY <1>g, <1>x, <2>1
  <2> QED BY <2>1, <2>2, <2>3 DEF Top
<1>5. Store(g, A, c, p, m, e, b)
  BY <1>0, <1>1, <1>3, <1>4 DEF Store
<1> QED BY <1>5 DEF g, x

LEMMA StoreBoot ==
    ASSUME FewMishaps, NEW f, NEW A, NEW c, NEW p, NEW m, NEW b, Store(f, A, c, p, m, 0, b),
           m <= MaxMishaps, NEW g \in [Slots -> Contents], HalfErased(g, f, p),
           ~ WrittenToTheEnd(g), ~ PastHalf(g), ~ ZeroInside(g), ~ WrapInside(g)
    PROVE  /\ find_report_new_index(g).write_idx = p
           /\ Store(f, A, find_report_new_index(g).report_new_cnt, p, m, 0, b)
           /\ FewerThanRing /\ A # {} =>
                \E r \in Slots : find_report_new_index(g).read_idx = r /\ NextSlot(r) = p
<1>0. Ring(f, c, p, m, 0, b)
  BY DEF Store
<1>1. /\ find_report_new_index(g).write_idx = p
      /\ Ring(f, find_report_new_index(g).report_new_cnt, p, m, 0, b)
      /\ \/ \A j \in Slots : ~ f[j].ok
         \/ \E r \in Slots : find_report_new_index(g).read_idx = r /\ NextSlot(r) = p
  BY <1>0, RingBoot
<1>2. Store(f, A, find_report_new_index(g).report_new_cnt, p, m, 0, b)
  BY <1>1 DEF Store
<1>3. FewerThanRing /\ A # {} => \E j \in Slots : f[j].ok
  BY DEF Store, Top
<1> QED BY <1>1, <1>2, <1>3

LEMMA StoreNew ==
    Store([i \in Slots |-> Blank], {}, 0, 0, 0, 0, 0)
<1> DEFINE f == [i \in Slots |-> Blank]
<1>1. \A j \in Slots : f[j] = Blank /\ ~ Valid(f, j) /\ ~ f[j].ok
  BY BlankIs
<1>2. f \in [Slots -> Contents] /\ 0 \in Slots /\ 0 \in Counters
  BY ContentsTypes, Numbers, FrameCounterAssumption DEF Counters
<1> HIDE DEF f
<1>3. RingTypes(f, 0, 0, 0, 0, 0)
  BY <1>2 DEF RingTypes
<1>4. Front(f, 0)
  <2>1. \A j \in Slots : ~ (j < 0)
    BY Numbers DEF Slots
  <2> QED BY <1>1, <2>1 DEF Front
<1>5. InOrder(f, 0, 0) /\ Near(f, 0, 0, 0, 0) /\ Numbered(f, 0, 0, 0)
  BY <1>1 DEF InOrder, Near, Numbered
<1>6. Rest(f, 0) /\ Whole(f, 0) /\ Tip(f, 0)
  BY <1>1, <1>2 DEF Rest, Whole, Tip
<1>7. Acks({}, 0, 0) /\ Keep(f, {}, 0) /\ Top(f, {}, 0, 0)
  BY DEF Acks, Keep, Top
<1>8. Store(f, {}, 0, 0, 0, 0, 0)
  BY <1>3, <1>4, <1>5, <1>6, <1>7 DEF Store, Ring
<1> QED BY <1>8 DEF f

-----------------------------------------------------------------------------
(* The flash itself, g.  It differs from a ring f kept in order where a slot *)
(* was programmed twice, which f holds broken; in the sector to be erased    *)
(* next, which may be half erased; and in the slot to be written next, which *)
(* a failed save may have programmed.                                        *)

Same(x, y) == x = y \/ (Twice(x) /\ y.flag = "valid" /\ ~ y.ok)

TornAt(g, p, j) == Under(p, j) /\ g[j].flag = "erased" /\ ~ g[j].ok

ToErase(g, f, p) ==
    /\ p % PerSector = 0
    /\ \A j \in Slots : Same(g[j], f[j]) \/ TornAt(g, p, j)

\* The slot that follows what a failed save has left.
After(g, p) == IF Valid(g, p) THEN NextSlot(p) ELSE p

\* The failed save cost a mishap that used up no slot yet; a boot may take what it
\* left for written.
LeftOver(g, f, A, c, p, m, e, b) ==
    /\ FewerThanRing => Top(f, A, p, m - 1)
    /\ Twice(g[p]) \/ Store([f EXCEPT ![p] = g[p]], A, c, After(g, p), m, e, b)

ToWrite(g, f, A, c, p, m, e, b) ==
    /\ f[p] = Blank
    /\ \A j \in Slots : j # p => Same(g[j], f[j])
    /\ g[p] = Blank \/ LeftOver(g, f, A, c, p, m, e, b)

\* s is the sector erased last.
Stands(f, g, A, c, p, s, m, e, b) ==
    /\ Store(f, A, c, p, m, e, b)
    /\ g \in [Slots -> Contents]
    /\ IF SectorOf(p) # s THEN ToErase(g, f, p) ELSE ToWrite(g, f, A, c, p, m, e, b)

\* With the power off it is not known whether slot p is to be erased.
Cover(g, f, p) ==
    \A j \in Slots : \/ Same(g[j], f[j])
                     \/ TornAt(g, p, j)
                     \/ j = p /\ f[p] = Blank /\ Twice(g[p])

Covers(f, g, A, c, p, m, b) ==
    Store(f, A, c, p, m, 0, b) /\ g \in [Slots -> Contents] /\ Cover(g, f, p)

LEMMA StoreTypes ==
    ASSUME NEW f, NEW A, NEW c, NEW p, NEW m, NEW e, NEW b, Store(f, A, c, p, m, e, b)
    PROVE  /\ f \in [Slots -> Contents] /\ c \in Counters /\ p \in Slots
           /\ m \in Nat /\ e \in {0, 1} /\ b \in Nat /\ e <= b
           /\ A \in SUBSET Nat
  BY DEF Store, Ring, RingTypes, Acks

LEMMA StandsSave ==
    ASSUME FewMishaps, NEW f, NEW g, NEW A, NEW c, NEW p, NEW s, NEW m, NEW b,
           Stands(f, g, A, c, p, s, m, 0, b), m <= MaxMishaps
    PROVE  Stands(f, g, A, (c + 1) % (CntMax + 1), p, s, m, 1, b + 1)
<1> DEFINE d == (c + 1) % (CntMax + 1)
           i == b + 1
<1>1. \A h, q : Store(h, A, c, q, m, 0, b) => Store(h, A, d, q, m, 1, i)
  BY StoreSave
<1> HIDE DEF d, i
<1>2. Stands(f, g, A, d, p, s, m, 1, i)
  BY <1>1 DEF Stands, ToWrite, LeftOver
<1> QED BY <1>2 DEF d, i

LEMMA StandsMishap ==
    ASSUME NEW f, NEW g, NEW A, NEW c, NEW p, NEW s, NEW m, NEW e, NEW b,
           Stands(f, g, A, c, p, s, m, e, b)
    PROVE  Stands(f, g, A, c, p, s, m + 1, 0, b)
<1> DEFINE n == m + 1
<1>1. \A h, q : Store(h, A, c, q, m, e, b) => Store(h, A, c, q, n, 0, b)
  BY StoreMishap
<1>2. Store(f, A, c, p, m, e, b) /\ m \in Nat
  BY StoreTypes DEF Stands
<1>3. n - 1 = m
  BY <1>2
<1>4. FewerThanRing => Top(f, A, p, n - 1)
  BY <1>2, <1>3 DEF Store
<1> HIDE DEF n
<1>5. Stands(f, g, A, c, p, s, n, 0, b)
  BY <1>1, <1>4 DEF Stands, ToWrite, LeftOver
<1> QED BY <1>5 DEF n

LEMMA StandsFewer ==
    ASSUME NEW f, NEW g, NEW A, NEW B \in SUBSET A, NEW c, NEW p, NEW s, NEW m, NEW e, NEW b,
           Stands(f, g, A, c, p, s, m, e, b)
    PROVE  Stands(f, g, B, c, p, s, m, e, b)
<1>1. \A h, q : Store(h, A, c, q, m, e, b) => Store(h, B, c, q, m, e, b)
  BY StoreFewer
<1>2. Top(f, A, p, m - 1) => Top(f, B, p, m - 1)
  BY DEF Top
<1> QED BY <1>1, <1>2 DEF Stands, ToWrite, LeftOver

\* An erase of the sector that had to be erased.
LEMMA StandsErase ==
    ASSUME NEW f, NEW g, NEW A, NEW c, NEW p, NEW s, NEW m, NEW e, NEW b,
           Stands(f, g, A, c, p, s, m, e, b), m <= MaxMishaps, SectorOf(p) # s
    PROVE  Stands(Erasing(f, p), Erasing(g, p), A, c, p, SectorOf(p), m, e, b)
<1>0. Store(f, A, c, p, m, e, b) /\ ToErase(g, f, p) /\ g \in [Slots -> Contents] /\ p % PerSector = 0
  BY DEF Stands, ToErase
<1>t. p \in Slots
  BY <1>0, StoreTypes
<1>1. Store(Erasing(f, p), A, c, p, m, e, b)
  BY <1>0, StoreErase
<1>2. Erasing(f, p)[p] = Blank /\ Erasing(g, p)[p] = Blank
  BY <1>t, ErasingIs
<1>3. \A j \in Slots : Same(Erasing(g, p)[j], Erasing(f, p)[j])
  <2> SUFFICES ASSUME NEW j \in Slots PROVE Same(Erasing(g, p)[j], Erasing(f, p)[j])
    OBVIOUS
  <2>1. CASE SectorOf(j) = SectorOf(p)
    BY <1>t, <2>1, ErasingIs DEF Same
  <2>2. CASE SectorOf(j) # SectorOf(p)
    <3>1. Erasing(g, p)[j] = g[j] /\ Erasing(f, p)[j] = f[j]
      BY <1>t, <2>2, ErasingIs
    <3>2. Same(g[j], f[j])
      BY <1>0, <2>2 DEF ToErase, TornAt, Under
    <3> QED BY <3>1, <3>2
  <2> QED BY <2>1, <2>2
<1>4. Erasing(g, p) \in [Slots -> Contents]
  BY <1>0, ContentsTypes DEF Erasing
<1> QED BY <1>1, <1>2, <1>3, <1>4 DEF Stands, ToWrite

\* An erase that is not seen through.
LEMMA StandsCutErase ==
    ASSUME NEW f, NEW g, NEW A, NEW c, NEW p, NEW s, NEW m, NEW e, NEW b,
           Stands(f, g, A, c, p, s, m, e, b), SectorOf(p) # s,
           NEW h \in [Slots -> Contents],
           \A j \in Slots : \/ h[j] = g[j]
                            \/ SectorOf(j) = SectorOf(p) /\ h[j].flag = "erased" /\ ~ h[j].ok
    PROVE  Stands(f, h, A, c, p, s, m, e, b)
<1>1. p % PerSector = 0 /\ \A j \in Slots : Same(g[j], f[j]) \/ TornAt(g, p, j)
  BY DEF Stands, ToErase
<1>2. \A j \in Slots : Same(h[j], f[j]) \/ TornAt(h, p, j)
  <2> SUFFICES ASSUME NEW j \in Slots PROVE Same(h[j], f[j]) \/ TornAt(h, p, j)
    OBVIOUS
  <2>1. CASE h[j] = g[j]
    BY <1>1, <2>1 DEF TornAt
  <2>2. CASE SectorOf(j) = SectorOf(p) /\ h[j].flag = "erased" /\ ~ h[j].ok
    BY <1>1, <2>2 DEF TornAt, Under
  <2> QED BY <2>1, <2>2
<1> QED BY <1>1, <1>2 DEF Stands, ToErase

\* The slot written, what is next is blank or the first of a sector to be erased.
LEMMA StandsNext ==
    ASSUME NEW f, NEW g \in [Slots -> Contents], NEW A, NEW B, NEW c, NEW p, NEW m, NEW b,
           Store(f, A, c, p, m, 1, b), f[p] = Blank,
           \A j \in Slots : j # p => Same(g[j], f[j]),
           NEW x \in Contents, NEW y, Same(x, y),
           Store([f EXCEPT ![p] = y], B, c, NextSlot(p), m, 0, b)
    PROVE  Stands([f EXCEPT ![p] = y], [g EXCEPT ![p] = x], B, c, NextSlot(p), SectorOf(p), m, 0, b)
<1> DEFINE h == [f EXCEPT ![p] = y]
           k == [g EXCEPT ![p] = x]
           q == NextSlot(p)
<1>t. p \in Slots /\ f \in [Slots -> Contents]
  BY StoreTypes
<1>q. /\ q \in Slots
      /\ \/ q = p + 1 /\ SectorOf(q) = SectorOf(p)
         \/ q % PerSector = 0 /\ SectorOf(q) # SectorOf(p)
  BY <1>t, NextSlotIs
<1>1. k \in [Slots -> Contents] /\ \A j \in Slots : Same(k[j], h[j])
  BY <1>t
<1>2. \A j \in Slots : j # p => h[j] = f[j]
  BY <1>t
<1>3. Store(h, B, c, q, m, 0, b)
  OBVIOUS
<1> HIDE DEF h, k, q
<1>4. CASE q = p + 1 /\ SectorOf(q) = SectorOf(p)
  <2>1. p < q /\ q # p
    BY <1>t, <1>q, <1>4, Numbers DEF Slots
  <2>2. f[q] = Blank
    BY <1>q, <1>4, <2>1 DEF Store, Ring, Rest
  <2>3. h[q] = Blank
    BY <1>2, <1>q, <2>1, <2>2
  <2>4. k[q] = Blank
    <3>1. Blank.flag = "erased"
      BY DEF Blank
    <3> QED BY <1>1, <1>q, <2>3, <3>1 DEF Same
  <2>5. ToWrite(k, h, B, c, q, m, 0, b)
    BY <1>1, <2>3, <2>4 DEF ToWrite
  <2>6. Stands(h, k, B, c, q, SectorOf(p), m, 0, b)
    BY <1>1, <1>3, <1>4, <2>5 DEF Stands
  <2> QED BY <2>6 DEF h, k, q
<1>5. CASE q % PerSector = 0 /\ SectorOf(q) # SectorOf(p)
  <2>1. ToErase(k, h, q)
    BY <1>1, <1>5 DEF ToErase
  <2>2. Stands(h, k, B, c, q, SectorOf(p), m, 0, b)
    BY <1>1, <1>3, <1>5, <2>1 DEF Stands
  <2> QED BY <2>2 DEF h, k, q
<1> QED BY <1>q, <1>4, <1>5

\* What is programmed over a slot that is not blank.
LEMMA ProgrammedIs ==
    ASSUME NEW x \in Contents, NEW y \in Contents, NEW n \in Nat, n # 0
    PROVE  /\ Programmed(x, y, n) \in Contents
           /\ x = Blank => Programmed(x, y, n) = y
           /\ x # Blank => /\ Twice(Programmed(x, y, n)) /\ Programmed(x, y, n) # Blank
                           /\ y.flag = "valid" => Programmed(x, y, n).flag = "valid"
<1>1. Programmed(x, y, n) \in Contents
  BY ProgrammedType
<1>2. ASSUME x # Blank
      PROVE  /\ Programmed(x, y, n).ok = FALSE /\ Programmed(x, y, n).num = n
             /\ y.flag = "valid" => Programmed(x, y, n).flag = "valid"
  BY <1>2 DEF Programmed
<1>3. Blank.num = 0
  BY DEF Blank
<1> QED BY <1>1, <1>2, <1>3 DEF Programmed, Twice

LEMMA StandsWrite ==
    ASSUME NEW f, NEW g, NEW A, NEW c, NEW p, NEW s, NEW m, NEW b,
           Stands(f, g, A, c, p, s, m, 1, b), SectorOf(p) = s
    PROVE  \E h : Stands(h, [g EXCEPT ![p] = Programmed(@, Report(c, b), b)],
                         IF g[p] = Blank THEN A \cup {b} ELSE A, c, NextSlot(p), s, m, 0, b)
<1> DEFINE y == Report(c, b)
           x == Programmed(g[p], y, b)
<1>0. /\ Store(f, A, c, p, m, 1, b) /\ g \in [Slots -> Contents]
      /\ ToWrite(g, f, A, c, p, m, 1, b)
  BY DEF Stands
<1>t. p \in Slots /\ c \in Counters /\ b \in Nat /\ b # 0 /\ g[p] \in Contents
  BY <1>0, StoreTypes
<1>w. f[p] = Blank /\ \A j \in Slots : j # p => Same(g[j], f[j])
  BY <1>0 DEF ToWrite
<1>y. y \in Contents /\ y.flag = "valid"
  BY <1>t, ContentsTypes DEF Report
<1>1. CASE g[p] = Blank
  <2>1. x = y
    BY <1>1, <1>t, <1>y, ProgrammedIs
  <2>2. Store([f EXCEPT ![p] = y], A \cup {b}, c, NextSlot(p), m, 0, b)
    BY <1>0, <1>w, StoreWrite
  <2> HIDE DEF x, y
  <2>3. Stands([f EXCEPT ![p] = y], [g EXCEPT ![p] = x], A \cup {b}, c, NextSlot(p), SectorOf(p), m, 0, b)
    BY <1>0, <1>w, <1>y, <2>1, <2>2, StandsNext DEF Same
  <2> QED BY <1>1, <2>3 DEF x, y
<1>2. CASE g[p] # Blank
  <2>1. x \in Contents /\ Twice(x) /\ x.flag = "valid"
    BY <1>2, <1>t, <1>y, ProgrammedIs
  <2>2. FewerThanRing => Top(f, A, p, m - 1)
    BY <1>0, <1>2 DEF ToWrite, LeftOver
  <2>3. Store([f EXCEPT ![p] = Broken(c)], A, c, NextSlot(p), m, 0, b)
    BY <1>0, <1>w, <2>2, StoreOver
  <2>4. Same(x, Broken(c))
    BY <2>1 DEF Same, Broken
  <2> DEFINE z == Broken(c)
  <2> HIDE DEF x, y, z
  <2>5. Stands([f EXCEPT ![p] = z], [g EXCEPT ![p] = x], A, c, NextSlot(p), SectorOf(p), m, 0, b)
    BY <1>0, <1>w, <2>1, <2>3, <2>4, StandsNext DEF z
  <2> QED BY <1>2, <2>5 DEF x, y
<1> QED BY <1>1, <1>2

LEMMA StandsCutWrite ==
    ASSUME NEW f, NEW g, NEW A, NEW c, NEW p, NEW s, NEW m, NEW b,
           Stands(f, g, A, c, p, s, m, 1, b), SectorOf(p) = s, NEW y \in Parts(c, b)
    PROVE  Stands(f, [g EXCEPT ![p] = Programmed(@, y, b)], A, c, p, s, m + 1, 0, b)
<1> DEFINE x == Programmed(g[p], y, b)
           h == [g EXCEPT ![p] = x]
           n == m + 1
<1>0. /\ Store(f, A, c, p, m, 1, b) /\ g \in [Slots -> Contents]
      /\ ToWrite(g, f, A, c, p, m, 1, b)
  BY DEF Stands
<1>t. p \in Slots /\ c \in Counters /\ b \in Nat /\ b # 0 /\ g[p] \in Contents /\ m \in Nat
  BY <1>0, StoreTypes
<1>w. f[p] = Blank /\ \A j \in Slots : j # p => Same(g[j], f[j])
  BY <1>0 DEF ToWrite
<1>y. y \in Contents
  BY <1>t, ContentsTypes DEF Parts
<1>x. x \in Contents
  BY <1>t, <1>y, ProgrammedIs
<1>1. Store(f, A, c, p, n, 0, b)
  BY <1>0, StoreMishap
<1>2. FewerThanRing => Top(f, A, p, n - 1)
  <2>1. n - 1 = m
    BY <1>t
  <2> QED BY <1>0, <2>1 DEF Store
<1>3. ASSUME g[p] = Blank
      PROVE  Store([f EXCEPT ![p] = x], A, c, IF x.flag = "valid" THEN NextSlot(p) ELSE p, n, 0, b)
  <2>1. x = y
    BY <1>3, <1>t, <1>y, ProgrammedIs
  <2>2. CASE y = Scrap(c)
    <3>1. Store([f EXCEPT ![p] = y], A, c, p, m, 1, b)
      BY <1>0, <1>w, <2>2, StoreScrap
    <3>2. Store([f EXCEPT ![p] = y], A, c, p, n, 0, b)
      BY <3>1, StoreMishap
    <3> QED BY <2>1, <2>2, <3>2 DEF Scrap
  <2>3. CASE y = Broken(c)
    <3>1. Store([f EXCEPT ![p] = y], A, c, NextSlot(p), n, 0, b)
      BY <1>0, <1>w, <2>3, StoreBroken
    <3> QED BY <2>1, <2>3, <3>1 DEF Broken
  <2>4. CASE y = Report(c, b)
    <3>1. Store([f EXCEPT ![p] = y], A, c, NextSlot(p), m, 0, b)
      BY <1>0, <1>w, <2>4, StoreDone
    <3>2. Store([f EXCEPT ![p] = y], A, c, NextSlot(p), n, 0, b)
      BY <3>1, StoreMishap
    <3> QED BY <2>1, <2>4, <3>2 DEF Report
  <2> QED BY <2>2, <2>3, <2>4 DEF Parts
<1>4. ASSUME g[p] # Blank PROVE Twice(x)
  BY <1>4, <1>t, <1>y, ProgrammedIs
<1>5. h[p] = x /\ h \in [Slots -> Contents] /\ \A j \in Slots : j # p => h[j] = g[j]
  <2> HIDE DEF x
  <2> QED BY <1>0, <1>t, <1>x
<1>6. Twice(x) \/ Store([f EXCEPT ![p] = x], A, c, IF x.flag = "valid" THEN NextSlot(p) ELSE p, n, 0, b)
  BY <1>3, <1>4
<1> HIDE DEF x, h, n
<1>7. LeftOver(h, f, A, c, p, n, 0, b)
  BY <1>2, <1>5, <1>6 DEF LeftOver, After, Valid
<1>8. Stands(f, h, A, c, p, s, n, 0, b)
  BY <1>1, <1>5, <1>7, <1>w DEF Stands, ToWrite
<1> QED BY <1>8 DEF x, h, n

LEMMA StandsCovers ==
    ASSUME NEW f, NEW g, NEW A, NEW c, NEW p, NEW s, NEW m, NEW b, Stands(f, g, A, c, p, s, m, 0, b)
    PROVE  \E h, q : Covers(h, g, A, c, q, m, b)
<1>0. Store(f, A, c, p, m, 0, b) /\ g \in [Slots -> Contents] /\ f \in [Slots -> Contents] /\ p \in Slots
  BY StoreTypes DEF Stands
<1>1. CASE SectorOf(p) # s
  BY <1>0, <1>1 DEF Stands, ToErase, Covers, Cover
<1>2. CASE SectorOf(p) = s
  <2>1. ToWrite(g, f, A, c, p, m, 0, b)
    BY <1>2 DEF Stands
  <2>2. CASE g[p] = Blank \/ Twice(g[p])
    <3>1. Cover(g, f, p)
      BY <2>1, <2>2 DEF ToWrite, Cover, Same
    <3> QED BY <1>0, <3>1 DEF Covers
  <2>3. CASE Store([f EXCEPT ![p] = g[p]], A, c, After(g, p), m, 0, b)
    <3> DEFINE h == [f EXCEPT ![p] = g[p]]
    <3>1. \A j \in Slots : Same(g[j], h[j])
      BY <1>0, <2>1 DEF ToWrite, Same
    <3> HIDE DEF h
    <3>2. Cover(g, h, After(g, p))
      BY <3>1 DEF Cover
    <3>3. Covers(h, g, A, c, After(g, p), m, b)
      BY <1>0, <2>3, <3>2 DEF Covers, h
    <3> QED BY <3>3
  <2> QED BY <2>1, <2>2, <2>3 DEF ToWrite, LeftOver
<1> QED BY <1>1, <1>2

LEMMA CoversBoot ==
    ASSUME FewMishaps, NEW f, NEW g, NEW A, NEW c, NEW p, NEW m, NEW b, Covers(f, g, A, c, p, m, b),
           m <= MaxMishaps,
           ~ WrittenToTheEnd(g), ~ PastHalf(g), ~ ZeroInside(g), ~ WrapInside(g), ~ ProgrammedTwice(g),
           NEW s, NEW w, w = find_report_new_index(g).write_idx,
           IF s = SectorOf(w)
           THEN \A i \in Slots : SectorOf(i) = SectorOf(w) /\ w <= i => g[i] = Blank
           ELSE w % PerSector = 0
    PROVE  /\ \E h : Stands(h, g, A, find_report_new_index(g).report_new_cnt, w, s, m, 0, b)
           /\ FewerThanRing /\ A # {} =>
                \E r \in Slots : find_report_new_index(g).read_idx = r /\ NextSlot(r) = w
<1>0. Store(f, A, c, p, m, 0, b) /\ g \in [Slots -> Contents] /\ Cover(g, f, p)
  BY DEF Covers
<1>1. HalfErased(g, f, p)
  BY <1>0 DEF HalfErased, Cover, Same, TornAt, ProgrammedTwice
<1>2. PICK d : d = find_report_new_index(g).report_new_cnt
  OBVIOUS
<1>3. /\ w = p
      /\ Store(f, A, d, p, m, 0, b)
      /\ FewerThanRing /\ A # {} =>
           \E r \in Slots : find_report_new_index(g).read_idx = r /\ NextSlot(r) = p
  BY <1>0, <1>1, <1>2, StoreBoot
<1>t. p \in Slots /\ f \in [Slots -> Contents]
  BY <1>0, StoreTypes
<1>4. CASE s # SectorOf(p)
  <2>1. ToErase(g, f, p)
    BY <1>1, <1>3, <1>4 DEF ToErase, HalfErased, TornAt, Same
  <2>2. Stands(f, g, A, d, p, s, m, 0, b)
    BY <1>0, <1>3, <1>4, <2>1 DEF Stands
  <2> QED BY <1>2, <1>3, <2>2
<1>5. CASE s = SectorOf(p)
  <2>1. \A i \in Slots : SectorOf(i) = SectorOf(p) /\ p <= i => g[i] = Blank
    BY <1>3, <1>5
  <2>p. g[p] = Blank
    BY <1>t, <2>1, Numbers DEF Slots
  <2>2. CASE p % PerSector # 0
    <3>1. \A j \in Slots : g[j] = f[j]
      BY <1>1, <2>2 DEF HalfErased, Under
    <3>2. ToWrite(g, f, A, d, p, m, 0, b)
      BY <1>t, <2>p, <3>1 DEF ToWrite, Same
    <3>3. Stands(f, g, A, d, p, s, m, 0, b)
      BY <1>0, <1>3, <1>5, <3>2 DEF Stands
    <3> QED BY <1>2, <1>3, <3>3
  <2>3. CASE p % PerSector = 0
    <3> DEFINE h == Erasing(f, p)
    <3>1. Store(h, A, d, p, m, 0, b)
      BY <1>3, <2>3, StoreErase
    <3>2. \A j \in Slots : g[j] = h[j]
      <4> SUFFICES ASSUME NEW j \in Slots PROVE g[j] = h[j]
        OBVIOUS
      <4>1. CASE SectorOf(j) = SectorOf(p)
        <5>1. p <= j
          BY <1>t, <2>3, <4>1, UnderIs DEF Under
        <5>2. g[j] = Blank
          BY <2>1, <4>1, <5>1
        <5> QED BY <1>t, <4>1, <5>2, ErasingIs
      <4>2. CASE SectorOf(j) # SectorOf(p)
        <5>1. g[j] = f[j]
          BY <1>1, <4>2 DEF HalfErased, Under
        <5> QED BY <1>t, <4>2, <5>1, ErasingIs
      <4> QED BY <4>1, <4>2
    <3> HIDE DEF h
    <3>3. ToWrite(g, h, A, d, p, m, 0, b)
      BY <1>t, <2>p, <3>2 DEF ToWrite, Same
    <3>4. Stands(h, g, A, d, p, s, m, 0, b)
      BY <1>0, <3>1, <1>5, <3>3 DEF Stands
    <3> QED BY <1>2, <1>3, <3>4
  <2> QED BY <2>2, <2>3
<1> QED BY <1>4, <1>5

\* A report that is not about to be erased is in the flash as it is in the ring.
LEMMA InFlash ==
    ASSUME NEW f, NEW g, NEW A, NEW c, NEW p, NEW m, NEW e, NEW b, Store(f, A, c, p, m, e, b),
           NEW j \in Slots, f[j].ok, Age(p, j) < max_count - PerSector,
           Same(g[j], f[j]) \/ TornAt(g, p, j) \/ (j = p /\ f[p] = Blank)
    PROVE  g[j] = f[j]
<1>t. p \in Slots
  BY StoreTypes
<1>1. ~ TornAt(g, p, j)
  <2> SUFFICES ASSUME Under(p, j) PROVE FALSE
    BY DEF TornAt
  <2>1. Age(p, j) >= max_count - PerSector /\ Age(p, j) \in 0 .. max_count - 1
    BY <1>t, UnderIs, AgeIs
  <2> QED BY <2>1, Numbers
<1>2. ~ (j = p /\ f[p] = Blank)
  BY DEF Blank
<1> QED BY <1>1, <1>2 DEF Same

LEMMA KeptInFlash ==
    ASSUME NEW f, NEW g, NEW A, NEW c, NEW p, NEW m, NEW e, NEW b, Store(f, A, c, p, m, e, b),
           \A j \in Slots : Same(g[j], f[j]) \/ TornAt(g, p, j) \/ (j = p /\ f[p] = Blank)
    PROVE  Keep(g, A, b)
<1> SUFFICES ASSUME NEW n \in A, ~ (b - n >= max_count - PerSector)
             PROVE  \E i \in Slots : g[i].ok /\ g[i].num = n
  BY DEF Keep
<1>1. PICK i \in Slots : f[i].ok /\ f[i].num = n
  BY DEF Store, Keep
<1>t. p \in Slots /\ b \in Nat /\ e \in {0, 1} /\ n \in Nat
  BY StoreTypes
<1>2. f[i].num + Age(p, i) + e <= b
  BY <1>1 DEF Store, Ring, Numbered
<1>3. Age(p, i) \in 0 .. max_count - 1
  BY <1>t, AgeIs
<1>4. Age(p, i) < max_count - PerSector
  BY <1>t, <1>1, <1>2, <1>3, Numbers
<1>5. g[i] = f[i]
  BY <1>1, <1>4, InFlash
<1> QED BY <1>1, <1>5

LEMMA StandsSlot ==
    ASSUME NEW f, NEW g, NEW A, NEW c, NEW p, NEW s, NEW m, NEW e, NEW b,
           Stands(f, g, A, c, p, s, m, e, b), NEW j \in Slots
    PROVE  Same(g[j], f[j]) \/ TornAt(g, p, j) \/ (j = p /\ f[p] = Blank)
  BY DEF Stands, ToErase, ToWrite

LEMMA StandsKeep ==
    ASSUME NEW f, NEW g, NEW A, NEW c, NEW p, NEW s, NEW m, NEW e, NEW b,
           Stands(f, g, A, c, p, s, m, e, b)
    PROVE  Keep(g, A, b)
<1>1. Store(f, A, c, p, m, e, b)
  BY DEF Stands
<1>2. \A j \in Slots : Same(g[j], f[j]) \/ TornAt(g, p, j) \/ (j = p /\ f[p] = Blank)
  BY StandsSlot
<1> QED BY <1>1, <1>2, KeptInFlash

LEMMA CoversKeep ==
    ASSUME NEW f, NEW g, NEW A, NEW c, NEW p, NEW m, NEW b, Covers(f, g, A, c, p, m, b)
    PROVE  Keep(g, A, b)
<1>1. Store(f, A, c, p, m, 0, b)
  BY DEF Covers
<1>2. \A j \in Slots : Same(g[j], f[j]) \/ TornAt(g, p, j) \/ (j = p /\ f[p] = Blank)
  BY DEF Covers, Cover
<1> QED BY <1>1, <1>2, KeptInFlash

LEMMA StandsTop ==
    ASSUME FewerThanRing, NEW f, NEW g, NEW A, NEW c, NEW p, NEW s, NEW m, NEW e, NEW b,
           Stands(f, g, A, c, p, s, m, e, b), m <= MaxMishaps
    PROVE  Top(g, A, p, m)
<1> SUFFICES ASSUME A # {} PROVE Top(g, A, p, m)
  BY DEF Top
<1>0. Store(f, A, c, p, m, e, b)
  BY DEF Stands
<1>t. p \in Slots /\ m \in Nat
  BY <1>0, StoreTypes
<1>1. PICK j \in Slots : /\ f[j].ok /\ (\A n \in A : n <= f[j].num)
                         /\ Age(p, j) <= m
                         /\ \A k \in Slots : Age(p, k) < Age(p, j) => ~ f[k].ok
  BY <1>0 DEF Store, Top
<1>a. \A k \in Slots : Age(p, k) \in 0 .. max_count - 1
  BY <1>t, AgeIs
<1>2. Age(p, j) < max_count - PerSector
  BY <1>t, <1>1, <1>a, Numbers DEF FewerThanRing
<1>3. g[j] = f[j]
  BY <1>0, <1>1, <1>2, InFlash, StandsSlot
<1>4. \A k \in Slots : Age(p, k) < Age(p, j) => ~ g[k].ok
  <2> SUFFICES ASSUME NEW k \in Slots, Age(p, k) < Age(p, j) PROVE ~ g[k].ok
    OBVIOUS
  <2>1. ~ f[k].ok
    BY <1>1
  <2>2. k # p
    <3>1. Age(p, p) = max_count - 1
      BY <1>t, AgeIs
    <3> QED BY <3>1, <1>a, Numbers
  <2>3. Same(g[k], f[k]) \/ TornAt(g, p, k)
    BY <2>2, StandsSlot
  <2> QED BY <2>1, <2>3 DEF Same, TornAt, Twice
<1> QED BY <1>1, <1>3, <1>4 DEF Top

-----------------------------------------------------------------------------
(* The invariant.  Of a type whose boots were ordinary, a ring stands at    *)
(* the write index, or, with the power off, where it stood.                *)

InSave(t) == op.pc \in Steps /\ op.type = t
Pending(t) == IF InSave(t) THEN 1 ELSE 0

EraseFirst(t) == InSave(t) => (op.pc = "erase" <=> MustErase(t))

ReadAt(t) ==
    FewerThanRing /\ Sound(t) # {} =>
       ram[t].read_idx \in Slots /\ NextSlot(ram[t].read_idx) = ram[t].write_idx

StandsAt(t, e) ==
    \E f : Stands(f, flash[t], Sound(t), ram[t].report_new_cnt, ram[t].write_idx,
                  ram[t].last_erase_sectorID, mishaps, e, begun[t])

Running(t) == StandsAt(t, Pending(t)) /\ EraseFirst(t) /\ ReadAt(t)
Down(t) ==
    \E f, p : Covers(f, flash[t], Sound(t), ram[t].report_new_cnt, p, mishaps, begun[t])

StoreInv ==
    /\ TypeOK
    /\ mishaps <= MaxMishaps
    /\ \A t \in Types : ordinary[t] => IF op = Off THEN Down(t) ELSE Running(t)

\* What a step leaves alone stays in order.
LEMMA LeftAlone ==
    ASSUME NEW u \in Types, Running(u), ~ InSave(u), ~ InSave(u)',
           flash[u]' = flash[u], acked[u]' = acked[u], marred[u]' = marred[u], ram[u]' = ram[u],
           mishaps' = mishaps, begun[u]' = begun[u]
    PROVE  Running(u)'
<1>1. Pending(u) = 0 /\ Pending(u)' = 0 /\ Sound(u)' = Sound(u)
  BY DEF Pending, Sound
<1>2. StandsAt(u, 0)
  BY <1>1 DEF Running
<1>3. StandsAt(u, 0)'
  BY <1>1, <1>2 DEF StandsAt
<1>4. EraseFirst(u)' /\ ReadAt(u)'
  BY <1>1 DEF Running, EraseFirst, ReadAt
<1> QED BY <1>1, <1>3, <1>4 DEF Running

LEMMA StoreInvSaveBegin ==
    ASSUME FewMishaps, StoreInv, TypeOK', NEW t \in Types, SaveBegin(t)
    PROVE  StoreInv'
<1>t. op \in Ops /\ record \in [Types -> 0 .. NoSector] /\ ram \in [Types -> Regions]
      /\ begun \in [Types -> Nat] /\ mishaps <= MaxMishaps
  BY DEF StoreInv, TypeOK
<1> DEFINE pc == IF MustErase(t) THEN "erase" ELSE "write"
<1>1. op = Idle /\ op # Off /\ op.pc \notin Steps
  BY OpIs DEF SaveBegin
<1>2. op'.pc = pc /\ op'.type = t /\ op' # Off /\ op'.pc \in Steps
  <2>1. pc \in Steps
    BY DEF Steps
  <2>2. op' = Saving(pc, t, record)
    BY DEF SaveBegin
  <2> HIDE DEF pc
  <2>3. op'.pc = pc /\ op'.type = t
    BY <1>t, <2>1, <2>2, OpIs
  <2>4. op' # Off
    BY <2>1, <2>3, OpIs
  <2> QED BY <2>1, <2>3, <2>4
<1>3. ASSUME NEW u \in Types, ordinary[u]' PROVE Running(u)'
  <2>1. Running(u)
    BY <1>1, <1>3 DEF StoreInv, SaveBegin
  <2>2. CASE u # t
    <3>1. ~ InSave(u) /\ ~ InSave(u)'
      BY <1>1, <1>2, <2>2 DEF InSave
    <3>2. flash[u]' = flash[u] /\ acked[u]' = acked[u] /\ marred[u]' = marred[u] /\ mishaps' = mishaps
      BY DEF SaveBegin
    <3>3. ram[u]' = ram[u] /\ begun[u]' = begun[u]
      BY <1>t, <2>2 DEF SaveBegin
    <3> QED BY <2>1, <3>1, <3>2, <3>3, LeftAlone
  <2>3. CASE u = t
    <3>1. Pending(t) = 0 /\ Pending(t)' = 1
      BY <1>1, <1>2 DEF InSave, Pending
    <3>2. flash' = flash /\ acked' = acked /\ marred' = marred /\ mishaps' = mishaps /\ Sound(t)' = Sound(t)
      BY DEF SaveBegin, Sound
    <3>3. ram[t] \in Regions
      BY <1>t
    <3>4. /\ ram'[t].write_idx = ram[t].write_idx /\ ram'[t].read_idx = ram[t].read_idx
          /\ ram'[t].last_erase_sectorID = ram[t].last_erase_sectorID
          /\ ram'[t].report_new_cnt = (ram[t].report_new_cnt + 1) % (CntMax + 1)
          /\ begun'[t] = begun[t] + 1
      <4> DEFINE n == (ram[t].report_new_cnt + 1) % (CntMax + 1)
      <4>1. ram' = [ram EXCEPT ![t] = [@ EXCEPT !.report_new_cnt = n]]
        BY <1>t DEF SaveBegin
      <4>2. begun'[t] = begun[t] + 1
        BY <1>t DEF SaveBegin
      <4> HIDE DEF n
      <4>3. ram'[t] = [ram[t] EXCEPT !.report_new_cnt = n]
        BY <1>t, <4>1
      <4>4. /\ ram'[t].write_idx = ram[t].write_idx /\ ram'[t].read_idx = ram[t].read_idx
            /\ ram'[t].last_erase_sectorID = ram[t].last_erase_sectorID
            /\ ram'[t].report_new_cnt = n
        BY <3>3, <4>3 DEF Regions
      <4> QED BY <4>2, <4>4 DEF n
    <3>5. PICK f : Stands(f, flash[t], Sound(t), ram[t].report_new_cnt, ram[t].write_idx,
                          ram[t].last_erase_sectorID, mishaps, 0, begun[t])
      BY <2>1, <2>3, <3>1 DEF Running, StandsAt
    <3>6. Stands(f, flash[t], Sound(t), (ram[t].report_new_cnt + 1) % (CntMax + 1), ram[t].write_idx,
                 ram[t].last_erase_sectorID, mishaps, 1, begun[t] + 1)
      BY <1>t, <3>5, StandsSave
    <3>7. StandsAt(t, 1)'
      BY <3>2, <3>4, <3>6 DEF StandsAt
    <3>8. EraseFirst(t)'
      <4>1. MustErase(t)' = MustErase(t)
        BY <3>4 DEF Target, MustErase
      <4> QED BY <1>2, <4>1 DEF EraseFirst
    <3>9. ReadAt(t)'
      BY <2>1, <2>3, <3>2, <3>4 DEF Running, ReadAt
    <3> QED BY <2>3, <3>1, <3>7, <3>8, <3>9 DEF Running
  <2> QED BY <2>2, <2>3
<1> QED BY <1>t, <1>2, <1>3 DEF StoreInv, SaveBegin

\* A save under way is of a type, and of no other.
LEMMA TheSave ==
    ASSUME StoreInv, op.pc \in Steps
    PROVE  /\ op.type \in Types /\ op.copy \in [Types -> 0 .. NoSector] /\ op # Off
           /\ InSave(op.type) /\ Pending(op.type) = 1
           /\ \A u \in Types : u # op.type => ~ InSave(u)
           /\ ram[op.type] \in Regions /\ ram[op.type].write_idx \in Slots
           /\ ram[op.type].report_new_cnt \in Counters /\ flash[op.type] \in [Slots -> Contents]
           /\ begun[op.type] \in Nat
<1>t. op \in Ops /\ ram \in [Types -> Regions] /\ flash \in [Types -> [Slots -> Contents]]
      /\ begun \in [Types -> Nat]
  BY DEF StoreInv, TypeOK
<1>1. op.type \in Types /\ op.copy \in [Types -> 0 .. NoSector] /\ op # Off
  BY <1>t, OpIs
<1>2. InSave(op.type) /\ \A u \in Types : u # op.type => ~ InSave(u)
  BY DEF InSave
<1>3. ram[op.type] \in Regions
  BY <1>t, <1>1
<1>4. ram[op.type].write_idx \in Slots /\ ram[op.type].report_new_cnt \in Counters
  BY <1>3, RegionIs
<1> QED BY <1>t, <1>1, <1>2, <1>3, <1>4 DEF Pending

LEMMA StoreInvEraseSector ==
    ASSUME StoreInv, TypeOK', EraseSector
    PROVE  StoreInv'
<1>r. PICK t, w : t = op.type /\ w = ram[t].write_idx
  OBVIOUS
<1>0. op.pc = "erase" /\ op.pc \in Steps
  BY DEF EraseSector, Steps
<1>1. /\ t \in Types /\ op.copy \in [Types -> 0 .. NoSector] /\ op # Off
      /\ InSave(t) /\ Pending(t) = 1 /\ (\A u \in Types : u # t => ~ InSave(u))
      /\ ram[t] \in Regions /\ w \in Slots
  BY <1>0, <1>r, TheSave
<1>t. ram \in [Types -> Regions] /\ flash \in [Types -> [Slots -> Contents]] /\ mishaps <= MaxMishaps
  BY DEF StoreInv, TypeOK
<1>2. op'.pc = "erase_record" /\ op'.type = t /\ op'.pc \in Steps /\ op' # Off
  <2>1. "erase_record" \in Steps
    BY DEF Steps
  <2>2. op' = Saving("erase_record", t, op.copy)
    BY <1>r DEF EraseSector
  <2>3. op'.pc = "erase_record" /\ op'.type = t
    BY <1>1, <2>1, <2>2, OpIs
  <2> QED BY <2>1, <2>3, OpIs
<1>3. InSave(t)' /\ Pending(t)' = 1 /\ (\A u \in Types : u # t => ~ InSave(u)')
  BY <1>2, <1>r DEF InSave, Pending
<1>4. /\ flash' = [flash EXCEPT ![t] = Erasing(flash[t], w)]
      /\ ram' = [ram EXCEPT ![t] = [@ EXCEPT !.last_erase_sectorID = Target(t)]]
  BY <1>t, <1>1, <1>r DEF EraseSector, Erasing, Target
<1>5. /\ acked' = acked /\ marred' = marred /\ begun' = begun /\ mishaps' = mishaps
      /\ ordinary' = ordinary
  BY DEF EraseSector
<1>6. ASSUME NEW u \in Types, ordinary[u]' PROVE Running(u)'
  <2>1. Running(u)
    BY <1>1, <1>5, <1>6 DEF StoreInv
  <2>2. CASE u # t
    <3>1. flash[u]' = flash[u] /\ ram[u]' = ram[u]
      BY <1>t, <1>4, <2>2
    <3> QED BY <1>1, <1>3, <1>5, <2>1, <2>2, <3>1, LeftAlone
  <2>3. CASE u = t
    <3>1. flash'[t] = Erasing(flash[t], w)
      BY <1>t, <1>1, <1>4
    <3>2. ram'[t] = [ram[t] EXCEPT !.last_erase_sectorID = Target(t)]
      BY <1>t, <1>1, <1>4
    <3>3. /\ ram'[t].write_idx = w /\ ram'[t].read_idx = ram[t].read_idx
          /\ ram'[t].last_erase_sectorID = SectorOf(w)
          /\ ram'[t].report_new_cnt = ram[t].report_new_cnt
      BY <1>1, <1>r, <3>2 DEF Regions, Target
    <3>4. PICK f : Stands(f, flash[t], Sound(t), ram[t].report_new_cnt, w,
                          ram[t].last_erase_sectorID, mishaps, 1, begun[t])
      BY <1>1, <1>r, <2>1, <2>3 DEF Running, StandsAt
    <3>5. SectorOf(w) # ram[t].last_erase_sectorID
      BY <1>0, <1>1, <2>1, <2>3, <1>r DEF Running, EraseFirst, MustErase, Target
    <3>6. Stands(Erasing(f, w), Erasing(flash[t], w), Sound(t), ram[t].report_new_cnt, w,
                 SectorOf(w), mishaps, 1, begun[t])
      BY <1>t, <3>4, <3>5, StandsErase
    <3>s. Sound(t)' = Sound(t)
      BY <1>5 DEF Sound
    <3>7. StandsAt(t, 1)'
      BY <1>5, <3>1, <3>3, <3>6, <3>s DEF StandsAt
    <3>8. EraseFirst(t)'
      <4>1. op'.pc # "erase" /\ ~ MustErase(t)'
        BY <1>2, <3>3 DEF MustErase, Target
      <4> QED BY <4>1 DEF EraseFirst
    <3>9. ReadAt(t)'
      BY <1>r, <2>1, <2>3, <3>3, <3>s DEF Running, ReadAt
    <3> QED BY <1>3, <2>3, <3>7, <3>8, <3>9 DEF Running
  <2> QED BY <2>2, <2>3
<1> QED BY <1>t, <1>2, <1>5, <1>6 DEF StoreInv

\* The record of the sectors erased is of no matter while the power is on.
LEMMA StoreInvRecord ==
    ASSUME StoreInv, TypeOK', op.pc \in {"erase_record", "write_record"},
           op'.pc \in Steps \ {"erase"}, op'.type = op.type,
           UNCHANGED <<flash, ram, begun, acked, marred, mishaps, ordinary>>
    PROVE  StoreInv'
<1>r. PICK t : t = op.type
  OBVIOUS
<1>0. op.pc \in Steps /\ op.pc # "erase"
  BY DEF Steps
<1>1. t \in Types /\ op # Off /\ InSave(t) /\ Pending(t) = 1 /\ (\A u \in Types : u # t => ~ InSave(u))
  BY <1>0, <1>r, TheSave
<1>2. op' # Off /\ InSave(t)' /\ Pending(t)' = 1 /\ (\A u \in Types : u # t => ~ InSave(u)')
  <2>1. op' # Off
    BY OpIs
  <2> QED BY <1>r, <2>1 DEF InSave, Pending
<1>3. ASSUME NEW u \in Types, ordinary[u]' PROVE Running(u)'
  <2>1. Running(u)
    BY <1>1, <1>3 DEF StoreInv
  <2>2. CASE u # t
    BY <1>1, <1>2, <2>1, <2>2, LeftAlone
  <2>3. CASE u = t
    <3>1. Sound(t)' = Sound(t) /\ MustErase(t)' = MustErase(t)
      BY DEF Target, MustErase, Sound
    <3>2. StandsAt(t, 1)
      BY <1>1, <2>1, <2>3 DEF Running
    <3>3. StandsAt(t, 1)'
      BY <3>1, <3>2 DEF StandsAt
    <3>4. EraseFirst(t)' /\ ReadAt(t)'
      BY <1>0, <1>1, <1>r, <2>1, <2>3, <3>1 DEF Running, EraseFirst, ReadAt
    <3> QED BY <1>2, <2>3, <3>3, <3>4 DEF Running
  <2> QED BY <2>2, <2>3
<1> QED BY <1>2, <1>3 DEF StoreInv

LEMMA StoreInvWriteReport ==
    ASSUME StoreInv, TypeOK', WriteReport
    PROVE  StoreInv'
<1>r. PICK t, w : t = op.type /\ w = ram[t].write_idx
  OBVIOUS
<1>0. op.pc = "write" /\ op.pc \in Steps /\ op.pc # "erase"
  BY DEF WriteReport, Steps
<1>1. /\ t \in Types /\ op # Off
      /\ InSave(t) /\ Pending(t) = 1 /\ (\A u \in Types : u # t => ~ InSave(u))
      /\ ram[t] \in Regions /\ w \in Slots /\ flash[t] \in [Slots -> Contents]
  BY <1>0, <1>r, TheSave
<1>t. /\ ram \in [Types -> Regions] /\ flash \in [Types -> [Slots -> Contents]]
      /\ acked \in [Types -> SUBSET Nat] /\ marred \in [Types -> SUBSET Nat] /\ mishaps <= MaxMishaps
  BY DEF StoreInv, TypeOK
<1>2. op' = Idle /\ op' # Off /\ op'.pc \notin Steps
  BY OpIs DEF WriteReport
<1>3. Pending(t)' = 0 /\ (\A u \in Types : ~ InSave(u)')
  BY <1>2, <1>r DEF InSave, Pending
<1> DEFINE new == Programmed(flash[t][w], Report(ram[t].report_new_cnt, begun[t]), begun[t])
           n == begun[t]
<1>4. /\ flash' = [flash EXCEPT ![t] = [flash[t] EXCEPT ![w] = new]]
      /\ ram' = [ram EXCEPT ![t] = [ram[t] EXCEPT !.read_idx = w, !.write_idx = NextSlot(w)]]
      /\ acked' = [acked EXCEPT ![t] = acked[t] \cup {n}]
      /\ marred' = [marred EXCEPT ![t] = IF flash[t][w] = Blank THEN marred[t] ELSE marred[t] \cup {n}]
  BY <1>t, <1>1, <1>r DEF WriteReport
<1>5. /\ begun' = begun /\ mishaps' = mishaps /\ ordinary' = ordinary
  BY DEF WriteReport
<1> HIDE DEF new, n
<1>6. ASSUME NEW u \in Types, ordinary[u]' PROVE Running(u)'
  <2>1. Running(u)
    BY <1>1, <1>5, <1>6 DEF StoreInv
  <2>2. CASE u # t
    <3>1. /\ flash[u]' = flash[u] /\ ram[u]' = ram[u] /\ acked[u]' = acked[u]
          /\ marred[u]' = marred[u]
      BY <1>t, <1>4, <2>2
    <3> QED BY <1>1, <1>3, <1>5, <2>1, <2>2, <3>1, LeftAlone
  <2>3. CASE u = t
    <3>1. SectorOf(w) = ram[t].last_erase_sectorID
      BY <1>0, <1>1, <2>1, <2>3, <1>r DEF Running, EraseFirst, MustErase, Target
    <3>2. flash'[t] = [flash[t] EXCEPT ![w] = new]
      BY <1>t, <1>1, <1>4
    <3>3. /\ ram'[t] = [ram[t] EXCEPT !.read_idx = w, !.write_idx = NextSlot(w)]
          /\ acked'[t] = acked[t] \cup {n}
          /\ marred'[t] = IF flash[t][w] = Blank THEN marred[t] ELSE marred[t] \cup {n}
      BY <1>t, <1>1, <1>4
    <3>4. /\ ram'[t].write_idx = NextSlot(w) /\ ram'[t].read_idx = w
          /\ ram'[t].last_erase_sectorID = ram[t].last_erase_sectorID
          /\ ram'[t].report_new_cnt = ram[t].report_new_cnt
      BY <1>1, <3>3 DEF Regions
    <3>5. PICK f : Stands(f, flash[t], Sound(t), ram[t].report_new_cnt, w,
                          ram[t].last_erase_sectorID, mishaps, 1, n)
      BY <1>1, <1>r, <2>1, <2>3 DEF Running, StandsAt, n
    <3> DEFINE A == IF flash[t][w] = Blank THEN Sound(t) \cup {n} ELSE Sound(t)
    <3>6. \E h : Stands(h, [flash[t] EXCEPT ![w] = new], A, ram[t].report_new_cnt, NextSlot(w),
                        ram[t].last_erase_sectorID, mishaps, 0, n)
      BY <3>1, <3>5, StandsWrite DEF new, n
    <3>s. Sound(t)' \in SUBSET A
      BY <3>3 DEF Sound
    <3> HIDE DEF A
    <3>b. PICK B : B = Sound(t)'
      OBVIOUS
    <3>7. \E h : Stands(h, [flash[t] EXCEPT ![w] = new], B, ram[t].report_new_cnt, NextSlot(w),
                        ram[t].last_erase_sectorID, mishaps, 0, n)
      BY <3>6, <3>b, <3>s, StandsFewer
    <3>8. StandsAt(t, 0)'
      BY <1>5, <3>2, <3>4, <3>7, <3>b DEF StandsAt, n
    <3>9. EraseFirst(t)' /\ ReadAt(t)'
      BY <1>1, <1>3, <3>4 DEF EraseFirst, ReadAt
    <3> QED BY <1>3, <2>3, <3>8, <3>9 DEF Running
  <2> QED BY <2>2, <2>3
<1> QED BY <1>t, <1>2, <1>5, <1>6 DEF StoreInv

\* A flash operation that is not seen through is a mishap, and no more.
LEMMA CutOffStands ==
    ASSUME StoreInv, op.pc \in Steps, CutOff, mishaps' = mishaps + 1,
           UNCHANGED <<ram, begun, acked, marred>>,
           NEW u \in Types, Running(u)
    PROVE  StandsAt(u, 0)'
<1>r. PICK t, w : t = op.type /\ w = ram[t].write_idx
  OBVIOUS
<1>1. /\ t \in Types /\ InSave(t) /\ Pending(t) = 1 /\ (\A v \in Types : v # t => ~ InSave(v))
      /\ w \in Slots
  BY <1>r, TheSave
<1>t. flash \in [Types -> [Slots -> Contents]] /\ flash' \in [Types -> [Slots -> Contents]]
      /\ \A v \in Types : begun[v] \in Nat
  BY CutOffType DEF StoreInv, TypeOK
<1>s. Sound(u)' = Sound(u) /\ ram' = ram /\ begun' = begun
  BY DEF Sound
<1>2. CASE flash'[u] = flash[u]
  <2>1. PICK f, e : Stands(f, flash[u], Sound(u), ram[u].report_new_cnt, ram[u].write_idx,
                           ram[u].last_erase_sectorID, mishaps, e, begun[u])
    BY DEF Running, StandsAt
  <2>2. Stands(f, flash[u], Sound(u), ram[u].report_new_cnt, ram[u].write_idx,
               ram[u].last_erase_sectorID, mishaps + 1, 0, begun[u])
    BY <2>1, StandsMishap
  <2> QED BY <1>2, <1>s, <2>2 DEF StandsAt
<1>3. CASE u # t
  <2>1. flash'[u] = flash[u]
    BY <1>1, <1>r, <1>t, <1>3 DEF CutOff
  <2> QED BY <1>2, <2>1
<1>4. CASE u = t
  <2>1. PICK f : Stands(f, flash[t], Sound(t), ram[t].report_new_cnt, w,
                        ram[t].last_erase_sectorID, mishaps, 1, begun[t])
    BY <1>1, <1>4, <1>r DEF Running, StandsAt
  <2>2. op.pc = "erase" <=> SectorOf(w) # ram[t].last_erase_sectorID
    BY <1>1, <1>4, <1>r DEF Running, EraseFirst, MustErase, Target
  <2>3. CASE UNCHANGED flash
    BY <1>2, <1>4, <2>3
  <2>4. CASE /\ op.pc = "erase"
             /\ \E part :
                   flash' = [flash EXCEPT ![t] =
                               [j \in Slots |-> IF SectorOf(j) # SectorOf(w) \/ part[j] = "old" THEN @[j]
                                                ELSE IF part[j] = "blank" THEN Blank
                                                ELSE Scrap(@[j].idx)]]
    <3>1. PICK part :
                   flash' = [flash EXCEPT ![t] =
                               [j \in Slots |-> IF SectorOf(j) # SectorOf(w) \/ part[j] = "old" THEN @[j]
                                                ELSE IF part[j] = "blank" THEN Blank
                                                ELSE Scrap(@[j].idx)]]
      BY <2>4
    <3> DEFINE g == [j \in Slots |-> IF SectorOf(j) # SectorOf(w) \/ part[j] = "old" THEN flash[t][j]
                                     ELSE IF part[j] = "blank" THEN Blank
                                     ELSE Scrap(flash[t][j].idx)]
    <3>2. flash' = [flash EXCEPT ![t] = g]
      BY <3>1, <1>1, <1>t
    <3>3. \A j \in Slots : \/ g[j] = flash[t][j]
                           \/ SectorOf(j) = SectorOf(w) /\ g[j].flag = "erased" /\ ~ g[j].ok
      BY DEF Blank, Scrap
    <3> HIDE DEF g
    <3>4. flash'[t] = g /\ g \in [Slots -> Contents]
      BY <1>1, <1>t, <3>2
    <3>5. Stands(f, g, Sound(t), ram[t].report_new_cnt, w,
                 ram[t].last_erase_sectorID, mishaps, 1, begun[t])
      BY <2>1, <2>2, <2>4, <3>3, <3>4, StandsCutErase
    <3>6. Stands(f, g, Sound(t), ram[t].report_new_cnt, w,
                 ram[t].last_erase_sectorID, mishaps + 1, 0, begun[t])
      BY <3>5, StandsMishap
    <3> QED BY <1>4, <1>r, <1>s, <3>4, <3>6 DEF StandsAt
  <2>5. CASE /\ op.pc = "write"
             /\ \E c \in Parts(ram[t].report_new_cnt, begun[t]) :
                   flash' = [flash EXCEPT ![t][w] = Programmed(@, c, begun[t])]
    <3>1. PICK y \in Parts(ram[t].report_new_cnt, begun[t]) :
                   flash' = [flash EXCEPT ![t][w] = Programmed(@, y, begun[t])]
      BY <2>5
    <3>2. flash'[t] = [flash[t] EXCEPT ![w] = Programmed(@, y, begun[t])]
      BY <1>1, <1>t, <3>1
    <3>3. Stands(f, [flash[t] EXCEPT ![w] = Programmed(@, y, begun[t])], Sound(t),
                 ram[t].report_new_cnt, w, ram[t].last_erase_sectorID, mishaps + 1, 0, begun[t])
      BY <2>1, <2>2, <2>5, <3>1, StandsCutWrite
    <3> QED BY <1>4, <1>r, <1>s, <3>2, <3>3 DEF StandsAt
  <2>6. t = op.type /\ Target(t) = SectorOf(w)
    BY <1>r DEF Target
  <2>7. \/ UNCHANGED flash
        \/ op.pc = "erase"
        \/ op.pc = "write"
    BY DEF CutOff
  <2>8. CASE op.pc = "erase"
    <3>1. CASE ~ UNCHANGED flash
      <4>1. PICK part :
               flash' = [flash EXCEPT ![op.type] =
                           [j \in Slots |-> IF SectorOf(j) # Target(op.type) \/ part[j] = "old" THEN @[j]
                                            ELSE IF part[j] = "blank" THEN Blank
                                            ELSE Scrap(@[j].idx)]]
        BY <2>8, <3>1 DEF CutOff
      <4>2. op.type = t /\ Target(op.type) = SectorOf(w)
        BY <2>6
      <4>3. flash' = [flash EXCEPT ![t] =
                        [j \in Slots |-> IF SectorOf(j) # SectorOf(w) \/ part[j] = "old" THEN @[j]
                                         ELSE IF part[j] = "blank" THEN Blank
                                         ELSE Scrap(@[j].idx)]]
        BY <4>1, <4>2
      <4> QED BY <2>4, <2>8, <4>3
    <3> QED BY <2>3, <3>1
  <2>9. CASE op.pc = "write"
    <3>1. CASE ~ UNCHANGED flash
      BY <1>r, <2>5, <2>9, <3>1 DEF CutOff
    <3> QED BY <2>3, <3>1
  <2> QED BY <2>3, <2>7, <2>8, <2>9
<1> QED BY <1>3, <1>4

LEMMA StoreInvFlashError ==
    ASSUME StoreInv, TypeOK', FlashError
    PROVE  StoreInv'
<1>0. op.pc \in Steps /\ CutOff /\ mishaps < MaxMishaps /\ mishaps' = mishaps + 1
  BY DEF FlashError, Steps
<1>1. op # Off
  BY <1>0, TheSave
<1>2. op' = Idle /\ op' # Off /\ op'.pc \notin Steps
  BY OpIs DEF FlashError
<1>3. \A u \in Types : ~ InSave(u)' /\ Pending(u)' = 0
  BY <1>2 DEF InSave, Pending
<1>4. ram' = ram /\ begun' = begun /\ acked' = acked /\ marred' = marred /\ ordinary' = ordinary
  BY DEF FlashError
<1>5. ASSUME NEW u \in Types, ordinary[u]' PROVE Running(u)'
  <2>1. Running(u)
    BY <1>1, <1>4, <1>5 DEF StoreInv
  <2>2. StandsAt(u, 0)'
    BY <1>0, <1>4, <2>1, CutOffStands
  <2>3. Sound(u)' = Sound(u)
    BY <1>4 DEF Sound
  <2>4. EraseFirst(u)' /\ ReadAt(u)'
    BY <1>3, <1>4, <2>1, <2>3 DEF Running, EraseFirst, ReadAt
  <2> QED BY <1>3, <2>2, <2>4 DEF Running
<1>6. mishaps' <= MaxMishaps
  BY <1>0, Numbers DEF StoreInv, TypeOK
<1> QED BY <1>2, <1>5, <1>6 DEF StoreInv

LEMMA StoreInvPowerFail ==
    ASSUME StoreInv, TypeOK', PowerFail
    PROVE  StoreInv'
<1>0. mishaps < MaxMishaps /\ mishaps' = mishaps + 1 /\ op' = Off
      /\ ram' = ram /\ begun' = begun /\ acked' = acked /\ marred' = marred /\ ordinary' = ordinary
  BY DEF PowerFail
<1>t. op \in Ops /\ mishaps \in Nat
  BY DEF StoreInv, TypeOK
<1>1. op # Off
  BY OpIs DEF PowerFail
<1>2. ASSUME NEW u \in Types, ordinary[u]' PROVE Down(u)'
  <2>1. Running(u)
    BY <1>0, <1>1, <1>2 DEF StoreInv
  <2>2. StandsAt(u, 0)'
    <3>1. CASE op = Idle /\ UNCHANGED <<flash, record>>
      <4>1. Pending(u) = 0 /\ Sound(u)' = Sound(u)
        BY <1>0, <3>1, OpIs DEF Pending, InSave, Sound
      <4>2. PICK f : Stands(f, flash[u], Sound(u), ram[u].report_new_cnt, ram[u].write_idx,
                            ram[u].last_erase_sectorID, mishaps, 0, begun[u])
        BY <2>1, <4>1 DEF Running, StandsAt
      <4>3. Stands(f, flash[u], Sound(u), ram[u].report_new_cnt, ram[u].write_idx,
                   ram[u].last_erase_sectorID, mishaps + 1, 0, begun[u])
        BY <4>2, StandsMishap
      <4> QED BY <1>0, <3>1, <4>1, <4>3 DEF StandsAt
    <3>2. CASE op \notin {Idle, Off} /\ CutOff
      <4>1. op.pc \in Steps
        BY <1>t, <3>2, OpIs
      <4> QED BY <1>0, <2>1, <3>2, <4>1, CutOffStands
    <3> QED BY <3>1, <3>2 DEF PowerFail
  <2>3. PICK f : Stands(f, flash'[u], Sound(u)', ram'[u].report_new_cnt, ram'[u].write_idx,
                        ram'[u].last_erase_sectorID, mishaps', 0, begun'[u])
    BY <2>2 DEF StandsAt
  <2>4. \E h, q : Covers(h, flash'[u], Sound(u)', ram'[u].report_new_cnt, q, mishaps', begun'[u])
    BY <2>3, StandsCovers
  <2> QED BY <2>4 DEF Down
<1>3. mishaps' <= MaxMishaps
  BY <1>0, <1>t, Numbers
<1> QED BY <1>0, <1>2, <1>3 DEF StoreInv

LEMMA StoreInvBoot ==
    ASSUME FewMishaps, StoreInv, TypeOK', report_init
    PROVE  StoreInv'
<1>0. /\ op = Off /\ op' = Idle /\ flash' = flash /\ record' = record /\ begun' = begun
      /\ acked' = acked /\ marred' = marred /\ mishaps' = mishaps
  BY DEF report_init
<1>1. op' # Off /\ op'.pc \notin Steps
  BY <1>0, OpIs
<1>2. \A u \in Types : ~ InSave(u)' /\ Pending(u)' = 0
  BY <1>1 DEF InSave, Pending
<1>m. mishaps <= MaxMishaps
  BY DEF StoreInv
<1>3. ASSUME NEW u \in Types, ordinary[u]' PROVE Running(u)'
  <2>1. /\ ordinary[u] /\ ~ WrittenToTheEnd(flash[u]) /\ ~ PastHalf(flash[u])
        /\ ~ ZeroInside(flash[u]) /\ ~ WrapInside(flash[u]) /\ ~ ProgrammedTwice(flash[u])
        /\ ~ RecordWrong(u)
    BY <1>3 DEF report_init
  <2>2. /\ ram'[u].report_new_cnt = find_report_new_index(flash[u]).report_new_cnt
        /\ ram'[u].write_idx = find_report_new_index(flash[u]).write_idx
        /\ ram'[u].read_idx = find_report_new_index(flash[u]).read_idx
        /\ ram'[u].last_erase_sectorID = record[u]
    BY DEF report_init
  <2>3. PICK f, p : Covers(f, flash[u], Sound(u), ram[u].report_new_cnt, p, mishaps, begun[u])
    BY <1>0, <2>1 DEF StoreInv, Down
  <2>w. PICK w : w = find_report_new_index(flash[u]).write_idx
    OBVIOUS
  <2>4. IF record[u] = SectorOf(w)
        THEN \A i \in Slots : SectorOf(i) = SectorOf(w) /\ w <= i => flash[u][i] = Blank
        ELSE w % PerSector = 0
    BY <2>1, <2>w DEF RecordWrong
  <2>5. /\ \E h : Stands(h, flash[u], Sound(u), find_report_new_index(flash[u]).report_new_cnt, w,
                         record[u], mishaps, 0, begun[u])
        /\ FewerThanRing /\ Sound(u) # {} =>
             \E r \in Slots : find_report_new_index(flash[u]).read_idx = r /\ NextSlot(r) = w
    BY <1>m, <2>1, <2>3, <2>4, <2>w, CoversBoot
  <2>6. Sound(u)' = Sound(u)
    BY <1>0 DEF Sound
  <2>7. StandsAt(u, 0)'
    BY <1>0, <2>2, <2>5, <2>6, <2>w DEF StandsAt
  <2>8. EraseFirst(u)' /\ ReadAt(u)'
    BY <1>2, <2>2, <2>5, <2>6, <2>w DEF EraseFirst, ReadAt
  <2> QED BY <1>2, <2>7, <2>8 DEF Running
<1> QED BY <1>0, <1>1, <1>3, <1>m DEF StoreInv

LEMMA StoreInvInit == Init => StoreInv
<1> SUFFICES ASSUME Init PROVE StoreInv
  OBVIOUS
<1>0. TypeOK
  BY TypeInit
<1>1. op = Idle /\ op # Off /\ op.pc \notin Steps /\ mishaps = 0
  BY OpIs DEF Init
<1>2. ASSUME NEW u \in Types PROVE Running(u)
  <2> DEFINE f == [i \in Slots |-> Blank]
  <2>1. flash[u] = f /\ ram[u] = NoRegion /\ begun[u] = 0 /\ Sound(u) = {}
    BY DEF Init, Sound
  <2>2. ~ InSave(u) /\ Pending(u) = 0
    BY <1>1 DEF InSave, Pending
  <2>3. /\ ram[u].report_new_cnt = 0 /\ ram[u].write_idx = 0 /\ ram[u].last_erase_sectorID = NoSector
    BY <2>1 DEF NoRegion
  <2>4. Store(f, {}, 0, 0, 0, 0, 0)
    BY StoreNew
  <2>5. f \in [Slots -> Contents] /\ f[0] = Blank
    BY ContentsTypes, Numbers
  <2>6. 0 % PerSector = 0
    BY Numbers
  <2> HIDE DEF f
  <2>7. ToErase(f, f, 0) /\ ToWrite(f, f, {}, 0, 0, 0, 0, 0)
    BY <2>5, <2>6 DEF ToErase, ToWrite, Same
  <2>8. Stands(f, f, {}, 0, 0, NoSector, 0, 0, 0)
    BY <2>4, <2>5, <2>7 DEF Stands
  <2>9. StandsAt(u, 0)
    BY <1>1, <2>1, <2>3, <2>8 DEF StandsAt
  <2>10. EraseFirst(u) /\ ReadAt(u)
    BY <2>1, <2>2 DEF EraseFirst, ReadAt
  <2> QED BY <2>2, <2>9, <2>10 DEF Running
<1> QED BY <1>0, <1>1, <1>2, Numbers DEF StoreInv

LEMMA StoreInductive == ASSUME FewMishaps PROVE Spec => []StoreInv
<1>1. StoreInv /\ [Next]_vars => StoreInv'
  <2> SUFFICES ASSUME StoreInv, [Next]_vars PROVE StoreInv'
    OBVIOUS
  <2>0. TypeOK'
    BY TypeStep DEF StoreInv
  <2>1. ASSUME NEW t \in Types, SaveBegin(t) PROVE StoreInv'
    BY <2>0, <2>1, StoreInvSaveBegin
  <2>2. CASE EraseSector
    BY <2>0, <2>2, StoreInvEraseSector
  <2>3. CASE EraseRecord
    <3>1. op.pc = "erase_record" /\ op.pc \in Steps
      BY <2>3 DEF EraseRecord, Steps
    <3>2. op.type \in Types /\ ram[op.type] \in Regions
      BY <3>1, TheSave
    <3>3. [record EXCEPT ![op.type] = ram[op.type].last_erase_sectorID] \in [Types -> 0 .. NoSector]
      <4>1. ram[op.type].last_erase_sectorID \in 0 .. NoSector /\ record \in [Types -> 0 .. NoSector]
        BY <3>2, RegionIs DEF StoreInv, TypeOK
      <4> QED BY <4>1
    <3> DEFINE copy == [record EXCEPT ![op.type] = ram[op.type].last_erase_sectorID]
    <3>c. op' = Saving("write_record", op.type, copy)
      BY <2>3 DEF EraseRecord
    <3> HIDE DEF copy
    <3>4. op'.pc = "write_record" /\ op'.type = op.type
      <4>1. copy \in [Types -> 0 .. NoSector] /\ "write_record" \in Steps
        BY <3>3 DEF copy, Steps
      <4> QED BY <3>2, <3>c, <4>1, OpIs
    <3>5. op'.pc \in Steps \ {"erase"} /\ op.pc \in {"erase_record", "write_record"}
      BY <3>1, <3>4 DEF Steps
    <3>6. UNCHANGED <<flash, ram, begun, acked, marred, mishaps, ordinary>>
      BY <2>3 DEF EraseRecord
    <3> QED BY <2>0, <3>4, <3>5, <3>6, StoreInvRecord
  <2>4. CASE WriteRecord
    <3>1. op.pc = "write_record" /\ op.pc \in Steps
      BY <2>4 DEF WriteRecord, Steps
    <3>2. op.type \in Types /\ op.copy \in [Types -> 0 .. NoSector]
      BY <3>1, TheSave
    <3>4. op'.pc = "write" /\ op'.type = op.type
      BY <2>4, <3>2, OpIs DEF WriteRecord, Steps
    <3>5. op'.pc \in Steps \ {"erase"} /\ op.pc \in {"erase_record", "write_record"}
      BY <3>1, <3>4 DEF Steps
    <3>6. UNCHANGED <<flash, ram, begun, acked, marred, mishaps, ordinary>>
      BY <2>4 DEF WriteRecord
    <3> QED BY <2>0, <3>4, <3>5, <3>6, StoreInvRecord
  <2>5. CASE WriteReport
    BY <2>0, <2>5, StoreInvWriteReport
  <2>6. CASE FlashError
    BY <2>0, <2>6, StoreInvFlashError
  <2>7. CASE PowerFail
    BY <2>0, <2>7, StoreInvPowerFail
  <2>8. CASE report_init
    BY <2>0, <2>8, StoreInvBoot
  <2>9. CASE UNCHANGED vars
    <3>1. \A u \in Types : Sound(u)' = Sound(u)
      BY <2>9 DEF vars, Sound
    <3> QED BY <2>0, <2>9, <3>1 DEF vars, StoreInv, Down, Running, StandsAt, EraseFirst, ReadAt,
                                    Pending, InSave, MustErase, Target
  <2> QED BY <2>1, <2>2, <2>3, <2>4, <2>5, <2>6, <2>7, <2>8, <2>9 DEF Next, Save
<1> QED BY <1>1, StoreInvInit, PTL DEF Spec

-----------------------------------------------------------------------------
(* The theorems.                                                           *)

\* Types: the indexes stay inside their regions, and what garbled slots hold is
\* still an index (report_interface.c).
THEOREM TypeCorrect == Spec => []TypeOK
  BY TypeInv

\* A report whose save returned TRUE stays in the flash until the ring comes round
\* to its sector, whatever saves are cut off by the power or by errors of the flash,
\* undone, done in part or done, and whatever is then written over what they left
\* (Save_Report_to_Flash, erase_if_needed, find_report_new_index).
THEOREM SavedReportsStay == ASSUME FewMishaps PROVE Spec => []SavedReportsKept
<1>1. StoreInv => SavedReportsKept
  <2> SUFFICES ASSUME StoreInv, NEW t \in Types, ordinary[t] PROVE Kept(t)
    BY DEF SavedReportsKept
  <2>1. CASE op = Off
    <3>1. PICK f, p : Covers(f, flash[t], Sound(t), ram[t].report_new_cnt, p, mishaps, begun[t])
      BY <2>1 DEF StoreInv, Down
    <3>2. Keep(flash[t], Sound(t), begun[t])
      BY <3>1, CoversKeep
    <3> QED BY <3>2 DEF Keep, Kept, Intact
  <2>2. CASE op # Off
    <3>1. PICK f, e : Stands(f, flash[t], Sound(t), ram[t].report_new_cnt, ram[t].write_idx,
                             ram[t].last_erase_sectorID, mishaps, e, begun[t])
      BY <2>2 DEF StoreInv, Running, StandsAt
    <3>2. Keep(flash[t], Sound(t), begun[t])
      BY <3>1, StandsKeep
    <3> QED BY <3>2 DEF Keep, Kept, Intact
  <2> QED BY <2>1, <2>2
<1> QED BY <1>1, StoreInductive, PTL

\* Reading back from the latest, the first intact report is the newest one saved,
\* or a later one (Read_Report_Content after report_init and after failed saves).
THEOREM NewestFound == ASSUME FewMishaps, FewerThanRing PROVE Spec => []NewestReadable
<1>1. StoreInv => NewestReadable
  <2> SUFFICES ASSUME StoreInv, NEW t \in Types, op = Idle, Sound(t) # {}, ordinary[t]
               PROVE  NewestIsRead(t)
    BY DEF NewestReadable
  <2> DEFINE f == flash[t]
             p == ram[t].write_idx
             r == ram[t].read_idx
  <2>1. Running(t) /\ mishaps <= MaxMishaps
    BY OpIs DEF StoreInv
  <2>2. r \in Slots /\ NextSlot(r) = p
    BY <2>1 DEF Running, ReadAt
  <2>3. PICK h, e : Stands(h, f, Sound(t), ram[t].report_new_cnt, p, ram[t].last_erase_sectorID,
                           mishaps, e, begun[t])
    BY <2>1 DEF Running, StandsAt
  <2>4. Top(f, Sound(t), p, mishaps)
    BY <2>1, <2>3, StandsTop
  <2>5. PICK j \in Slots : /\ f[j].ok /\ (\A n \in Sound(t) : n <= f[j].num)
                           /\ \A k \in Slots : Age(p, k) < Age(p, j) => ~ f[k].ok
    BY <2>4 DEF Top
  <2>6. p \in Slots
    BY <2>2, NextSlotIs
  <2>8. \A id \in Slots : SlotRead(t, id) \in Slots /\ Age(p, SlotRead(t, id)) = id
    <3> SUFFICES ASSUME NEW id \in Slots
                 PROVE  SlotRead(t, id) \in Slots /\ Age(p, SlotRead(t, id)) = id
      OBVIOUS
    <3>1. r \in Nat /\ id \in Nat /\ r < max_count /\ id < max_count /\ max_count \in Nat
      BY <2>2, Numbers DEF Slots
    <3>2. p = IF r = LastSlot THEN 0 ELSE r + 1
      BY <2>2, NextSlotIs
    <3>3. SlotRead(t, id) = IF r >= id THEN r - id ELSE max_count + r - id
      BY DEF SlotRead
    <3> HIDE DEF p, r
    <3> QED BY <3>1, <3>2, <3>3 DEF Age, LastSlot, Slots
  <2>9. Age(p, j) \in Slots
    BY <2>6, AgeIs DEF Slots
  <2>10. SlotRead(t, Age(p, j)) = j
    BY <2>6, <2>8, <2>9, SameAge
  <2>11. \A id \in 0 .. Age(p, j) - 1 : ~ f[SlotRead(t, id)].ok
    <3> SUFFICES ASSUME NEW id \in 0 .. Age(p, j) - 1 PROVE ~ f[SlotRead(t, id)].ok
      OBVIOUS
    <3>1. id \in Slots /\ id < Age(p, j)
      BY <2>9, Numbers DEF Slots
    <3> QED BY <2>5, <2>8, <3>1
  <2> QED BY <2>5, <2>9, <2>10, <2>11 DEF NewestIsRead
<1> QED BY <1>1, StoreInductive, PTL

=============================================================================
