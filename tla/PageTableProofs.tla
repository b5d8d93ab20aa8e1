-------------------------- MODULE PageTableProofs ---------------------------
(***************************************************************************)
(* Page tables of any size, and any number of them: the table pages form a *)
(* tree, the iterator always stands where the processor's walk ends, and   *)
(* its steps pass nothing over.  What callers rely on is in MappingProofs. *)
(***************************************************************************)
EXTENDS PageTable, TLAPS

-----------------------------------------------------------------------------
(* Arithmetic of addresses *)

Idx == 0 .. ENTRIES - 1

\* Quotient and remainder.
LEMMA DivFacts ==
  ASSUME NEW a \in Nat, NEW d \in Nat, d > 0
  PROVE  /\ a \div d \in Nat /\ a % d \in 0 .. d - 1
         /\ a = d * (a \div d) + (a % d)
OBVIOUS

\* Dividing twice.
LEMMA DivDiv ==
  ASSUME NEW a \in Nat, NEW d \in Nat, d > 0, NEW e \in Nat, e > 0
  PROVE  d * e \in Nat /\ d * e > 0 /\ a \div (d * e) = (a \div d) \div e
OBVIOUS

\* Comparing with a multiple of the divisor is comparing the quotient.
LEMMA DivLess ==
  ASSUME NEW a \in Nat, NEW d \in Nat, d > 0, NEW k \in Nat
  PROVE  a < d * k <=> a \div d < k
OBVIOUS

\* What one entry of a level covers is ENTRIES times what one of the level
\* below does.
LEMMA RegionSizes ==
  /\ ENTRIES \in Nat /\ ENTRIES >= 2
  /\ \A l \in 0 .. 4 : Region(l) \in Nat /\ Region(l) > 0
  /\ Region(0) = PAGESIZE
  /\ \A l \in 0 .. 3 : Region(l + 1) = Region(l) * ENTRIES
<1>1. ENTRIES \in Nat /\ ENTRIES >= 2 /\ PAGESIZE \in Nat /\ PAGESIZE > 0
  BY PTAssumption
<1> DEFINE e == ENTRIES
<1>2. /\ Region(0) = PAGESIZE * 1 /\ Region(1) = PAGESIZE * e /\ Region(2) = PAGESIZE * (e * e)
      /\ Region(3) = PAGESIZE * (e * e * e) /\ Region(4) = PAGESIZE * (e * e * e * e)
  BY DEF Region, Regions
<1> HIDE DEF e
<1> QED
  BY <1>1, <1>2 DEF e

\* The number of a virtual address's region of level l, and the two ways down:
\* the region of the next level and the index in it.
Block(va, l) == va \div Region(l)

LEMMA BlockFacts ==
  ASSUME NEW va \in Nat, NEW l \in 0 .. 3
  PROVE  /\ Block(va, l) \in Nat /\ Block(va, l + 1) \in Nat
         /\ Block(va, l + 1) = Block(va, l) \div ENTRIES
         /\ pageindex(va, l) = Block(va, l) % ENTRIES
         /\ pageindex(va, l) \in Idx
         /\ Block(va, l) = ENTRIES * Block(va, l + 1) + pageindex(va, l)
<1>1. /\ Region(l) \in Nat /\ Region(l) > 0 /\ ENTRIES \in Nat /\ ENTRIES > 0
      /\ Region(l + 1) = Region(l) * ENTRIES
  BY RegionSizes
<1>2. /\ Block(va, l) \in Nat /\ Block(va, l + 1) = Block(va, l) \div ENTRIES
  BY <1>1, DivFacts, DivDiv DEF Block
<1>3. pageindex(va, l) = Block(va, l) % ENTRIES
  BY DEF pageindex, Block
<1> HIDE DEF Block
<1> QED
  BY <1>1, <1>2, <1>3, DivFacts, ZenonT(30) DEF Idx

LEMMA IndexIn ==
  ASSUME NEW va \in Nat, NEW l \in 0 .. 3
  PROVE  pageindex(va, l) \in Idx
BY BlockFacts, ZenonT(30)

\* The region of the next level is that of the region.
LEMMA BlockUp ==
  ASSUME NEW va \in Nat, NEW wa \in Nat, NEW l \in 0 .. 3, Block(va, l) = Block(wa, l)
  PROVE  Block(va, l + 1) = Block(wa, l + 1) /\ pageindex(va, l) = pageindex(wa, l)
<1>1. ENTRIES \in Nat /\ ENTRIES > 0
  BY PTAssumption
<1>2. Region(l) \in Nat /\ Region(l) > 0 /\ Region(l + 1) = Region(l) * ENTRIES
  BY RegionSizes
<1>3. /\ Block(va, l + 1) = Block(va, l) \div ENTRIES /\ pageindex(va, l) = Block(va, l) % ENTRIES
      /\ Block(wa, l + 1) = Block(wa, l) \div ENTRIES /\ pageindex(wa, l) = Block(wa, l) % ENTRIES
  BY <1>1, <1>2, DivDiv DEF Block, pageindex
<1> QED
  BY <1>3, ZenonT(30)

\* Addresses of the same region of level l are of the same region of every
\* level above, and have the same indices from l on.
LEMMA SameBlock ==
  ASSUME NEW va \in Nat, NEW wa \in Nat, NEW l \in 0 .. 4, Block(va, l) = Block(wa, l)
  PROVE  \A k \in 0 .. 3 : k >= l =>
           Block(va, k) = Block(wa, k) /\ pageindex(va, k) = pageindex(wa, k)
<1>1. \A k \in 0 .. 3 : Block(va, k) = Block(wa, k) =>
        Block(va, k + 1) = Block(wa, k + 1) /\ pageindex(va, k) = pageindex(wa, k)
  BY BlockUp, ZenonT(30)
<1>2. \A k \in 0 .. 2 : Block(va, k) = Block(wa, k) => Block(va, k + 1) = Block(wa, k + 1)
  BY <1>1
<1>3. /\ Block(va, 0) = Block(wa, 0) => Block(va, 1) = Block(wa, 1)
      /\ Block(va, 1) = Block(wa, 1) => Block(va, 2) = Block(wa, 2)
      /\ Block(va, 2) = Block(wa, 2) => Block(va, 3) = Block(wa, 3)
  <2>1. 0 \in 0 .. 2 /\ 1 \in 0 .. 2 /\ 2 \in 0 .. 2 /\ 0 + 1 = 1 /\ 1 + 1 = 2 /\ 2 + 1 = 3
    OBVIOUS
  <2> QED
    BY <1>2, <2>1
<1>4. \A k \in 0 .. 3 : k >= l => Block(va, k) = Block(wa, k)
  BY <1>3
<1> QED
  BY <1>1, <1>4

\* The halves of the address space, in regions of level 3.
LEMMA Halves ==
  ASSUME NEW va \in VAs
  PROVE  /\ va \in Nat /\ ENTRIES \div 2 \in Nat /\ ENTRIES = 2 * (ENTRIES \div 2)
         /\ va_is_canonical(va) <=> \/ Block(va, 3) < ENTRIES \div 2
                                    \/ Block(va, 3) >= 2 * ENTRIES - ENTRIES \div 2
         /\ Block(va, 3) < 2 * ENTRIES
<1> DEFINE h == ENTRIES \div 2  r == Region(3)
<1>1. h \in Nat /\ ENTRIES = 2 * h /\ r \in Nat /\ r > 0 /\ Region(4) = r * ENTRIES
  BY PTAssumption, RegionSizes
<1> HIDE DEF h, r
<1>2. VA_LOWEND = r * h /\ VA_END = r * (2 * ENTRIES) /\ VA_HIGHMIN = r * (2 * ENTRIES - h)
  <2>1. Region(4) = 2 * (r * h) /\ r * h \in Nat
    BY <1>1
  <2>2. VA_LOWEND = r * h
    BY <2>1 DEF VA_LOWEND
  <2>3. VA_END = r * (2 * ENTRIES)
    BY <1>1, SMTT(30), Z3T(30) DEF VA_END
  <2> QED
    BY <1>1, <2>2, <2>3 DEF VA_HIGHMIN
<1>3. va \in Nat /\ va < r * (2 * ENTRIES)
  <2>1. VA_END \in Int
    BY <1>1, <1>2
  <2> QED
    BY <1>2, <2>1 DEF VAs
<1>4. 2 * ENTRIES - h \in Nat /\ 2 * ENTRIES \in Nat
  BY <1>1
<1>5. /\ va < r * h <=> va \div r < h
      /\ va < r * (2 * ENTRIES) <=> va \div r < 2 * ENTRIES
      /\ va < r * (2 * ENTRIES - h) <=> va \div r < 2 * ENTRIES - h
      /\ va \div r \in Nat
  BY <1>1, <1>3, <1>4, DivLess, DivFacts
<1>6. Block(va, 3) = va \div r
  BY DEF Block, r
<1>7. va_is_canonical(va) <=> va < r * h \/ ~ (va < r * (2 * ENTRIES - h))
  BY <1>1, <1>2, <1>3, <1>4, SMTT(30), Z3T(30) DEF va_is_canonical
<1> QED
  BY <1>1, <1>3, <1>4, <1>5, <1>6, <1>7 DEF h

\* Whether an address is canonical depends on its region of level 3 alone.
LEMMA SameHalf ==
  ASSUME NEW va \in VAs, NEW wa \in VAs, Block(va, 3) = Block(wa, 3)
  PROVE  va_is_canonical(va) <=> va_is_canonical(wa)
BY Halves, SMTT(30), Z3T(30)

\* Two canonical addresses with the same four indices are of the same page.
LEMMA SamePage ==
  ASSUME NEW va \in VAs, NEW wa \in VAs, va_is_canonical(va), va_is_canonical(wa),
         \A k \in 0 .. 3 : pageindex(va, k) = pageindex(wa, k)
  PROVE  va \div PAGESIZE = wa \div PAGESIZE
<1>1. va \in Nat /\ wa \in Nat
  BY Halves, SMTT(30), Z3T(30)
<1>2. ASSUME NEW k \in 0 .. 3, Block(va, k + 1) = Block(wa, k + 1)
      PROVE  Block(va, k) = Block(wa, k)
  <2>1. /\ Block(va, k) = ENTRIES * Block(va, k + 1) + pageindex(va, k)
        /\ Block(wa, k) = ENTRIES * Block(wa, k + 1) + pageindex(wa, k)
    BY <1>1, BlockFacts, ZenonT(30)
  <2>2. pageindex(va, k) = pageindex(wa, k)
    OBVIOUS
  <2> QED
    BY ONLY <1>2, <2>1, <2>2, Zenon
<1>3. Block(va, 3) = Block(wa, 3)
  <2> DEFINE h == ENTRIES \div 2  a == Block(va, 3)  b == Block(wa, 3)
  <2>0. /\ h \in Nat /\ ENTRIES = 2 * h
        /\ a < h \/ a >= 2 * ENTRIES - h
        /\ b < h \/ b >= 2 * ENTRIES - h
        /\ a < 2 * ENTRIES /\ b < 2 * ENTRIES
    BY Halves
  <2>1. /\ h \in Nat /\ ENTRIES = 2 * h /\ h > 0 /\ a \in Nat /\ b \in Nat
        /\ a < h \/ (a >= 2 * ENTRIES - h /\ a < 2 * ENTRIES)
        /\ b < h \/ (b >= 2 * ENTRIES - h /\ b < 2 * ENTRIES)
    <3>1. a \in Nat /\ b \in Nat
      BY <1>1, BlockFacts, SMTT(30), Z3T(30)
    <3>2. h > 0
      BY <2>0, RegionSizes, SMTT(30), Z3T(30)
    <3> HIDE DEF h, a, b
    <3> QED
      BY <2>0, <3>1, <3>2, SMTT(30), Z3T(30)
  <2>2. a % ENTRIES = b % ENTRIES
    BY <1>1, BlockFacts
  <2> HIDE DEF h, a, b
  <2>3. ASSUME NEW x \in Nat, x < h \/ (x >= 2 * ENTRIES - h /\ x < 2 * ENTRIES)
        PROVE  x % ENTRIES = IF x < h THEN x ELSE x - ENTRIES
    BY <2>1, <2>3
  <2>4. (IF a < h THEN a ELSE a - ENTRIES) = (IF b < h THEN b ELSE b - ENTRIES)
    BY <2>1, <2>2, <2>3, Zenon
  <2>5. a = b
    BY <2>1, <2>4, SMTT(30), Z3T(30)
  <2> QED
    BY <2>5, SMTT(30), Z3T(30) DEF a, b
<1>4. Block(va, 2) = Block(wa, 2) /\ Block(va, 1) = Block(wa, 1) /\ Block(va, 0) = Block(wa, 0)
  <2>1. 0 \in 0 .. 3 /\ 1 \in 0 .. 3 /\ 2 \in 0 .. 3 /\ 0 + 1 = 1 /\ 1 + 1 = 2 /\ 2 + 1 = 3
    BY SMTT(30), Z3T(30)
  <2> QED
    BY <1>2, <1>3, <2>1
<1> QED
  BY <1>4, RegionSizes, SMTT(30), Z3T(30) DEF Block

\* What lies below 4 GiB: nothing, table pages, callers' frames, device memory.
LEMMA LimitFacts ==
  /\ PA_LIMIT \in Nat /\ PA_LIMIT > 0 /\ NTABLES <= PA_LIMIT /\ Frames \subseteq 0 .. PA_LIMIT - 1
  /\ \A x \in 0 .. 3 : x * (ENTRIES * ENTRIES) \in Nat /\ x * (ENTRIES * ENTRIES) < PA_LIMIT
<1> DEFINE big == ENTRIES * ENTRIES
<1>1. big \in Nat /\ big > 0
  BY PTAssumption, SMTT(30), Z3T(30)
<1>2. PA_LIMIT = 4 * big
  BY DEF PA_LIMIT
<1> HIDE DEF big
<1>3. ASSUME NEW x \in 0 .. 3 PROVE x * big \in Nat /\ x * big < PA_LIMIT
  <2>1. x = 0 \/ x = 1 \/ x = 2 \/ x = 3
    BY SMTT(30), Z3T(30)
  <2> QED
    BY <1>1, <1>2, <2>1, SMTT(30), Z3T(30)
<1>4. PA_LIMIT \in Nat /\ PA_LIMIT > 0
  BY <1>1, <1>2, SMTT(30), Z3T(30)
<1> QED
  BY <1>3, <1>4, PTAssumption, ZenonT(30) DEF big

LEMMA LowPages ==
  ASSUME NEW pa \in Nat, pa < PA_LIMIT
  PROVE  ~ TooHigh(pa)
BY LimitFacts, SMTT(30), Z3T(30) DEF TooHigh

LEMMA ZeroFacts == ~ PointsDown(Zero) /\ Zero.pa = 0 /\ Zero \in Entries /\ ~ TooHigh(Zero.pa)
<1>1. ~ PointsDown(Zero) /\ Zero.pa = 0 /\ Zero \in Entries
  BY SMTT(30), Z3T(30) DEF Zero, PointsDown, Entries
<1> QED
  BY <1>1, LimitFacts, LowPages, SMTT(30), Z3T(30)

-----------------------------------------------------------------------------
(* The tree of table pages *)

\* An entry above level 0 that points down points to a page of the level below
\* and allows everything.  Nothing is left of what kalloc filled the pages with.
Links(m, n, L) ==
  \A t \in 0 .. n - 1, x \in Idx :
    /\ ~ TooHigh(m[t][x].pa)
    /\ L[t] > 0 /\ PointsDown(m[t][x]) =>
         /\ m[t][x].bits = PWU
         /\ m[t][x].pa \in 0 .. n - 1
         /\ L[m[t][x].pa] = L[t] - 1

\* No other entry points there.
OneParent(m, n, L) ==
  \A t, u \in 0 .. n - 1, x, y \in Idx :
    /\ L[t] > 0 /\ PointsDown(m[t][x])
    /\ L[u] > 0 /\ PointsDown(m[u][y])
    /\ m[t][x].pa = m[u][y].pa
    => t = u /\ x = y

\* Pages 0 to n - 1 are table pages, L tells their levels.
Tree(m, n, L) ==
  /\ m \in [Tables -> [Idx -> Entries]]
  /\ n \in 1 .. NTABLES /\ L \in [0 .. n - 1 -> 0 .. 3] /\ L[0] = 3
  /\ Links(m, n, L)
  /\ OneParent(m, n, L)

\* The entry for va of the table page that T names at level k.
At(m, va, T, k) == m[T[k]][pageindex(va, k)]

\* T names the table pages that va leads to, from the root down to level l.
Trail(m, va, l, T) ==
  /\ T \in [0 .. 3 -> Tables] /\ T[3] = 0
  /\ \A k \in 0 .. 2 : k >= l => PointsDown(At(m, va, T, k + 1)) /\ T[k] = At(m, va, T, k + 1).pa

\* The processor stops at level l.
Ends(m, va, l, T) == Trail(m, va, l, T) /\ (l = 0 \/ ~ PointsDown(At(m, va, T, l)))

\* The table pages of a trail have the levels of the tree.
LEMMA TrailLevels ==
  ASSUME NEW m, NEW n, NEW L, Tree(m, n, L), NEW va \in Nat, NEW l \in 0 .. 3, NEW T,
         Trail(m, va, l, T)
  PROVE  /\ \A k \in 0 .. 3 : k >= l => T[k] \in 0 .. n - 1 /\ L[T[k]] = k
         /\ \A k \in 0 .. 3 : k >= l => At(m, va, T, k) \in Entries
         /\ \A k \in 0 .. 3 : k > l => At(m, va, T, k).bits = PWU /\ PointsDown(At(m, va, T, k))
<1>1. \A k \in 0 .. 3 : pageindex(va, k) \in Idx
  BY IndexIn, ZenonT(30)
<1>2. T[3] \in 0 .. n - 1 /\ L[T[3]] = 3
  BY SMTT(30), Z3T(30) DEF Trail, Tree
<1>3. ASSUME NEW k \in 0 .. 2, k >= l, T[k + 1] \in 0 .. n - 1, L[T[k + 1]] = k + 1
      PROVE  /\ T[k] \in 0 .. n - 1 /\ L[T[k]] = k
             /\ At(m, va, T, k + 1).bits = PWU /\ PointsDown(At(m, va, T, k + 1))
  <2>1. k + 1 \in 0 .. 3 /\ k + 1 > 0 /\ k + 1 - 1 = k
    OBVIOUS
  <2>2. PointsDown(m[T[k + 1]][pageindex(va, k + 1)]) /\ T[k] = m[T[k + 1]][pageindex(va, k + 1)].pa
    BY <1>3 DEF Trail, At
  <2> QED
    BY <1>1, <1>3, <2>1, <2>2, SMTT(30), Z3T(30) DEF Tree, Links, At
<1>4. 2 >= l => /\ T[2] \in 0 .. n - 1 /\ L[T[2]] = 2
                /\ At(m, va, T, 3).bits = PWU /\ PointsDown(At(m, va, T, 3))
  <2>1. 2 \in 0 .. 2 /\ 2 + 1 = 3
    OBVIOUS
  <2> QED
    BY <1>2, <1>3, <2>1
<1>5. 1 >= l => /\ T[1] \in 0 .. n - 1 /\ L[T[1]] = 1
                /\ At(m, va, T, 2).bits = PWU /\ PointsDown(At(m, va, T, 2))
  <2>1. 1 \in 0 .. 2 /\ 1 + 1 = 2 /\ (1 >= l => 2 >= l)
    OBVIOUS
  <2> QED
    BY <1>3, <1>4, <2>1
<1>6. 0 >= l => /\ T[0] \in 0 .. n - 1 /\ L[T[0]] = 0
                /\ At(m, va, T, 1).bits = PWU /\ PointsDown(At(m, va, T, 1))
  <2>1. 0 \in 0 .. 2 /\ 0 + 1 = 1 /\ (0 >= l => 1 >= l)
    OBVIOUS
  <2> QED
    BY <1>3, <1>5, <2>1
<1>7. \A k \in 0 .. 3 : k >= l => T[k] \in 0 .. n - 1 /\ L[T[k]] = k
  BY <1>2, <1>4, <1>5, <1>6
<1>8. \A k \in 0 .. 3 : k >= l => At(m, va, T, k) \in Entries
  <2>1. 0 .. n - 1 \subseteq Tables
    BY PTAssumption, SMTT(30), Z3T(30) DEF Tree, Links, Tables
  <2> QED
    BY <1>1, <1>7, <2>1, SMTT(30), Z3T(30) DEF At, Tree
<1>9. \A k \in 0 .. 3 : k > l => At(m, va, T, k).bits = PWU /\ PointsDown(At(m, va, T, k))
  BY <1>4, <1>5, <1>6, SMTT(30), Z3T(30)
<1> QED
  BY <1>7, <1>8, <1>9

\* Where a trail has come to.
LEMMA TrailAt ==
  ASSUME NEW m, NEW n, NEW L, Tree(m, n, L), NEW va \in Nat, NEW l \in 0 .. 3, NEW T,
         Trail(m, va, l, T)
  PROVE  /\ T[l] \in 0 .. n - 1 /\ T[l] \in Tables /\ L[T[l]] = l /\ pageindex(va, l) \in Idx
         /\ At(m, va, T, l) = m[T[l]][pageindex(va, l)] /\ At(m, va, T, l) \in Entries
<1>1. l >= l
  OBVIOUS
<1>2. pageindex(va, l) \in Idx
  BY IndexIn, ZenonT(30)
<1>3. T[l] \in 0 .. n - 1 /\ L[T[l]] = l /\ At(m, va, T, l) \in Entries
  BY <1>1, TrailLevels, SMTT(30), Z3T(30)
<1>4. T[l] \in Tables
  BY SMTT(30), Z3T(30) DEF Trail
<1> QED
  BY <1>2, <1>3, <1>4, SMTT(30), Z3T(30) DEF At

\* A trail goes on through an entry that points down.
LEMMA TrailStep ==
  ASSUME NEW m, NEW n, NEW L, Tree(m, n, L), NEW va \in Nat, NEW l \in 0 .. 3, NEW T,
         Trail(m, va, l, T), l > 0, PointsDown(At(m, va, T, l))
  PROVE  \E U : /\ Trail(m, va, l - 1, U)
                /\ U[l - 1] = At(m, va, T, l).pa /\ U[l - 1] \in Tables
<1> DEFINE U == [T EXCEPT ![l - 1] = At(m, va, T, l).pa]
<1>1. T[l] \in 0 .. n - 1 /\ L[T[l]] = l /\ pageindex(va, l) \in Idx
  BY TrailAt, SMTT(30), Z3T(30)
<1>2. At(m, va, T, l).pa \in Tables
  <2>1. m[T[l]][pageindex(va, l)].pa \in 0 .. n - 1
    BY <1>1, SMTT(30), Z3T(30) DEF Tree, Links, At
  <2>2. n \in 1 .. NTABLES /\ NTABLES \in Nat
    BY PTAssumption DEF Tree, Links
  <2> QED
    BY <2>1, <2>2, SMTT(30), Z3T(30) DEF At, Tables
<1>3. T \in [0 .. 3 -> Tables] /\ T[3] = 0 /\ l - 1 \in 0 .. 2
  BY DEF Trail
<1>4. /\ U \in [0 .. 3 -> Tables] /\ U[l - 1] = At(m, va, T, l).pa
      /\ \A k \in 0 .. 3 : k >= l => U[k] = T[k]
  BY <1>2, <1>3, SMTT(30), Z3T(30)
<1> HIDE DEF U
<1>5. ASSUME NEW k \in 0 .. 2, k >= l - 1
      PROVE  PointsDown(At(m, va, U, k + 1)) /\ U[k] = At(m, va, U, k + 1).pa
  <2>1. k + 1 \in 0 .. 3 /\ k + 1 >= l /\ (k >= l \/ (k = l - 1 /\ k + 1 = l))
    BY <1>5, SMTT(30), Z3T(30)
  <2>2. At(m, va, U, k + 1) = At(m, va, T, k + 1)
    BY <1>4, <2>1, SMTT(30), Z3T(30) DEF At
  <2>3. CASE k >= l
    BY <1>4, <2>2, <2>3, SMTT(30), Z3T(30) DEF Trail
  <2>4. CASE k = l - 1 /\ k + 1 = l
    BY <1>4, <2>2, <2>4, SMTT(30), Z3T(30)
  <2> QED
    BY <2>1, <2>3, <2>4, SMTT(30), Z3T(30)
<1>6. Trail(m, va, l - 1, U)
  BY <1>3, <1>4, <1>5, SMTT(30), Z3T(30) DEF Trail
<1> QED
  BY <1>2, <1>4, <1>6, SMTT(30), Z3T(30)

\* There is one trail.
LEMMA TrailUnique ==
  ASSUME NEW m, NEW va, NEW l \in 0 .. 3, NEW T, NEW U, Trail(m, va, l, T), Trail(m, va, l, U)
  PROVE  \A k \in 0 .. 3 : k >= l => T[k] = U[k]
<1>1. T[3] = U[3]
  BY SMTT(30), Z3T(30) DEF Trail
<1>2. \A k \in 0 .. 2 : k >= l /\ T[k + 1] = U[k + 1] => T[k] = U[k]
  BY SMTT(30), Z3T(30) DEF Trail, At
<1>3. /\ 2 >= l /\ T[3] = U[3] => T[2] = U[2]
      /\ 1 >= l /\ T[2] = U[2] => T[1] = U[1]
      /\ 0 >= l /\ T[1] = U[1] => T[0] = U[0]
  <2>1. 0 \in 0 .. 2 /\ 1 \in 0 .. 2 /\ 2 \in 0 .. 2 /\ 0 + 1 = 1 /\ 1 + 1 = 2 /\ 2 + 1 = 3
    OBVIOUS
  <2> QED
    BY <1>2, <2>1
<1> QED
  BY <1>1, <1>3, SMTT(30), Z3T(30)

\* A trail that leads further down leads past an entry that points down.
LEMMA TrailShorter ==
  ASSUME NEW m, NEW va, NEW l \in 0 .. 3, NEW j \in 0 .. 3, l < j, NEW T, Trail(m, va, l, T)
  PROVE  Trail(m, va, j, T) /\ PointsDown(At(m, va, T, j))
<1>1. Trail(m, va, j, T)
  BY DEF Trail
<1>2. j - 1 \in 0 .. 2 /\ j - 1 >= l /\ j - 1 + 1 = j
  OBVIOUS
<1>3. PointsDown(At(m, va, T, j - 1 + 1))
  BY <1>2, SMTT(30), Z3T(30) DEF Trail
<1> QED
  BY <1>1, <1>2, <1>3, SMTT(30), Z3T(30)

\* There is one place where it ends.
LEMMA EndsUnique ==
  ASSUME NEW m, NEW va, NEW l \in 0 .. 3, NEW j \in 0 .. 3, NEW T, NEW U,
         Ends(m, va, l, T), Ends(m, va, j, U)
  PROVE  l = j /\ \A k \in 0 .. 3 : k >= l => T[k] = U[k]
<1>1. ASSUME NEW a \in 0 .. 3, NEW b \in 0 .. 3, NEW X, NEW Y, Ends(m, va, a, X),
             Ends(m, va, b, Y), a < b
      PROVE  FALSE
  <2>1. Trail(m, va, b, X) /\ PointsDown(At(m, va, X, b))
    BY <1>1, TrailShorter, SMTT(30), Z3T(30) DEF Ends
  <2>2. X[b] = Y[b]
    BY <1>1, <2>1, TrailUnique, SMTT(30), Z3T(30) DEF Ends
  <2>3. ~ PointsDown(At(m, va, Y, b))
    BY <1>1 DEF Ends
  <2> QED
    BY <2>1, <2>2, <2>3, SMTT(30), Z3T(30) DEF At
<1>2. ~ (l < j) /\ ~ (j < l)
  BY <1>1
<1>3. l = j
  BY <1>2, SMTT(30), Z3T(30)
<1> QED
  BY <1>3, TrailUnique, SMTT(30), Z3T(30) DEF Ends

-----------------------------------------------------------------------------
(* The processor's walk *)

OnWalk(m, va, w) ==
  w \in Walks /\ w.bits = PWU /\ \E T : Trail(m, va, w.level, T) /\ w.tab = T[w.level]

WalkDone(m, va, w) == w.level = 0 \/ ~ PointsDown(m[w.tab][pageindex(va, w.level)])

LEMMA WalkStep ==
  ASSUME NEW m, NEW n, NEW L, Tree(m, n, L), NEW va \in Nat, NEW w, OnWalk(m, va, w)
  PROVE  LET v == WalkOn(m, va)[w] IN
         /\ OnWalk(m, va, v)
         /\ IF WalkDone(m, va, w) THEN v = w ELSE v.level = w.level - 1
<1> DEFINE e == m[w.tab][pageindex(va, w.level)]
           v == WalkOn(m, va)[w]
<1>1. w \in Walks /\ w.level \in 0 .. 3 /\ w.bits = PWU
  BY SMTT(30), Z3T(30) DEF OnWalk, Walks
<1>2. PICK T : Trail(m, va, w.level, T) /\ w.tab = T[w.level]
  BY DEF OnWalk
<1>3. v = IF w.level > 0 /\ PointsDown(e)
          THEN [level |-> w.level - 1, tab |-> e.pa, bits |-> w.bits \cap e.bits] ELSE w
  BY <1>1, ZenonT(30) DEF WalkOn
<1>4. e = At(m, va, T, w.level)
  BY <1>2, SMTT(30), Z3T(30) DEF At
<1> HIDE DEF v
<1>5. CASE w.level > 0 /\ PointsDown(e)
  <2>1. PICK U : /\ Trail(m, va, w.level - 1, U)
                 /\ U[w.level - 1] = e.pa /\ U[w.level - 1] \in Tables
    BY <1>1, <1>2, <1>4, <1>5, TrailStep, SMTT(30), Z3T(30)
  <2>2. e.bits = PWU
    <3>1. w.tab \in 0 .. n - 1 /\ L[w.tab] = w.level /\ pageindex(va, w.level) \in Idx
      BY <1>1, <1>2, TrailAt, SMTT(30), Z3T(30)
    <3> QED
      BY <1>5, <3>1, SMTT(30), Z3T(30) DEF Tree, Links
  <2>3. v = [level |-> w.level - 1, tab |-> e.pa, bits |-> PWU]
    BY <1>1, <1>3, <1>5, <2>2, ZenonT(30)
  <2>4. v \in Walks /\ v.level = w.level - 1 /\ v.tab = e.pa /\ v.bits = PWU
    BY <1>1, <1>5, <2>1, <2>3, SMTT(30), Z3T(30) DEF Walks
  <2> HIDE DEF e
  <2>5. OnWalk(m, va, v)
    BY <2>1, <2>4, SMTT(30), Z3T(30) DEF OnWalk
  <2>6. ~ WalkDone(m, va, w)
    BY <1>5, <1>1, SMTT(30), Z3T(30) DEF WalkDone, e
  <2> QED
    BY <2>4, <2>5, <2>6, SMTT(30), Z3T(30) DEF v
<1>6. CASE ~ (w.level > 0 /\ PointsDown(e))
  <2>1. v = w /\ WalkDone(m, va, w)
    BY <1>1, <1>3, <1>6, SMTT(30), Z3T(30) DEF WalkDone
  <2> QED
    BY <2>1, SMTT(30), Z3T(30) DEF v
<1> QED
  BY <1>5, <1>6, SMTT(30), Z3T(30)

\* The processor's walk ends, at a place of its trail.
LEMMA WalkEnds ==
  ASSUME NEW m, NEW n, NEW L, Tree(m, n, L), NEW va \in Nat
  PROVE  OnWalk(m, va, Walk(m, va)) /\ WalkDone(m, va, Walk(m, va))
<1> DEFINE w0 == [level |-> 3, tab |-> 0, bits |-> PWU]
           w1 == WalkOn(m, va)[w0]
           w2 == WalkOn(m, va)[w1]
           w3 == WalkOn(m, va)[w2]
<1>1. OnWalk(m, va, w0) /\ w0.level = 3
  <2> DEFINE T == [k \in 0 .. 3 |-> 0]
  <2>1. 0 \in Tables
    BY PTAssumption, SMTT(30), Z3T(30) DEF Tables
  <2>2. Trail(m, va, 3, T) /\ T[3] = 0
    BY <2>1, SMTT(30), Z3T(30) DEF Trail
  <2>3. w0 \in Walks /\ w0.bits = PWU /\ w0.level = 3 /\ w0.tab = 0
    BY <2>1, SMTT(30), Z3T(30) DEF Walks
  <2> HIDE DEF T, w0
  <2> QED
    BY <2>2, <2>3, SMTT(30), Z3T(30) DEF OnWalk
<1>2. Walk(m, va) = w3
  BY SMTT(30), Z3T(30) DEF Walk
<1> HIDE DEF w0
<1>3. OnWalk(m, va, w1) /\ IF WalkDone(m, va, w0) THEN w1 = w0 ELSE w1.level = w0.level - 1
  BY <1>1, WalkStep, SMTT(30), Z3T(30)
<1> HIDE DEF w1
<1>4. OnWalk(m, va, w2) /\ IF WalkDone(m, va, w1) THEN w2 = w1 ELSE w2.level = w1.level - 1
  BY <1>3, WalkStep, SMTT(30), Z3T(30) DEF w2
<1> HIDE DEF w2
<1>5. OnWalk(m, va, w3) /\ IF WalkDone(m, va, w2) THEN w3 = w2 ELSE w3.level = w2.level - 1
  BY <1>4, WalkStep, SMTT(30), Z3T(30) DEF w3
<1> HIDE DEF w3
<1>6. WalkDone(m, va, w3)
  <2>1. ASSUME ~ WalkDone(m, va, w3) PROVE w3.level = 0
    <3>1. ~ WalkDone(m, va, w2)
      BY <1>5, <2>1, SMTT(30), Z3T(30)
    <3>2. ~ WalkDone(m, va, w1)
      BY <1>4, <3>1, SMTT(30), Z3T(30)
    <3>3. ~ WalkDone(m, va, w0)
      BY <1>3, <3>2, SMTT(30), Z3T(30)
    <3> QED
      BY <1>1, <1>3, <1>4, <1>5, <3>1, <3>2, <3>3, SMTT(30), Z3T(30)
  <2> QED
    BY <2>1, SMTT(30), Z3T(30) DEF WalkDone
<1> QED
  BY <1>2, <1>5, <1>6, SMTT(30), Z3T(30)

\* What is found where the trail ends.
Meaning(va, e, l) ==
  IF "P" \in e.bits
  THEN [bits |-> PWU \cap e.bits, pa |-> e.pa * PAGESIZE + (va % Region(l))]
  ELSE Unmapped

\* The translation of a canonical address is what is found there.
LEMMA TranslateIs ==
  ASSUME NEW m, NEW n, NEW L, Tree(m, n, L), NEW va \in Nat, va_is_canonical(va),
         NEW l \in 0 .. 3, NEW T, Ends(m, va, l, T)
  PROVE  Translate(m, va) = Meaning(va, At(m, va, T, l), l)
<1> DEFINE w == Walk(m, va)
<1>1. OnWalk(m, va, w) /\ WalkDone(m, va, w)
  BY WalkEnds, SMTT(30), Z3T(30)
<1>2. Translate(m, va) = Found(m, va)[w]
  BY SMTT(30), Z3T(30) DEF Translate
<1> HIDE DEF w
<1>3. w \in Walks /\ w.level \in 0 .. 3 /\ w.bits = PWU
  BY <1>1, SMTT(30), Z3T(30) DEF OnWalk, Walks
<1>4. \E j, U : j \in 0 .. 3 /\ w.level = j /\ w.tab = U[j] /\ Ends(m, va, j, U)
  BY <1>1, <1>3, SMTT(30), Z3T(30) DEF OnWalk, WalkDone, Ends, At
<1>5. PICK j, U : j \in 0 .. 3 /\ w.level = j /\ w.tab = U[j] /\ Ends(m, va, j, U)
  BY <1>4, SMTT(30), Z3T(30)
<1>6. w.level = l /\ w.tab = T[l]
  <2>1. l = j /\ \A k \in 0 .. 3 : k >= l => T[k] = U[k]
    BY <1>5, EndsUnique, SMTT(30), Z3T(30)
  <2> QED
    BY <1>5, <2>1, SMTT(30), Z3T(30)
<1>7. Found(m, va)[w] =
        LET e == m[w.tab][pageindex(va, w.level)]
        IN IF "P" \in w.bits \cap e.bits
           THEN [bits |-> w.bits \cap e.bits, pa |-> e.pa * PAGESIZE + (va % Region(w.level))]
           ELSE Unmapped
  BY <1>3, ZenonT(30) DEF Found
<1>8. \A e : "P" \in PWU \cap e.bits <=> "P" \in e.bits
  BY SMTT(30), Z3T(30) DEF PWU
<1> QED
  BY <1>2, <1>3, <1>6, <1>7, <1>8, SMTT(30), Z3T(30) DEF Meaning, At

-----------------------------------------------------------------------------
(* Iterators *)

\* The iterator is at the table page and the entry that its address leads to.
OnTrail(m, i) ==
  /\ i \in Iters /\ i.perm = Bits /\ i.idx = pageindex(i.va, i.level)
  /\ \E T : Trail(m, i.va, i.level, T) /\ i.tab = T[i.level]

\* ... and that is where it ends.
AtEnd(m, i) == OnTrail(m, i) /\ (i.level = 0 \/ ~ PointsDown(m[i.tab][i.idx]))

\* At an address that is not canonical it points to nothing.
IterOK(m, i) ==
  /\ i \in Iters
  /\ IF va_is_canonical(i.va) THEN AtEnd(m, i)
     ELSE i.level = 3 /\ i.perm = {} /\ i.tab = NoTable /\ i.idx = 0

LEMMA IterFacts ==
  ASSUME NEW i \in Iters
  PROVE  /\ i.va \in VAs /\ i.va \in Nat /\ i.level \in 0 .. 3 /\ i.perm \in SUBSET Bits
         /\ i.tab \in Tables \cup {NoTable} /\ i.idx \in Idx
<1>1. i.va \in VAs
  BY ZenonT(30) DEF Iters
<1> QED
  BY <1>1, Halves, SMTT(30), Z3T(30) DEF Iters, Idx

\* Facts about where the iterator is.
LEMMA OnTrailFacts ==
  ASSUME NEW m, NEW n, NEW L, Tree(m, n, L), NEW i, OnTrail(m, i)
  PROVE  /\ i \in Iters /\ i.va \in VAs /\ i.va \in Nat /\ i.level \in 0 .. 3
         /\ i.tab \in 0 .. n - 1 /\ i.tab \in Tables /\ L[i.tab] = i.level /\ i.idx \in Idx
         /\ i.idx = pageindex(i.va, i.level)
         /\ Entry(m, i) = m[i.tab][i.idx] /\ m[i.tab][i.idx] \in Entries
<1>1. i \in Iters /\ i.va \in VAs /\ i.va \in Nat /\ i.level \in 0 .. 3 /\ i.idx = pageindex(i.va, i.level)
  BY IterFacts DEF OnTrail
<1>2. PICK T : Trail(m, i.va, i.level, T) /\ i.tab = T[i.level]
  BY ZenonT(30) DEF OnTrail
<1>3. /\ T[i.level] \in 0 .. n - 1 /\ T[i.level] \in Tables /\ L[T[i.level]] = i.level
      /\ pageindex(i.va, i.level) \in Idx
      /\ At(m, i.va, T, i.level) = m[T[i.level]][pageindex(i.va, i.level)]
      /\ At(m, i.va, T, i.level) \in Entries
  BY <1>1, <1>2, TrailAt, SMTT(30), Z3T(30)
<1>4. i.tab # NoTable
  BY <1>2, <1>3, SMTT(30), Z3T(30) DEF NoTable, Tables
<1> QED
  BY <1>1, <1>2, <1>3, <1>4, SMTT(30), Z3T(30) DEF Entry

\* One round of vmiter::down.
LEMMA DescendStep ==
  ASSUME NEW m, NEW n, NEW L, Tree(m, n, L), NEW i, OnTrail(m, i)
  PROVE  LET j == Descend(m)[i] IN
         /\ OnTrail(m, j) /\ j.va = i.va
         /\ IF AtEnd(m, i) THEN j = i ELSE j.level = i.level - 1
<1> DEFINE e == m[i.tab][i.idx]
           j == Descend(m)[i]
<1>1. /\ i \in Iters /\ i.va \in VAs /\ i.va \in Nat /\ i.level \in 0 .. 3
      /\ i.tab \in 0 .. n - 1 /\ L[i.tab] = i.level /\ i.idx \in Idx
      /\ i.idx = pageindex(i.va, i.level) /\ Entry(m, i) = e /\ i.perm = Bits
  BY OnTrailFacts, SMTT(30), Z3T(30) DEF OnTrail
<1>2. PICK T : Trail(m, i.va, i.level, T) /\ i.tab = T[i.level]
  BY DEF OnTrail
<1>3. j = IF i.level > 0 /\ PointsDown(e)
          THEN [i EXCEPT !.perm  = @ \cap (e.bits \cup {"PS"}), !.level = @ - 1,
                         !.tab   = e.pa, !.idx   = pageindex(i.va, i.level - 1)]
          ELSE i
  BY <1>1, ZenonT(30) DEF Descend
<1>4. e = At(m, i.va, T, i.level)
  BY <1>1, <1>2, SMTT(30), Z3T(30) DEF At
<1> HIDE DEF j
<1>5. CASE i.level > 0 /\ PointsDown(e)
  <2>1. PICK U : /\ Trail(m, i.va, i.level - 1, U)
                 /\ U[i.level - 1] = e.pa /\ U[i.level - 1] \in Tables
    BY <1>1, <1>2, <1>4, <1>5, TrailStep, SMTT(30), Z3T(30)
  <2>2. e.bits = PWU
    BY <1>1, <1>5, SMTT(30), Z3T(30) DEF Tree, Links
  <2>3. Bits \cap (PWU \cup {"PS"}) = Bits /\ Bits \in SUBSET Bits
    BY SMTT(30), Z3T(30) DEF Bits
  <2>4. i.level - 1 \in 0 .. 3
    BY <1>1, <1>5, SMTT(30), Z3T(30)
  <2>5. pageindex(i.va, i.level - 1) \in 0 .. ENTRIES - 1
    BY <1>1, <2>4, BlockFacts, ZenonT(30) DEF Idx
  <2> DEFINE b == Bits  x == pageindex(i.va, i.level - 1)  q == e.pa
  <2>6. j = [i EXCEPT !.perm = b, !.level = i.level - 1, !.tab = q, !.idx = x]
    BY <1>1, <1>3, <1>5, <2>2, <2>3, ZenonT(30)
  <2>7. x \in 0 .. ENTRIES - 1 /\ q \in Tables \cup {NoTable} /\ b \in SUBSET Bits
    BY <2>1, <2>3, <2>5, SMTT(30), Z3T(30)
  <2> HIDE DEF b, x, q
  <2>8. /\ j \in Iters /\ j.perm = b /\ j.level = i.level - 1 /\ j.tab = q
        /\ j.idx = x /\ j.va = i.va
    BY <1>1, <2>4, <2>6, <2>7, ZenonT(30) DEF Iters
  <2>9. OnTrail(m, j)
    BY <2>1, <2>8, SMTT(30), Z3T(30) DEF OnTrail, b, x, q
  <2>10. ~ AtEnd(m, i)
    BY <1>5, <1>1, SMTT(30), Z3T(30) DEF AtEnd
  <2> QED
    BY <2>8, <2>9, <2>10, SMTT(30), Z3T(30) DEF j
<1>6. CASE ~ (i.level > 0 /\ PointsDown(e))
  <2>1. j = i /\ AtEnd(m, i)
    BY <1>1, <1>3, <1>6, SMTT(30), Z3T(30) DEF AtEnd
  <2> QED
    BY <2>1, SMTT(30), Z3T(30) DEF j
<1> QED
  BY <1>5, <1>6, SMTT(30), Z3T(30)

\* vmiter::down goes to the end.
LEMMA DownEnds ==
  ASSUME NEW m, NEW n, NEW L, Tree(m, n, L), NEW i, OnTrail(m, i)
  PROVE  AtEnd(m, Down(m, i)) /\ Down(m, i).va = i.va
<1> DEFINE i1 == Descend(m)[i]  i2 == Descend(m)[i1]  i3 == Descend(m)[i2]
<1>1. Down(m, i) = i3
  BY SMTT(30), Z3T(30) DEF Down
<1>2. OnTrail(m, i1) /\ i1.va = i.va /\ IF AtEnd(m, i) THEN i1 = i ELSE i1.level = i.level - 1
  BY DescendStep, SMTT(30), Z3T(30)
<1> HIDE DEF i1
<1>3. OnTrail(m, i2) /\ i2.va = i1.va /\ IF AtEnd(m, i1) THEN i2 = i1 ELSE i2.level = i1.level - 1
  BY <1>2, DescendStep, SMTT(30), Z3T(30) DEF i2
<1> HIDE DEF i2
<1>4. OnTrail(m, i3) /\ i3.va = i2.va /\ IF AtEnd(m, i2) THEN i3 = i2 ELSE i3.level = i2.level - 1
  BY <1>3, DescendStep, SMTT(30), Z3T(30) DEF i3
<1> HIDE DEF i3
<1>5. AtEnd(m, i3)
  <2>1. ASSUME ~ AtEnd(m, i3) PROVE FALSE
    <3>1. ~ AtEnd(m, i2)
      BY <1>4, <2>1, SMTT(30), Z3T(30)
    <3>2. ~ AtEnd(m, i1)
      BY <1>3, <3>1, SMTT(30), Z3T(30)
    <3>3. ~ AtEnd(m, i)
      BY <1>2, <3>2, SMTT(30), Z3T(30)
    <3>4. i.level \in 0 .. 3 /\ i3.level \in 0 .. 3
      BY <1>4, OnTrailFacts, SMTT(30), Z3T(30)
    <3>5. i3.level = 0
      BY <1>2, <1>3, <1>4, <3>1, <3>2, <3>3, <3>4, SMTT(30), Z3T(30)
    <3> QED
      BY <1>4, <2>1, <3>5, SMTT(30), Z3T(30) DEF AtEnd
  <2> QED
    BY <2>1, SMTT(30), Z3T(30)
<1> QED
  BY <1>1, <1>2, <1>3, <1>4, <1>5, SMTT(30), Z3T(30)

\* A trail depends on the regions above its level alone.
LEMMA TrailSame ==
  ASSUME NEW m, NEW va \in Nat, NEW wa \in Nat, NEW l \in 0 .. 3,
         Block(va, l + 1) = Block(wa, l + 1), NEW T, Trail(m, va, l, T)
  PROVE  Trail(m, wa, l, T)
<1>1. l + 1 \in 0 .. 4
  BY SMTT(30), Z3T(30)
<1>2. \A k \in 0 .. 3 : k >= l + 1 => pageindex(va, k) = pageindex(wa, k)
  BY <1>1, SameBlock, SMTT(30), Z3T(30)
<1>3. \A k \in 0 .. 2 : k >= l => At(m, va, T, k + 1) = At(m, wa, T, k + 1)
  BY <1>2, SMTT(30), Z3T(30) DEF At
<1> QED
  BY <1>3, SMTT(30), Z3T(30) DEF Trail

\* The iterator of a new find, from the root.
LEMMA RootOnTrail ==
  ASSUME NEW m, NEW n, NEW L, Tree(m, n, L), NEW i \in Iters, NEW va \in VAs
  PROVE  OnTrail(m, [i EXCEPT !.va = va, !.level = 3, !.perm = Bits, !.tab = 0,
                              !.idx = pageindex(va, 3)])
<1> DEFINE x == pageindex(va, 3)  b == Bits
           r == [i EXCEPT !.va = va, !.level = 3, !.perm = b, !.tab = 0, !.idx = x]
           T == [k \in 0 .. 3 |-> 0]
<1>1. 0 \in Tables
  BY PTAssumption, SMTT(30), Z3T(30) DEF Tables
<1>2. va \in Nat /\ x \in 0 .. ENTRIES - 1 /\ b \in SUBSET Bits
  BY Halves, BlockFacts, SMTT(30), Z3T(30) DEF Idx
<1>3. Trail(m, va, 3, T) /\ T[3] = 0
  BY <1>1 DEF Trail
<1> HIDE DEF x, b, T
<1>4. r \in Iters /\ r.va = va /\ r.level = 3 /\ r.perm = b /\ r.tab = 0 /\ r.idx = x
  <2> DEFINE l == 3  o == 0
  <2>1. l \in 0 .. 3 /\ o \in Tables \cup {NoTable}
    BY <1>1
  <2> HIDE DEF l, o
  <2>2. LET q == [i EXCEPT !.va = va, !.level = l, !.perm = b, !.tab = o, !.idx = x]
        IN q \in Iters /\ q.va = va /\ q.level = l /\ q.perm = b /\ q.tab = o /\ q.idx = x
    BY <1>2, <2>1, ZenonT(30) DEF Iters
  <2> QED
    BY <2>2, SMTT(30), Z3T(30) DEF l, o
<1> HIDE DEF r
<1>5. OnTrail(m, r)
  BY <1>3, <1>4, SMTT(30), Z3T(30) DEF OnTrail, x, b
<1> QED
  BY <1>5, SMTT(30), Z3T(30) DEF r, x, b

\* vmiter::real_find, from either side, leaves the iterator where the address
\* leads.
LEMMA RealFindOK ==
  ASSUME NEW m, NEW n, NEW L, Tree(m, n, L), NEW i \in Iters, NEW va \in VAs,
         i.level = 3 \/ IterOK(m, i)
  PROVE  IterOK(m, RealFind(m, i, va)) /\ RealFind(m, i, va).va = va
<1> DEFINE root == [i EXCEPT !.va = va, !.level = 3, !.perm = Bits, !.tab = 0,
                             !.idx = pageindex(va, 3)]
           near == [i EXCEPT !.va = va, !.idx = pageindex(va, i.level)]
           none == [root EXCEPT !.perm = {}, !.tab = NoTable, !.idx = 0]
           away == \/ i.level = 3
                   \/ i.va \div Region(i.level + 1) # va \div Region(i.level + 1)
           f == RealFind(m, i, va)
<1>1. f = IF ~ away THEN Down(m, near) ELSE IF va_is_canonical(va) THEN Down(m, root) ELSE none
  BY DEF RealFind, FindFrom
<1>2. /\ i.va \in VAs /\ i.va \in Nat /\ i.level \in 0 .. 3 /\ va \in Nat
      /\ pageindex(va, i.level) \in Idx
  BY IterFacts, Halves, BlockFacts, ZenonT(30)
<1> HIDE DEF f
<1>3. CASE ~ away
  <2>1. /\ i.level \in 0 .. 2 /\ i.level + 1 \in 0 .. 4
        /\ Block(i.va, i.level + 1) = Block(va, i.level + 1)
    BY <1>2, <1>3, SMTT(30), Z3T(30) DEF Block
  <2>2. IterOK(m, i) /\ va_is_canonical(i.va) /\ AtEnd(m, i)
    <3>1. i.level # 3
      BY <2>1, SMTT(30), Z3T(30)
    <3> QED
      BY <3>1, SMTT(30), Z3T(30) DEF IterOK
  <2>3. PICK T : Trail(m, i.va, i.level, T) /\ i.tab = T[i.level]
    BY <2>2, ZenonT(30) DEF AtEnd, OnTrail
  <2>4. Trail(m, va, i.level, T)
    BY <1>2, <2>1, <2>3, TrailSame, SMTT(30), Z3T(30)
  <2>5. Block(i.va, 3) = Block(va, 3)
    BY <1>2, <2>1, SameBlock, SMTT(30), Z3T(30)
  <2>6. va_is_canonical(va)
    BY <1>2, <2>2, <2>5, SameHalf, SMTT(30), Z3T(30)
  <2> DEFINE x == pageindex(va, i.level)
  <2>7. x \in 0 .. ENTRIES - 1
    BY <1>2, SMTT(30), Z3T(30) DEF Idx
  <2> HIDE DEF x
  <2>8. /\ near \in Iters /\ near.va = va /\ near.level = i.level /\ near.perm = i.perm
        /\ near.tab = i.tab /\ near.idx = x
    BY <2>7, ZenonT(30) DEF Iters, x
  <2> HIDE DEF near
  <2>9. OnTrail(m, near)
    BY <2>2, <2>3, <2>4, <2>8, SMTT(30), Z3T(30) DEF OnTrail, AtEnd, x
  <2>10. AtEnd(m, Down(m, near)) /\ Down(m, near).va = va
    BY <2>8, <2>9, DownEnds, SMTT(30), Z3T(30)
  <2>11. f = Down(m, near)
    BY <1>1, <1>3, ZenonT(30)
  <2> QED
    BY <2>6, <2>10, <2>11, ZenonT(30) DEF IterOK, AtEnd, OnTrail, f
<1>4. CASE away /\ va_is_canonical(va)
  <2>1. OnTrail(m, root) /\ root.va = va
    BY RootOnTrail, ZenonT(30) DEF Iters
  <2> HIDE DEF root
  <2>2. AtEnd(m, Down(m, root)) /\ Down(m, root).va = va
    BY <2>1, DownEnds, SMTT(30), Z3T(30)
  <2>3. f = Down(m, root)
    BY <1>1, <1>4, ZenonT(30)
  <2> QED
    BY <1>4, <2>2, <2>3, ZenonT(30) DEF IterOK, AtEnd, OnTrail, f
<1>5. CASE away /\ ~ va_is_canonical(va)
  <2>1. OnTrail(m, root) /\ root.va = va /\ root.level = 3
    BY RootOnTrail, ZenonT(30) DEF Iters
  <2>2. root \in Iters
    BY <2>1, SMTT(30), Z3T(30) DEF OnTrail
  <2> HIDE DEF root
  <2>3. 0 \in 0 .. ENTRIES - 1
    BY PTAssumption, SMTT(30), Z3T(30)
  <2>4. /\ none \in Iters /\ none.va = va /\ none.level = 3 /\ none.perm = {}
        /\ none.tab = NoTable /\ none.idx = 0
    BY <2>1, <2>2, <2>3, ZenonT(30) DEF Iters
  <2> HIDE DEF none
  <2>5. f = none
    BY <1>1, <1>5, ZenonT(30)
  <2> QED
    BY <1>5, <2>4, <2>5, ZenonT(30) DEF IterOK, f
<1> QED
  BY <1>3, <1>4, <1>5, SMTT(30), Z3T(30)

-----------------------------------------------------------------------------
(* What the iterator shows *)

\* An address leads somewhere, and that is its translation.
LEMMA EndOf ==
  ASSUME NEW m, NEW n, NEW L, Tree(m, n, L), NEW va \in Nat
  PROVE  \E l, T : l \in 0 .. 3 /\ Ends(m, va, l, T)
<1> DEFINE w == Walk(m, va)
<1>1. OnWalk(m, va, w) /\ WalkDone(m, va, w)
  BY WalkEnds, SMTT(30), Z3T(30)
<1> HIDE DEF w
<1>2. w.level \in 0 .. 3
  BY <1>1, ZenonT(30) DEF OnWalk, Walks
<1> QED
  BY <1>1, <1>2, SMTT(30), Z3T(30) DEF OnWalk, WalkDone, Ends, At

\* The entry that the iterator points to.
LEMMA IterEntry ==
  ASSUME NEW m, NEW n, NEW L, Tree(m, n, L), NEW i, IterOK(m, i)
  PROVE  /\ Entry(m, i) \in Entries /\ ~ TooHigh(Entry(m, i).pa)
         /\ ~ va_is_canonical(i.va) => Entry(m, i) = Zero
         /\ va_is_canonical(i.va) => Entry(m, i) = m[i.tab][i.idx] /\ i.perm = Bits
<1>1. CASE va_is_canonical(i.va)
  <2>1. OnTrail(m, i) /\ i.perm = Bits
    BY <1>1, ZenonT(30) DEF IterOK, AtEnd, OnTrail
  <2>2. /\ Entry(m, i) = m[i.tab][i.idx] /\ m[i.tab][i.idx] \in Entries
        /\ i.tab \in 0 .. n - 1 /\ i.idx \in Idx
    BY <2>1, OnTrailFacts, ZenonT(30)
  <2>3. ~ TooHigh(m[i.tab][i.idx].pa)
    BY <2>2, ZenonT(30) DEF Tree, Links
  <2> QED
    BY <1>1, <2>1, <2>2, <2>3, SMTT(30), Z3T(30)
<1>2. CASE ~ va_is_canonical(i.va)
  <2>1. Entry(m, i) = Zero
    BY <1>2 DEF IterOK, Entry
  <2> QED
    BY <1>2, <2>1, ZeroFacts, ZenonT(30)
<1> QED
  BY <1>1, <1>2, ZenonT(30)

\* Every address of the iterator's range leads to its level.
LEMMA IterEnds ==
  ASSUME NEW m, NEW n, NEW L, Tree(m, n, L), NEW i, IterOK(m, i), va_is_canonical(i.va),
         NEW va \in VAs, Block(va, i.level) = Block(i.va, i.level)
  PROVE  \E T : Ends(m, va, i.level, T) /\ At(m, va, T, i.level) = Entry(m, i)
<1>1. i \in Iters /\ i.va \in VAs /\ i.va \in Nat /\ i.level \in 0 .. 3 /\ va \in Nat
  BY IterFacts, Halves, ZenonT(30) DEF IterOK
<1>2. /\ pageindex(va, i.level) = pageindex(i.va, i.level)
      /\ Block(va, i.level + 1) = Block(i.va, i.level + 1)
  BY <1>1, BlockUp, ZenonT(30)
<1>3. OnTrail(m, i) /\ AtEnd(m, i) /\ i.idx = pageindex(i.va, i.level)
  BY ZenonT(30) DEF IterOK, AtEnd, OnTrail
<1>4. PICK T : Trail(m, i.va, i.level, T) /\ i.tab = T[i.level]
  BY <1>3, ZenonT(30) DEF OnTrail
<1>5. Trail(m, va, i.level, T)
  BY <1>1, <1>2, <1>4, TrailSame, ZenonT(30)
<1>6. At(m, va, T, i.level) = Entry(m, i)
  BY <1>2, <1>3, <1>4, IterEntry, ZenonT(30) DEF At
<1>7. Ends(m, va, i.level, T)
  BY <1>3, <1>5, <1>6, IterEntry, ZenonT(30) DEF Ends, AtEnd
<1> QED
  BY <1>6, <1>7, ZenonT(30)

\* Every address of the iterator's range translates through its entry.
LEMMA IterTranslate ==
  ASSUME NEW m, NEW n, NEW L, Tree(m, n, L), NEW i, IterOK(m, i),
         NEW va \in VAs, Block(va, i.level) = Block(i.va, i.level)
  PROVE  Translate(m, va) = IF va_is_canonical(i.va)
                            THEN Meaning(va, Entry(m, i), i.level) ELSE Unmapped
<1>1. i.va \in VAs /\ i.va \in Nat /\ i.level \in 0 .. 3 /\ va \in Nat
  BY IterFacts, Halves, ZenonT(30) DEF IterOK
<1>2. Block(va, 3) = Block(i.va, 3)
  <2>1. 3 \in 0 .. 3 /\ 3 >= i.level /\ i.level \in 0 .. 4
    BY <1>1, SMTT(30), Z3T(30)
  <2> QED
    BY <1>1, <2>1, SameBlock, ZenonT(30)
<1>3. va_is_canonical(va) <=> va_is_canonical(i.va)
  BY <1>1, <1>2, SameHalf, SMTT(30), Z3T(30)
<1>4. CASE ~ va_is_canonical(i.va)
  BY <1>3, <1>4, SMTT(30), Z3T(30) DEF Translate
<1>5. CASE va_is_canonical(i.va)
  <2>1. PICK T : Ends(m, va, i.level, T) /\ At(m, va, T, i.level) = Entry(m, i)
    BY <1>5, IterEnds, ZenonT(30)
  <2>2. Translate(m, va) = Meaning(va, At(m, va, T, i.level), i.level)
    BY <1>1, <1>3, <1>5, <2>1, TranslateIs, ZenonT(30)
  <2> QED
    BY <1>5, <2>1, <2>2, ZenonT(30)
<1> QED
  BY <1>4, <1>5, ZenonT(30)

\* perm() of an iterator.
LEMMA IterPerm ==
  ASSUME NEW m, NEW n, NEW L, Tree(m, n, L), NEW i, IterOK(m, i)
  PROVE  Perm(m, i) = IF "P" \in Entry(m, i).bits THEN Entry(m, i).bits ELSE {}
<1>1. CASE va_is_canonical(i.va)
  <2> DEFINE e == Entry(m, i)
  <2>1. i.perm = Bits /\ e \in Entries
    BY <1>1, IterEntry, SMTT(30), Z3T(30)
  <2> HIDE DEF e
  <2>2. e.bits \cap Bits = e.bits
    BY <2>1, ZenonT(30) DEF Entries
  <2> QED
    BY <2>1, <2>2, ZenonT(30) DEF Perm, e
<1>2. CASE ~ va_is_canonical(i.va)
  BY <1>2, IterEntry, SMTT(30), Z3T(30) DEF Perm, Zero
<1> QED
  BY <1>1, <1>2, ZenonT(30)

\* The inductive invariant: the table pages are a tree, and the iterator
\* stands where its address leads in it.
PTInv ==
  /\ \E L : Tree(mem, nalloc, L)
  /\ IterOK(mem, it)
  /\ halt \in {"none", "assert"}

LEMMA InvTranslates == PTInv => IteratorTranslates
<1> SUFFICES ASSUME PTInv PROVE IteratorTranslates
  OBVIOUS
<1>1. PICK L : Tree(mem, nalloc, L)
  BY ZenonT(30) DEF PTInv
<1>2. IterOK(mem, it) /\ it.va \in VAs
  BY IterFacts, SMTT(30), Z3T(30) DEF PTInv, IterOK
<1> DEFINE e == Entry(mem, it)  t == Translate(mem, it.va)
<1>3. t = IF va_is_canonical(it.va) THEN Meaning(it.va, e, it.level) ELSE Unmapped
  BY <1>1, <1>2, IterTranslate, ZenonT(30)
<1>4. Perm(mem, it) = IF "P" \in e.bits THEN e.bits ELSE {}
  BY <1>1, <1>2, IterPerm, ZenonT(30)
<1>5. ~ va_is_canonical(it.va) => e = Zero
  BY <1>1, <1>2, IterEntry, ZenonT(30)
<1>6. Pa(mem, it) = IF "P" \in e.bits THEN e.pa * PAGESIZE + (it.va % Region(it.level)) ELSE NoPa
  BY SMTT(30), Z3T(30) DEF Pa
<1> HIDE DEF e, t
<1>7. CASE va_is_canonical(it.va) /\ "P" \in e.bits
  <2>1. /\ t.bits = PWU \cap e.bits /\ t.pa = e.pa * PAGESIZE + (it.va % Region(it.level))
    BY <1>3, <1>7 DEF Meaning
  <2>2. Perm(mem, it) \cap PWU = t.bits /\ Pa(mem, it) = t.pa
    BY <1>4, <1>6, <1>7, <2>1, ZenonT(30)
  <2> QED
    BY <2>2, SMTT(30), Z3T(30) DEF IteratorTranslates, t
<1>8. CASE ~ (va_is_canonical(it.va) /\ "P" \in e.bits)
  <2>1. t = Unmapped /\ "P" \notin e.bits
    BY <1>3, <1>5, <1>8, SMTT(30), Z3T(30) DEF Meaning, Zero
  <2>2. Perm(mem, it) \cap PWU = t.bits /\ t.bits = {}
    BY <1>4, <2>1, SMTT(30), Z3T(30) DEF Unmapped
  <2> QED
    BY <2>2, ZenonT(30) DEF IteratorTranslates, t
<1> QED
  BY <1>7, <1>8, SMTT(30), Z3T(30)

\* The end of a region, and what lies before it.
LEMMA RegionEndFacts ==
  ASSUME NEW va \in VAs, NEW l \in 0 .. 3
  PROVE  /\ RegionEnd(va, l) \in VAs
         /\ \A wa \in va .. RegionEnd(va, l) - 1 :
              wa \in VAs /\ wa \in Nat /\ Block(wa, l) = Block(va, l)
<1> DEFINE r == Region(l)  b == va \div r  x == (b + 1) * r
<1>1. r \in Nat /\ r > 0 /\ va \in Nat /\ VA_END \in Nat /\ VA_END > 0
  <2>1. Region(4) \in Nat /\ Region(4) > 0 /\ Region(l) \in Nat /\ Region(l) > 0
    BY RegionSizes, SMTT(30), Z3T(30)
  <2> QED
    BY <2>1, Halves, SMTT(30), Z3T(30) DEF VA_END
<1> HIDE DEF r
<1>2. b \in Nat /\ x \in Nat /\ r * b <= va /\ va < x /\ x = r * b + r
  <2>1. b \in Nat /\ va % r \in 0 .. r - 1 /\ va = r * b + (va % r)
    BY <1>1, DivFacts, SMTT(30), Z3T(30)
  <2> HIDE DEF b
  <2>2. r * b \in Nat /\ x = r * b + r
    BY <1>1, <2>1, SMTT(30), Z3T(30)
  <2> HIDE DEF x
  <2>3. x \in Nat
    BY <1>1, <2>2, SMTT(30), Z3T(30)
  <2> DEFINE y == r * b  z == va % r
  <2>4. y \in Nat /\ z \in 0 .. r - 1 /\ va = y + z /\ x = y + r
    BY <2>1, <2>2, SMTT(30), Z3T(30)
  <2> HIDE DEF y, z
  <2>5. y <= va /\ va < x
    BY <1>1, <2>4, SMTT(30), Z3T(30)
  <2> QED
    BY <2>1, <2>2, <2>3, <2>5, SMTT(30), Z3T(30) DEF y
<1>3. RegionEnd(va, l) = x % VA_END
  BY SMTT(30), Z3T(30) DEF RegionEnd, r
<1>4. Block(va, l) = b
  BY SMTT(30), Z3T(30) DEF Block, r
<1> HIDE DEF b, x
<1>5. x % VA_END \in 0 .. VA_END - 1 /\ x % VA_END <= x
  <2>1. x \div VA_END \in Nat /\ x % VA_END \in 0 .. VA_END - 1
        /\ x = VA_END * (x \div VA_END) + (x % VA_END)
    BY <1>1, <1>2, DivFacts, SMTT(30), Z3T(30)
  <2>2. VA_END * (x \div VA_END) \in Nat
    BY <1>1, <2>1, SMTT(30), Z3T(30)
  <2> QED
    BY <2>1, <2>2, SMTT(30), Z3T(30)
<1>6. ASSUME NEW wa \in va .. RegionEnd(va, l) - 1
      PROVE  wa \in VAs /\ wa \in Nat /\ Block(wa, l) = Block(va, l)
  <2> DEFINE y == x % VA_END  c == r * b
  <2>1. y \in 0 .. VA_END - 1 /\ y <= x /\ wa \in va .. y - 1 /\ c <= va /\ x = c + r
    BY <1>2, <1>3, <1>5, SMTT(30), Z3T(30)
  <2>2. c \in Int
    BY <1>1, <1>2, SMTT(30), Z3T(30)
  <2> HIDE DEF y, c
  <2>3. wa \in Nat /\ wa < VA_END /\ c <= wa /\ wa < c + r
    BY <1>1, <1>2, <2>1, <2>2, SMTT(30), Z3T(30)
  <2>4. wa \div r = b
    <3>1. wa \div r \in Nat /\ wa % r \in 0 .. r - 1 /\ wa = r * (wa \div r) + (wa % r)
      BY <1>1, <2>3, DivFacts, SMTT(30), Z3T(30)
    <3>2. wa < r * (b + 1) /\ ~ (wa < r * b)
      BY <1>1, <1>2, <2>2, <2>3, SMTT(30), Z3T(30) DEF c
    <3>3. wa \div r < b + 1 /\ ~ (wa \div r < b)
      BY <1>1, <1>2, <2>3, <3>2, DivLess, SMTT(30), Z3T(30)
    <3> QED
      BY <1>2, <3>1, <3>3, SMTT(30), Z3T(30)
  <2>5. wa \in VAs
    BY <1>1, <2>3, SMTT(30), Z3T(30) DEF VAs
  <2> QED
    BY <1>4, <2>3, <2>4, <2>5, SMTT(30), Z3T(30) DEF Block, r
<1>7. RegionEnd(va, l) \in VAs
  BY <1>3, <1>5, SMTT(30), Z3T(30) DEF VAs
<1> QED
  BY <1>6, <1>7, SMTT(30), Z3T(30)

LEMMA InvPasses == PTInv => NothingPassedOver
<1> SUFFICES ASSUME PTInv PROVE NothingPassedOver
  OBVIOUS
<1>1. PICK L : Tree(mem, nalloc, L)
  BY SMTT(30), Z3T(30) DEF PTInv
<1>2. IterOK(mem, it) /\ it.va \in VAs /\ it.va \in Nat /\ it.level \in 0 .. 3
  BY IterFacts, SMTT(30), Z3T(30) DEF PTInv, IterOK
<1> DEFINE e == Entry(mem, it)
<1>3. ASSUME NEW va \in VAs, Block(va, it.level) = Block(it.va, it.level)
      PROVE  Translate(mem, va) = IF va_is_canonical(it.va)
                                  THEN Meaning(va, e, it.level) ELSE Unmapped
  BY <1>1, <1>2, <1>3, IterTranslate, ZenonT(30)
<1>4. Perm(mem, it) = IF "P" \in e.bits THEN e.bits ELSE {}
  BY <1>1, <1>2, IterPerm, SMTT(30), Z3T(30)
<1> HIDE DEF e
<1>5. ASSUME NEW va \in it.va .. LastVa(it) - 1
      PROVE  Translate(mem, va).bits = Translate(mem, it.va).bits
  <2>1. va \in VAs /\ Block(va, it.level) = Block(it.va, it.level)
    BY <1>2, RegionEndFacts, ZenonT(30) DEF LastVa
  <2>2. \A wa \in VAs : Block(wa, it.level) = Block(it.va, it.level) =>
          Translate(mem, wa).bits = IF va_is_canonical(it.va) /\ "P" \in e.bits
                                    THEN PWU \cap e.bits ELSE {}
    <3> SUFFICES ASSUME NEW wa \in VAs, Block(wa, it.level) = Block(it.va, it.level)
                 PROVE  Translate(mem, wa).bits =
                          IF va_is_canonical(it.va) /\ "P" \in e.bits
                          THEN PWU \cap e.bits ELSE {}
      BY SMTT(30), Z3T(30)
    <3> DEFINE t == Translate(mem, wa)
    <3>1. t = IF va_is_canonical(it.va) THEN Meaning(wa, e, it.level) ELSE Unmapped
      BY <1>3, ZenonT(30)
    <3> HIDE DEF t
    <3>2. t.bits = IF va_is_canonical(it.va) /\ "P" \in e.bits THEN PWU \cap e.bits ELSE {}
      BY <3>1, SMTT(30), Z3T(30) DEF Meaning, Unmapped
    <3> QED
      BY <3>2, SMTT(30), Z3T(30) DEF t
  <2> QED
    BY <1>2, <2>1, <2>2, SMTT(30), Z3T(30)
<1>6. ASSUME NEW va \in it.va + 1 .. NextVa(mem, it) - 1, va % PAGESIZE = 0
      PROVE  Translate(mem, va) = Unmapped
  <2>1. CASE Perm(mem, it) = {}
    <3>1. NextVa(mem, it) = RegionEnd(it.va, it.level)
      BY <2>1, SMTT(30), Z3T(30) DEF NextVa
    <3>2. va \in it.va .. RegionEnd(it.va, it.level) - 1
      <4>1. RegionEnd(it.va, it.level) \in Int
        BY <1>2, RegionEndFacts, Halves, SMTT(30), Z3T(30)
      <4> QED
        BY <1>2, <1>6, <3>1, <4>1, SMTT(30), Z3T(30)
    <3>3. va \in VAs /\ Block(va, it.level) = Block(it.va, it.level)
      BY <1>2, <3>2, RegionEndFacts
    <3>4. "P" \notin e.bits
      BY <1>4, <2>1, SMTT(30), Z3T(30)
    <3> QED
      BY <1>3, <3>3, <3>4, SMTT(30), Z3T(30) DEF Meaning
  <2>2. CASE Perm(mem, it) # {}
    <3>1. NextVa(mem, it) = RegionEnd(it.va, 0)
      BY <2>2, SMTT(30), Z3T(30) DEF NextVa
    <3>2. va \in it.va .. RegionEnd(it.va, 0) - 1 /\ it.va < va
      <4>1. RegionEnd(it.va, 0) \in Int
        BY <1>2, RegionEndFacts, Halves, SMTT(30), Z3T(30)
      <4> QED
        BY <1>2, <1>6, <3>1, <4>1, SMTT(30), Z3T(30)
    <3>3. va \in Nat /\ Block(va, 0) = Block(it.va, 0)
      BY <1>2, <3>2, RegionEndFacts, SMTT(30), Z3T(30)
    <3>4. va \div PAGESIZE = it.va \div PAGESIZE /\ PAGESIZE \in Nat /\ PAGESIZE > 0
      BY <3>3, RegionSizes, PTAssumption, SMTT(30), Z3T(30) DEF Block
    <3>5. /\ va = PAGESIZE * (va \div PAGESIZE) + (va % PAGESIZE)
          /\ it.va = PAGESIZE * (it.va \div PAGESIZE) + (it.va % PAGESIZE)
          /\ it.va % PAGESIZE \in 0 .. PAGESIZE - 1 /\ it.va \div PAGESIZE \in Nat
      BY <1>2, <3>3, <3>4, DivFacts, ZenonT(30)
    <3> DEFINE c == PAGESIZE * (it.va \div PAGESIZE)  d == it.va % PAGESIZE
    <3>6. c \in Int
      BY <3>4, <3>5, SMTT(30), Z3T(30)
    <3>7. va = c + (va % PAGESIZE) /\ it.va = c + d /\ d \in 0 .. PAGESIZE - 1
      BY <3>4, <3>5, Zenon
    <3> HIDE DEF c, d
    <3> QED
      BY <1>2, <1>6, <3>2, <3>4, <3>6, <3>7, SMTT(30), Z3T(30)
  <2> QED
    BY <2>1, <2>2, SMTT(30), Z3T(30)
<1> QED
  BY <1>5, <1>6, ZenonT(30) DEF NothingPassedOver

-----------------------------------------------------------------------------
(* Storing an entry at level 0 *)

\* A change that leaves the entries above level l alone leaves a trail alone.
LEMMA TrailKept ==
  ASSUME NEW m, NEW q, NEW va, NEW l \in 0 .. 3, NEW T, Trail(m, va, l, T),
         \A k \in 0 .. 3 : k > l => At(q, va, T, k) = At(m, va, T, k)
  PROVE  Trail(q, va, l, T)
<1>1. \A k \in 0 .. 2 : k >= l => At(q, va, T, k + 1) = At(m, va, T, k + 1)
  BY SMTT(30), Z3T(30)
<1> QED
  BY <1>1, SMTT(30), Z3T(30) DEF Trail

\* What one store does to the pages.
LEMMA StoreAt ==
  ASSUME NEW m \in [Tables -> [Idx -> Entries]], NEW a \in Tables, NEW b \in Idx, NEW e \in Entries
  PROVE  LET q == [m EXCEPT ![a][b] = e] IN
         /\ q \in [Tables -> [Idx -> Entries]]
         /\ \A t \in Tables, x \in Idx : q[t][x] = IF t = a /\ x = b THEN e ELSE m[t][x]
BY SMTT(30), Z3T(30)

\* Two addresses that lead to the same entry of level 0 have the same indices.
LEMMA SameIndices ==
  ASSUME NEW m, NEW n, NEW L, Tree(m, n, L), NEW va \in Nat, NEW wa \in Nat, NEW T, NEW U,
         Trail(m, va, 0, T), Trail(m, wa, 0, U), T[0] = U[0],
         pageindex(va, 0) = pageindex(wa, 0)
  PROVE  \A k \in 0 .. 3 : pageindex(va, k) = pageindex(wa, k)
<1>1. ASSUME NEW k \in 0 .. 2, T[k] = U[k]
      PROVE  T[k + 1] = U[k + 1] /\ pageindex(va, k + 1) = pageindex(wa, k + 1)
  <2>1. k + 1 \in 0 .. 3 /\ k + 1 >= 0 /\ k >= 0 /\ k + 1 > 0
    BY SMTT(30), Z3T(30)
  <2>2. /\ T[k + 1] \in 0 .. n - 1 /\ L[T[k + 1]] = k + 1
        /\ U[k + 1] \in 0 .. n - 1 /\ L[U[k + 1]] = k + 1
    BY <2>1, TrailLevels, SMTT(30), Z3T(30)
  <2>3. pageindex(va, k + 1) \in Idx /\ pageindex(wa, k + 1) \in Idx
    BY <2>1, IndexIn, ZenonT(30)
  <2>4. /\ PointsDown(m[T[k + 1]][pageindex(va, k + 1)])
        /\ T[k] = m[T[k + 1]][pageindex(va, k + 1)].pa
        /\ PointsDown(m[U[k + 1]][pageindex(wa, k + 1)])
        /\ U[k] = m[U[k + 1]][pageindex(wa, k + 1)].pa
    BY <2>1, SMTT(30), Z3T(30) DEF Trail, At
  <2>5. m[T[k + 1]][pageindex(va, k + 1)].pa = m[U[k + 1]][pageindex(wa, k + 1)].pa
    BY <1>1, <2>4, ZenonT(30)
  <2>6. L[T[k + 1]] > 0 /\ L[U[k + 1]] > 0
    BY <2>1, <2>2, SMTT(30), Z3T(30)
  <2> DEFINE t == T[k + 1]  u == U[k + 1]  x == pageindex(va, k + 1)  y == pageindex(wa, k + 1)
  <2>7. /\ t \in 0 .. n - 1 /\ u \in 0 .. n - 1 /\ x \in Idx /\ y \in Idx
        /\ L[t] > 0 /\ PointsDown(m[t][x]) /\ L[u] > 0 /\ PointsDown(m[u][y])
        /\ m[t][x].pa = m[u][y].pa
    BY <2>2, <2>3, <2>4, <2>5, <2>6, ZenonT(30)
  <2> HIDE DEF t, u, x, y
  <2>8. OneParent(m, n, L)
    BY SMTT(30), Z3T(30) DEF Tree
  <2>9. t = u /\ x = y
    BY <2>7, <2>8, SMTT(30), Z3T(30) DEF OneParent
  <2> QED
    BY <2>9, SMTT(30), Z3T(30) DEF t, u, x, y
<1>2. 0 \in 0 .. 2 /\ 1 \in 0 .. 2 /\ 2 \in 0 .. 2 /\ 0 + 1 = 1 /\ 1 + 1 = 2 /\ 2 + 1 = 3
  BY SMTT(30), Z3T(30)
<1>3. T[1] = U[1] /\ pageindex(va, 1) = pageindex(wa, 1)
  BY <1>1, <1>2, SMTT(30), Z3T(30)
<1>4. T[2] = U[2] /\ pageindex(va, 2) = pageindex(wa, 2)
  BY <1>1, <1>2, <1>3, SMTT(30), Z3T(30)
<1>5. pageindex(va, 3) = pageindex(wa, 3)
  BY <1>1, <1>2, <1>4, SMTT(30), Z3T(30)
<1> QED
  BY <1>3, <1>4, <1>5, SMTT(30), Z3T(30)

\* "*pep_ = pa | perm".
Stored(m, i, e) == [m EXCEPT ![i.tab][i.idx] = e]

\* try_map's store changes what the iterator's page translates to and nothing
\* else.
LEMMA StoreLeaf ==
  ASSUME NEW m, NEW n, NEW L, Tree(m, n, L), NEW i, AtEnd(m, i), i.level = 0,
         va_is_canonical(i.va), NEW e \in Entries, ~ TooHigh(e.pa),
         NEW q, q = Stored(m, i, e)
  PROVE  /\ Tree(q, n, L) /\ AtEnd(q, i)
         /\ \A va \in VAs : va_is_canonical(va) =>
              Translate(q, va) = IF va \div PAGESIZE = i.va \div PAGESIZE
                                 THEN Meaning(va, e, 0) ELSE Translate(m, va)
<1>1. /\ i.va \in VAs /\ i.va \in Nat /\ i.tab \in 0 .. n - 1 /\ i.tab \in Tables
      /\ L[i.tab] = 0 /\ i.idx \in Idx /\ i.idx = pageindex(i.va, 0)
  BY OnTrailFacts, SMTT(30), Z3T(30) DEF AtEnd
<1>2. /\ m \in [Tables -> [Idx -> Entries]]
      /\ n \in 1 .. NTABLES /\ L \in [0 .. n - 1 -> 0 .. 3] /\ L[0] = 3
      /\ 0 .. n - 1 \subseteq Tables
  BY PTAssumption, SMTT(30), Z3T(30) DEF Tree, Links, Tables
<1>3. /\ q \in [Tables -> [Idx -> Entries]]
      /\ \A t \in Tables, x \in Idx : q[t][x] = IF t = i.tab /\ x = i.idx THEN e ELSE m[t][x]
  BY <1>1, <1>2, StoreAt, SMTT(30), Z3T(30) DEF Stored
<1>4. \A t \in 0 .. n - 1, x \in Idx :
        /\ t \in Tables
        /\ L[t] > 0 => q[t][x] = m[t][x]
        /\ q[t][x] = e \/ q[t][x] = m[t][x]
  BY <1>1, <1>2, <1>3, SMTT(30), Z3T(30)
<1>5. Tree(q, n, L)
  <2>1. ASSUME NEW t \in 0 .. n - 1, NEW x \in Idx
        PROVE  /\ ~ TooHigh(q[t][x].pa)
               /\ L[t] > 0 /\ PointsDown(q[t][x]) =>
                    /\ q[t][x].bits = PWU /\ q[t][x].pa \in 0 .. n - 1
                    /\ L[q[t][x].pa] = L[t] - 1
    <3>1. ~ TooHigh(q[t][x].pa)
      BY <1>4, SMTT(30), Z3T(30) DEF Tree, Links
    <3>2. L[t] > 0 => q[t][x] = m[t][x]
      BY <1>4, ZenonT(30)
    <3> QED
      BY <3>1, <3>2, SMTT(30), Z3T(30) DEF Tree, Links
  <2>2. ASSUME NEW t \in 0 .. n - 1, NEW u \in 0 .. n - 1, NEW x \in Idx, NEW y \in Idx,
               L[t] > 0, PointsDown(q[t][x]), L[u] > 0, PointsDown(q[u][y]),
               q[t][x].pa = q[u][y].pa
        PROVE  t = u /\ x = y
    <3>1. q[t][x] = m[t][x] /\ q[u][y] = m[u][y]
      BY <1>4, <2>2, ZenonT(30)
    <3> QED
      BY <2>2, <3>1, SMTT(30), Z3T(30) DEF Tree, OneParent
  <2>3. OneParent(q, n, L)
    BY <2>2, SMTT(30), Z3T(30) DEF OneParent
  <2>4. Links(q, n, L)
    BY <2>1, ZenonT(30) DEF Links
  <2> QED
    BY <1>2, <1>3, <2>3, <2>4, ZenonT(30) DEF Tree
<1>6. ASSUME NEW va \in Nat, NEW l \in 0 .. 3, NEW T, Trail(m, va, l, T)
      PROVE  Trail(q, va, l, T)
  <2>1. ASSUME NEW k \in 0 .. 3, k > l PROVE At(q, va, T, k) = At(m, va, T, k)
    <3>1. k >= l /\ k > 0
      BY <2>1, SMTT(30), Z3T(30)
    <3>2. T[k] \in 0 .. n - 1 /\ L[T[k]] = k
      BY <1>6, <3>1, TrailLevels, SMTT(30), Z3T(30)
    <3>3. pageindex(va, k) \in Idx
      BY IndexIn, ZenonT(30)
    <3> QED
      BY <1>4, <3>1, <3>2, <3>3, SMTT(30), Z3T(30) DEF At
  <2> QED
    BY <1>6, <2>1, TrailKept, ZenonT(30)
<1>7. AtEnd(q, i)
  <2>1. PICK T : Trail(m, i.va, 0, T) /\ i.tab = T[0]
    BY ZenonT(30) DEF AtEnd, OnTrail
  <2>2. Trail(q, i.va, 0, T)
    <3>1. 0 \in 0 .. 3
      BY SMTT(30), Z3T(30)
    <3> QED
      BY <1>1, <1>6, <2>1, <3>1, ZenonT(30)
  <2> QED
    BY <2>1, <2>2, ZenonT(30) DEF AtEnd, OnTrail
<1>8. PICK T : Trail(m, i.va, 0, T) /\ i.tab = T[0]
  BY SMTT(30), Z3T(30) DEF AtEnd, OnTrail
<1>9. ASSUME NEW va \in VAs, va_is_canonical(va)
      PROVE  Translate(q, va) = IF va \div PAGESIZE = i.va \div PAGESIZE
                                THEN Meaning(va, e, 0) ELSE Translate(m, va)
  <2>1. va \in Nat
    BY Halves, ZenonT(30)
  <2>2. CASE va \div PAGESIZE = i.va \div PAGESIZE
    <3>1. Block(va, 0) = Block(i.va, 0)
      BY <2>2, RegionSizes, ZenonT(30) DEF Block
    <3>2. IterOK(q, i)
      BY <1>7, ZenonT(30) DEF IterOK, AtEnd, OnTrail
    <3>3. Entry(q, i) = q[i.tab][i.idx]
      BY <1>5, <3>2, IterEntry, ZenonT(30)
    <3>4. q[i.tab][i.idx] = e
      BY <1>1, <1>3, SMTT(30), Z3T(30)
    <3>5. Translate(q, va) = Meaning(va, Entry(q, i), 0)
      BY <1>5, <3>1, <3>2, IterTranslate, ZenonT(30)
    <3> QED
      BY <2>2, <3>3, <3>4, <3>5, ZenonT(30)
  <2>3. CASE va \div PAGESIZE # i.va \div PAGESIZE
    <3>1. PICK l, U : l \in 0 .. 3 /\ Ends(m, va, l, U)
      BY <2>1, EndOf, ZenonT(30)
    <3>2. Trail(m, va, l, U) /\ Trail(q, va, l, U)
      BY <1>6, <2>1, <3>1, ZenonT(30) DEF Ends
    <3>3. /\ U[l] \in 0 .. n - 1 /\ U[l] \in Tables /\ L[U[l]] = l /\ pageindex(va, l) \in Idx
      BY <2>1, <3>1, <3>2, TrailAt, SMTT(30), Z3T(30)
    <3>4. ~ (U[l] = i.tab /\ pageindex(va, l) = i.idx)
      <4> SUFFICES ASSUME U[l] = i.tab, pageindex(va, l) = i.idx PROVE FALSE
        OBVIOUS
      <4>1. l = 0
        BY <1>1, <3>3, ZenonT(30)
      <4>2. \A k \in 0 .. 3 : pageindex(i.va, k) = pageindex(va, k)
        BY <1>1, <1>8, <2>1, <3>2, <4>1, SameIndices, SMTT(30), Z3T(30)
      <4> QED
        BY <1>1, <1>9, <2>3, <4>2, SamePage, ZenonT(30)
    <3>5. At(q, va, U, l) = At(m, va, U, l)
      BY <1>3, <3>3, <3>4, ZenonT(30) DEF At
    <3>6. Ends(q, va, l, U)
      BY <3>1, <3>2, <3>5, ZenonT(30) DEF Ends
    <3>7. Translate(m, va) = Meaning(va, At(m, va, U, l), l)
      BY <1>9, <2>1, <3>1, TranslateIs, ZenonT(30)
    <3>8. Translate(q, va) = Meaning(va, At(q, va, U, l), l)
      BY <1>5, <1>9, <2>1, <3>1, <3>6, TranslateIs, ZenonT(30)
    <3> QED
      BY <2>3, <3>5, <3>7, <3>8, ZenonT(30)
  <2> QED
    BY <2>2, <2>3, SMTT(30), Z3T(30)
<1> QED
  BY <1>5, <1>7, <1>9, ZenonT(30)

-----------------------------------------------------------------------------
(* Adding a table page *)

\* A new page, cleared, and a link to it.
Linked(m, n, a, b) == [m EXCEPT ![n] = [x \in Idx |-> Zero], ![a][b] = Link(n)]

\* The new page is one of the level below that of the entry it hangs from.
Added(n, l, L) == [t \in 0 .. n |-> IF t = n THEN l - 1 ELSE L[t]]

LEMMA LinkTree ==
  ASSUME NEW m, NEW n, NEW L, Tree(m, n, L), n < NTABLES, NEW a \in 0 .. n - 1, NEW b \in Idx,
         L[a] > 0, ~ PointsDown(m[a][b]),
         NEW q, q = Linked(m, n, a, b)
  PROVE  /\ Tree(q, n + 1, Added(n, L[a], L))
         /\ \A t \in 0 .. n, x \in Idx :
              q[t][x] = IF t = n THEN Zero ELSE IF t = a /\ x = b THEN Link(n) ELSE m[t][x]
<1> DEFINE K == Added(n, L[a], L)
<1>1. /\ m \in [Tables -> [Idx -> Entries]]
      /\ n \in Nat /\ n >= 1 /\ NTABLES \in Nat /\ L \in [0 .. n - 1 -> 0 .. 3] /\ L[0] = 3
  BY PTAssumption, SMTT(30), Z3T(30) DEF Tree
<1>2. n \in Tables /\ a \in Tables /\ a # n /\ 0 .. n \subseteq Tables /\ n + 1 - 1 = n
  BY <1>1, SMTT(30), Z3T(30) DEF Tables
<1>3. Link(n) \in Entries /\ Zero \in Entries
  BY <1>1, SMTT(30), Z3T(30) DEF Link, Zero, Entries, Bits
<1>4. /\ q \in [Tables -> [Idx -> Entries]]
      /\ \A t \in Tables, x \in Idx :
           q[t][x] = IF t = n THEN Zero ELSE IF t = a /\ x = b THEN Link(n) ELSE m[t][x]
  <2> DEFINE e == Link(n)  r == [x \in Idx |-> Zero]  p == [m EXCEPT ![n] = r]
  <2>1. e \in Entries /\ r \in [Idx -> Entries] /\ \A x \in Idx : r[x] = Zero
    BY <1>3, SMTT(30), Z3T(30)
  <2>2. q = [p EXCEPT ![a][b] = e]
    BY ZenonT(30) DEF Linked
  <2> HIDE DEF e, r
  <2>3. p \in [Tables -> [Idx -> Entries]] /\ \A t \in Tables : p[t] = IF t = n THEN r ELSE m[t]
    BY <1>1, <1>2, <2>1, SMTT(30), Z3T(30)
  <2> HIDE DEF p
  <2>4. /\ q \in [Tables -> [Idx -> Entries]]
        /\ \A t \in Tables, x \in Idx : q[t][x] = IF t = a /\ x = b THEN e ELSE p[t][x]
    BY ONLY <1>2, <2>1, <2>2, <2>3, b \in Idx, ZenonT(30)
  <2> QED
    BY <1>2, <2>1, <2>3, <2>4, SMTT(30), Z3T(30) DEF e
<1>5. \A t \in 0 .. n, x \in Idx :
        q[t][x] = IF t = n THEN Zero ELSE IF t = a /\ x = b THEN Link(n) ELSE m[t][x]
  BY <1>2, <1>4, SMTT(30), Z3T(30)
<1>6. /\ K \in [0 .. n -> 0 .. 3] /\ K[0] = 3 /\ K[n] = L[a] - 1 /\ K[a] = L[a]
      /\ \A t \in 0 .. n - 1 : t \in 0 .. n /\ K[t] = L[t] /\ t # n
  <2>1. L[a] \in 0 .. 3 /\ L[a] - 1 \in 0 .. 3
    BY <1>1, SMTT(30), Z3T(30)
  <2>2. \A t \in 0 .. n : t = n \/ t \in 0 .. n - 1
    BY <1>1, SMTT(30), Z3T(30)
  <2>3. \A t \in 0 .. n - 1 : t \in 0 .. n /\ K[t] = L[t] /\ t # n
    BY <1>1, SMTT(30), Z3T(30) DEF Added
  <2>4. K[n] = L[a] - 1 /\ n \in 0 .. n /\ 0 \in 0 .. n - 1
    BY <1>1, SMTT(30), Z3T(30) DEF Added
  <2>5. K \in [0 .. n -> 0 .. 3]
    BY <1>1, <2>1, <2>2, ZenonT(30) DEF Added
  <2> HIDE DEF K
  <2> QED
    BY <1>1, <2>3, <2>4, <2>5, SMTT(30), Z3T(30)
<1> HIDE DEF K
<1>7. \A t \in 0 .. n : t = n \/ t \in 0 .. n - 1
  BY <1>1
<1>8. ~ PointsDown(Zero) /\ ~ TooHigh(Zero.pa) /\ Link(n).pa = n /\ ~ TooHigh(n) /\ Link(n).bits = PWU
  <2>1. n \in Nat /\ n < PA_LIMIT
    BY <1>1, LimitFacts, SMTT(30), Z3T(30)
  <2>2. Link(n).pa = n /\ Link(n).bits = PWU
    BY SMTT(30), Z3T(30) DEF Link
  <2> QED
    BY <2>1, <2>2, ZeroFacts, LowPages, ZenonT(30)
\* What points down in the new tables.
<1>9. ASSUME NEW t \in 0 .. n, NEW x \in Idx, PointsDown(q[t][x])
      PROVE  /\ t \in 0 .. n - 1
             /\ \/ t = a /\ x = b /\ q[t][x] = Link(n)
                \/ ~ (t = a /\ x = b) /\ q[t][x] = m[t][x] /\ PointsDown(m[t][x])
  <2>1. q[t][x] = IF t = n THEN Zero ELSE IF t = a /\ x = b THEN Link(n) ELSE m[t][x]
    BY <1>5, ZenonT(30)
  <2>2. t # n
    BY <1>8, <1>9, <2>1, SMTT(30), Z3T(30)
  <2>3. t \in 0 .. n - 1
    BY <1>7, <2>2, ZenonT(30)
  <2>4. CASE t = a /\ x = b
    BY <2>1, <2>2, <2>3, <2>4, ZenonT(30)
  <2>5. CASE ~ (t = a /\ x = b)
    <3>1. q[t][x] = m[t][x]
      BY <2>1, <2>2, <2>5, SMTT(30), Z3T(30)
    <3> QED
      BY <1>9, <2>3, <2>5, <3>1, ZenonT(30)
  <2> QED
    BY <2>4, <2>5, ZenonT(30)
<1>10. Links(q, n + 1, K)
  <2>1. ASSUME NEW t \in 0 .. n, NEW x \in Idx PROVE ~ TooHigh(q[t][x].pa)
    <3>1. t = n \/ (t \in 0 .. n - 1 /\ ~ TooHigh(m[t][x].pa))
      BY <1>7, ZenonT(30) DEF Tree, Links
    <3> QED
      BY <1>5, <1>8, <3>1, ZenonT(30)
  <2>2. ASSUME NEW t \in 0 .. n, NEW x \in Idx, K[t] > 0, PointsDown(q[t][x])
        PROVE  q[t][x].bits = PWU /\ q[t][x].pa \in 0 .. n /\ K[q[t][x].pa] = K[t] - 1
    <3>1. t \in 0 .. n - 1 /\ K[t] = L[t]
      BY <1>6, <1>9, <2>2, ZenonT(30)
    <3>2. CASE t = a /\ x = b /\ q[t][x] = Link(n)
      <4>1. n \in 0 .. n
        BY <1>1, SMTT(30), Z3T(30)
      <4> QED
        BY <1>6, <1>8, <3>2, <4>1, SMTT(30), Z3T(30)
    <3>3. CASE q[t][x] = m[t][x] /\ PointsDown(m[t][x])
      <4>1. m[t][x].bits = PWU /\ m[t][x].pa \in 0 .. n - 1 /\ L[m[t][x].pa] = L[t] - 1
        BY <2>2, <3>1, <3>3, SMTT(30), Z3T(30) DEF Tree, Links
      <4> QED
        BY <1>6, <3>1, <3>3, <4>1, ZenonT(30)
    <3> QED
      BY <1>9, <2>2, <3>2, <3>3, ZenonT(30)
  <2> DEFINE h == n + 1
  <2>3. \A t \in 0 .. h - 1 : t \in 0 .. n
    BY <1>1, SMTT(30), Z3T(30)
  <2>4. 0 .. n \subseteq 0 .. h - 1
    BY <1>1, SMTT(30), Z3T(30)
  <2> HIDE DEF h
  <2>5. Links(q, h, K)
    BY <2>1, <2>2, <2>3, <2>4, ZenonT(30) DEF Links
  <2> QED
    BY <2>5, ZenonT(30) DEF h
<1>11. OneParent(q, n + 1, K)
  <2>1. ASSUME NEW t \in 0 .. n, NEW u \in 0 .. n, NEW x \in Idx, NEW y \in Idx,
               K[t] > 0, PointsDown(q[t][x]), K[u] > 0, PointsDown(q[u][y]),
               q[t][x].pa = q[u][y].pa
        PROVE  t = u /\ x = y
    <3>1. t \in 0 .. n - 1 /\ u \in 0 .. n - 1 /\ L[t] > 0 /\ L[u] > 0
      BY <1>6, <1>9, <2>1, ZenonT(30)
    <3>2. \A v \in 0 .. n - 1, z \in Idx : L[v] > 0 /\ PointsDown(m[v][z]) => m[v][z].pa # n
      <4>1. \A v \in 0 .. n - 1 : v # n
        BY <1>1, SMTT(30), Z3T(30)
      <4> QED
        BY <4>1, SMTT(30), Z3T(30) DEF Tree, Links
    <3>3. CASE t = a /\ x = b /\ q[t][x] = Link(n)
      BY <1>8, <1>9, <2>1, <3>1, <3>2, <3>3, SMTT(30), Z3T(30)
    <3>4. CASE u = a /\ y = b /\ q[u][y] = Link(n)
      BY <1>8, <1>9, <2>1, <3>1, <3>2, <3>4, SMTT(30), Z3T(30)
    <3>5. CASE /\ q[t][x] = m[t][x] /\ PointsDown(m[t][x])
               /\ q[u][y] = m[u][y] /\ PointsDown(m[u][y])
      <4>1. OneParent(m, n, L)
        BY ZenonT(30) DEF Tree
      <4>2. m[t][x].pa = m[u][y].pa
        BY <2>1, <3>5, ZenonT(30)
      <4> QED
        BY <3>1, <3>5, <4>1, <4>2, SMTT(60), Z3T(60) DEF OneParent
    <3> QED
      BY <1>9, <2>1, <3>3, <3>4, <3>5, ZenonT(30)
  <2> DEFINE h == n + 1
  <2>2. \A t \in 0 .. h - 1 : t \in 0 .. n
    BY <1>1
  <2> HIDE DEF h
  <2>3. OneParent(q, h, K)
    BY <2>1, <2>2, SMTT(30), Z3T(30) DEF OneParent
  <2> QED
    BY <2>3, SMTT(30), Z3T(30) DEF h
<1>12. n + 1 \in 1 .. NTABLES
  BY <1>1, SMTT(30), Z3T(30)
<1> QED
  BY <1>2, <1>4, <1>5, <1>6, <1>10, <1>11, <1>12, SMTT(30), Z3T(30) DEF Tree, K

\* Where addresses lead with the new page: those that ended at the entry now
\* end in it, the others end where they did.
EndsAfter(m, n, h, a, b, q, va, l, T) ==
  /\ Trail(q, va, l, T)
  /\ ~ (T[l] = a /\ pageindex(va, l) = b)
       => Ends(q, va, l, T) /\ At(q, va, T, l) = At(m, va, T, l)
  /\ T[l] = a /\ pageindex(va, l) = b
       => l = h /\ \E U : /\ Ends(q, va, l - 1, U)
                          /\ U[l - 1] = n /\ At(q, va, U, l - 1) = Zero

\* What linking the new page does to every place an address ends.
LEMMA LinkEnds ==
  ASSUME NEW m, NEW n, NEW L, Tree(m, n, L), n < NTABLES, NEW a \in 0 .. n - 1, NEW b \in Idx,
         L[a] > 0, ~ PointsDown(m[a][b]),
         NEW q, q = Linked(m, n, a, b),
         NEW va \in Nat, NEW l \in 0 .. 3, NEW T, Ends(m, va, l, T)
  PROVE  EndsAfter(m, n, L[a], a, b, q, va, l, T)
<1>1. /\ Tree(q, n + 1, Added(n, L[a], L))
      /\ \A t \in 0 .. n, x \in Idx :
           q[t][x] = IF t = n THEN Zero ELSE IF t = a /\ x = b THEN Link(n) ELSE m[t][x]
  BY LinkTree, SMTT(30), Z3T(30)
<1>2. n \in Nat /\ \A t \in 0 .. n - 1 : t \in 0 .. n /\ t # n
  BY PTAssumption, SMTT(30), Z3T(30) DEF Tree
<1>3. Trail(m, va, l, T)
  BY ZenonT(30) DEF Ends
<1>4. ASSUME NEW k \in 0 .. 3, k >= l, ~ (T[k] = a /\ pageindex(va, k) = b)
      PROVE  At(q, va, T, k) = At(m, va, T, k)
  <2>1. T[k] \in 0 .. n - 1 /\ pageindex(va, k) \in Idx
    BY <1>3, <1>4, TrailLevels, BlockFacts, ZenonT(30)
  <2>2. T[k] \in 0 .. n /\ T[k] # n
    BY <1>2, <2>1, ZenonT(30)
  <2> QED
    BY <1>1, <1>4, <2>1, <2>2, ZenonT(30) DEF At
<1>5. Trail(q, va, l, T)
  <2>1. ASSUME NEW k \in 0 .. 3, k > l PROVE At(q, va, T, k) = At(m, va, T, k)
    <3>1. PointsDown(At(m, va, T, k))
      BY <1>3, <2>1, TrailLevels, SMTT(30), Z3T(30)
    <3>2. ~ (T[k] = a /\ pageindex(va, k) = b) /\ k >= l
      BY <2>1, <3>1, SMTT(30), Z3T(30) DEF At
    <3> QED
      BY <1>4, <3>2, ZenonT(30)
  <2> QED
    BY <1>3, <2>1, TrailKept, ZenonT(30)
<1>6. ASSUME ~ (T[l] = a /\ pageindex(va, l) = b)
      PROVE  Ends(q, va, l, T) /\ At(q, va, T, l) = At(m, va, T, l)
  <2>1. l >= l
    BY SMTT(30), Z3T(30)
  <2>2. At(q, va, T, l) = At(m, va, T, l)
    BY <1>4, <1>6, <2>1, SMTT(30), Z3T(30)
  <2> QED
    BY <1>5, <2>2, SMTT(30), Z3T(30) DEF Ends
<1>7. ASSUME T[l] = a, pageindex(va, l) = b
      PROVE  l = L[a] /\ \E U : /\ Ends(q, va, l - 1, U)
                                /\ U[l - 1] = n /\ At(q, va, U, l - 1) = Zero
  <2>1. l = L[a] /\ l > 0
    BY <1>3, <1>7, TrailAt, SMTT(30), Z3T(30)
  <2>2. At(q, va, T, l) = Link(n)
    BY <1>1, <1>2, <1>7, ZenonT(30) DEF At
  <2>3. PointsDown(Link(n)) /\ Link(n).pa = n /\ ~ PointsDown(Zero)
    BY ZenonT(30) DEF PointsDown, Link, PWU, Zero
  <2>4. PICK U : Trail(q, va, l - 1, U) /\ U[l - 1] = At(q, va, T, l).pa
    BY <1>1, <1>5, <2>1, <2>2, <2>3, TrailStep, SMTT(30), Z3T(30)
  <2>5. U[l - 1] = n /\ l - 1 \in 0 .. 3
    BY <2>1, <2>2, <2>3, <2>4, SMTT(30), Z3T(30)
  <2>6. pageindex(va, l - 1) \in Idx
    BY <2>5, IndexIn, ZenonT(30)
  <2>7. At(q, va, U, l - 1) = Zero
    <3>1. n \in 0 .. n
      BY <1>2, SMTT(30), Z3T(30)
    <3> QED
      BY <1>1, <2>5, <2>6, <3>1, SMTT(30), Z3T(30) DEF At
  <2>8. Ends(q, va, l - 1, U)
    BY <2>3, <2>4, <2>7, ZenonT(30) DEF Ends
  <2> QED
    BY <2>1, <2>5, <2>7, <2>8, ZenonT(30)
<1> QED
  BY <1>5, <1>6, <1>7, ZenonT(30) DEF EndsAfter

\* One round of try_map's loop: the iterator goes down to the new page, and
\* every address translates as before.
LinkedDown(m, n, i, q, j) ==
  /\ \E K : Tree(q, n + 1, K)
  /\ AtEnd(q, j) /\ j.va = i.va /\ j.level = i.level - 1
  /\ q[j.tab][j.idx] = Zero
  /\ \A va \in VAs : Translate(q, va) = Translate(m, va)

\* try_map links the page and calls down(): all of LinkedDown holds.
LEMMA LinkDown ==
  ASSUME NEW m, NEW n, NEW L, Tree(m, n, L), n < NTABLES, NEW i, AtEnd(m, i), i.level > 0,
         va_is_canonical(i.va), "P" \notin m[i.tab][i.idx].bits,
         NEW q, q = Linked(m, n, i.tab, i.idx)
  PROVE  LinkedDown(m, n, i, q, Down(q, i))
<1> DEFINE a == i.tab  b == i.idx  l == i.level  j == Down(q, i)  K == Added(n, L[a], L)
<1>1. /\ i.va \in VAs /\ i.va \in Nat /\ l \in 0 .. 3 /\ a \in 0 .. n - 1 /\ L[a] = l
      /\ b \in Idx /\ b = pageindex(i.va, l) /\ l > 0
  BY OnTrailFacts, SMTT(30), Z3T(30) DEF AtEnd
<1>2. ~ PointsDown(m[a][b]) /\ L[a] > 0
  BY <1>1, ZenonT(30) DEF PointsDown
<1>3. q = Linked(m, n, a, b)
  BY ZenonT(30)
<1>4. PICK T : Trail(m, i.va, l, T) /\ a = T[l]
  BY ZenonT(30) DEF AtEnd, OnTrail
<1>5. At(m, i.va, T, l) = m[a][b]
  BY <1>1, <1>4, ZenonT(30) DEF At
<1>6. Ends(m, i.va, l, T)
  BY <1>2, <1>4, <1>5, ZenonT(30) DEF Ends
<1>7. Tree(q, n + 1, K)
  BY <1>1, <1>2, <1>3, LinkTree, SMTT(30), Z3T(30)
<1>8. i \in Iters /\ i.perm = Bits
  BY ZenonT(30) DEF AtEnd, OnTrail
<1> HIDE DEF j, K, a, b, l
<1>9. ASSUME NEW va \in Nat, NEW k \in 0 .. 3, NEW U, Ends(m, va, k, U)
      PROVE  /\ Trail(q, va, k, U)
             /\ ~ (U[k] = a /\ pageindex(va, k) = b)
                  => Ends(q, va, k, U) /\ At(q, va, U, k) = At(m, va, U, k)
             /\ U[k] = a /\ pageindex(va, k) = b
                  => k = L[a] /\ \E V : /\ Ends(q, va, k - 1, V)
                                        /\ V[k - 1] = n /\ At(q, va, V, k - 1) = Zero
  <2>1. EndsAfter(m, n, L[a], a, b, q, va, k, U)
    BY <1>1, <1>2, <1>3, <1>9, LinkEnds, ZenonT(30)
  <2> QED
    BY <2>1, ZenonT(30) DEF EndsAfter
<1>10. /\ AtEnd(q, j) /\ j.va = i.va /\ j.level = l - 1 /\ q[j.tab][j.idx] = Zero
  <2>1. Trail(q, i.va, l, T)
    BY <1>1, <1>6, <1>9, ZenonT(30)
  <2>2. OnTrail(q, i)
    BY <1>1, <1>4, <1>8, <2>1, ZenonT(30) DEF OnTrail, a, b, l
  <2>3. AtEnd(q, j) /\ j.va = i.va
    BY <1>7, <2>2, DownEnds, ZenonT(30) DEF j
  <2>4. PICK V : Ends(q, i.va, l - 1, V) /\ V[l - 1] = n /\ At(q, i.va, V, l - 1) = Zero
    BY <1>1, <1>4, <1>6, <1>9, ZenonT(30)
  <2>5. /\ j.level \in 0 .. 3 /\ j.idx = pageindex(i.va, j.level)
    BY <1>7, <2>3, OnTrailFacts, ZenonT(30) DEF AtEnd
  <2>6. PICK U : Trail(q, i.va, j.level, U) /\ j.tab = U[j.level]
    BY <2>3, ZenonT(30) DEF AtEnd, OnTrail
  <2>7. Ends(q, i.va, j.level, U)
    BY <2>3, <2>5, <2>6, ZenonT(30) DEF Ends, AtEnd, At
  <2>8. l - 1 \in 0 .. 3
    BY <1>1, SMTT(30), Z3T(30)
  <2>9. l - 1 = j.level /\ \A k \in 0 .. 3 : k >= l - 1 => V[k] = U[k]
    <3> DEFINE x == l - 1  y == j.level  v == i.va
    <3>1. x \in 0 .. 3 /\ y \in 0 .. 3 /\ Ends(q, v, x, V) /\ Ends(q, v, y, U)
      BY <2>4, <2>5, <2>7, <2>8, SMTT(30), Z3T(30)
    <3> HIDE DEF x, y, v
    <3>2. x = y
      BY ONLY <3>1, EndsUnique, Zenon
    <3>3. \A k \in 0 .. 3 : k >= x => V[k] = U[k]
      <4>1. x \in 0 .. 3 /\ Trail(q, v, x, V) /\ Trail(q, v, x, U)
        BY <3>1, <3>2, ZenonT(30) DEF Ends
      <4> QED
        BY ONLY <4>1, TrailUnique, SMTT(30), Z3T(30)
    <3> QED
      BY <3>2, <3>3, ZenonT(30) DEF x, y
  <2>10. U[j.level] = V[j.level]
    BY <2>8, <2>9, SMTT(30), Z3T(30)
  <2>11. q[j.tab][j.idx] = At(q, i.va, V, l - 1)
    BY <2>5, <2>6, <2>9, <2>10, ZenonT(30) DEF At
  <2> QED
    BY <2>3, <2>4, <2>9, <2>11, ZenonT(30)
<1>11. ASSUME NEW va \in VAs PROVE Translate(q, va) = Translate(m, va)
  <2>1. CASE ~ va_is_canonical(va)
    BY <2>1, ZenonT(30) DEF Translate
  <2>2. CASE va_is_canonical(va)
    <3>1. va \in Nat
      BY Halves, ZenonT(30)
    <3>2. PICK k, U : k \in 0 .. 3 /\ Ends(m, va, k, U)
      BY <3>1, EndOf, ZenonT(30)
    <3>3. Translate(m, va) = Meaning(va, At(m, va, U, k), k)
      BY <2>2, <3>1, <3>2, TranslateIs, ZenonT(30)
    <3>4. CASE ~ (U[k] = a /\ pageindex(va, k) = b)
      <4>1. Ends(q, va, k, U) /\ At(q, va, U, k) = At(m, va, U, k)
        BY <1>9, <3>1, <3>2, <3>4, ZenonT(30)
      <4>2. Translate(q, va) = Meaning(va, At(q, va, U, k), k)
        BY <1>7, <2>2, <3>1, <3>2, <4>1, TranslateIs, ZenonT(30)
      <4> QED
        BY <3>3, <4>1, <4>2, ZenonT(30)
    <3>5. CASE U[k] = a /\ pageindex(va, k) = b
      <4>1. PICK V : Ends(q, va, k - 1, V) /\ V[k - 1] = n /\ At(q, va, V, k - 1) = Zero
        BY <1>9, <3>1, <3>2, <3>5, ZenonT(30)
      <4>2. k = L[a] /\ k - 1 \in 0 .. 3
        <5>1. k = L[a]
          BY <1>9, <3>1, <3>2, <3>5, ZenonT(30)
        <5> QED
          BY <1>2, <3>2, <5>1, SMTT(30), Z3T(30)
      <4>3. Translate(q, va) = Meaning(va, Zero, k - 1)
        BY <1>7, <2>2, <3>1, <4>1, <4>2, TranslateIs, ZenonT(30)
      <4>4. At(m, va, U, k) = m[a][b] /\ "P" \notin m[a][b].bits
        BY <3>5, ZenonT(30) DEF At, a, b
      <4> QED
        BY <3>3, <4>3, <4>4, ZenonT(30) DEF Meaning, Zero
    <3> QED
      BY <3>4, <3>5, ZenonT(30)
  <2> QED
    BY <2>1, <2>2, ZenonT(30)
<1> QED
  BY <1>7, <1>10, <1>11, ZenonT(30) DEF j, l, LinkedDown

\* What the rounds of try_map's loop keep: every address translates as it did
\* in m, and the iterator is at an entry that has nothing below it.
GrowOK(m, va, s) ==
  /\ \E L : Tree(s.mem, s.nalloc, L)
  /\ AtEnd(s.mem, s.it) /\ s.it.va = va /\ va_is_canonical(va)
  /\ s.it.level > 0 => "P" \notin s.mem[s.it.tab][s.it.idx].bits
  /\ \A wa \in VAs : Translate(s.mem, wa) = Translate(m, wa)

LEMMA AddTableOK ==
  ASSUME NEW m, NEW va, NEW s, GrowOK(m, va, s)
  PROVE  GrowOK(m, va, AddTable(s, Zero))
<1> DEFINE q == Linked(s.mem, s.nalloc, s.it.tab, s.it.idx)
           r == AddTable(s, Zero)
<1>1. PICK L : Tree(s.mem, s.nalloc, L)
  BY ZenonT(30) DEF GrowOK
<1>2. /\ AtEnd(s.mem, s.it) /\ s.it.va = va /\ va_is_canonical(va)
      /\ s.it.level > 0 => "P" \notin s.mem[s.it.tab][s.it.idx].bits
      /\ \A wa \in VAs : Translate(s.mem, wa) = Translate(m, wa)
  BY ZenonT(30) DEF GrowOK
<1>3. s.it.level \in 0 .. 3 /\ s.nalloc \in 1 .. NTABLES /\ NTABLES \in Nat
  BY <1>1, <1>2, OnTrailFacts, PTAssumption, ZenonT(30) DEF AtEnd, Tree
<1>4. CASE s.it.level = 0 \/ s.nalloc = NTABLES
  BY <1>4, SMTT(30), Z3T(30) DEF AddTable
<1>5. CASE ~ (s.it.level = 0 \/ s.nalloc = NTABLES)
  <2>1. r = [mem |-> q, nalloc |-> s.nalloc + 1, it |-> Down(q, s.it)]
    BY <1>5, SMTT(30), Z3T(30) DEF AddTable, Linked, Link, Idx
  <2>2. s.it.level > 0 /\ s.nalloc < NTABLES
    BY <1>3, <1>5, SMTT(30), Z3T(30)
  <2> DEFINE i == s.it  n == s.nalloc  p == s.mem  j == Down(q, i)
  <2>3. /\ Tree(p, n, L) /\ n < NTABLES /\ AtEnd(p, i) /\ i.level > 0
        /\ va_is_canonical(i.va) /\ "P" \notin p[i.tab][i.idx].bits
        /\ q = Linked(p, n, i.tab, i.idx)
    BY <1>1, <1>2, <2>2, ZenonT(30)
  <2> HIDE DEF i, n, p, q, j
  <2>4. /\ \E K : Tree(q, n + 1, K)
        /\ AtEnd(q, j) /\ j.va = i.va
        /\ q[j.tab][j.idx] = Zero
        /\ \A wa \in VAs : Translate(q, wa) = Translate(p, wa)
    <3>1. LinkedDown(p, n, i, q, Down(q, i))
      BY <2>3, LinkDown, ZenonT(30)
    <3> QED
      BY <3>1, ZenonT(30) DEF LinkedDown, j
  <2>5. "P" \notin q[j.tab][j.idx].bits
    BY <2>4, SMTT(30), Z3T(30) DEF Zero
  <2>6. r.mem = q /\ r.nalloc = n + 1 /\ r.it = j
    BY <2>1, SMTT(30), Z3T(30) DEF n, i, j
  <2> HIDE DEF r
  <2>7. i.va = va /\ \A wa \in VAs : Translate(p, wa) = Translate(m, wa)
    BY <1>2, ZenonT(30) DEF i, p
  <2>8. GrowOK(m, va, r)
    BY <1>2, <2>4, <2>5, <2>6, <2>7, ZenonT(30) DEF GrowOK
  <2> QED
    BY <2>8, ZenonT(30) DEF r
<1> QED
  BY <1>4, <1>5, ZenonT(30)

\* The loop of try_map, for an iterator with nothing below its entry.
LEMMA GrowKeeps ==
  ASSUME NEW m, NEW n, NEW i, NEW L, Tree(m, n, L), AtEnd(m, i), va_is_canonical(i.va),
         i.level > 0 => "P" \notin m[i.tab][i.idx].bits
  PROVE  GrowOK(m, i.va, Grow(m, n, i))
<1> DEFINE s == [mem |-> m, nalloc |-> n, it |-> i]
<1>1. s.mem = m /\ s.nalloc = n /\ s.it = i
  BY ZenonT(30)
<1> HIDE DEF s
<1>2. GrowOK(m, i.va, s)
  BY <1>1, ZenonT(30) DEF GrowOK
<1>3. GrowOK(m, i.va, AddTable(AddTable(AddTable(s, Zero), Zero), Zero))
  BY <1>2, AddTableOK, SMTT(30), Z3T(30)
<1> QED
  BY <1>3, ZenonT(30) DEF Grow, AddTables, s

-----------------------------------------------------------------------------
(* The initial tables *)

LEMMA NewTree == Tree(NewTable, 1, [t \in 0 .. 0 |-> 3])
<1> DEFINE L == [t \in 0 .. 0 |-> 3]
<1>1. Zero \in Entries /\ Junk \in Entries
  BY ZeroFacts, LimitFacts, SMTT(30), Z3T(30) DEF Junk, Entries, JunkPa
<1>2. NewTable \in [Tables -> [Idx -> Entries]]
  BY <1>1, SMTT(30), Z3T(30) DEF NewTable, EmptyTable, Idx
<1>3. \A x \in Idx : NewTable[0][x] = Zero
  BY PTAssumption, SMTT(30), Z3T(30) DEF NewTable, EmptyTable, Idx, Tables
<1>4. L \in [0 .. 0 -> 0 .. 3] /\ L[0] = 3 /\ 1 \in 1 .. NTABLES
  BY PTAssumption, SMTT(30), Z3T(30)
<1> HIDE DEF L
<1>5. ~ PointsDown(Zero) /\ ~ TooHigh(Zero.pa)
  BY ZeroFacts, ZenonT(30)
<1>6. \A t \in 0 .. 1 - 1 : t = 0
  BY SMTT(30), Z3T(30)
<1>7. Links(NewTable, 1, L)
  BY <1>3, <1>5, <1>6, SMTT(30), Z3T(30) DEF Links
<1>8. OneParent(NewTable, 1, L)
  BY <1>3, <1>5, <1>6, SMTT(30), Z3T(30) DEF OneParent
<1> QED
  BY <1>2, <1>4, <1>7, <1>8, SMTT(30), Z3T(30) DEF Tree, L

\* The pages of init_kernel_memory.
KernelLevels == [t \in 0 .. 4 |-> IF t = 0 THEN 3 ELSE IF t = 1 THEN 2 ELSE IF t = 2 THEN 1 ELSE 0]

LEMMA KernelTree == Tree(KernelTable, 5, KernelLevels)
<1> DEFINE M == KernelTable  L == KernelLevels
<1>1. /\ ENTRIES \in Nat /\ ENTRIES >= 2 /\ NTABLES \in Nat /\ NTABLES >= 5
      /\ 0 \in Idx /\ 1 \in Idx /\ 0 .. 4 \subseteq Tables
  BY PTAssumption, SMTT(30), Z3T(30) DEF Idx, Tables
<1> DEFINE big == ENTRIES * ENTRIES
<1>2. big \in Nat
  BY <1>1, SMTT(30), Z3T(30)
<1> DEFINE large == [x \in Idx |-> IF x > 3 THEN Zero
                                 ELSE [bits |-> {"P", "W", "PS"}, pa |-> x * big]]
<1>3. /\ Zero \in Entries /\ Junk \in Entries /\ \A t \in Nat : Link(t) \in Entries
      /\ \A x \in Idx : large[x] \in Entries /\ ~ PointsDown(large[x]) /\ ~ TooHigh(large[x].pa)
  <2>1. Zero \in Entries /\ Junk \in Entries
    BY ZeroFacts, LimitFacts, SMTT(30), Z3T(30) DEF Junk, Entries, JunkPa
  <2>2. \A t \in Nat : Link(t) \in Entries
    BY SMTT(30), Z3T(30) DEF Link, Entries, Bits
  <2>3. ASSUME NEW x \in Idx PROVE large[x] \in Entries /\ ~ PointsDown(large[x]) /\ ~ TooHigh(large[x].pa)
    <3>1. CASE x > 3
      <4>1. large[x] = Zero
        BY <3>1, SMTT(30), Z3T(30)
      <4> HIDE DEF large
      <4> QED
        BY <4>1, ZeroFacts, ZenonT(30)
    <3>2. CASE ~ (x > 3)
      <4> DEFINE y == x * big
      <4>1. x \in 0 .. 3
        BY <1>1, <3>2, SMTT(30), Z3T(30) DEF Idx
      <4>2. y \in Nat /\ y < PA_LIMIT
        BY <4>1, LimitFacts, ZenonT(30)
      <4>3. large[x] = [bits |-> {"P", "W", "PS"}, pa |-> y]
        BY <3>2, ZenonT(30)
      <4> HIDE DEF large, y, big
      <4>4. /\ large[x].pa = y /\ large[x] \in Entries
            /\ ~ PointsDown(large[x])
        BY <4>2, <4>3, SMTT(30), Z3T(30) DEF Entries, Bits, PWU, PointsDown
      <4> QED
        BY <4>2, <4>4, LowPages, ZenonT(30)
    <3> QED
      BY <3>1, <3>2, ZenonT(30)
  <2> QED
    BY <2>1, <2>2, <2>3, ZenonT(30)
<1>4. M = [t \in Tables |->
             IF t = 0 THEN [EmptyTable EXCEPT ![0] = Link(1)]
             ELSE IF t = 1 THEN [x \in Idx |-> IF x = 0 THEN Link(2) ELSE large[x]]
             ELSE IF t = 2 THEN [EmptyTable EXCEPT ![0] = Link(3), ![1] = Link(4)]
             ELSE IF t \in {3, 4} THEN EmptyTable
             ELSE [x \in Idx |-> Junk]]
  BY ZenonT(30) DEF KernelTable, Idx
<1> HIDE DEF M, large, big
<1>5. EmptyTable \in [Idx -> Entries] /\ \A x \in Idx : EmptyTable[x] = Zero
  BY <1>3, SMTT(30), Z3T(30) DEF EmptyTable, Idx
<1>6. /\ [EmptyTable EXCEPT ![0] = Link(1)] \in [Idx -> Entries]
      /\ [EmptyTable EXCEPT ![0] = Link(3), ![1] = Link(4)] \in [Idx -> Entries]
      /\ [x \in Idx |-> IF x = 0 THEN Link(2) ELSE large[x]] \in [Idx -> Entries]
      /\ [x \in Idx |-> Junk] \in [Idx -> Entries]
  <2>1. Link(1) \in Entries /\ Link(2) \in Entries /\ Link(3) \in Entries /\ Link(4) \in Entries
    BY <1>3, SMTT(30), Z3T(30)
  <2> QED
    BY <1>1, <1>3, <1>5, <2>1, ZenonT(30)
<1>7. M \in [Tables -> [Idx -> Entries]]
  BY <1>4, <1>5, <1>6, SMTT(30), Z3T(30)
<1>8. \A x \in Idx :
        /\ M[0][x] = IF x = 0 THEN Link(1) ELSE Zero
        /\ M[1][x] = IF x = 0 THEN Link(2) ELSE large[x]
        /\ M[2][x] = IF x = 0 THEN Link(3) ELSE IF x = 1 THEN Link(4) ELSE Zero
        /\ M[3][x] = Zero /\ M[4][x] = Zero
  <2>1. 0 \in Tables /\ 1 \in Tables /\ 2 \in Tables /\ 3 \in Tables /\ 4 \in Tables
    BY <1>1, SMTT(30), Z3T(30)
  <2>2. /\ M[0] = [EmptyTable EXCEPT ![0] = Link(1)]
        /\ M[1] = [x \in Idx |-> IF x = 0 THEN Link(2) ELSE large[x]]
        /\ M[2] = [EmptyTable EXCEPT ![0] = Link(3), ![1] = Link(4)]
        /\ M[3] = EmptyTable /\ M[4] = EmptyTable
    BY <1>4, <2>1, SMTT(30), Z3T(30)
  <2> QED
    BY <1>1, <1>5, <2>2, SMTT(30), Z3T(30)
<1>9. /\ L \in [0 .. 4 -> 0 .. 3] /\ L[0] = 3 /\ L[1] = 2 /\ L[2] = 1 /\ L[3] = 0 /\ L[4] = 0
  BY SMTT(30), Z3T(30) DEF KernelLevels
<1> HIDE DEF L
<1>10. /\ ~ PointsDown(Zero) /\ ~ TooHigh(Zero.pa)
       /\ \A t \in 0 .. 4 : Link(t).pa = t /\ Link(t).bits = PWU /\ ~ TooHigh(Link(t).pa)
  <2>1. ASSUME NEW t \in 0 .. 4
        PROVE  Link(t).pa = t /\ Link(t).bits = PWU /\ ~ TooHigh(Link(t).pa)
    <3>1. t \in Nat /\ t < PA_LIMIT
      BY <1>1, LimitFacts, SMTT(30), Z3T(30)
    <3>2. Link(t).pa = t /\ Link(t).bits = PWU
      BY SMTT(30), Z3T(30) DEF Link
    <3> QED
      BY <3>1, <3>2, LowPages, ZenonT(30)
  <2> QED
    BY <2>1, ZeroFacts, ZenonT(30)
<1>11. \A t \in 0 .. 4 : t = 0 \/ t = 1 \/ t = 2 \/ t = 3 \/ t = 4
  BY SMTT(30), Z3T(30)
\* What points down.
<1>12. ASSUME NEW t \in 0 .. 4, NEW x \in Idx, PointsDown(M[t][x])
       PROVE  \/ t = 0 /\ x = 0 /\ M[t][x] = Link(1)
              \/ t = 1 /\ x = 0 /\ M[t][x] = Link(2)
              \/ t = 2 /\ x = 0 /\ M[t][x] = Link(3)
              \/ t = 2 /\ x = 1 /\ M[t][x] = Link(4)
  BY <1>3, <1>8, <1>10, <1>11, <1>12, SMTT(30), Z3T(30)
<1>13. Links(M, 5, L)
  <2>1. ASSUME NEW t \in 0 .. 4, NEW x \in Idx PROVE ~ TooHigh(M[t][x].pa)
    BY <1>3, <1>8, <1>10, <1>11, SMTT(30), Z3T(30)
  <2>2. ASSUME NEW t \in 0 .. 4, NEW x \in Idx, PointsDown(M[t][x])
        PROVE  M[t][x].bits = PWU /\ M[t][x].pa \in 0 .. 4 /\ L[M[t][x].pa] = L[t] - 1
    BY <1>9, <1>10, <1>12, <2>2, SMTT(30), Z3T(30)
  <2>3. \A t \in 0 .. 5 - 1 : t \in 0 .. 4
    BY SMTT(30), Z3T(30)
  <2>4. \A t \in 0 .. 4 : t \in 0 .. 5 - 1
    BY SMTT(30), Z3T(30)
  <2> QED
    BY <2>1, <2>2, <2>3, <2>4, ZenonT(30) DEF Links
<1>14. OneParent(M, 5, L)
  <2>1. ASSUME NEW t \in 0 .. 4, NEW u \in 0 .. 4, NEW x \in Idx, NEW y \in Idx,
               PointsDown(M[t][x]), PointsDown(M[u][y]), M[t][x].pa = M[u][y].pa
        PROVE  t = u /\ x = y
    BY <1>10, <1>12, <2>1, SMTT(30), Z3T(30)
  <2>2. \A t \in 0 .. 5 - 1 : t \in 0 .. 4
    OBVIOUS
  <2> QED
    BY <2>1, <2>2, ZenonT(30) DEF OneParent
<1>15. 5 \in 1 .. NTABLES /\ 0 .. 5 - 1 = 0 .. 4
  BY <1>1
<1> QED
  BY <1>7, <1>9, <1>13, <1>14, <1>15, ZenonT(30) DEF Tree, M, L

-----------------------------------------------------------------------------
(* The steps *)

LEMMA VmiterOK ==
  ASSUME NEW m, NEW n, NEW L, Tree(m, n, L), NEW va \in VAs
  PROVE  IterOK(m, Vmiter(m, va))
<1> DEFINE i == [va |-> 0, level |-> 3, perm |-> Bits, tab |-> 0, idx |-> 0]
<1>1. 0 \in VAs /\ 0 \in Tables /\ 0 \in 0 .. ENTRIES - 1
  <2>1. 0 \in 0 .. ENTRIES - 1 /\ 0 \in Tables
    BY PTAssumption, SMTT(30), Z3T(30) DEF Tables
  <2>2. Region(4) \in Nat /\ Region(4) > 0
    BY RegionSizes, SMTT(30), Z3T(30)
  <2> QED
    BY <2>1, <2>2, SMTT(30), Z3T(30) DEF VAs, VA_END
<1>2. i \in Iters /\ i.level = 3
  BY <1>1, SMTT(30), Z3T(30) DEF Iters
<1> HIDE DEF i
<1>3. IterOK(m, RealFind(m, i, va))
  BY <1>2, RealFindOK, SMTT(30), Z3T(30)
<1> QED
  BY <1>3, SMTT(30), Z3T(30) DEF Vmiter, i

LEMMA InitInv == PTInit => PTInv
<1> SUFFICES ASSUME PTInit PROVE PTInv
  BY SMTT(30), Z3T(30)
<1>1. PICK L : Tree(mem, nalloc, L)
  BY NewTree, KernelTree, SMTT(30), Z3T(30) DEF PTInit
<1>2. 0 \in VAs
  <2>1. Region(4) \in Nat /\ Region(4) > 0
    BY RegionSizes, SMTT(30), Z3T(30)
  <2> QED
    BY <2>1, SMTT(30), Z3T(30) DEF VAs, VA_END
<1>3. IterOK(mem, it)
  BY <1>1, <1>2, VmiterOK, SMTT(30), Z3T(30) DEF PTInit
<1> QED
  BY <1>1, <1>3, SMTT(30), Z3T(30) DEF PTInv, PTInit

\* A move of the iterator.
LEMMA MoveInv ==
  ASSUME NEW i, PTInv, IterOK(mem, i), MoveTo(i)
  PROVE  PTInv'
<1>1. PICK L : Tree(mem, nalloc, L)
  BY DEF PTInv
<1>2. mem' = mem /\ nalloc' = nalloc /\ it' = i
  BY ZenonT(30) DEF MoveTo
<1>3. ~ Uninitialized(mem, i)
  BY <1>1, IterEntry, SMTT(30), Z3T(30) DEF Uninitialized
<1>4. halt' = "none"
  BY <1>3, SMTT(30), Z3T(30) DEF MoveTo
<1>5. Tree(mem', nalloc', L)
  BY <1>1, <1>2, SMTT(30), Z3T(30)
<1>6. IterOK(mem', it')
  BY <1>2
<1> QED
  BY <1>4, <1>5, <1>6, SMTT(30), Z3T(30) DEF PTInv

LEMMA FindsInv ==
  ASSUME PTInv
  PROVE  /\ \A va \in Addresses : New(va) \/ Find(va) => PTInv'
         /\ Next_ => PTInv'
         /\ NextRange_ => PTInv'
<1>1. PICK L : Tree(mem, nalloc, L)
  BY DEF PTInv
<1>2. IterOK(mem, it) /\ it \in Iters
  BY SMTT(30), Z3T(30) DEF PTInv, IterOK
<1>3. it.va \in VAs /\ it.level \in 0 .. 3
  BY <1>2, IterFacts, ZenonT(30)
<1>4. \A va \in VAs : IterOK(mem, RealFind(mem, it, va)) /\ IterOK(mem, Vmiter(mem, va))
  BY <1>1, <1>2, RealFindOK, VmiterOK, SMTT(30), Z3T(30)
<1>5. ASSUME NEW va \in Addresses, New(va) \/ Find(va) PROVE PTInv'
  <2>1. va \in VAs
    BY PTAssumption, SMTT(30), Z3T(30)
  <2> QED
    BY <1>4, <1>5, <2>1, MoveInv, SMTT(30), Z3T(30) DEF New, Find
<1>6. ASSUME Next_ PROVE PTInv'
  <2>1. NextVa(mem, it) \in VAs
    <3>1. RegionEnd(it.va, it.level) \in VAs /\ RegionEnd(it.va, 0) \in VAs
      BY <1>3, RegionEndFacts, SMTT(30), Z3T(30)
    <3> QED
      BY <3>1, SMTT(30), Z3T(30) DEF NextVa
  <2> QED
    BY <1>4, <1>6, <2>1, MoveInv, SMTT(30), Z3T(30) DEF Next_
<1>7. ASSUME NextRange_ PROVE PTInv'
  <2>1. LastVa(it) \in VAs
    BY <1>3, RegionEndFacts, ZenonT(30) DEF LastVa
  <2> QED
    BY <1>4, <1>7, <2>1, MoveInv, SMTT(30), Z3T(30) DEF NextRange_, NextRange
<1> QED
  BY <1>5, <1>6, <1>7, ZenonT(30)

\* Addresses of the same page.
LEMMA PageMates ==
  ASSUME NEW va \in VAs, NEW wa \in VAs, va \div PAGESIZE = wa \div PAGESIZE
  PROVE  /\ va_is_canonical(va) <=> va_is_canonical(wa)
         /\ \A l \in 0 .. 3 : Block(va, l) = Block(wa, l)
<1>1. va \in Nat /\ wa \in Nat
  BY Halves, SMTT(30), Z3T(30)
<1>2. Block(va, 0) = Block(wa, 0)
  BY RegionSizes, SMTT(30), Z3T(30) DEF Block
<1>3. \A l \in 0 .. 3 : Block(va, l) = Block(wa, l)
  BY <1>1, <1>2, SameBlock, SMTT(30), Z3T(30)
<1> QED
  BY <1>3, SameHalf, SMTT(30), Z3T(30)

\* The store at the end of try_map, when the loop has come to level 0.
StoreOK(m, va, s, e, q) ==
  /\ \E L : Tree(q, s.nalloc, L)
  /\ AtEnd(q, s.it)
  /\ \A wa \in VAs :
       Translate(q, wa) = IF wa \div PAGESIZE = va \div PAGESIZE
                          THEN Meaning(wa, e, 0) ELSE Translate(m, wa)

\* The store maps its own page, and no other, when the loop stopped at level 0.
LEMMA StoreStep ==
  ASSUME NEW m, NEW va \in VAs, NEW s, GrowOK(m, va, s), s.it.level = 0,
         NEW e \in Entries, ~ TooHigh(e.pa),
         NEW q, q = Stored(s.mem, s.it, e)
  PROVE  StoreOK(m, va, s, e, q)
<1> DEFINE p == s.mem  n == s.nalloc  i == s.it
<1>1. PICK L : Tree(p, n, L)
  BY ZenonT(30) DEF GrowOK
<1>2. /\ AtEnd(p, i) /\ i.level = 0 /\ i.va = va /\ va_is_canonical(i.va)
      /\ \A wa \in VAs : Translate(p, wa) = Translate(m, wa)
      /\ q = Stored(p, i, e)
  BY ZenonT(30) DEF GrowOK
<1> HIDE DEF p, n, i
<1>3. /\ Tree(q, n, L) /\ AtEnd(q, i)
      /\ \A wa \in VAs : va_is_canonical(wa) =>
           Translate(q, wa) = IF wa \div PAGESIZE = i.va \div PAGESIZE
                              THEN Meaning(wa, e, 0) ELSE Translate(p, wa)
  BY <1>1, <1>2, StoreLeaf, SMTT(30), Z3T(30)
<1>4. ASSUME NEW wa \in VAs, ~ va_is_canonical(wa)
      PROVE  /\ Translate(q, wa) = Translate(m, wa)
             /\ wa \div PAGESIZE # va \div PAGESIZE
  BY <1>2, <1>4, PageMates, ZenonT(30) DEF Translate
<1>5. ASSUME NEW wa \in VAs
      PROVE  Translate(q, wa) = IF wa \div PAGESIZE = va \div PAGESIZE
                                THEN Meaning(wa, e, 0) ELSE Translate(m, wa)
  BY <1>2, <1>3, <1>4, ZenonT(30)
<1> QED
  BY <1>3, <1>5, ZenonT(30) DEF n, i, StoreOK

\* What a stored entry means at the start of its page.
LEMMA MeaningStored ==
  ASSUME NEW va \in Nat, va % PAGESIZE = 0, NEW pa \in Frames \cup {NoPa}, NEW perm \in Perms,
         pa = NoPa => perm = {}
  PROVE  Meaning(va, [bits |-> perm, pa |-> IF pa = NoPa THEN 0 ELSE pa], 0) =
           IF "P" \in perm THEN [bits |-> perm, pa |-> pa * PAGESIZE] ELSE Unmapped
<1> DEFINE x == IF pa = NoPa THEN 0 ELSE pa
           e == [bits |-> perm, pa |-> x]
<1>1. e.bits = perm /\ e.pa = x
  BY SMTT(30), Z3T(30)
<1>2. CASE "P" \notin perm
  BY <1>1, <1>2, SMTT(30), Z3T(30) DEF Meaning
<1>3. CASE "P" \in perm
  <2>1. pa # NoPa /\ x = pa /\ pa \in Nat
    BY <1>3, PTAssumption, SMTT(30), Z3T(30) DEF NoPa
  <2>2. PWU \cap perm = perm
    BY PTAssumption, ZenonT(30) DEF PWU
  <2>3. va % Region(0) = 0 /\ PAGESIZE \in Nat
    BY RegionSizes, PTAssumption, SMTT(30), Z3T(30)
  <2>4. pa * PAGESIZE + (va % Region(0)) = pa * PAGESIZE
    BY <2>1, <2>3, SMTT(30), Z3T(30)
  <2> HIDE DEF e, x
  <2>5. Meaning(va, e, 0) = [bits |-> perm, pa |-> pa * PAGESIZE]
    BY <1>1, <1>3, <2>1, <2>2, <2>4, ZenonT(30) DEF Meaning
  <2> QED
    BY <1>3, <2>5, SMTT(30), Z3T(30) DEF e, x
<1> QED
  BY <1>2, <1>3, SMTT(30), Z3T(30)

\* try_map and map: the invariant is kept, and the processor sees the request
\* carried out, or refused, and nothing else.
LEMMA TryMapStep ==
  ASSUME PTInv, NEW pa \in Frames \cup {NoPa}, NEW perm \in Perms, NEW must \in BOOLEAN,
         TryMap(pa, perm, must)
  PROVE  /\ PTInv'
         /\ \E ret \in {0, -1} :
              /\ last' = Request(pa, perm, ret)
              /\ UnmapLarge = FALSE =>
                   \A va \in VAs : va % PAGESIZE = 0 =>
                     Translate(mem', va) =
                       IF ret = 0 /\ va \div PAGESIZE = it.va \div PAGESIZE
                       THEN Request(pa, perm, ret).to ELSE Translate(mem, va)
<1> DEFINE g == IF perm = {} THEN [mem |-> mem, nalloc |-> nalloc, it |-> it]
                ELSE Grow(mem, nalloc, it)
           ret == IF perm # {} /\ g.it.level > 0 THEN -1 ELSE 0
           e == [bits |-> perm, pa |-> IF pa = NoPa THEN 0 ELSE pa]
           to == IF "P" \in perm THEN [bits |-> perm, pa |-> pa * PAGESIZE] ELSE Unmapped
<1>1. PICK L : Tree(mem, nalloc, L)
  BY SMTT(30), Z3T(30) DEF PTInv
<1>2. IterOK(mem, it) /\ it \in Iters /\ it.va \in VAs /\ it.va \in Nat /\ it.level \in 0 .. 3
  BY IterFacts, ZenonT(30) DEF PTInv, IterOK
<1>3. /\ UnmapLarge \/ perm # {} \/ it.level = 0 \/ "P" \notin Entry(mem, it).bits
      /\ TryMapAsserts(pa, perm)
      /\ mem' = Store(g, pa, perm) /\ nalloc' = g.nalloc /\ it' = g.it
      /\ last' = Request(pa, perm, ret)
      /\ halt' = IF Uninitialized(g.mem, g.it) THEN "uninitialized"
                 ELSE IF must /\ ret # 0 THEN "assert" ELSE "none"
  BY ZenonT(30) DEF TryMap
<1>4. /\ pa = NoPa => perm = {}
      /\ perm \subseteq it.perm
      /\ perm # {} /\ it.level > 0 => "P" \notin Entry(mem, it).bits
  BY <1>3, ZenonT(30) DEF TryMapAsserts
<1>5. Request(pa, perm, ret).to = to
  BY ZenonT(30) DEF Request
<1>6. e \in Entries /\ ~ TooHigh(e.pa)
  <2> DEFINE x == IF pa = NoPa THEN 0 ELSE pa
  <2>1. x \in Nat /\ perm \in SUBSET Bits /\ x < PA_LIMIT
    BY PTAssumption, LimitFacts, SMTT(30), Z3T(30) DEF NoPa, Bits, PWU
  <2> HIDE DEF x
  <2>2. [bits |-> perm, pa |-> x] \in Entries /\ ~ TooHigh([bits |-> perm, pa |-> x].pa)
    BY <2>1, LowPages, SMTT(30), Z3T(30) DEF Entries
  <2> QED
    BY <2>2, SMTT(30), Z3T(30) DEF x
<1>7. mem' = IF g.it.level > 0 THEN g.mem ELSE [g.mem EXCEPT ![g.it.tab][g.it.idx] = e]
  BY <1>3, ZenonT(30) DEF Store
<1>8. \A va \in VAs : va % PAGESIZE = 0 => Meaning(va, e, 0) = to
  BY <1>4, MeaningStored, Halves, ZenonT(30)
<1>9. perm = {} => g.mem = mem /\ g.nalloc = nalloc /\ g.it = it
  BY SMTT(30), Z3T(30)
<1>10. perm # {} => g = Grow(mem, nalloc, it)
  BY SMTT(30), Z3T(30)
<1>11. perm = {} => to = Unmapped
  BY SMTT(30), Z3T(30)
<1>12. /\ perm # {} /\ g.it.level > 0 => ret = -1
       /\ ~ (perm # {} /\ g.it.level > 0) => ret = 0
  BY ZenonT(30)
<1> HIDE DEF g, ret, e, to
\* It is enough to show the tables and the iterator right, and the
\* translations.
<1>13. SUFFICES /\ \E K : Tree(g.mem, g.nalloc, K) /\ IterOK(g.mem, g.it)
                /\ \E K : Tree(mem', g.nalloc, K)
                /\ IterOK(mem', g.it)
                /\ UnmapLarge = FALSE =>
                     \A va \in VAs : va % PAGESIZE = 0 =>
                       Translate(mem', va) =
                         IF ret = 0 /\ va \div PAGESIZE = it.va \div PAGESIZE
                         THEN to ELSE Translate(mem, va)
  <2>1. ASSUME /\ \E K : Tree(g.mem, g.nalloc, K) /\ IterOK(g.mem, g.it)
               /\ \E K : Tree(mem', g.nalloc, K)
               /\ IterOK(mem', g.it)
        PROVE  PTInv'
    <3>1. ~ Uninitialized(g.mem, g.it)
      BY <2>1, IterEntry, ZenonT(30) DEF Uninitialized
    <3>2. halt' \in {"none", "assert"}
      BY <1>3, <3>1, ZenonT(30)
    <3> QED
      BY <1>3, <2>1, <3>2, ZenonT(30) DEF PTInv
  <2>2. ret \in {0, -1}
    BY <1>12, ZenonT(30)
  <2> QED
    BY <1>3, <1>5, <2>1, <2>2, ZenonT(30)
\* Nothing is stored: an unmapping above level 0.
<1>14. CASE perm = {} /\ it.level > 0
  <2>1. mem' = mem /\ g.mem = mem /\ g.nalloc = nalloc /\ g.it = it
    BY <1>7, <1>9, <1>14, SMTT(30), Z3T(30)
  <2>2. ASSUME UnmapLarge = FALSE, NEW va \in VAs, va \div PAGESIZE = it.va \div PAGESIZE
        PROVE  Translate(mem, va) = to
    <3>1. "P" \notin Entry(mem, it).bits
      BY <1>3, <1>14, <2>2, SMTT(30), Z3T(30)
    <3>2. Block(va, it.level) = Block(it.va, it.level)
      BY <1>2, <2>2, PageMates, ZenonT(30)
    <3>3. Translate(mem, va) = IF va_is_canonical(it.va)
                               THEN Meaning(va, Entry(mem, it), it.level) ELSE Unmapped
      BY <1>1, <1>2, <3>2, IterTranslate, ZenonT(30)
    <3> QED
      BY <1>11, <1>14, <3>1, <3>3, ZenonT(30) DEF Meaning
  <2> QED
    BY <1>1, <1>2, <2>1, <2>2, ZenonT(30)
\* Otherwise the address is canonical, and the loop of try_map has run.
<1>15. CASE ~ (perm = {} /\ it.level > 0)
  <2>1. va_is_canonical(it.va) /\ AtEnd(mem, it) /\ Entry(mem, it) = mem[it.tab][it.idx]
    <3>1. va_is_canonical(it.va)
      BY <1>2, <1>4, <1>15, SMTT(30), Z3T(30) DEF IterOK
    <3> QED
      BY <1>1, <1>2, <3>1, IterEntry, ZenonT(30) DEF IterOK
  <2>2. it.level > 0 => "P" \notin mem[it.tab][it.idx].bits
    BY <1>4, <1>15, <2>1, SMTT(30), Z3T(30)
  <2>3. GrowOK(mem, it.va, g)
    <3>1. CASE perm = {}
      BY <1>1, <1>9, <2>1, <2>2, <3>1, ZenonT(30) DEF GrowOK
    <3>2. CASE perm # {}
      BY <1>1, <1>10, <2>1, <2>2, <3>2, GrowKeeps, ZenonT(30)
    <3> QED
      BY <3>1, <3>2, SMTT(30), Z3T(30)
  <2>4. /\ AtEnd(g.mem, g.it) /\ g.it.va = it.va
        /\ \A wa \in VAs : Translate(g.mem, wa) = Translate(mem, wa)
    BY <2>3, ZenonT(30) DEF GrowOK
  <2>5. PICK K : Tree(g.mem, g.nalloc, K)
    BY <2>3, ZenonT(30) DEF GrowOK
  <2>6. \A m : AtEnd(m, g.it) => IterOK(m, g.it)
    BY <2>1, <2>4, ZenonT(30) DEF IterOK, AtEnd, OnTrail
  <2>7. g.it.level \in 0 .. 3
    BY <2>4, <2>5, OnTrailFacts, ZenonT(30) DEF AtEnd
  <2>8. CASE g.it.level > 0
    <3>1. mem' = g.mem /\ ret = -1
      <4>1. perm # {}
        BY <1>9, <1>15, <2>8, ZenonT(30)
      <4> QED
        BY <1>7, <1>12, <2>8, <4>1, ZenonT(30)
    <3> QED
      BY <2>4, <2>5, <2>6, <3>1, SMTT(30), Z3T(30)
  <2>9. CASE g.it.level = 0
    <3>1. mem' = Stored(g.mem, g.it, e) /\ ret = 0
      BY <1>7, <1>12, <2>9, SMTT(30), Z3T(30) DEF Stored
    <3>2. /\ \E J : Tree(mem', g.nalloc, J)
          /\ AtEnd(mem', g.it)
          /\ \A wa \in VAs :
               Translate(mem', wa) = IF wa \div PAGESIZE = it.va \div PAGESIZE
                                     THEN Meaning(wa, e, 0) ELSE Translate(mem, wa)
      <4>1. StoreOK(mem, it.va, g, e, mem')
        BY <1>2, <1>6, <2>3, <2>9, <3>1, StoreStep, ZenonT(30)
      <4> QED
        BY <4>1, ZenonT(30) DEF StoreOK
    <3> QED
      BY <1>8, <2>4, <2>5, <2>6, <3>1, <3>2, ZenonT(30)
  <2>10. g.it.level > 0 \/ g.it.level = 0
    BY <2>7, SMTT(30), Z3T(30)
  <2> QED
    BY <2>8, <2>9, <2>10, ZenonT(30)
<1> QED
  BY <1>14, <1>15, ZenonT(30)

-----------------------------------------------------------------------------
(* Theorems *)

LEMMA NextInv == PTInv /\ [PTNext]_ptvars => PTInv'
<1> SUFFICES ASSUME PTInv, [PTNext]_ptvars PROVE PTInv'
  BY SMTT(30), Z3T(30)
<1>1. CASE UNCHANGED ptvars
  BY <1>1, SMTT(30), Z3T(30) DEF PTInv, ptvars
<1>2. CASE \E va \in Addresses : New(va) \/ Find(va)
  BY <1>2, FindsInv, SMTT(30), Z3T(30)
<1>3. CASE Next_ \/ NextRange_
  BY <1>3, FindsInv, SMTT(30), Z3T(30)
<1>4. ASSUME NEW pa \in Frames \cup {NoPa}, NEW perm \in Perms,
             (\E must \in BOOLEAN : TryMap(pa, perm, must)) \/ TryMapFails(pa, perm)
      PROVE  PTInv'
  <2>1. CASE \E must \in BOOLEAN : TryMap(pa, perm, must)
    BY <1>4, <2>1, TryMapStep, ZenonT(30)
  <2>2. CASE TryMapFails(pa, perm)
    BY <2>2, SMTT(30), Z3T(30) DEF TryMapFails, PTInv
  <2> QED
    BY <1>4, <2>1, <2>2, SMTT(30), Z3T(30)
<1> QED
  BY <1>1, <1>2, <1>3, <1>4, SMTT(30), Z3T(30) DEF PTNext

\* The invariant holds: the table pages are a tree and the iterator stands
\* where its address leads (vmiter::real_find, down and try_map).
THEOREM TablesFormTree == PTSpec => []PTInv
BY InitInv, NextInv, PTL DEF PTSpec

\* The panic at the end of vmiter::down is dead code: whatever is mapped and
\* wherever the iterator goes, it never reads a table page that try_map did
\* not clear.
THEOREM PanicIsDead == PTSpec => []NeverUninitialized
<1>1. PTInv => NeverUninitialized
  BY DEF PTInv, NeverUninitialized
<1> QED
  BY <1>1, TablesFormTree, PTL

\* pa() and perm() of an iterator are what the processor makes of its address
\* (vmiter::down, real_find), for page tables of every size.
THEOREM IteratorIsRight == PTSpec => []IteratorTranslates
BY InvTranslates, TablesFormTree, PTL

\* vmiter::next and next_range pass over no mapped page.
THEOREM NextSkipsNothing == PTSpec => []NothingPassedOver
BY InvPasses, TablesFormTree, PTL
=============================================================================
