--------------------------- MODULE MappingProofs ----------------------------
(***************************************************************************)
(* What callers of the page table rely on: mapping a page changes the      *)
(* translation of that page and no other, and range_perm gives what all    *)
(* bytes of a range allow.                                                 *)
(***************************************************************************)
EXTENDS PageTableProofs

-----------------------------------------------------------------------------
(* Steps of the page table as steps of AddressSpace *)

TheMap == [p \in VPages |-> Translate(mem, p * PAGESIZE)]

\* Pages and addresses.
LEMMA PageArith ==
  ASSUME NEW p \in Nat, NEW d \in Nat, d > 0
  PROVE  p * d \in Nat /\ (p * d) \div d = p /\ (p * d) % d = 0
BY SMTT(30), Z3T(30)

LEMMA PageAddresses ==
  /\ \A p \in VPages : p * PAGESIZE \in VAs /\ (p * PAGESIZE) % PAGESIZE = 0
                       /\ (p * PAGESIZE) \div PAGESIZE = p
  /\ \A va \in VAs : va \div PAGESIZE \in VPages
<1> DEFINE k == VA_END \div PAGESIZE
<1>1. PAGESIZE \in Nat /\ PAGESIZE > 0
  BY PTAssumption, SMTT(30), Z3T(30)
<1>2. k \in Nat /\ VA_END = PAGESIZE * k /\ VA_END \in Nat
  <2> DEFINE j == 2 * (ENTRIES * ENTRIES * ENTRIES * ENTRIES)
  <2>1. j \in Nat
    BY RegionSizes, SMTT(30), Z3T(30)
  <2>2. VA_END = 2 * (PAGESIZE * (ENTRIES * ENTRIES * ENTRIES * ENTRIES))
    BY SMTT(30), Z3T(30) DEF VA_END, Region, Regions
  <2>3. VA_END = j * PAGESIZE
    BY <1>1, <2>2, RegionSizes, SMTT(30), Z3T(30)
  <2> HIDE DEF j
  <2>4. (j * PAGESIZE) \div PAGESIZE = j /\ j * PAGESIZE \in Nat
    BY <1>1, <2>1, PageArith, SMTT(30), Z3T(30)
  <2>5. k = j
    BY <2>3, <2>4, SMTT(30), Z3T(30)
  <2> QED
    BY <1>1, <2>1, <2>3, <2>4, <2>5, SMTT(30), Z3T(30)
<1>3. VPages = 0 .. k - 1
  BY SMTT(30), Z3T(30) DEF VPages
<1> HIDE DEF k
<1>4. ASSUME NEW p \in VPages
      PROVE  /\ p * PAGESIZE \in VAs /\ (p * PAGESIZE) % PAGESIZE = 0
             /\ (p * PAGESIZE) \div PAGESIZE = p
  <2>1. p \in Nat /\ p < k
    BY <1>2, <1>3, SMTT(30), Z3T(30)
  <2>2. p * PAGESIZE \in Nat /\ (p * PAGESIZE) \div PAGESIZE = p /\ (p * PAGESIZE) % PAGESIZE = 0
    BY <1>1, <2>1, PageArith, SMTT(30), Z3T(30)
  <2>3. p * PAGESIZE < PAGESIZE * k
    BY <1>1, <1>2, <2>1, <2>2, DivLess, SMTT(30), Z3T(30)
  <2> QED
    BY <1>2, <2>2, <2>3, SMTT(30), Z3T(30) DEF VAs
<1>5. ASSUME NEW va \in VAs PROVE va \div PAGESIZE \in VPages
  <2>1. va \in Nat /\ va < PAGESIZE * k
    BY <1>2, SMTT(30), Z3T(30) DEF VAs
  <2>2. va \div PAGESIZE \in Nat /\ va \div PAGESIZE < k
    BY <1>1, <1>2, <2>1, DivLess, DivFacts, SMTT(30), Z3T(30)
  <2> QED
    BY <1>2, <1>3, <2>2, SMTT(30), Z3T(30)
<1> QED
  BY <1>4, <1>5, SMTT(30), Z3T(30)

\* A translation is a mapping.
LEMMA TranslateType ==
  ASSUME NEW m, NEW n, NEW L, Tree(m, n, L), NEW va \in VAs
  PROVE  Translate(m, va) \in [bits : SUBSET PWU, pa : Int]
<1>1. Unmapped \in [bits : SUBSET PWU, pa : Int]
  BY SMTT(30), Z3T(30) DEF Unmapped, NoPa
<1>2. CASE ~ va_is_canonical(va)
  BY <1>1, <1>2, SMTT(30), Z3T(30) DEF Translate
<1>3. CASE va_is_canonical(va)
  <2>1. va \in Nat
    BY Halves, SMTT(30), Z3T(30)
  <2>2. PICK l, T : l \in 0 .. 3 /\ Ends(m, va, l, T)
    BY <2>1, EndOf, SMTT(30), Z3T(30)
  <2> DEFINE e == At(m, va, T, l)  d == va % Region(l)
  <2>3. Translate(m, va) = Meaning(va, e, l)
    BY <1>3, <2>1, <2>2, TranslateIs, SMTT(30), Z3T(30)
  <2>4. e \in Entries
    BY <2>1, <2>2, TrailAt, SMTT(30), Z3T(30) DEF Ends
  <2>5. d \in Int
    BY <2>1, <2>2, RegionSizes, DivFacts, SMTT(30), Z3T(30)
  <2> HIDE DEF e
  <2>6. e.pa * PAGESIZE + d \in Int
    <3>1. e.pa \in Int
      BY <2>4, SMTT(30), Z3T(30) DEF Entries
    <3> HIDE DEF d
    <3> QED
      BY <2>5, <3>1, PTAssumption, SMTT(30), Z3T(30)
  <2> DEFINE x == e.pa * PAGESIZE + d
  <2>7. Translate(m, va) = IF "P" \in e.bits THEN [bits |-> PWU \cap e.bits, pa |-> x] ELSE Unmapped
    BY <2>3, SMTT(30), Z3T(30) DEF Meaning
  <2>8. x \in Int
    BY <2>6, SMTT(30), Z3T(30)
  <2> HIDE DEF x
  <2> QED
    BY <1>1, <2>7, <2>8, SMTT(30), Z3T(30)
<1> QED
  BY <1>2, <1>3, SMTT(30), Z3T(30)

LEMMA MapStep ==
  ASSUME UnmapLarge = FALSE, PTInv, [PTNext]_ptvars
  PROVE  [AS!ASNext]_(AS!avars)
<1>1. ASSUME last' = NoRequest, mem' = mem PROVE AS!ASNext
  <2>1. TheMap' = TheMap
    BY <1>1, SMTT(30), Z3T(30) DEF TheMap
  <2>2. AS!Other
    BY <1>1, <2>1, SMTT(30), Z3T(30) DEF AS!Other, AS!NoRequest, NoRequest, TheMap
  <2> QED
    BY <2>2, SMTT(30), Z3T(30) DEF AS!ASNext
<1>2. ASSUME UNCHANGED <<mem, last>> PROVE [AS!ASNext]_(AS!avars)
  BY <1>2, SMTT(30), Z3T(30) DEF AS!avars
<1>3. CASE UNCHANGED ptvars
  BY <1>2, <1>3, SMTT(30), Z3T(30) DEF ptvars
<1>4. CASE \E va \in Addresses : New(va) \/ Find(va)
  BY <1>1, <1>4, SMTT(30), Z3T(30) DEF New, Find, MoveTo
<1>5. CASE Next_ \/ NextRange_
  BY <1>1, <1>5, SMTT(30), Z3T(30) DEF Next_, NextRange_, MoveTo
<1>6. ASSUME NEW pa \in Frames \cup {NoPa}, NEW perm \in Perms, TryMapFails(pa, perm)
      PROVE  [AS!ASNext]_(AS!avars)
  BY <1>2, <1>6, SMTT(30), Z3T(30) DEF TryMapFails
<1>7. ASSUME NEW pa \in Frames \cup {NoPa}, NEW perm \in Perms, NEW must \in BOOLEAN,
             TryMap(pa, perm, must)
      PROVE  AS!ASNext
  <2> DEFINE p == it.va \div PAGESIZE
             t == IF "P" \in perm THEN [bits |-> perm, pa |-> pa * PAGESIZE] ELSE Unmapped
  <2>1. PICK ret \in {0, -1} :
          /\ last' = Request(pa, perm, ret)
          /\ \A va \in VAs : va % PAGESIZE = 0 =>
               Translate(mem', va) =
                 IF ret = 0 /\ va \div PAGESIZE = it.va \div PAGESIZE
                 THEN Request(pa, perm, ret).to ELSE Translate(mem, va)
    BY <1>7, TryMapStep, ZenonT(30)
  <2>2. last' = [page |-> p, to |-> t, ret |-> ret]
    BY <2>1, SMTT(30), Z3T(30) DEF Request
  <2>3. p \in VPages /\ t \in [bits : SUBSET PWU, pa : Int]
    <3>1. it.va \in VAs
      BY IterFacts, ZenonT(30) DEF PTInv, IterOK
    <3>2. Unmapped \in [bits : SUBSET PWU, pa : Int]
      BY SMTT(30), Z3T(30) DEF Unmapped, NoPa
    <3>3. pa * PAGESIZE \in Int /\ perm \in SUBSET PWU
      BY PTAssumption, SMTT(30), Z3T(30) DEF NoPa, PWU
    <3> DEFINE x == pa * PAGESIZE
    <3>4. x \in Int /\ t = IF "P" \in perm THEN [bits |-> perm, pa |-> x] ELSE Unmapped
      BY <3>3, SMTT(30), Z3T(30)
    <3> HIDE DEF x, t
    <3>5. t \in [bits : SUBSET PWU, pa : Int]
      BY <3>2, <3>3, <3>4, SMTT(30), Z3T(30)
    <3> QED
      BY <3>1, <3>5, PageAddresses, SMTT(30), Z3T(30)
  <2>4. Request(pa, perm, ret).to = t
    BY SMTT(30), Z3T(30) DEF Request
  <2> HIDE DEF t, p
  <2>5. \A v \in VPages : Translate(mem', v * PAGESIZE) =
          IF ret = 0 /\ v = p THEN t ELSE Translate(mem, v * PAGESIZE)
    BY <2>1, <2>4, PageAddresses, SMTT(30), Z3T(30) DEF p
  <2>6. last'.page = p /\ last'.to = t
    BY <2>2, SMTT(30), Z3T(30)
  <2>7. CASE ret = 0
    <3>1. TheMap' = [TheMap EXCEPT ![p] = t]
      BY <2>5, <2>7, ZenonT(30) DEF TheMap
    <3>2. AS!Mapped(p, t)
      BY <2>2, <2>7, <3>1, SMTT(30), Z3T(30) DEF AS!Mapped, TheMap
    <3> QED
      BY <2>3, <2>6, <3>2, SMTT(30), Z3T(30) DEF AS!ASNext
  <2>8. CASE ret = -1
    <3>1. TheMap' = TheMap
      BY <2>5, <2>8, SMTT(30), Z3T(30) DEF TheMap
    <3>2. AS!Refused(p, t)
      BY <2>2, <2>8, <3>1, SMTT(30), Z3T(30) DEF AS!Refused, TheMap
    <3> QED
      BY <2>3, <2>6, <3>2, SMTT(30), Z3T(30) DEF AS!ASNext
  <2> QED
    BY <2>7, <2>8, SMTT(30), Z3T(30)
<1> QED
  BY <1>3, <1>4, <1>5, <1>6, <1>7, SMTT(30), Z3T(30) DEF PTNext

\* Seen through the processor, a mapping request changes the page it names and
\* no other, or is refused and changes none, however many table pages try_map
\* adds: every page table implements AddressSpace.  (The one exception is what
\* UnmapLarge allows: unmapping a page inside a large page does nothing.)
THEOREM MapsOnePage == UnmapLarge = FALSE => (PTSpec => ImplementsAddressSpace)
<1> SUFFICES ASSUME UnmapLarge = FALSE PROVE PTSpec => ImplementsAddressSpace
  BY ZenonT(30)
<1>1. PTInit => AS!ASInit
  <2> SUFFICES ASSUME PTInit PROVE AS!ASInit
    BY SMTT(30), Z3T(30)
  <2>1. PICK L : Tree(mem, nalloc, L)
    BY NewTree, KernelTree, SMTT(30), Z3T(30) DEF PTInit
  <2>2. \A p \in VPages : Translate(mem, p * PAGESIZE) \in [bits : SUBSET PWU, pa : Int]
    BY <2>1, PageAddresses, TranslateType, SMTT(30), Z3T(30)
  <2>3. last = NoRequest
    BY SMTT(30), Z3T(30) DEF PTInit
  <2> QED
    BY <2>2, <2>3, SMTT(30), Z3T(30) DEF AS!ASInit, AS!NoRequest, NoRequest
<1>2. PTInv /\ [PTNext]_ptvars => [AS!ASNext]_(AS!avars)
  BY MapStep, ZenonT(30)
<1> QED
  BY <1>1, <1>2, TablesFormTree, PTL DEF PTSpec, ImplementsAddressSpace, AS!ASSpec

-----------------------------------------------------------------------------
(* The loop of range_perm *)

\* Where the region of level l around va starts.
Start(va, l) == Region(l) * Block(va, l)

LEMMA RegionBounds ==
  ASSUME NEW va \in VAs, NEW l \in 0 .. 3
  PROVE  /\ Region(l) \in Nat /\ Region(l) > 0 /\ Start(va, l) \in Nat
         /\ Start(va, l) <= va /\ va < Start(va, l) + Region(l)
         /\ va % Region(l) = va - Start(va, l)
         /\ \A wa \in Nat : Start(va, l) <= wa /\ wa < Start(va, l) + Region(l)
                              <=> Block(wa, l) = Block(va, l)
<1> DEFINE r == Region(l)  b == Block(va, l)  c == r * b
<1>1. r \in Nat /\ r > 0 /\ va \in Nat
  BY RegionSizes, Halves, SMTT(30), Z3T(30)
<1>2. b \in Nat /\ va % r \in 0 .. r - 1 /\ va = r * b + (va % r)
  BY <1>1, DivFacts, ZenonT(30) DEF Block
<1>3. \A wa \in Nat : Block(wa, l) = wa \div r /\ wa \div r \in Nat
  BY <1>1, DivFacts, SMTT(30), Z3T(30) DEF Block
<1> HIDE DEF r, b
<1>4. c \in Nat /\ r * (b + 1) = c + r
  BY <1>1, <1>2, SMTT(30), Z3T(30)
<1>5. ASSUME NEW wa \in Nat
      PROVE  c <= wa /\ wa < c + r <=> Block(wa, l) = b
  <2> DEFINE q == wa \div r
  <2>1. Block(wa, l) = q /\ q \in Nat
    BY <1>3, SMTT(30), Z3T(30)
  <2>2. (wa < r * (b + 1) <=> q < b + 1) /\ (wa < r * b <=> q < b)
    BY <1>1, <1>2, DivLess, SMTT(30), Z3T(30)
  <2> HIDE DEF q
  <2>3. (wa < c + r <=> q < b + 1) /\ (wa < c <=> q < b)
    BY <1>4, <2>2, SMTT(30), Z3T(30)
  <2> HIDE DEF c
  <2> QED
    BY <1>1, <1>2, <1>4, <2>1, <2>3, SMTT(30), Z3T(30)
<1>6. c <= va /\ va < c + r /\ va % r = va - c
  <2> DEFINE d == va % r
  <2>1. d \in 0 .. r - 1 /\ va = c + d
    BY <1>2, SMTT(30), Z3T(30)
  <2> HIDE DEF c, d
  <2> QED
    BY <1>1, <1>4, <2>1, SMTT(30), Z3T(30) DEF d
<1>7. Start(va, l) = c
  BY SMTT(30), Z3T(30) DEF Start, r, b
<1> HIDE DEF c
<1> QED
  BY <1>1, <1>4, <1>5, <1>6, <1>7, SMTT(30), Z3T(30) DEF r, b

\* A region lies within the address space.
LEMMA RegionInside ==
  ASSUME NEW va \in VAs, NEW l \in 0 .. 3, NEW wa \in Nat, Block(wa, l) = Block(va, l)
  PROVE  wa \in VAs
<1>1. va \in Nat /\ 3 >= l /\ l \in 0 .. 4 /\ 3 \in 0 .. 3
  BY Halves, SMTT(30), Z3T(30)
<1>2. Block(wa, 3) = Block(va, 3)
  BY <1>1, SameBlock, SMTT(30), Z3T(30)
<1>3. Block(wa, 3) < 2 * ENTRIES
  BY <1>2, Halves, SMTT(30), Z3T(30)
<1> DEFINE r == Region(3)  k == 2 * ENTRIES
<1>4. r \in Nat /\ r > 0 /\ k \in Nat /\ VA_END = r * k /\ VA_END \in Nat
  <2>1. Region(3) \in Nat /\ Region(3) > 0 /\ ENTRIES \in Nat /\ Region(4) = Region(3) * ENTRIES
    BY RegionSizes, SMTT(30), Z3T(30)
  <2> QED
    BY <2>1, SMTT(30), Z3T(30) DEF VA_END
<1>5. wa < r * k <=> wa \div r < k
  BY <1>4, DivLess, SMTT(30), Z3T(30)
<1>6. wa < VA_END
  BY <1>3, <1>4, <1>5, SMTT(30), Z3T(30) DEF Block
<1> QED
  BY <1>4, <1>6, SMTT(30), Z3T(30) DEF VAs

\* The range behind an iterator's starts where that ends: a region cannot
\* begin before it unless both are the same.
LEMMA NextStarts ==
  ASSUME NEW m, NEW n, NEW L, Tree(m, n, L), NEW i, IterOK(m, i), va_is_canonical(i.va),
         NEW j, IterOK(m, j), va_is_canonical(j.va),
         j.va = Start(i.va, i.level) + Region(i.level)
  PROVE  Start(j.va, j.level) = j.va
<1> DEFINE l == i.level  k == j.level  top == j.va  w == top - 1
<1>1. /\ i.va \in VAs /\ i.va \in Nat /\ l \in 0 .. 3
      /\ top \in VAs /\ top \in Nat /\ k \in 0 .. 3
  BY IterFacts, ZenonT(30) DEF IterOK
<1>2. /\ Region(l) \in Nat /\ Region(l) > 0 /\ Start(i.va, l) \in Nat
      /\ \A wa \in Nat : Start(i.va, l) <= wa /\ wa < Start(i.va, l) + Region(l)
                           <=> Block(wa, l) = Block(i.va, l)
  BY <1>1, RegionBounds, SMTT(30), Z3T(30)
<1>3. w \in Nat /\ Start(i.va, l) <= w /\ w < Start(i.va, l) + Region(l) /\ w + 1 = top
  BY <1>1, <1>2, SMTT(30), Z3T(30)
<1>4. Block(w, l) = Block(i.va, l) /\ Block(top, l) # Block(i.va, l)
  BY <1>1, <1>2, <1>3, SMTT(30), Z3T(30)
<1>5. w \in VAs
  BY <1>1, <1>3, <1>4, RegionInside, SMTT(30), Z3T(30)
<1>6. Block(w, k) # Block(top, k)
  <2> SUFFICES ASSUME Block(w, k) = Block(top, k) PROVE FALSE
    BY SMTT(30), Z3T(30)
  <2>1. CASE k <= l
    <3>1. k \in 0 .. 4 /\ l >= k
      BY <1>1, <2>1, SMTT(30), Z3T(30)
    <3>2. Block(w, l) = Block(top, l)
      BY <1>1, <1>3, <3>1, SameBlock, SMTT(30), Z3T(30)
    <3> QED
      BY <1>4, <3>2, SMTT(30), Z3T(30)
  <2>2. CASE k > l
    <3>1. l \in 0 .. 4 /\ k >= l
      BY <1>1, <2>2, SMTT(30), Z3T(30)
    <3>2. Block(w, l) = Block(i.va, l)
      BY <1>4, SMTT(30), Z3T(30)
    <3>3. PICK T : Ends(m, w, l, T)
      BY <1>5, <3>2, IterEnds, ZenonT(30)
    <3>4. PICK U : Ends(m, w, k, U)
      BY <1>5, IterEnds, ZenonT(30)
    <3>5. l \in 0 .. 3 /\ k \in 0 .. 3
      BY <1>1, SMTT(30), Z3T(30)
    <3> HIDE DEF l, k, w
    <3>6. l = k
      BY ONLY <3>3, <3>4, <3>5, EndsUnique, ZenonT(30)
    <3> QED
      BY <2>2, <3>5, <3>6, SMTT(30), Z3T(30)
  <2> QED
    BY <1>1, <2>1, <2>2, SMTT(30), Z3T(30)
<1>7. /\ Region(k) \in Nat /\ Region(k) > 0 /\ Start(top, k) \in Nat /\ Start(top, k) <= top
      /\ top < Start(top, k) + Region(k)
      /\ Start(top, k) <= w /\ w < Start(top, k) + Region(k) <=> Block(w, k) = Block(top, k)
  BY <1>1, <1>3, RegionBounds, ZenonT(30)
<1> HIDE DEF w, top, k
<1>8. Start(top, k) = top
  BY <1>1, <1>3, <1>6, <1>7, SMTT(30), Z3T(30)
<1> QED
  BY <1>8, SMTT(30), Z3T(30) DEF top, k

\* The bits that the iterator's range allows.
LEMMA RangeBits ==
  ASSUME NEW m, NEW n, NEW L, Tree(m, n, L), NEW i, IterOK(m, i),
         NEW va \in VAs, Block(va, i.level) = Block(i.va, i.level)
  PROVE  Translate(m, va).bits = Perm(m, i) \cap PWU
<1> DEFINE e == Entry(m, i)  t == Translate(m, va)
<1>1. t = IF va_is_canonical(i.va) THEN Meaning(va, e, i.level) ELSE Unmapped
  BY IterTranslate, SMTT(30), Z3T(30)
<1>2. Perm(m, i) = IF "P" \in e.bits THEN e.bits ELSE {}
  BY IterPerm, ZenonT(30)
<1>3. ~ va_is_canonical(i.va) => e = Zero
  BY IterEntry, ZenonT(30)
<1> HIDE DEF e, t
<1>4. CASE va_is_canonical(i.va) /\ "P" \in e.bits
  <2>1. t.bits = PWU \cap e.bits
    BY <1>1, <1>4, SMTT(30), Z3T(30) DEF Meaning
  <2> QED
    BY <1>2, <1>4, <2>1, ZenonT(30) DEF t
<1>5. CASE ~ (va_is_canonical(i.va) /\ "P" \in e.bits)
  <2>1. t = Unmapped /\ "P" \notin e.bits
    BY <1>1, <1>3, <1>5, SMTT(30), Z3T(30) DEF Meaning, Zero
  <2>2. t.bits = {} /\ Perm(m, i) = {}
    BY <1>2, <2>1, SMTT(30), Z3T(30) DEF Unmapped
  <2> QED
    BY <2>2, SMTT(30), Z3T(30) DEF t
<1> QED
  BY <1>4, <1>5, ZenonT(30)

\* Whatever is mapped is present.
LEMMA PresentBits ==
  ASSUME NEW m, NEW n, NEW L, Tree(m, n, L), NEW va \in VAs, "P" \notin Translate(m, va).bits
  PROVE  Translate(m, va).bits = {}
<1>1. CASE ~ va_is_canonical(va)
  BY <1>1, SMTT(30), Z3T(30) DEF Translate, Unmapped
<1>2. CASE va_is_canonical(va)
  <2>1. va \in Nat
    BY Halves, SMTT(30), Z3T(30)
  <2>2. PICK l, T : l \in 0 .. 3 /\ Ends(m, va, l, T)
    BY <2>1, EndOf, SMTT(30), Z3T(30)
  <2> DEFINE t == Translate(m, va)  e == At(m, va, T, l)
  <2>3. t = Meaning(va, e, l)
    BY <1>2, <2>1, <2>2, TranslateIs, SMTT(30), Z3T(30)
  <2> HIDE DEF t, e
  <2>4. CASE "P" \in e.bits
    <3>1. t.bits = PWU \cap e.bits
      BY <2>3, <2>4, SMTT(30), Z3T(30) DEF Meaning
    <3>2. "P" \in t.bits
      BY <2>4, <3>1, SMTT(30), Z3T(30) DEF PWU
    <3> QED
      BY <3>2, SMTT(30), Z3T(30) DEF t
  <2>5. CASE "P" \notin e.bits
    <3>1. t.bits = {}
      BY <2>3, <2>5, SMTT(30), Z3T(30) DEF Meaning, Unmapped
    <3> QED
      BY <3>1, SMTT(30), Z3T(30) DEF t
  <2> QED
    BY <2>4, <2>5, SMTT(30), Z3T(30)
<1> QED
  BY <1>1, <1>2, SMTT(30), Z3T(30)

\* Bit b is allowed for all bytes from va that are before hi and before end.
Allowed(m, b, va, hi, end) ==
  \A wa \in VAs : va <= wa /\ wa < hi /\ wa < end => b \in Translate(m, wa).bits

\* The state s of the loop of range_perm for the bytes from va to end: it has
\* the permissions of all ranges up to its iterator's.
RangeOK(m, va, end, s) ==
  LET i == s.i  c == Start(i.va, i.level)  top == c + Region(i.level)
  IN /\ IterOK(m, i) /\ va_is_canonical(i.va)
     /\ s.sz \in Nat /\ s.sz > 0 /\ c + s.sz = end /\ va < top
     /\ \A b \in PWU : b \in s.p <=> Allowed(m, b, va, top, end)

\* The end of a range inside the address space.
LEMMA EndIs ==
  ASSUME NEW va \in VAs, NEW l \in 0 .. 3, NEW top, top = Start(va, l) + Region(l), top \in VAs
  PROVE  RegionEnd(va, l) = top
<1> DEFINE r == Region(l)  b == Block(va, l)
<1>1. r \in Nat /\ r > 0 /\ b \in Nat
  <2>1. r \in Nat /\ r > 0 /\ va \in Nat
    BY RegionSizes, Halves, SMTT(30), Z3T(30)
  <2> QED
    BY <2>1, DivFacts, SMTT(30), Z3T(30) DEF Block
<1>2. RegionEnd(va, l) = ((b + 1) * r) % VA_END /\ top = r * b + r
  BY SMTT(30), Z3T(30) DEF RegionEnd, Block, Start
<1>3. top \in Nat /\ VA_END \in Nat /\ top < VA_END /\ VA_END > 0
  <2>1. Region(4) \in Nat /\ Region(4) > 0
    BY RegionSizes, SMTT(30), Z3T(30)
  <2> QED
    BY <2>1, Halves, SMTT(30), Z3T(30) DEF VA_END, VAs
<1> HIDE DEF r, b
<1>4. (b + 1) * r = top
  BY <1>1, <1>2, SMTT(30), Z3T(30)
<1>5. top % VA_END = top
  BY <1>3, SMTT(30), Z3T(30)
<1> QED
  BY <1>2, <1>4, <1>5, SMTT(30), Z3T(30)

\* One round keeps what is known of the state.
LEMMA RoundOK ==
  ASSUME NEW m, NEW n, NEW L, Tree(m, n, L), NEW va \in VAs, NEW end \in Nat, end <= VA_END,
         \A wa \in VAs : va <= wa /\ wa < end => va_is_canonical(wa),
         NEW s, RangeOK(m, va, end, s)
  PROVE  RangeOK(m, va, end, RangeRound(m, s))
<1> DEFINE i == s.i  l == i.level  r == Region(l)  c == Start(i.va, l)  top == c + r
<1>1. /\ IterOK(m, i) /\ va_is_canonical(i.va)
      /\ s.sz \in Nat /\ s.sz > 0 /\ c + s.sz = end /\ va < top
      /\ \A b \in PWU : b \in s.p <=> Allowed(m, b, va, top, end)
  BY ZenonT(30) DEF RangeOK
<1>2. CASE ~ ("P" \in s.p /\ s.sz > r)
  BY <1>2, SMTT(30), Z3T(30) DEF RangeRound
<1>3. CASE "P" \in s.p /\ s.sz > r
  <2> DEFINE j == NextRange(m, i)  k == j.level  q == Region(k)
             t == [p |-> s.p \cap Perm(m, j), sz |-> s.sz - r, i |-> j]
  <2>1. RangeRound(m, s) = t
    BY <1>3, SMTT(30), Z3T(30) DEF RangeRound
  <2>2. i \in Iters /\ i.va \in VAs /\ l \in 0 .. 3 /\ va \in Nat /\ VA_END \in Nat
    <3>1. Region(4) \in Nat
      BY RegionSizes, SMTT(30), Z3T(30)
    <3> QED
      BY <1>1, <3>1, IterFacts, Halves, SMTT(60), Z3T(60) DEF IterOK, VA_END
  <2>3. r \in Nat /\ r > 0 /\ c \in Nat
    BY <2>2, RegionBounds, ZenonT(30)
  <2>4. top \in Nat /\ top < end /\ va <= top
    <3> HIDE DEF r, c
    <3> QED
      BY <1>1, <1>3, <2>2, <2>3, SMTT(60), Z3T(60)
  <2>5. top \in VAs /\ va_is_canonical(top)
    <3> HIDE DEF top
    <3>1. top \in VAs
      BY <2>2, <2>4, SMTT(30), Z3T(30) DEF VAs
    <3> QED
      BY <2>4, <3>1, SMTT(30), Z3T(30)
  <2>6. j = RealFind(m, i, top)
    BY <2>2, <2>5, EndIs, ZenonT(30) DEF NextRange, LastVa
  <2>7. IterOK(m, j) /\ j.va = top
    <3> HIDE DEF top, i, j
    <3> QED
      BY <1>1, <2>2, <2>5, <2>6, RealFindOK, ZenonT(30)
  <2>8. k \in 0 .. 3
    BY <2>7, IterFacts, ZenonT(30) DEF IterOK
  <2>9. Start(top, k) = top
    <3>1. Start(j.va, j.level) = j.va
      <4> HIDE DEF j, i
      <4> QED
        BY <1>1, <2>5, <2>7, NextStarts, ZenonT(30)
    <3> QED
      BY <2>7, <3>1, ZenonT(30)
  <2>10. /\ q \in Nat /\ q > 0
         /\ \A wa \in Nat : top <= wa /\ wa < top + q <=> Block(wa, k) = Block(top, k)
    <3> HIDE DEF top, j
    <3> QED
      BY <2>5, <2>8, <2>9, RegionBounds, SMTT(30), Z3T(30)
  <2> HIDE DEF j, k, q, top
  <2>11. ASSUME NEW wa \in VAs, top <= wa, wa < top + q
         PROVE  Translate(m, wa).bits = Perm(m, j) \cap PWU
    <3>1. wa \in Nat
      BY Halves, SMTT(30), Z3T(30)
    <3>2. Block(wa, k) = Block(top, k)
      BY <2>10, <2>11, <3>1, SMTT(30), Z3T(30)
    <3>3. Block(wa, j.level) = Block(j.va, j.level)
      BY <2>7, <3>2, SMTT(30), Z3T(30) DEF k
    <3> QED
      BY <2>7, <3>3, RangeBits, ZenonT(30)
  <2>12. ASSUME NEW b \in PWU
         PROVE  b \in s.p \cap Perm(m, j) <=> Allowed(m, b, va, top + q, end)
    <3>0. \A wa \in VAs : wa \in Nat
      BY Halves, SMTT(30), Z3T(30)
    <3>1. b \in s.p <=> Allowed(m, b, va, top, end)
      BY <1>1, ZenonT(30) DEF top
    <3>2. ASSUME b \in s.p, b \in Perm(m, j) PROVE Allowed(m, b, va, top + q, end)
      <4> SUFFICES ASSUME NEW wa \in VAs, va <= wa, wa < top + q, wa < end
                   PROVE  b \in Translate(m, wa).bits
        BY SMTT(30), Z3T(30) DEF Allowed
      <4>1. CASE wa < top
        BY <3>1, <3>2, <4>1, ZenonT(30) DEF Allowed
      <4>2. CASE top <= wa
        BY <2>11, <3>2, <4>2, ZenonT(30)
      <4> QED
        BY <2>4, <3>0, <4>1, <4>2, SMTT(30), Z3T(30)
    <3>3. ASSUME Allowed(m, b, va, top + q, end) PROVE b \in s.p /\ b \in Perm(m, j)
      <4>1. Allowed(m, b, va, top, end)
        BY <2>4, <2>10, <3>0, <3>3, SMTT(60), Z3T(60) DEF Allowed
      <4>2. top < top + q /\ top <= top
        BY <2>4, <2>10, SMTT(30), Z3T(30)
      <4>3. b \in Translate(m, top).bits
        BY <2>4, <2>5, <3>3, <4>2, SMTT(30), Z3T(30) DEF Allowed
      <4> QED
        BY <2>5, <2>11, <3>1, <4>1, <4>2, <4>3, ZenonT(30)
    <3> QED
      BY <3>2, <3>3, ZenonT(30)
  <2>13. s.sz - r \in Nat /\ s.sz - r > 0 /\ top + (s.sz - r) = end /\ va < top + q
    <3> HIDE DEF r, c
    <3> QED
      BY <1>1, <1>3, <2>2, <2>3, <2>4, <2>10, SMTT(60), Z3T(60) DEF top
  <2>14. t.i = j /\ t.sz = s.sz - r /\ t.p = s.p \cap Perm(m, j)
    BY ZenonT(30)
  <2> HIDE DEF t
  <2>15. RangeOK(m, va, end, t)
    BY <2>5, <2>7, <2>9, <2>12, <2>13, <2>14, ZenonT(30) DEF RangeOK, k, q
  <2> QED
    BY <2>1, <2>15, SMTT(30), Z3T(30)
<1> QED
  BY <1>2, <1>3, SMTT(30), Z3T(30)

\* Up to the end of its half, all addresses behind a canonical one are
\* canonical; the address there is not, if it is one.
LEMMA HalfEnds ==
  ASSUME NEW va \in VAs, va_is_canonical(va), NEW hi,
         hi = IF 2 * va >= VA_END THEN VA_END ELSE VA_LOWEND
  PROVE  /\ VA_END \in Nat /\ hi \in Nat /\ va < hi /\ hi <= VA_END
         /\ \A wa \in VAs : va <= wa /\ wa < hi => va_is_canonical(wa)
         /\ hi # VA_END => hi \in VAs /\ ~ va_is_canonical(hi)
<1> DEFINE h == VA_LOWEND
<1>1. h \in Nat /\ h > 0 /\ VA_END = 4 * h /\ VA_HIGHMIN = 3 * h
  <2>1. Region(4) = Region(3) * ENTRIES /\ Region(3) \in Nat /\ Region(3) > 0
    BY RegionSizes, SMTT(30), Z3T(30)
  <2> DEFINE r == Region(3)  f == ENTRIES \div 2
  <2>2. f \in Nat /\ f > 0 /\ ENTRIES = 2 * f
    BY PTAssumption, SMTT(30), Z3T(30)
  <2> HIDE DEF r, f
  <2>3. Region(4) = 2 * (r * f) /\ r * f \in Nat /\ r * f > 0
    BY <2>1, <2>2, SMTT(30), Z3T(30) DEF r
  <2>4. VA_LOWEND = r * f
    BY <2>3, SMTT(30), Z3T(30) DEF VA_LOWEND
  <2> QED
    BY <2>3, <2>4, SMTT(30), Z3T(30) DEF VA_END, VA_HIGHMIN
<1> HIDE DEF h
<1>2. \A wa \in VAs : wa \in Nat /\ wa < 4 * h
  BY <1>1, SMTT(30), Z3T(30) DEF VAs
<1>3. \A wa \in Nat : va_is_canonical(wa) <=> wa < h \/ wa >= 3 * h
  BY <1>1, SMTT(30), Z3T(30) DEF va_is_canonical, h
<1>4. hi = IF 2 * va >= 4 * h THEN 4 * h ELSE h
  BY <1>1, SMTT(30), Z3T(30) DEF h
<1>5. va \in Nat /\ va < 4 * h /\ (va < h \/ va >= 3 * h)
  BY <1>2, <1>3, SMTT(30), Z3T(30)
<1>6. (hi = h /\ va < h) \/ (hi = 4 * h /\ va >= 3 * h)
  BY ONLY <1>1, <1>4, <1>5, SMTT(30), Z3T(30)
<1>7. hi \in Nat /\ va < hi /\ hi <= 4 * h
  BY ONLY <1>1, <1>5, <1>6, SMTT(30), Z3T(30)
<1>8. \A wa \in VAs : va <= wa /\ wa < hi => va_is_canonical(wa)
  BY ONLY <1>1, <1>2, <1>3, <1>5, <1>6, SMTT(30), Z3T(30)
<1>9. hi # 4 * h => hi = h /\ h \in VAs /\ ~ va_is_canonical(h)
  BY ONLY <1>1, <1>3, <1>6, SMTT(30), Z3T(30) DEF VAs
<1>10. hi \in Nat /\ va < hi /\ hi <= VA_END /\ (hi # VA_END => hi \in VAs /\ ~ va_is_canonical(hi))
  BY ONLY <1>1, <1>7, <1>9, SMTT(30), Z3T(30)
<1> QED
  BY ONLY <1>1, <1>8, <1>10, SMTT(30), Z3T(30)

\* The bits that all of the bytes have.
LEMMA ReferenceIs ==
  ASSUME NEW va \in VAs, va = it.va, NEW sz \in Nat, VA_END \in Nat, va + sz <= VA_END
  PROVE  RangeReference(sz) = {b \in PWU : Allowed(mem, b, va, va + sz, va + sz)}
<1>1. va \in Nat
  BY Halves, SMTT(30), Z3T(30)
<1>2. ASSUME NEW b \in PWU
      PROVE  (\A d \in 0 .. sz - 1 : va + d < VA_END /\ b \in Translate(mem, va + d).bits)
             <=> Allowed(mem, b, va, va + sz, va + sz)
  <2>1. ASSUME \A d \in 0 .. sz - 1 : va + d < VA_END /\ b \in Translate(mem, va + d).bits
        PROVE  Allowed(mem, b, va, va + sz, va + sz)
    <3> SUFFICES ASSUME NEW wa \in VAs, va <= wa, wa < va + sz PROVE b \in Translate(mem, wa).bits
      BY ZenonT(30) DEF Allowed
    <3> DEFINE d == wa - va
    <3>1. wa \in Nat
      BY Halves, SMTT(30), Z3T(30)
    <3>2. d \in 0 .. sz - 1 /\ va + d = wa
      BY <1>1, <3>1, SMTT(30), Z3T(30)
    <3> HIDE DEF d
    <3> QED
      BY <2>1, <3>2, ZenonT(30)
  <2>2. ASSUME Allowed(mem, b, va, va + sz, va + sz), NEW d \in 0 .. sz - 1
        PROVE  va + d < VA_END /\ b \in Translate(mem, va + d).bits
    <3> DEFINE wa == va + d
    <3>1. wa \in Nat /\ va <= wa /\ wa < va + sz /\ wa < VA_END
      BY <1>1, SMTT(30), Z3T(30)
    <3> HIDE DEF wa
    <3>2. wa \in VAs
      BY <3>1, SMTT(30), Z3T(30) DEF VAs
    <3>3. b \in Translate(mem, wa).bits
      BY <2>2, <3>1, <3>2, ZenonT(30) DEF Allowed
    <3> QED
      BY <3>1, <3>3, SMTT(30), Z3T(30) DEF wa
  <2> QED
    BY <2>1, <2>2, ZenonT(30)
<1> QED
  BY <1>2, ZenonT(30) DEF RangeReference

\* The loop goes on for another round.
More(t) == "P" \in t.p /\ t.sz > Region(t.i.level)

\* The state t after k of z rounds: each takes a byte at least.
Fine(m, va, end, z, t, k) == RangeOK(m, va, end, t) /\ (More(t) => t.sz + k <= z)

\* What the loop is to give for the bytes from va to end.
Answers(m, va, end, p) ==
  \/ "P" \in p /\ \A b \in PWU : b \in p <=> Allowed(m, b, va, end, end)
  \/ "P" \notin p /\ \E wa \in VAs : va <= wa /\ wa < end /\ Translate(m, wa).bits = {}

\* A round keeps that.
LEMMA FineStep ==
  ASSUME NEW m, NEW n, NEW L, Tree(m, n, L), NEW va \in VAs, NEW end \in Nat, end <= VA_END,
         \A wa \in VAs : va <= wa /\ wa < end => va_is_canonical(wa),
         NEW z \in Nat, NEW k \in Nat, NEW t, Fine(m, va, end, z, t, k)
  PROVE  Fine(m, va, end, z, RangeRound(m, t), k + 1)
<1> DEFINE u == RangeRound(m, t)
<1>1. u = RangeRound(m, t)
  BY SMTT(30), Z3T(30)
<1>2. RangeOK(m, va, end, t) /\ (More(t) => t.sz + k <= z)
  BY ZenonT(30) DEF Fine
<1> HIDE DEF u
<1>3. RangeOK(m, va, end, u)
  BY <1>1, <1>2, RoundOK, ZenonT(30)
<1>4. CASE ~ More(t)
  <2>1. u = t
    BY <1>1, <1>4, ZenonT(30) DEF RangeRound, More
  <2>2. ~ More(u)
    BY <1>4, <2>1, ZenonT(30)
  <2> HIDE DEF More
  <2> QED
    BY <1>3, <2>2, ZenonT(30) DEF Fine, u
<1>5. CASE More(t)
  <2> DEFINE r == Region(t.i.level)
  <2>1. u.sz = t.sz - r
    BY <1>1, <1>5, ZenonT(30) DEF RangeRound, More
  <2>2. r \in Nat /\ r > 0 /\ t.sz \in Nat
    <3>1. t.i.level \in 0 .. 3 /\ t.sz \in Nat
      BY <1>2, IterFacts, ZenonT(30) DEF RangeOK, IterOK
    <3> QED
      BY <3>1, RegionSizes, SMTT(60), Z3T(60)
  <2>3. t.sz + k <= z
    BY <1>2, <1>5, ZenonT(30)
  <2> HIDE DEF r
  <2>4. u.sz + (k + 1) <= z
    BY <2>1, <2>2, <2>3, SMTT(60), Z3T(60)
  <2> QED
    BY <1>3, <2>4, ZenonT(30) DEF Fine, u
<1> QED
  BY <1>4, <1>5, ZenonT(30)

\* So the loop is right when all rounds are done.
LEMMA FineAnswers ==
  ASSUME NEW m, NEW n, NEW L, Tree(m, n, L), NEW va \in VAs, NEW end \in Nat, end <= VA_END,
         \A wa \in VAs : va <= wa /\ wa < end => va_is_canonical(wa),
         NEW z \in Nat, NEW t, Fine(m, va, end, z, t, z)
  PROVE  Answers(m, va, end, t.p)
<1>1. z \in Nat
  BY SMTT(30), Z3T(30)
<1> DEFINE c == Start(t.i.va, t.i.level)  r == Region(t.i.level)  top == c + r
<1>6. /\ RangeOK(m, va, end, t) /\ t.sz \in Nat /\ t.sz > 0 /\ c + t.sz = end
      /\ \A b \in PWU : b \in t.p <=> Allowed(m, b, va, top, end)
      /\ More(t) => t.sz + z <= z
  BY ZenonT(30) DEF Fine, RangeOK
<1>7. c \in Nat /\ r \in Nat
  <2>1. t.i.va \in VAs /\ t.i.level \in 0 .. 3
    BY <1>6, IterFacts, ZenonT(30) DEF RangeOK, IterOK
  <2> QED
    BY <2>1, RegionBounds, ZenonT(30)
<1>8. ~ More(t)
  BY <1>1, <1>6, SMTT(60), Z3T(60)
<1>9. CASE "P" \in t.p
  <2>1. t.sz <= r
    BY <1>6, <1>7, <1>8, <1>9, SMTT(60), Z3T(60) DEF More
  <2>2. end <= top
    <3> HIDE DEF c, r
    <3> QED
      BY <1>6, <1>7, <2>1, SMTT(60), Z3T(60)
  <2>3. \A b \in PWU : Allowed(m, b, va, top, end) <=> Allowed(m, b, va, end, end)
    <3>1. top \in Nat /\ \A wa \in VAs : wa \in Nat
      BY <1>7, Halves, SMTT(60), Z3T(60)
    <3> HIDE DEF top
    <3>2. \A wa \in VAs : wa < end => wa < top
      BY <2>2, <3>1, SMTT(30), Z3T(30)
    <3> QED
      BY <3>2, ZenonT(30) DEF Allowed
  <2> HIDE DEF top
  <2> QED
    BY <1>6, <1>9, <2>3, ZenonT(30) DEF Answers
<1>10. CASE "P" \notin t.p
  <2>1. "P" \in PWU
    BY SMTT(30), Z3T(30) DEF PWU
  <2>2. ~ Allowed(m, "P", va, top, end)
    BY <1>6, <1>10, <2>1, ZenonT(30)
  <2>3. PICK wa \in VAs : va <= wa /\ wa < end /\ "P" \notin Translate(m, wa).bits
    BY <2>2, ZenonT(30) DEF Allowed
  <2>4. Translate(m, wa).bits = {}
    BY <2>3, PresentBits, ZenonT(30)
  <2> QED
    BY <1>10, <2>3, <2>4, ZenonT(30) DEF Answers
<1> QED
  BY <1>9, <1>10, ZenonT(30)

\* range_perm is exact where its loop is right.
LEMMA LoopSuffices ==
  ASSUME PTInv,
         \A end \in Nat : \A start :
           /\ end <= VA_END /\ RangeOK(mem, it.va, end, start)
           /\ \A wa \in VAs : it.va <= wa /\ wa < end => va_is_canonical(wa)
           => Answers(mem, it.va, end, RangeLoop(mem, start))
  PROVE  RangePermExact
<1> SUFFICES ASSUME NEW sz \in 1 .. MaxRange,
                    LET rsz == Region(it.level) off == it.va % rsz
                    IN off = 0 \/ off + sz <= rsz \/ sz > rsz
             PROVE  RangePerm(mem, it, sz) \cap PWU = RangeReference(sz)
  BY SMTT(30), Z3T(30) DEF RangePermExact
<1> DEFINE va == it.va  l == it.level  r == Region(l)  off == va % r  c == Start(va, l)
           p == Perm(mem, it)
           rest == (IF 2 * va >= VA_END THEN VA_END ELSE VA_LOWEND) - va
           start == [p |-> p, sz |-> sz + off, i |-> it]
           all == RangeLoop(mem, start)
<1>0. \A end \in Nat : \A s :
         /\ end <= VA_END /\ RangeOK(mem, va, end, s)
         /\ \A wa \in VAs : va <= wa /\ wa < end => va_is_canonical(wa)
         => Answers(mem, va, end, RangeLoop(mem, s))
  BY SMTT(30), Z3T(30)
<1>1. PICK L : Tree(mem, nalloc, L)
  BY SMTT(30), Z3T(30) DEF PTInv
<1>2. IterOK(mem, it) /\ va \in VAs /\ va \in Nat /\ l \in 0 .. 3
  BY IterFacts, ZenonT(30) DEF PTInv, IterOK
<1>3. sz \in Nat /\ sz >= 1
  BY RangeAssumption, SMTT(30), Z3T(30)
<1>4. /\ r \in Nat /\ r > 0 /\ c \in Nat /\ c <= va /\ va < c + r /\ off = va - c
      /\ \A wa \in Nat : c <= wa /\ wa < c + r <=> Block(wa, l) = Block(va, l)
  BY <1>2, RegionBounds, ZenonT(30)
<1>5. RangePerm(mem, it, sz) = IF "P" \notin p \/ sz <= r THEN p
                               ELSE IF sz > rest \/ "P" \notin all THEN {} ELSE all
  BY ZenonT(30) DEF RangePerm, RangePermAt
<1>6. \A wa \in VAs : Block(wa, l) = Block(va, l) => Translate(mem, wa).bits = p \cap PWU
  BY <1>1, <1>2, RangeBits, ZenonT(30)
<1>7. "P" \in p => va_is_canonical(va)
  <2>1. ~ va_is_canonical(va) => Entry(mem, it) = Zero
    BY <1>1, <1>2, IterEntry, ZenonT(30)
  <2> QED
    BY <2>1, SMTT(60), Z3T(60) DEF Perm, Zero
<1>8. off = 0 \/ off + sz <= r \/ sz > r
  BY SMTT(30), Z3T(30)
<1>9. start.p = p /\ start.sz = sz + off /\ start.i = it
  BY ZenonT(30)
<1> HIDE DEF p, r, off, c, rest, start, all
<1>10. CASE "P" \notin p
  <2>1. p = {}
    BY <1>10, ZenonT(30) DEF p, Perm
  <2>2. Translate(mem, va + 0).bits = {} /\ 0 \in 0 .. sz - 1
    BY <1>2, <1>3, <1>6, <2>1, SMTT(60), Z3T(60)
  <2>3. RangeReference(sz) = {}
    BY <2>2, ZenonT(30) DEF RangeReference
  <2> QED
    BY <1>5, <1>10, <2>1, <2>3, ZenonT(30)
<1>11. CASE "P" \in p /\ sz <= r
  <2>1. va + sz <= c + r
    BY <1>2, <1>3, <1>4, <1>8, <1>11, SMTT(60), Z3T(60)
  <2>2. ASSUME NEW d \in 0 .. sz - 1
        PROVE  va + d < VA_END /\ Translate(mem, va + d).bits = p \cap PWU
    <3> DEFINE wa == va + d
    <3>1. wa \in Nat /\ c <= wa /\ wa < c + r
      BY <1>2, <1>3, <1>4, <2>1, SMTT(60), Z3T(60)
    <3> HIDE DEF wa
    <3>2. Block(wa, l) = Block(va, l)
      BY <1>4, <3>1, ZenonT(30)
    <3>3. wa \in VAs
      BY <1>2, <3>1, <3>2, RegionInside, ZenonT(30)
    <3>4. wa < VA_END
      <4>1. Region(4) \in Nat
        BY RegionSizes, SMTT(60), Z3T(60)
      <4> QED
        BY <3>3, <4>1, SMTT(30), Z3T(30) DEF VAs, VA_END
    <3> QED
      BY <1>6, <3>2, <3>3, <3>4, ZenonT(30) DEF wa
  <2>3. 0 \in 0 .. sz - 1
    BY <1>3, SMTT(30), Z3T(30)
  <2>4. RangeReference(sz) = p \cap PWU
    BY <2>2, <2>3, ZenonT(30) DEF RangeReference
  <2> QED
    BY <1>5, <1>11, <2>4, SMTT(30), Z3T(30)
<1> DEFINE hi == va + rest  end == va + sz
<1>12. CASE "P" \in p /\ sz > r
  <2>0. hi = IF 2 * va >= VA_END THEN VA_END ELSE VA_LOWEND
    <3>1. VA_END \in Nat /\ VA_LOWEND \in Nat
      <4>1. Region(4) \in Nat
        BY RegionSizes, SMTT(60), Z3T(60)
      <4> QED
        BY <4>1, SMTT(60), Z3T(60) DEF VA_END, VA_LOWEND
    <3> QED
      BY <1>2, <3>1, SMTT(60), Z3T(60) DEF rest
  <2>1. /\ VA_END \in Nat /\ hi \in Nat /\ va < hi /\ hi <= VA_END
        /\ \A wa \in VAs : va <= wa /\ wa < hi => va_is_canonical(wa)
        /\ hi # VA_END => hi \in VAs /\ ~ va_is_canonical(hi)
    <3> HIDE DEF hi
    <3> QED
      BY <1>2, <1>7, <1>12, <2>0, HalfEnds, ZenonT(30)
  <2>2. rest \in Nat
    <3>1. rest \in Int
      <4>1. Region(4) \in Nat
        BY RegionSizes, SMTT(60), Z3T(60)
      <4> QED
        BY <1>2, <4>1, SMTT(60), Z3T(60) DEF rest, VA_END, VA_LOWEND
    <3> QED
      BY <1>2, <2>1, <3>1, SMTT(60), Z3T(60)
  <2>3. CASE sz > rest
    <3>1. rest \in 0 .. sz - 1
      BY <1>3, <2>2, <2>3, SMTT(60), Z3T(60)
    <3>2. ~ (va + rest < VA_END /\ Translate(mem, va + rest).bits # {})
      <4>1. CASE hi = VA_END
        BY <2>1, <4>1, SMTT(60), Z3T(60)
      <4>2. CASE hi # VA_END
        BY <2>1, <4>2, ZenonT(30) DEF Translate, Unmapped
      <4> QED
        BY <4>1, <4>2, ZenonT(30)
    <3>3. RangeReference(sz) = {}
      BY <3>1, <3>2, ZenonT(30) DEF RangeReference
    <3> QED
      BY <1>5, <1>12, <2>3, <3>3, <1>3, <1>4, SMTT(60), Z3T(60)
  <2>4. CASE sz <= rest
    <3>1. end \in Nat /\ end <= hi /\ end <= VA_END
      BY <1>2, <1>3, <2>1, <2>2, <2>4, SMTT(60), Z3T(60)
    <3> HIDE DEF hi
    <3>2. \A wa \in VAs : va <= wa /\ wa < end => va_is_canonical(wa)
      <4>1. \A wa \in VAs : wa \in Nat
        BY Halves, ZenonT(30)
      <4> HIDE DEF end
      <4> QED
        BY <2>1, <3>1, <4>1, SMTT(60), Z3T(60)
    <3>3. ASSUME NEW b \in PWU
          PROVE  b \in p <=> Allowed(mem, b, va, c + r, end)
      <4>1. ASSUME NEW wa \in VAs, va <= wa, wa < c + r
            PROVE  Translate(mem, wa).bits = p \cap PWU
        <5>1. wa \in Nat
          BY Halves, ZenonT(30)
        <5>2. Block(wa, l) = Block(va, l)
          BY <1>2, <1>4, <4>1, <5>1, SMTT(60), Z3T(60)
        <5> QED
          BY <1>6, <5>2, ZenonT(30)
      <4>2. va <= va /\ va < end
        BY <1>2, <1>3, SMTT(60), Z3T(60)
      <4> HIDE DEF end
      <4> QED
        BY <1>2, <1>4, <4>1, <4>2, ZenonT(30) DEF Allowed
    <3>4. sz + off \in Nat /\ sz + off > 0 /\ c + (sz + off) = end
      BY <1>2, <1>3, <1>4, SMTT(60), Z3T(60)
    <3>5. RangeOK(mem, va, end, start)
      BY <1>2, <1>4, <1>7, <1>9, <1>12, <3>3, <3>4, ZenonT(30) DEF RangeOK, c, r
    <3>6. \/ "P" \in all /\ \A b \in PWU : b \in all <=> Allowed(mem, b, va, end, end)
          \/ "P" \notin all /\ \E wa \in VAs : va <= wa /\ wa < end /\ Translate(mem, wa).bits = {}
      <4> HIDE DEF end
      <4> QED
        BY <1>0, <3>1, <3>2, <3>5, ZenonT(30) DEF all, Answers
    <3>7. RangeReference(sz) = {b \in PWU : Allowed(mem, b, va, end, end)}
      BY <1>2, <1>3, <2>1, <3>1, ReferenceIs, ZenonT(30)
    <3> HIDE DEF end
    <3>8. RangePerm(mem, it, sz) = IF "P" \notin all THEN {} ELSE all
      BY <1>3, <1>4, <1>5, <1>12, <2>2, <2>4, SMTT(60), Z3T(60)
    <3>9. CASE "P" \in all
      BY <3>6, <3>7, <3>8, <3>9, ZenonT(30)
    <3>10. CASE "P" \notin all
      <4>1. RangeReference(sz) = {}
        BY <3>6, <3>7, <3>10, ZenonT(30) DEF Allowed
      <4> QED
        BY <3>8, <3>10, <4>1, SMTT(30), Z3T(30)
    <3> QED
      BY <3>9, <3>10, ZenonT(30)
  <2> QED
    BY <1>3, <2>2, <2>3, <2>4, SMTT(60), Z3T(60)
<1> QED
  BY <1>3, <1>4, <1>10, <1>11, <1>12, SMTT(60), Z3T(60)

-----------------------------------------------------------------------------
(* The loop round by round.  What is recursive over the rounds is proved    *)
(* with the first round that would be wrong.                                *)

LOCAL INSTANCE WellFoundedInduction

\* A nonempty set of naturals has a least element.
LEMMA LeastNatural ==
  ASSUME NEW T, T \subseteq Nat, T # {}
  PROVE  \E x \in T : \A y \in T : x <= y
<1>1. PICK x \in T : \A y \in T : ~ (<<y, x>> \in OpToRel(<, Nat))
  BY NatLessThanWellFounded, WFMin, ZenonT(30)
<1>2. ASSUME NEW y \in T, y < x PROVE FALSE
  <2>1. <<y, x>> \in OpToRel(<, Nat)
    BY <1>2, Zenon DEF OpToRel
  <2> QED
    BY <1>1, <2>1, ZenonT(30)
<1>3. \A y \in T : x <= y
  BY <1>2, SMTT(30), Z3T(30)
<1> QED
  BY <1>3, SMTT(30), Z3T(30)

\* The states of the loop, round by round.
Rounds(s, m, start, z) ==
  s[0] = start /\ \A k \in 0 .. z - 1 : s[k + 1] = RangeRound(m, s[k])

\* There are such states for every number of rounds.
LEMMA RoundsExist ==
  ASSUME NEW m, NEW start, NEW z \in Nat
  PROVE  \E s : DOMAIN s = 0 .. z /\ s = [k \in DOMAIN s |-> s[k]] /\ Rounds(s, m, start, z)
<1> DEFINE Is(s, k) == DOMAIN s = 0 .. k /\ s = [i \in DOMAIN s |-> s[i]] /\ Rounds(s, m, start, k)
           Good(k) == \E s : Is(s, k)
           Bad == {k \in Nat : ~ Good(k)}
<1>1. Good(0)
  <2>1. Is([i \in 0 .. 0 |-> start], 0)
    BY SMTT(30), Z3T(30) DEF Rounds
  <2> HIDE DEF Is
  <2> QED
    BY <2>1, SMTT(30), Z3T(30)
<1>2. ASSUME NEW k \in Nat, Good(k) PROVE Good(k + 1)
  <2>1. PICK s : Is(s, k)
    BY <1>2, SMTT(30), Z3T(30)
  <2> DEFINE h == k + 1
             u == [i \in 0 .. h |-> IF i = h THEN RangeRound(m, s[k]) ELSE s[i]]
  <2>2. h \in Nat /\ h > k /\ k = h - 1 /\ 0 # h
    BY SMTT(30), Z3T(30)
  <2> HIDE DEF h
  <2>3. /\ DOMAIN u = 0 .. h /\ u = [i \in DOMAIN u |-> u[i]]
        /\ u[h] = RangeRound(m, s[k]) /\ \A i \in 0 .. k : u[i] = s[i]
    BY <2>2, SMTT(30), Z3T(30)
  <2> HIDE DEF u
  <2>4. u[0] = start
    BY <2>1, <2>3, SMTT(30), Z3T(30) DEF Rounds
  <2>5. ASSUME NEW i \in 0 .. h - 1 PROVE u[i + 1] = RangeRound(m, u[i])
    <3>1. CASE i = k
      <4>1. i + 1 = h /\ i \in 0 .. k
        BY <2>2, <3>1, SMTT(30), Z3T(30)
      <4> QED
        BY <2>3, <3>1, <4>1, SMTT(30), Z3T(30)
    <3>2. CASE i # k
      <4> DEFINE g == i + 1
      <4>1. i \in 0 .. k - 1 /\ i \in 0 .. k /\ g \in 0 .. k
        BY <2>2, <3>2, SMTT(30), Z3T(30)
      <4>2. s[g] = RangeRound(m, s[i])
        BY <2>1, <4>1, SMTT(30), Z3T(30) DEF Rounds
      <4> HIDE DEF g
      <4>3. u[g] = RangeRound(m, u[i])
        BY <2>3, <4>1, <4>2, SMTT(30), Z3T(30)
      <4> QED
        BY <4>3, SMTT(30), Z3T(30) DEF g
    <3> QED
      BY <3>1, <3>2, SMTT(30), Z3T(30)
  <2>6. Is(u, h)
    BY <2>3, <2>4, <2>5, SMTT(30), Z3T(30) DEF Rounds
  <2> HIDE DEF Is
  <2> QED
    BY <2>6, SMTT(30), Z3T(30) DEF h
<1> HIDE DEF Good
<1>3. Bad = {}
  <2> SUFFICES ASSUME Bad # {} PROVE FALSE
    BY SMTT(30), Z3T(30)
  <2>1. PICK k \in Bad : \A j \in Bad : k <= j
    BY LeastNatural, ZenonT(30)
  <2>2. k # 0
    BY <1>1, SMTT(30), Z3T(30)
  <2> DEFINE h == k - 1
  <2>3. h \in Nat /\ h + 1 = k /\ ~ (k <= h)
    BY <2>2, SMTT(30), Z3T(30)
  <2>4. Good(h)
    BY <2>1, <2>3, SMTT(30), Z3T(30)
  <2> HIDE DEF h
  <2>5. Good(k)
    BY <1>2, <2>3, <2>4, SMTT(30), Z3T(30)
  <2> QED
    BY <2>5, SMTT(30), Z3T(30)
<1>4. Good(z)
  BY <1>3, SMTT(30), Z3T(30)
<1> QED
  BY <1>4, SMTT(30), Z3T(30) DEF Good

\* The loop ends with the state after start.sz rounds.
LEMMA RangeLoopIs ==
  ASSUME NEW m, NEW start, start.sz \in Nat
  PROVE  \E s : Rounds(s, m, start, start.sz) /\ RangeLoop(m, start) = s[start.sz].p
<1> DEFINE z == start.sz
           F(s) == [k \in 0 .. z |-> IF k = 0 THEN start ELSE RangeRound(m, s[k - 1])]
           S == CHOOSE s : s = F(s)
<1>1. PICK s : s = F(s)
  <2>1. PICK s : DOMAIN s = 0 .. z /\ s = [k \in DOMAIN s |-> s[k]] /\ Rounds(s, m, start, z)
    BY RoundsExist, ZenonT(30)
  <2>2. ASSUME NEW k \in 0 .. z PROVE s[k] = IF k = 0 THEN start ELSE RangeRound(m, s[k - 1])
    <3>1. CASE k = 0
      BY <2>1, <3>1, SMTT(30), Z3T(30) DEF Rounds
    <3>2. CASE k # 0
      <4> DEFINE h == k - 1
      <4>1. h \in 0 .. z - 1 /\ h + 1 = k
        BY <3>2, SMTT(30), Z3T(30)
      <4> HIDE DEF h
      <4>2. s[k] = RangeRound(m, s[h])
        BY <2>1, <4>1, ZenonT(30) DEF Rounds
      <4> QED
        BY <3>2, <4>2, ZenonT(30) DEF h
    <3> QED
      BY <3>1, <3>2, ZenonT(30)
  <2>3. s = F(s)
    BY <2>1, <2>2, ZenonT(30)
  <2> QED
    BY <2>3, ZenonT(30)
<1>3. RangeLoop(m, start) = S[z].p /\ S = CHOOSE r : r = F(r)
  BY ZenonT(30) DEF RangeLoop
<1> HIDE DEF S
<1>2. S = F(S)
  BY <1>1, <1>3, SMTT(30), Z3T(30)
<1>4. \A k \in 0 .. z : S[k] = IF k = 0 THEN start ELSE RangeRound(m, S[k - 1])
  <2> DEFINE G == F(S)
  <2>1. \A k \in 0 .. z : G[k] = IF k = 0 THEN start ELSE RangeRound(m, S[k - 1])
    BY ZenonT(30)
  <2>2. S = G
    BY <1>2, SMTT(30), Z3T(30)
  <2> HIDE DEF G
  <2> QED
    BY <2>1, <2>2, ZenonT(30)
<1>5. S[0] = start
  BY <1>4, SMTT(60), Z3T(60)
<1>6. ASSUME NEW k \in 0 .. z - 1 PROVE S[k + 1] = RangeRound(m, S[k])
  <2> DEFINE h == k + 1
  <2>1. h \in 0 .. z /\ h # 0 /\ h - 1 = k
    BY SMTT(30), Z3T(30)
  <2> HIDE DEF h
  <2>2. S[h] = RangeRound(m, S[k])
    BY <1>4, <2>1, ZenonT(30)
  <2> QED
    BY <2>2, SMTT(30), Z3T(30) DEF h
<1>7. Rounds(S, m, start, z)
  BY <1>5, <1>6, ZenonT(30) DEF Rounds
<1> QED
  BY <1>3, <1>7, ZenonT(30)

\* After its last round the loop has the permissions of all bytes, if any.
LEMMA LoopAllows ==
  ASSUME NEW m, NEW n, NEW L, Tree(m, n, L), NEW va \in VAs, NEW end \in Nat, end <= VA_END,
         \A wa \in VAs : va <= wa /\ wa < end => va_is_canonical(wa),
         NEW start, RangeOK(m, va, end, start)
  PROVE  Answers(m, va, end, RangeLoop(m, start))
<1> DEFINE z == start.sz
<1>1. z \in Nat
  BY ZenonT(30) DEF RangeOK
<1>2. PICK s : Rounds(s, m, start, z) /\ RangeLoop(m, start) = s[z].p
  BY <1>1, RangeLoopIs, ZenonT(30)
<1> DEFINE Ok(k) == Fine(m, va, end, z, s[k], k)
<1>3. Ok(0)
  <2>1. z + 0 <= z /\ s[0] = start
    BY <1>1, <1>2, SMTT(30), Z3T(30) DEF Rounds
  <2> QED
    BY <2>1, ZenonT(30) DEF Fine
<1>4. ASSUME NEW k \in 0 .. z - 1, Ok(k) PROVE Ok(k + 1)
  <2>1. k \in Nat
    BY <1>1, SMTT(30), Z3T(30)
  <2>2. s[k + 1] = RangeRound(m, s[k])
    BY <1>2, ZenonT(30) DEF Rounds
  <2> QED
    BY <1>1, <1>4, <2>1, <2>2, FineStep, ZenonT(30)
<1> HIDE DEF Ok, z
<1>5. Ok(z)
  <2> DEFINE Bad == {k \in 0 .. z : ~ Ok(k)}
  <2>1. Bad = {}
    <3> SUFFICES ASSUME Bad # {} PROVE FALSE
      BY SMTT(30), Z3T(30)
    <3>1. PICK k \in Bad : \A j \in Bad : k <= j
      <4>1. Bad \subseteq Nat
        BY SMTT(30), Z3T(30)
      <4> HIDE DEF Bad
      <4> QED
        BY <4>1, LeastNatural, ZenonT(30)
    <3>2. k # 0
      BY <1>3, SMTT(30), Z3T(30)
    <3> DEFINE h == k - 1
    <3>3. h \in 0 .. z - 1 /\ h \in 0 .. z /\ h + 1 = k /\ ~ (k <= h)
      BY <1>1, <3>2, SMTT(60), Z3T(60)
    <3>4. Ok(h)
      BY <3>1, <3>3, ZenonT(30)
    <3> HIDE DEF h
    <3>5. Ok(h + 1)
      BY <1>4, <3>3, <3>4, ZenonT(30)
    <3> QED
      BY <3>3, <3>5, ZenonT(30)
  <2> QED
    BY <1>1, <2>1, SMTT(30), Z3T(30)
<1> QED
  BY <1>1, <1>2, <1>5, FineAnswers, ZenonT(30) DEF Ok

\* Its loop is right in every state.
LEMMA InvRange == PTInv => RangePermExact
<1> SUFFICES ASSUME PTInv PROVE RangePermExact
  BY SMTT(30), Z3T(30)
<1>1. PICK L : Tree(mem, nalloc, L)
  BY SMTT(30), Z3T(30) DEF PTInv
<1>2. it.va \in VAs
  BY IterFacts, ZenonT(30) DEF PTInv, IterOK
<1> QED
  BY <1>1, <1>2, LoopAllows, LoopSuffices, ZenonT(30)

\* range_perm is exact for every range that starts a page or a large page,
\* stays within one, or is longer than the first, in all page tables of all
\* sizes and also at the ends of both halves of the address space.
THEOREM RangesAreExact == PTSpec => []RangePermExact
BY InitInv, NextInv, InvRange, PTL DEF PTSpec
=============================================================================
