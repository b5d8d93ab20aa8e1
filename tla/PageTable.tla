------------------------------ MODULE PageTable ------------------------------
(***************************************************************************)
(* Four-level page tables and their iterators (kernels1/k-vmiter.cc and    *)
(* .hh): a vmiter moved about by find, +=, next and next_range and         *)
(* mapping pages through try_map and map, the permission of a range, and   *)
(* the order in which a ptiter visits page table pages.  Table pages are   *)
(* numbered in the order kalloc returns them, page 0 being the root.       *)
(* Virtual addresses count bytes; a physical address is a page number.     *)
(***************************************************************************)
EXTENDS Integers, Sequences

CONSTANTS
  ENTRIES,        \* entries of a table page (512)
  PAGESIZE,       \* bytes of a page (4096)
  NTABLES,        \* table pages kalloc has to give, the initial ones included
  Addresses,      \* virtual addresses callers move to
  Frames,         \* physical pages callers map
  Perms,          \* permissions callers ask for
  UnmapLarge      \* TRUE: a caller may unmap a page inside a large page

VARIABLES
  mem,            \* table page -> its entries
  nalloc,         \* table pages handed out so far
  it,             \* the vmiter: va_, level_, perm_ and pep_ = <<tab, idx>>
  last,           \* the mapping request just answered and its return value
  halt            \* why the kernel stopped

ptvars == <<mem, nalloc, it, last, halt>>

PWU  == {"P", "W", "U"}
Bits == PWU \cup {"PS"}

\* pageoffmask(level) + 1: the bytes one entry of a level covers.
Regions ==
  LET e == ENTRIES IN [level \in 0 .. 4 |-> PAGESIZE * <<1, e, e * e, e * e * e, e * e * e * e>>[level + 1]]
Region(level) == Regions[level]
pageindex(va, level) == (va \div Region(level)) % ENTRIES

VA_LOWEND      == Region(4) \div 2
VA_NONCANONEND == Region(4)
VA_END         == 2 * Region(4)          \* 2^64
VA_HIGHMIN     == VA_END - VA_LOWEND
VAs            == 0 .. VA_END - 1

\* The pages below 4 GiB, which four entries of level 2 cover.  All physical
\* memory, so what kalloc gives and callers map, lies there.
PA_LIMIT == 4 * (ENTRIES * ENTRIES)

ASSUME PTAssumption ==
  /\ ENTRIES \in Nat /\ ENTRIES >= 2 /\ ENTRIES % 2 = 0
  /\ PAGESIZE \in Nat /\ PAGESIZE > 0
  /\ NTABLES \in Nat /\ NTABLES >= 5 /\ NTABLES <= PA_LIMIT
  /\ Addresses \subseteq VAs
  /\ Frames \subseteq 0 .. PA_LIMIT - 1
  /\ Perms \subseteq SUBSET {"P", "W", "U"}

va_is_canonical(va) == va < VA_LOWEND \/ va >= VA_HIGHMIN

\* (va | pageoffmask(level)) + 1 in 64-bit arithmetic.
RegionEnd(va, level) == ((va \div Region(level) + 1) * Region(level)) % VA_END

Tables == 0 .. NTABLES - 1
NoTable == -1                            \* pep_ points to zero_pe
NoPa    == -1                            \* (uintptr_t) -1
JunkPa  == PA_LIMIT                      \* the address bits of 0xCCCC...
Zero == [bits |-> {}, pa |-> 0]
Junk == [bits |-> {}, pa |-> JunkPa]     \* what kalloc fills a page with
EmptyTable == [x \in 0 .. ENTRIES - 1 |-> Zero]

Entries == [bits : SUBSET Bits, pa : Int]
Iters   == [va : VAs, level : 0 .. 3, perm : SUBSET Bits,
            tab : Tables \cup {NoTable}, idx : 0 .. ENTRIES - 1]

\* An entry that points to a table page one level down.
PointsDown(e) == "P" \in e.bits /\ "PS" \notin e.bits

Entry(m, i) == IF i.tab = NoTable THEN Zero ELSE m[i.tab][i.idx]

-----------------------------------------------------------------------------
(* Reading: pa(), perm(), range_perm().                                    *)

\* The entry's bits under those of the levels above, or nothing unless
\* present.
Perm(m, i) ==
  LET ph == Entry(m, i).bits \cap i.perm IN IF "P" \in ph THEN ph ELSE {}

Pa(m, i) ==
  IF "P" \in Entry(m, i).bits
  THEN Entry(m, i).pa * PAGESIZE + (i.va % Region(i.level))
  ELSE NoPa

LastVa(i) == RegionEnd(i.va, i.level)

\* One round of the loop of vmiter::down.
Descend(m) ==
  [i \in Iters |->
     LET e == Entry(m, i)
     IN IF i.level > 0 /\ PointsDown(e)
        THEN [i EXCEPT !.perm  = @ \cap (e.bits \cup {"PS"}),
                       !.level = @ - 1,
                       !.tab   = e.pa,
                       !.idx   = pageindex(i.va, i.level - 1)]
        ELSE i]

\* vmiter::down, the walk towards level 0: three rounds from level 3 at most.
Down(m, i) == Descend(m)[Descend(m)[Descend(m)[i]]]

\* The panic at the end of vmiter::down: no entry points to 4 GiB or above.
TooHigh(pa) == pa >= PA_LIMIT
Uninitialized(m, i) == TooHigh(Entry(m, i).pa)

\* The two ways of vmiter::real_find: within the iterator's table page, or
\* from the root when the address is "away" from it.
FindFrom(m, i, va, away) ==
  LET root == [i EXCEPT !.va = va, !.level = 3, !.perm = Bits, !.tab = 0,
                        !.idx = pageindex(va, 3)]
      near == [i EXCEPT !.va = va, !.idx = pageindex(va, i.level)]
  IN IF ~ away THEN Down(m, near)
     ELSE IF va_is_canonical(va) THEN Down(m, root)
     ELSE [root EXCEPT !.perm = {}, !.tab = NoTable, !.idx = 0]

\* Mutant: the iterator stays in its table page for too many addresses.
RealFindTooNear(m, i, va) ==
  FindFrom(m, i, va, i.level = 3 \/ i.va \div Region(3) # va \div Region(3))

\* vmiter::real_find.
RealFind(m, i, va) ==
  FindFrom(m, i, va,
           \/ i.level = 3
           \/ i.va \div Region(i.level + 1) # va \div Region(i.level + 1))

\* The constructor of a vmiter.
Vmiter(m, va) ==
  RealFind(m, [va |-> 0, level |-> 3, perm |-> Bits, tab |-> 0, idx |-> 0], va)

NextRange(m, i) == RealFind(m, i, LastVa(i))

\* One round of the loop of range_perm: p is what the ranges so far allow, sz
\* the bytes left from the start of the iterator's range.
RangeRound(m, s) ==
  IF "P" \in s.p /\ s.sz > Region(s.i.level)
  THEN LET i == NextRange(m, s.i)
       IN [p |-> s.p \cap Perm(m, i), sz |-> s.sz - Region(s.i.level), i |-> i]
  ELSE s

\* The loop: each round takes a byte at least.
RangeLoop(m, start) ==
  LET s[k \in 0 .. start.sz] == IF k = 0 THEN start ELSE RangeRound(m, s[k - 1])
  IN s[start.sz].p

RangePermAt(m, i, sz, offset) ==
  LET p    == Perm(m, i)
      rest == (IF 2 * i.va >= VA_END THEN VA_END ELSE VA_LOWEND) - i.va
      all  == RangeLoop(m, [p |-> p, sz |-> sz + offset, i |-> i])
  IN IF "P" \notin p \/ sz <= Region(i.level) THEN p
     ELSE IF sz > rest \/ "P" \notin all THEN {}
     ELSE all

\* Mutant: the offset into the first range is forgotten.
RangePermNoOffset(m, i, sz) == RangePermAt(m, i, sz, 0)

\* vmiter::range_perm.
RangePerm(m, i, sz) == RangePermAt(m, i, sz, i.va % Region(i.level))

-----------------------------------------------------------------------------
(* What the processor makes of an address: the reference the iterators are *)
(* compared with.                                                          *)

Unmapped == [bits |-> {}, pa |-> NoPa]

\* Where the processor is: at a table page of a level, with the bits that the
\* levels above allow.
Walks == [level : 0 .. 3, tab : Tables, bits : SUBSET PWU]

\* One round: it goes on to the table page that the entry points to, if any.
WalkOn(m, va) ==
  [w \in Walks |->
     LET e == m[w.tab][pageindex(va, w.level)]
     IN IF w.level > 0 /\ PointsDown(e)
        THEN [level |-> w.level - 1, tab |-> e.pa, bits |-> w.bits \cap e.bits]
        ELSE w]

\* The walk from the root: three rounds at most.
Walk(m, va) ==
  WalkOn(m, va)[WalkOn(m, va)[WalkOn(m, va)[[level |-> 3, tab |-> 0, bits |-> PWU]]]]

\* The permission bits and the physical byte address found at its end.
Found(m, va) ==
  [w \in Walks |->
     LET e == m[w.tab][pageindex(va, w.level)]
     IN IF "P" \in w.bits \cap e.bits
        THEN [bits |-> w.bits \cap e.bits, pa |-> e.pa * PAGESIZE + (va % Region(w.level))]
        ELSE Unmapped]

Translate(m, va) == IF va_is_canonical(va) THEN Found(m, va)[Walk(m, va)] ELSE Unmapped

-----------------------------------------------------------------------------
(* ptiter.                                                                 *)

PtIters == [va : 0 .. VA_NONCANONEND, level : 1 .. 3, tab : Tables,
            idx : 0 .. ENTRIES - 1, reads : SUBSET Tables]

\* ptiter::down: to the next entry that points to a table page all of whose
\* own table pages have been visited.  "reads" collects the pages it reads.
PtDown(m, start, skipFirst) ==
  LET d[s \in [i : PtIters, skip : BOOLEAN, stop : 1 .. 4]] ==
        LET i == [s.i EXCEPT !.reads = @ \cup {s.i.tab}]
            e == m[i.tab][i.idx]
            va == (i.va \div Region(i.level) + 1) * Region(i.level)
        IN IF PointsDown(e) /\ ~ s.skip
           THEN IF i.level = s.stop THEN i
                ELSE d[[i |-> [i EXCEPT !.level = @ - 1, !.tab = e.pa,
                                        !.idx = pageindex(i.va, i.level - 1)],
                        skip |-> FALSE, stop |-> s.stop]]
           ELSE IF va \div Region(i.level + 1) = i.va \div Region(i.level + 1)
           THEN d[[i |-> [i EXCEPT !.idx = @ + 1, !.va = va], skip |-> FALSE,
                   stop |-> s.stop]]
           ELSE IF i.level = 3 THEN [i EXCEPT !.va = VA_NONCANONEND]
           ELSE d[[i |-> [i EXCEPT !.level = 3, !.tab = 0,
                                   !.idx = pageindex(i.va, 3)],
                   skip |-> FALSE, stop |-> i.level + 1]]
  IN d[[i |-> [start EXCEPT !.reads = {}], skip |-> skipFirst, stop |-> 1]]

PtFirst == [va |-> 0, level |-> 3, tab |-> 0, idx |-> 0, reads |-> {}]

\* Mutant: the constructor skips the entry it starts at.
PtiterSkips(m) == PtDown(m, PtFirst, TRUE)

Ptiter(m) == PtDown(m, PtFirst, FALSE)

PtDone(i) == i.va = VA_NONCANONEND

\* The loop "for (ptiter it(pt); !it.done(); it.next())": the table page of
\* each round, with the pages read to find it, and the last round's reads.
PtRounds(m) ==
  LET v[i \in PtIters] ==
        IF PtDone(i) THEN << [page |-> 0, level |-> 3, reads |-> i.reads] >>
        ELSE << [page |-> m[i.tab][i.idx].pa, level |-> i.level - 1,
                 reads |-> i.reads] >>
             \o v[PtDown(m, i, TRUE)]
  IN v[Ptiter(m)]

-----------------------------------------------------------------------------
(* Mapping.                                                                *)

\* One round of the loop of vmiter::try_map: a table page is added below the
\* iterator's entry, unless it is at level 0 or kalloc has none left.  The new
\* page holds "fill" when it is linked.
AddTable(s, fill) ==
  IF s.it.level = 0 \/ s.nalloc = NTABLES THEN s
  ELSE LET linked == [s.mem EXCEPT
                        ![s.nalloc] = [x \in 0 .. ENTRIES - 1 |-> fill],
                        ![s.it.tab][s.it.idx] = [bits |-> PWU, pa |-> s.nalloc]]
       IN [mem |-> linked, nalloc |-> s.nalloc + 1, it |-> Down(linked, s.it)]

\* The loop: three rounds from level 3 at most.
AddTables(m, n, i, fill) ==
  AddTable(AddTable(AddTable([mem |-> m, nalloc |-> n, it |-> i], fill), fill), fill)

\* Mutant: the new table page is not cleared.
GrowUncleared(m, n, i) == AddTables(m, n, i, Junk)

Grow(m, n, i) == AddTables(m, n, i, Zero)

\* The assertions of try_map.  A large page may not be split.
TryMapAsserts(pa, perm) ==
  /\ it.va % PAGESIZE = 0
  /\ pa = NoPa => perm = {}
  /\ perm \subseteq it.perm
  /\ perm # {} /\ it.level > 0 => "P" \notin Entry(mem, it).bits

NoRequest == [page |-> -1, to |-> Unmapped, ret |-> 0]

\* Who asks for what: the page, and what the processor should make of it.
Request(pa, perm, ret) ==
  [page |-> it.va \div PAGESIZE,
   to |-> IF "P" \in perm THEN [bits |-> perm, pa |-> pa * PAGESIZE] ELSE Unmapped,
   ret |-> ret]

\* Mutant: an entry that is already present stays as it is.
StoreOnlyNew(g, pa, perm) ==
  IF g.it.level > 0 \/ "P" \in Entry(g.mem, g.it).bits THEN g.mem
  ELSE [g.mem EXCEPT ![g.it.tab][g.it.idx] =
          [bits |-> perm, pa |-> IF pa = NoPa THEN 0 ELSE pa]]

\* "if (level_ == 0) *pep_ = pa | perm".
Store(g, pa, perm) ==
  IF g.it.level > 0 THEN g.mem
  ELSE [g.mem EXCEPT ![g.it.tab][g.it.idx] =
          [bits |-> perm, pa |-> IF pa = NoPa THEN 0 ELSE pa]]

\* try_map(pa, perm), and map(pa, perm), which asserts that it worked.
TryMap(pa, perm, must) ==
  LET g == IF perm = {} THEN [mem |-> mem, nalloc |-> nalloc, it |-> it]
           ELSE Grow(mem, nalloc, it)
      ret == IF perm # {} /\ g.it.level > 0 THEN -1 ELSE 0
  IN /\ UnmapLarge \/ perm # {} \/ it.level = 0 \/ "P" \notin Entry(mem, it).bits
     /\ TryMapAsserts(pa, perm)
     /\ mem' = Store(g, pa, perm)
     /\ nalloc' = g.nalloc
     /\ it' = g.it
     /\ last' = Request(pa, perm, ret)
     /\ halt' = IF Uninitialized(g.mem, g.it) THEN "uninitialized"
                ELSE IF must /\ ret # 0 THEN "assert" ELSE "none"

TryMapFails(pa, perm) ==
  /\ ~ TryMapAsserts(pa, perm)
  /\ halt' = "assert"
  /\ UNCHANGED <<mem, nalloc, it, last>>

-----------------------------------------------------------------------------
(* Moving.                                                                 *)

MoveTo(i) ==
  /\ it' = i
  /\ halt' = IF Uninitialized(mem, i) THEN "uninitialized" ELSE "none"
  /\ last' = NoRequest
  /\ UNCHANGED <<mem, nalloc>>

\* A new iterator, find, += and -=.
New(va)  == MoveTo(Vmiter(mem, va))
Find(va) == MoveTo(RealFind(mem, it, va))

\* Mutant: a large region is skipped whether or not it is present.
NextVaSkipsLarge(m, i) == RegionEnd(i.va, i.level)

\* Where vmiter::next goes: the next page, or the end of a large region that
\* is not present.
NextVa(m, i) == RegionEnd(i.va, IF Perm(m, i) = {} THEN i.level ELSE 0)

Next_ == MoveTo(RealFind(mem, it, NextVa(mem, it)))
NextRange_ == MoveTo(NextRange(mem, it))

-----------------------------------------------------------------------------
(* The tables there are: a new one from kalloc_pagetable, and the kernel's *)
(* as init_kernel_memory lays it out before its mapping loop: four pages   *)
(* of pointers, and the device memory as large pages.                      *)

Link(t) == [bits |-> PWU, pa |-> t]

NewTable == [t \in Tables |-> IF t = 0 THEN EmptyTable ELSE [x \in 0 .. ENTRIES - 1 |-> Junk]]

KernelTable ==
  [t \in Tables |->
     IF t = 0 THEN [EmptyTable EXCEPT ![0] = Link(1)]
     ELSE IF t = 1 THEN [x \in 0 .. ENTRIES - 1 |->
            IF x = 0 THEN Link(2)
            ELSE IF x > 3 THEN Zero
            ELSE [bits |-> {"P", "W", "PS"}, pa |-> x * (ENTRIES * ENTRIES)]]
     ELSE IF t = 2 THEN [EmptyTable EXCEPT ![0] = Link(3), ![1] = Link(4)]
     ELSE IF t \in {3, 4} THEN EmptyTable
     ELSE [x \in 0 .. ENTRIES - 1 |-> Junk]]

PTInit ==
  /\ \/ mem = NewTable /\ nalloc = 1
     \/ mem = KernelTable /\ nalloc = 5
  /\ it = Vmiter(mem, 0)
  /\ last = NoRequest
  /\ halt = "none"

PTNext ==
  \/ /\ halt = "none"
     /\ \/ \E va \in Addresses : New(va) \/ Find(va)
        \/ Next_
        \/ NextRange_
        \/ \E pa \in Frames \cup {NoPa}, perm \in Perms :
             \/ \E must \in BOOLEAN : TryMap(pa, perm, must)
             \/ TryMapFails(pa, perm)
  \/ halt # "none" /\ UNCHANGED ptvars

PTSpec == PTInit /\ [][PTNext]_ptvars

-----------------------------------------------------------------------------
(* Properties.                                                             *)

\* However the iterator came to its address - incrementally, from the root,
\* or by adding table pages under itself - pa() and perm() are what the
\* processor makes of that address (real_find, down, try_map).
IteratorTranslates ==
  halt = "none" =>
    LET t == Translate(mem, it.va)
    IN /\ Perm(mem, it) \cap PWU = t.bits
       /\ t.bits # {} => Pa(mem, it) = t.pa

\* Nothing ever reads a table page that was not cleared after kalloc: the
\* panic in vmiter::down is dead code (try_map's memset).
NeverUninitialized == halt # "uninitialized"

\* next() and next_range() pass over no mapped page: what lies between the
\* address before and after is not present, or belongs to the range just left
\* (the loops of memviewer rely on it).  They end where addresses wrap.
NothingPassedOver ==
  halt = "none" =>
    /\ \A va \in it.va + 1 .. NextVa(mem, it) - 1 :
         va % PAGESIZE = 0 => Translate(mem, va) = Unmapped
    /\ \A va \in it.va .. LastVa(it) - 1 :
         Translate(mem, va).bits = Translate(mem, it.va).bits

\* A ptiter visits every table page below the root exactly once, after the
\* table pages it points to, and reads no page it has already visited: the
\* loop in the class comment may free each page as it comes.
PtiterFreesSafely ==
  LET rounds == PtRounds(mem)
      n      == Len(rounds)
      pages  == [k \in 1 .. n |-> rounds[k].page]
  IN /\ {pages[k] : k \in 1 .. n} = 0 .. nalloc - 1 /\ \A j, k \in 1 .. n : pages[j] = pages[k] => j = k
     /\ \A k \in 1 .. n : \A j \in 1 .. k - 1 : pages[j] \notin rounds[k].reads
     /\ \A j, k \in 1 .. n : \A x \in 0 .. ENTRIES - 1 :
          LET e == mem[pages[k]][x]
          IN j > k /\ rounds[k].level > 0 /\ PointsDown(e) => e.pa # pages[j]

\* The permissions all bytes of a range have.
RangeReference(sz) ==
  {b \in PWU : \A d \in 0 .. sz - 1 :
     it.va + d < VA_END /\ b \in Translate(mem, it.va + d).bits}

CONSTANT MaxRange      \* bytes of the longest range asked about

ASSUME RangeAssumption == MaxRange \in Nat

\* range_perm is the intersection of the permissions of a range that starts a
\* page or a large page, stays within one, or is longer than the first.
RangePermExact ==
  \A sz \in 1 .. MaxRange :
    LET rsz == Region(it.level) off == it.va % rsz
    IN halt = "none" /\ (off = 0 \/ off + sz <= rsz \/ sz > rsz)
       => RangePerm(mem, it, sz) \cap PWU = RangeReference(sz)

\* What k-vmiter.hh:39 says of range_perm: "Return intersection of
\* permissions in [va(), va() + sz)".
RangePermDocumented ==
  \A sz \in 1 .. MaxRange :
    halt = "none" => RangePerm(mem, it, sz) \cap PWU = RangeReference(sz)

VPages == 0 .. VA_END \div PAGESIZE - 1

AS == INSTANCE AddressSpace WITH
  Mappings <- [bits : SUBSET PWU, pa : Int],
  map <- [p \in VPages |-> Translate(mem, p * PAGESIZE)]

\* Seen through the processor, mapping changes one page or, when it fails,
\* none, whatever table pages it had to add (vmiter::try_map).
ImplementsAddressSpace == AS!ASSpec

\* What k-vmiter.hh:72 says of try_map: "Map current virtual address to `pa`
\* with permissions `perm`", 0 meaning success.
MapsWhatItSays ==
  last # NoRequest /\ last.ret = 0
    => Translate(mem, last.page * PAGESIZE) = last.to
=============================================================================
