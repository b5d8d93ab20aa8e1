------------------------------- MODULE Loader -------------------------------
(***************************************************************************)
(* How a program gets from its file into memory: the tool that makes the   *)
(* kernel's symbol table loadable (build/mkchickadeesymtab.cc), the tool   *)
(* that lays out the disk (build/mkbootdisk.cc), the boot loader (boot.cc) *)
(* and program images (k-hardware.cc, process_setup in kernel.cc).         *)
(*                                                                         *)
(* An ELF file is a record: `data` its bytes, `ph` and `sh` its program    *)
(* and section headers, `shoff` where the section headers lie, `ref` the   *)
(* kernel's variable symtab.  Its own header and every other header take   *)
(* one byte each.  `ok` is FALSE once a tool has given up.                 *)
(***************************************************************************)
EXTENDS Integers, Sequences, SequencesExt, FiniteSetsExt, TLC

CONSTANTS SECTOR,         \* SECTORSIZE
          ALIGN,          \* 0x1000
          DISKSECTORS,    \* 1024
          LOADADDR        \* SYMTAB_ADDR

SIGNATURE == -1      \* the end of the boot sector
NOWHERE   == -2      \* what a sector behind the disk's end would hold

Fail(e) == [e EXCEPT !.ok = FALSE]

HeaderEnd(nph) == 1 + nph

InFile(s) == s.type \notin {"null", "nobits"}

\* validate: what it checks of the headers' offsets and of the sections.  Files
\* are well-formed otherwise: magic number, entry sizes, names of the sections.
validate(e) ==
  /\ Len(e.ph) > 0 /\ Len(e.sh) > 0
  /\ HeaderEnd(Len(e.ph)) <= Len(e.data)
  /\ e.shoff + Len(e.sh) <= Len(e.data)
  /\ e.sh[1].type = "null"
  /\ \A i \in DOMAIN e.sh : InFile(e.sh[i]) =>
       e.sh[i].offset < Len(e.data) /\ e.sh[i].offset + e.sh[i].size <= Len(e.data)

\* find_section(".symtab"); 0 if there is none.  sh_link is the next section, as
\* main demands, and the tool is called without -a and -s.
symtabndx(e) ==
  LET S == {i \in DOMAIN e.sh : e.sh[i].type = "symtab"} IN IF S = {} THEN 0 ELSE Min(S)

first_offset(e) == Min({e.sh[i].offset : i \in {j \in DOMAIN e.sh : InFile(e.sh[j])}})

\* shift_sections: everything from offset on moves up by diff.
shift_sections(e, offset, diff) ==
  LET moved(o)    == IF o >= offset THEN o + diff ELSE o
      spans(o, n) == o < offset /\ o + n > offset
  IN IF \/ HeaderEnd(Len(e.ph)) >= offset
        \/ \E i \in DOMAIN e.ph : spans(e.ph[i].offset, e.ph[i].filesz)
        \/ \E i \in DOMAIN e.sh : InFile(e.sh[i]) /\ spans(e.sh[i].offset, e.sh[i].size)
     THEN Fail(e)
     ELSE [e EXCEPT !.ph = [i \in DOMAIN @ |-> [@[i] EXCEPT !.offset = moved(@)]],
                    !.sh = [i \in DOMAIN @ |-> [@[i] EXCEPT !.offset = moved(@)]],
                    !.shoff = moved(@), !.changed = TRUE,
                    !.data = SubSeq(@, 1, offset) \o [k \in 1 .. diff |-> 0]
                               \o SubSeq(@, offset + 1, Len(@))]

\* The symbol table begins at a page boundary of the file.
AlignSymtab(e) ==
  LET o == e.sh[symtabndx(e)].offset
  IN IF o % ALIGN = 0 THEN e ELSE shift_sections(e, o, ALIGN - (o % ALIGN))

\* The range of the file that is loaded: the symbols and their names.
StrtabOff(e) == e.sh[symtabndx(e) + 1].offset - e.sh[symtabndx(e)].offset
RangeSize(e) == StrtabOff(e) + e.sh[symtabndx(e) + 1].size

rewrite_symtabref(e) ==
  LET x == [sym |-> LOADADDR, nsym |-> e.sh[symtabndx(e)].size,
            strtab |-> LOADADDR + StrtabOff(e), size |-> RangeSize(e)]
  IN IF e.ref = x THEN e ELSE [e EXCEPT !.ref = x, !.changed = TRUE]

\* sort_symtab: all symbols but the first, by their values.
sort_symtab(e) ==
  LET o == e.sh[symtabndx(e)].offset
      n == e.sh[symtabndx(e)].size
      sorted == SortSeq(SubSeq(e.data, o + 2, o + n), <)
      d == SubSeq(e.data, 1, o + 1) \o sorted \o SubSeq(e.data, o + n + 1, Len(e.data))
  IN [e EXCEPT !.data = d, !.changed = @ \/ d # e.data]

\* Both sections are marked as allocated, at their addresses.
MarkAllocated(e) ==
  LET i == symtabndx(e)
      mark(s, a) == IF s.addr # 0 THEN s ELSE [s EXCEPT !.addr = a]
      sh == [e.sh EXCEPT ![i] = mark(@, LOADADDR),
                         ![i + 1] = mark(@, LOADADDR + StrtabOff(e))]
  IN [e EXCEPT !.sh = sh, !.changed = @ \/ sh # e.sh]

\* A program header for the range, unless there is one.
AddProgram(e) ==
  LET first == e.sh[symtabndx(e)].offset
      i == Min({k \in 1 .. Len(e.ph) + 1 :
                  k <= Len(e.ph) => e.ph[k].va + e.ph[k].filesz >= LOADADDR})
      found == /\ i <= Len(e.ph)
               /\ e.ph[i].va = LOADADDR /\ e.ph[i].offset = first
               /\ e.ph[i].filesz >= RangeSize(e)
  IN IF found THEN e
     ELSE IF \/ HeaderEnd(Len(e.ph) + 1) > first_offset(e)
             \/ e.shoff <= first_offset(e)
     THEN Fail(e)
     ELSE [e EXCEPT !.ph = InsertAt(@, i, [load |-> TRUE, offset |-> first, va |-> LOADADDR,
                                            filesz |-> RangeSize(e), memsz |-> RangeSize(e)]),
                    !.changed = TRUE]

\* main of mkchickadeesymtab.
mkchickadeesymtab(e0) ==
  LET e == [e0 EXCEPT !.changed = FALSE]
      i == symtabndx(e)
      a == AlignSymtab(e)
  IN IF ~ validate(e) \/ i = 0 THEN Fail(e)
     ELSE IF i + 1 > Len(e.sh) \/ e.sh[i + 1].type # "strtab" THEN Fail(e)
     ELSE IF ~ a.ok THEN a
     ELSE AddProgram(MarkAllocated(sort_symtab(rewrite_symtabref(a))))

-----------------------------------------------------------------------------
ZeroBytes(n) == [k \in 1 .. n |-> 0]

\* A file, filled up to a whole number of sectors.
Padded(file) ==
  file \o (IF Len(file) % SECTOR = 0 THEN <<>> ELSE ZeroBytes(SECTOR - (Len(file) % SECTOR)))

\* mkbootdisk: the boot sector, the files, zeros up to DISKSECTORS.  An
\* argument is a file, or a sector number to skip to; going back fails, and so
\* does a boot sector without room for its signature.
mkbootdisk(bootsector, args) ==
  LET add(d, a) ==
        IF ~ d.ok THEN d
        ELSE IF a.skip
        THEN IF d.nsectors > a.to THEN [d EXCEPT !.ok = FALSE]
             ELSE [d EXCEPT !.nsectors = a.to,
                            !.disk = @ \o ZeroBytes((a.to - d.nsectors) * SECTOR)]
        ELSE [d EXCEPT !.disk = @ \o Padded(a.file),
                       !.nsectors = @ + Len(Padded(a.file)) \div SECTOR]
      d0 == [ok |-> Len(bootsector) < SECTOR, nsectors |-> 1,
             disk |-> bootsector \o ZeroBytes(SECTOR - 1 - Len(bootsector)) \o <<SIGNATURE>>]
      d1 == FoldLeft(add, d0, args)
  IN IF d1.ok THEN [d1 EXCEPT !.disk = @ \o ZeroBytes((DISKSECTORS - d1.nsectors) * SECTOR)]
     ELSE d1

-----------------------------------------------------------------------------
\* What the n sectors from sect on put at ptr.
boot_readsect(m, disk, ptr, sect, n) ==
  [a \in DOMAIN m |-> IF a < ptr \/ a >= ptr + n * SECTOR THEN m[a]
                      ELSE LET k == sect * SECTOR + a - ptr + 1
                           IN IF k <= Len(disk) THEN disk[k] ELSE NOWHERE]

Clear(m, from, to) == [a \in DOMAIN m |-> IF a >= from /\ a < to THEN 0 ELSE m[a]]

\* Mutant of boot_readseg: clears before it reads.
ReadsegClearsFirst(m, disk, ptr, sect, filesz, memsz) ==
  boot_readsect(Clear(m, ptr + filesz, ptr + memsz), disk, ptr - (ptr % SECTOR), sect,
                ((ptr % SECTOR) + filesz + SECTOR - 1) \div SECTOR)

\* Whole sectors from the one that holds ptr, then the rest is cleared.
boot_readseg(m, disk, ptr, sect, filesz, memsz) ==
  Clear(boot_readsect(m, disk, ptr - (ptr % SECTOR), sect,
                      ((ptr % SECTOR) + filesz + SECTOR - 1) \div SECTOR),
        ptr + filesz, ptr + memsz)

\* boot: every program header, whatever its type; the kernel starts in sector 1.
\* ph is what the header page says (read before, its magic number is right).
boot(m, disk, ph) ==
  FoldLeft(LAMBDA m1, p : boot_readseg(m1, disk, p.va, 1 + (p.offset \div SECTOR),
                                       p.filesz, p.memsz), m, ph)

-----------------------------------------------------------------------------
\* program_image_segment::fix: the first loadable header from the i-th on.
fix(ph, i) == Min({k \in i .. Len(ph) + 1 : k <= Len(ph) => ph[k].load})

\* A segment put in place: memset, then memcpy.
CopySegment(m, e, p) ==
  [a \in DOMAIN m |->
     IF a >= p.va /\ a < p.va + p.filesz THEN e.data[p.offset + a - p.va + 1]
     ELSE IF a >= p.va /\ a < p.va + p.memsz THEN 0 ELSE m[a]]

\* process_setup's second loop over the segments of an image.
CopyImage(m, e) ==
  FoldLeft(LAMBDA s, k : IF s.i > Len(e.ph) THEN s
                         ELSE [i |-> fix(e.ph, s.i + 1), m |-> CopySegment(s.m, e, e.ph[s.i])],
           [i |-> fix(e.ph, 1), m |-> m], e.ph).m
=============================================================================
