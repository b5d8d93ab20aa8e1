---------------------------- MODULE MCAlgorithms ----------------------------
(***************************************************************************)
(* Inputs for Algorithms, with an int of 4 bits and a long of 8.           *)
(***************************************************************************)
EXTENDS Algorithms

\* Five bytes, the last one a terminator.
MCMemories == {m \in [0 .. 4 -> {0, 1, 2}] : m[4] = 0}

\* Two strings of at most two characters, of both cases.
MCStrings2 == {m \in [0 .. 5 -> {0, 65, 97, 98}] : m[2] = 0 /\ m[5] = 0}

SeqsUpTo(S, n) == UNION {[1 .. k -> S] : k \in 0 .. n}

\* Space, minus, 0, 2, 5, 7, :, a, x.  The largest unsigned long is 255.
MCNumberTexts == SeqsUpTo({32, 45, 48, 50, 53, 55, 58, 97, 120}, 4)

\* A conversion with and without its width.
Number(n) == IF n < 0 THEN <<>> ELSE <<48 + n>>
Spec(flags, w, p, long, c) ==
  LET tail == (IF p < 0 THEN <<>> ELSE <<46>> \o Number(p))
                \o (IF long THEN <<108>> ELSE <<>>) \o <<c>>
      head == <<37>> \o SetToSeq(flags)
  IN [f |-> head \o Number(w) \o tail, bare |-> head \o tail,
      flags |-> flags, width |-> w, long |-> long]

MCSpecs ==
  {Spec(fl, w, p, long, c) :
     fl \in SUBSET FlagChars, w \in {-1, 1, 3, 5}, p \in {-1, 0, 2, 4},
     long \in {TRUE, FALSE}, c \in {100, 117, 120, 88, 112}}

\* Both limits of int and long.
MCArguments == {-128, -8, 0, 7, 127}

\* Parts of formats: text, conversions with arguments of each kind, color, an
\* escaped and an unfinished directive, an array without a terminator.
Piece(f, args, color) == [f |-> f, args |-> args, color |-> color]
MCPieces ==
  { Piece(<<65>>, <<>>, -1),
    Piece(<<37, 37>>, <<>>, -1),
    Piece(<<37, 48, 51, 100>>, <<-5>>, -1),
    Piece(<<37, 45, 42, 108, 100>>, <<4, -128>>, -1),
    Piece(<<37, 104, 120>>, <<7>>, -1),
    Piece(<<37, 53, 99>>, <<66>>, -1),
    Piece(<<37, 46, 50, 115>>, <<<<65, 66>>>>, -1),
    Piece(<<37, 46, 42, 115>>, <<-1, <<65>>>>, -1),
    Piece(<<37, 51, 46, 42, 115>>, <<3, <<65, 0>>>>, -1),
    Piece(<<37, 67>>, <<3>>, 3),
    Piece(<<37, 67, 66>>, <<4>>, 4),
    Piece(<<37, 46, 121>>, <<>>, -1) }

MCMessages == SeqsUpTo({10, 65}, 6)

MCArrays == SeqsUpTo({0, 1, 2}, 4)

-----------------------------------------------------------------------------
Cells(from, n) == [k \in 1 .. n |-> from + k]

\* A linked kernel: its headers, its segment at an offset that agrees with its
\* address in the page, the symbols, their names, other names, the section
\* headers.  `gap` bytes lie before the symbols.  With two more headers that
\* load nothing there may be no room for another.
Linked(va, filesz, bss, gap, syms, nstr, extra) ==
  LET offset == ALIGN + (va % ALIGN)
      symoff == offset + filesz + gap
      nsym   == Len(syms)
      stroff == symoff + nsym
      shoff  == stroff + nstr + 1
      data   == Cells(10, offset) \o Cells(100, filesz) \o Cells(150, gap) \o syms
                  \o Cells(300, nstr) \o <<400>> \o Cells(500, 5)
      sec(t, o, n) == [type |-> t, offset |-> o, size |-> n, addr |-> 0]
      ph1    == [load |-> TRUE, offset |-> offset, va |-> va,
                 filesz |-> filesz, memsz |-> filesz + bss]
      stack  == [load |-> FALSE, offset |-> 0, va |-> 0, filesz |-> 0, memsz |-> 0]
  IN [e |-> [ok |-> TRUE, changed |-> FALSE, data |-> data,
             ph |-> [k \in 1 .. extra |-> stack] \o <<ph1>>,
             sh |-> << sec("null", 0, 0), sec("progbits", offset, filesz),
                       sec("nobits", offset + filesz, bss), sec("symtab", symoff, nsym),
                       sec("strtab", stroff, nstr) >>,
             shoff |-> shoff,
             ref |-> [sym |-> LOADADDR, nsym |-> 0, strtab |-> 0, size |-> 0]],
      va |-> va, filesz |-> filesz, memsz |-> filesz + bss, offset |-> offset,
      symoff |-> symoff, nsym |-> nsym, stroff |-> stroff, nstr |-> nstr,
      memory |-> LOADADDR + 11]

MCKernels ==
  {Linked(va, filesz, bss, gap, <<200>> \o syms, nstr, extra) :
     va \in 4 .. 7, filesz \in 1 .. 4, bss \in 0 .. 3, gap \in 0 .. 3,
     syms \in {<<>>, <<202, 201>>, <<203, 201, 202>>}, nstr \in 1 .. 2, extra \in 0 .. 2}

MCFiles == {Cells(10, n) : n \in 0 .. 5}

\* Images of up to three headers whose loadable segments do not overlap.
ProgramHeaders ==
  [load : BOOLEAN, offset : {0, 2}, va : {0, 3, 6}, filesz : 0 .. 2, memsz : {2}]
MCImages ==
  {[data |-> Cells(10, 4), ph |-> ph] :
     ph \in {q \in SeqsUpTo(ProgramHeaders, 2) :
               \A i, j \in DOMAIN q : i # j => q[i].va # q[j].va}}

MCDevices == [0 .. addr_end - 1 -> {"none", "single", "multi", "acpi"}]

\* Two pages of frames between an unmapped page and the end of memory; every
\* frame pointer is aligned, and a return address tells its frame.
MCStacks ==
  {[m |-> [a \in 0 .. SPACE - 1 |-> IF a % 2 = 1 THEN 100 + a ELSE IF a < 4 THEN 0 ELSE fp[a]],
    present |-> P, rsp |-> rsp, rbp |-> rbp] :
     fp \in [{4, 6, 8, 10} -> {0, 6, 8, 10}], P \in SUBSET {1, 2}, rsp \in {4, 5, 8},
     rbp \in {0, 4, 6, 8, 10}}
=============================================================================
