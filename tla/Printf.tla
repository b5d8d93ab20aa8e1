------------------------------- MODULE Printf -------------------------------
(***************************************************************************)
(* printer::vprintf and its users in kernels1/lib.cc and u-lib.cc.  A      *)
(* format is a sequence of character codes.  A string argument is the      *)
(* bytes of its array, the terminator included if it has one; BEYOND is    *)
(* what a read outside the array would give.  Output is a sequence of      *)
(* pairs of a character and its color.                                     *)
(***************************************************************************)
EXTENDS Numbers

CONSTANTS WINDOW,     \* bytes assert_memeq shows on each side (10)
          PREFIX,     \* length of "PANIC: " (7)
          PANICBUF    \* sizeof(buf) in panic (160)

BEYOND == 256
Byte(s, i) == IF i \in DOMAIN s THEN s[i] ELSE BEYOND

\* Flags: # 0 - space +
ALT == 35
ZERO == 48
LEFTJUSTIFY == 45
SPACEPOSITIVE == 32
PLUSPOSITIVE == 43
FlagChars == {ALT, ZERO, LEFTJUSTIFY, SPACEPOSITIVE, PLUSPOSITIVE}

ParseFlags(f, i) ==
  LET j == Min({k \in i .. Len(f) + 1 : At(f, k) \notin FlagChars})
  IN [set |-> {f[k] : k \in i .. j - 1}, at |-> j]

\* A number whose first digit is at least `first`, or a star, or nothing (-1).
ParseCount(f, i, args, first) ==
  IF At(f, i) \in first .. 57
  THEN LET j == Min({k \in i .. Len(f) + 1 : At(f, k) \notin 48 .. 57})
       IN [val |-> FoldLeft(LAMBDA w, c : 10 * w + c - 48, 0, SubSeq(f, i, j - 1)),
           at |-> j, args |-> args]
  ELSE IF At(f, i) = 42 THEN [val |-> Head(args), at |-> i + 1, args |-> Tail(args)]
  ELSE [val |-> -1, at |-> i, args |-> args]

ParsePrecision(f, i, args) ==
  IF At(f, i) # 46 THEN [val |-> -1, at |-> i, args |-> args]
  ELSE LET p == ParseCount(f, i + 1, args, 48)
       IN [p EXCEPT !.val = Max({@, 0})]

\* l, t and z ask for a long; h asks for nothing.
ParseLength(f, i) ==
  [long |-> At(f, i) \in {108, 116, 122},
   at |-> IF At(f, i) \in {108, 116, 122, 104} THEN i + 1 ELSE i]

NumberOf(num, base, neg, signed, alt) ==
  [numeric |-> TRUE, num |-> num, base |-> base, neg |-> neg, signed |-> signed,
   alt2 |-> alt, data |-> Append(fill_numbuf(num, base), 0)]

TextOf(data) ==
  [numeric |-> FALSE, num |-> 0, base |-> 10, neg |-> FALSE, signed |-> FALSE,
   alt2 |-> FALSE, data |-> data]

\* d i, u, x, X, p, s, c, or any other character, which prints itself.
Convert(c, long, arg) ==
  CASE c \in {100, 105} -> NumberOf((IF arg < 0 THEN -arg ELSE arg) % ULONG, 10, arg < 0, TRUE, FALSE)
    [] c \in {117, 120, 88} ->
         NumberOf(arg % (IF long THEN ULONG ELSE UINT),
                  IF c = 117 THEN 10 ELSE IF c = 120 THEN -16 ELSE 16, FALSE, FALSE, FALSE)
    [] c = 112 -> NumberOf(arg % ULONG, -16, FALSE, FALSE, TRUE)
    [] c = 115 -> TextOf(arg)
    [] c = 99  -> TextOf(<<arg % 256, 0>>)
    [] OTHER   -> TextOf(<<IF c = 0 THEN 37 ELSE c, 0>>)

TakesArgument(c) == c \in {100, 105, 117, 120, 88, 112, 115, 67, 99}

\* The sign, or 0x.
PrefixOf(v, flags) ==
  IF v.signed
  THEN IF v.neg THEN <<45>>
       ELSE IF PLUSPOSITIVE \in flags THEN <<43>>
       ELSE IF SPACEPOSITIVE \in flags THEN <<32>> ELSE <<>>
  ELSE IF v.numeric /\ (ALT \in flags \/ v.alt2) /\ v.base \in {16, -16} /\ (v.num # 0 \/ v.alt2)
  THEN <<48, IF v.base = -16 THEN 120 ELSE 88>> ELSE <<>>

\* Mutant of DataLength: strlen, whatever the precision.
DataLengthWhole(v, precision) ==
  Min({k \in 0 .. Len(v.data) + 1 : k > Len(v.data) \/ Byte(v.data, k + 1) = 0})

\* strnlen for a text with a precision, else strlen.
DataLength(v, precision) ==
  Min({k \in 0 .. Len(v.data) + 1 :
         \/ k > Len(v.data)
         \/ precision >= 0 /\ ~ v.numeric /\ k >= precision
         \/ Byte(v.data, k + 1) = 0})

\* Mutant of Zeros: the prefix is forgotten in the width.
ZerosNoPrefix(v, flags, width, precision, datalen, prefixlen) ==
  IF v.numeric /\ precision >= 0 THEN Max({precision - datalen, 0})
  ELSE IF v.numeric /\ ZERO \in flags /\ LEFTJUSTIFY \notin flags
  THEN Max({width - datalen, 0}) ELSE 0

Zeros(v, flags, width, precision, datalen, prefixlen) ==
  IF v.numeric /\ precision >= 0 THEN Max({precision - datalen, 0})
  ELSE IF v.numeric /\ ZERO \in flags /\ LEFTJUSTIFY \notin flags
  THEN Max({width - datalen - prefixlen, 0}) ELSE 0

Repeat(c, n) == [k \in 1 .. n |-> c]

\* Padding, prefix, zeros, data, padding.
Field(v, flags, width, precision) ==
  LET prefix  == PrefixOf(v, flags)
      datalen == DataLength(v, precision)
      zeros   == Zeros(v, flags, width, precision, datalen, Len(prefix))
      pad     == Repeat(32, width - datalen - zeros - Len(prefix))
      left    == LEFTJUSTIFY \in flags
  IN (IF left THEN <<>> ELSE pad) \o prefix \o Repeat(48, zeros)
       \o [k \in 1 .. datalen |-> Byte(v.data, k)] \o (IF left THEN pad ELSE <<>>)

\* A round of vprintf's loop on the directive after the % at s.at.
Directive(f, s) ==
  LET fl == ParseFlags(f, s.at + 1)
      w  == ParseCount(f, fl.at, s.args, 49)
      p  == ParsePrecision(f, w.at, w.args)
      ln == ParseLength(f, p.at)
      c  == At(f, ln.at)
      arg  == IF TakesArgument(c) THEN Head(p.args) ELSE 0
      rest == IF TakesArgument(c) THEN Tail(p.args) ELSE p.args
      text == IF c = 67 THEN <<>>
              ELSE Field(Convert(c, ln.long, arg), fl.set, w.val, p.val)
  IN [at |-> ln.at + 1, args |-> rest,
      color |-> IF c = 67 THEN arg ELSE s.color,
      out |-> s.out \o [k \in 1 .. Len(text) |-> <<text[k], s.color>>]]

\* vprintf: there are at most as many rounds as characters.
vprintf(color, f, args) ==
  FoldLeft(LAMBDA s, c :
             IF s.at > Len(f) THEN s
             ELSE IF f[s.at] # 37
             THEN [s EXCEPT !.at = @ + 1, !.out = Append(@, <<f[s.at], s.color>>)]
             ELSE Directive(f, s),
           [at |-> 1, args |-> args, color |-> color, out |-> <<>>], f).out

\* The characters alone.
Text(f, args) == LET out == vprintf(0, f, args) IN [k \in 1 .. Len(out) |-> out[k][1]]

-----------------------------------------------------------------------------
Terminate(m, s, size, n) ==
  IF size = 0 THEN m ELSE IF n < size THEN [m EXCEPT ![s + n] = 0]
  ELSE [m EXCEPT ![s + size - 1] = 0]

\* vsnprintf into the bytes of m from s on: what memory holds afterwards; the
\* call returns Len(text).
vsnprintf(m, s, size, text) ==
  Terminate([a \in DOMAIN m |-> IF a \in s .. s + Min({Len(text), size}) - 1
                                THEN text[a - s + 1] ELSE m[a]],
            s, size, Len(text))

\* Mutant of NewlineAt: no room is made for it in a full buffer.
NewlineAtEnd(len) == len

NewlineAt(len) == len - (IF len = PANICBUF - 1 THEN 1 ELSE 0)

\* panic in a process: the buffer, after the fixed prefix (here spaces), and
\* whatever lies behind it, when the text is what the format gives.
panic(m, text) ==
  LET m1  == vsnprintf([a \in DOMAIN m |-> IF a < PREFIX THEN 32 ELSE m[a]],
                       PREFIX, PANICBUF - PREFIX, text)
      len == Len(text) + PREFIX
  IN IF m1[len - 1] # 10
     THEN [m1 EXCEPT ![NewlineAt(len)] = 10, ![NewlineAt(len) + 1] = 0]
     ELSE m1

WindowStart(pos) == IF pos <= WINDOW THEN 0 ELSE pos - WINDOW

\* assert_memeq_fail: where x and y, of sz bytes, first differ, where the
\* window begins, and the two texts that "%.*s" shows of it.
assert_memeq_fail(x, y, sz) ==
  LET pos   == Min({k \in 0 .. sz : k = sz \/ x[k + 1] # y[k + 1]})
      spos  == WindowStart(pos)
      epos  == Min({pos + WINDOW, sz})
      shown(t) == Text(<<37, 46, 42, 115>>,
                       <<epos - spos, [k \in 1 .. sz - spos |-> Byte(t, spos + k)]>>)
  IN [pos |-> pos, spos |-> spos, x |-> shown(x), y |-> shown(y)]
=============================================================================
