------------------------------ MODULE Numbers ------------------------------
(***************************************************************************)
(* Numbers in the C library (kernels1/lib.cc, lib.hh): reading and writing *)
(* them as text, rounding, and rand.  An int has INTBITS bits, a long has  *)
(* LONGBITS.  A text is a sequence of character codes; what follows it is  *)
(* the terminator, 0.                                                      *)
(***************************************************************************)
EXTENDS Integers, Sequences, SequencesExt, FiniteSetsExt

CONSTANTS INTBITS, LONGBITS

ASSUME WidthAssumption ==
  /\ INTBITS \in Nat /\ LONGBITS \in Nat
  /\ INTBITS > 1 /\ LONGBITS >= 2 * INTBITS

ULONG == 2 ^ LONGBITS           \* unsigned long wraps here
UINT  == 2 ^ INTBITS
MAXU  == ULONG - 1

\* An unsigned value read as the signed type with the same bits.
AsInt(u)  == IF u >= UINT \div 2 THEN u - UINT ELSE u
AsLong(u) == IF u >= ULONG \div 2 THEN u - ULONG ELSE u

At(s, i) == IF i <= Len(s) THEN s[i] ELSE 0

isspace(c) == c \in 9 .. 13 \/ c = 32

SkipSpace(s, i) == Min({j \in i .. Len(s) + 1 : ~ isspace(At(s, j))})

\* The digits strtoul accepts.  The first range is not cut off at '9', so
\* that a base above 10 takes the codes after it as digits too.
Digit(c, base) ==
  IF c >= 48 /\ c < 48 + base THEN c - 48
  ELSE IF base > 10 /\ c >= 97 /\ c < 97 + base - 10 THEN c - 97 + 10
  ELSE IF base > 10 /\ c >= 65 /\ c < 65 + base - 10 THEN c - 65 + 10
  ELSE -1

\* Mutant of Accumulate: the test leaves the new digit out.
AccumulateNoDigit(base, a, digit) ==
  IF a.x > MAXU \div base
  THEN [a EXCEPT !.overflow = TRUE]
  ELSE [a EXCEPT !.x = (a.x * base + digit) % ULONG]

\* One digit of strtoul's loop.
Accumulate(base, a, digit) ==
  IF a.x > (MAXU - digit) \div base
  THEN [a EXCEPT !.overflow = TRUE]
  ELSE [a EXCEPT !.x = a.x * base + digit]

\* strtoul on s from its i-th character: the value and where it stopped.
strtoul(s, i, base) ==
  LET i0       == SkipSpace(s, i)
      negative == At(s, i0) = 45
      i1       == IF negative \/ At(s, i0) = 43 THEN i0 + 1 ELSE i0
      hex      == At(s, i1) = 48 /\ At(s, i1 + 1) \in {120, 88}
      b        == IF base # 0 THEN base
                  ELSE IF hex THEN 16 ELSE IF At(s, i1) = 48 THEN 8 ELSE 10
      i2       == IF base \in {0, 16} /\ hex THEN i1 + 2 ELSE i1
      end      == Min({j \in i2 .. Len(s) + 1 : Digit(At(s, j), b) = -1})
      a        == FoldLeft(LAMBDA acc, c : Accumulate(b, acc, Digit(c, b)),
                           [x |-> 0, overflow |-> FALSE], SubSeq(s, i2, end - 1))
      x        == IF a.overflow THEN MAXU ELSE a.x
  IN [val |-> IF negative THEN (ULONG - x) % ULONG ELSE x, end |-> end]

\* The largest magnitude strtol returns.
Bound(negative) == ULONG \div 2 - (IF negative THEN 0 ELSE 1)

\* strtol: its own sign, then strtoul on the rest, which takes space and a
\* sign again.
strtol(s, base) ==
  LET i0       == SkipSpace(s, 1)
      negative == At(s, i0) = 45
      r        == strtoul(s, IF negative THEN i0 + 1 ELSE i0, base)
      u        == Min({r.val, Bound(negative)})
  IN [val |-> AsLong(IF negative THEN (ULONG - u) % ULONG ELSE u), end |-> r.end]

-----------------------------------------------------------------------------
Hex(lower, d) == IF d < 10 THEN 48 + d ELSE IF lower THEN 97 + d - 10 ELSE 65 + d - 10

\* fill_numbuf: a negative base stands for lower-case digits.
fill_numbuf(val, base) ==
  LET b == IF base < 0 THEN -base ELSE base
      digits[v \in 0 .. val] ==
        IF v < b THEN <<Hex(base < 0, v)>>
        ELSE Append(digits[v \div b], Hex(base < 0, v % b))
  IN digits[val]

\* msb: the position of the highest one bit, counted from 1; 0 for 0.
msb(x) == Min({k \in 0 .. LONGBITS : x < 2 ^ k})

\* lsb, likewise the lowest.
lsb(x) == IF x = 0 THEN 0 ELSE Min({k \in 1 .. LONGBITS : x % 2 ^ k # 0})

round_down(x, n) == x - (x % n)

round_up(x, n) == round_down((x + n - 1) % ULONG, n)

round_down_pow2(x) == IF x = 0 THEN 0 ELSE 2 ^ (msb(x) - 1)

\* The shift by the whole width, for the largest arguments, is undefined; the
\* processor takes its count modulo the width.
round_up_pow2(x) == IF x = 0 THEN 0 ELSE 2 ^ (msb(x - 1) % LONGBITS)

-----------------------------------------------------------------------------
RAND_MAX == UINT \div 2 - 1

\* The int expression max - min + 1 as the unsigned long it is converted to;
\* it overflows when the distance is RAND_MAX.
RandRange(min, max) == AsInt((max - min + 1) % UINT) % ULONG

\* rand(min, max) when rand() returned r.
rand(min, max, r) ==
  AsInt((min + (((r * RandRange(min, max)) % ULONG) \div (RAND_MAX + 1))) % UINT)
=============================================================================
