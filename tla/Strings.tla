------------------------------ MODULE Strings ------------------------------
(***************************************************************************)
(* Memory and string functions of the C library (kernels1/lib.cc).  Memory *)
(* m is a function from addresses to bytes.  A loop that writes is a       *)
(* function of the number of its rounds, each reading what the rounds      *)
(* before it left; a loop that only reads is the round at which it stops.  *)
(***************************************************************************)
EXTENDS Integers, FiniteSetsExt

\* (x > y) - (x < y)
Sign(x, y) == IF x > y THEN 1 ELSE IF x < y THEN -1 ELSE 0

isupper(c) == c \in 65 .. 90
tolower(c) == IF isupper(c) THEN c + 32 ELSE c

\* memcpy(dst, src, n): ascending, whatever overlaps.
memcpy(m, dst, src, n) ==
  LET after[k \in 0 .. n] ==
        IF k = 0 THEN m
        ELSE [after[k - 1] EXCEPT ![dst + k - 1] = after[k - 1][src + k - 1]]
  IN after[n]

\* The same bytes in descending order.
CopyDown(m, dst, src, n) ==
  LET after[k \in 0 .. n] ==
        IF k = 0 THEN m
        ELSE [after[k - 1] EXCEPT ![dst + n - k] = after[k - 1][src + n - k]]
  IN after[n]

\* Mutant of memmove: an overlap of one byte is taken for none.
memmoveShort(m, dst, src, n) ==
  IF src < dst /\ src + n > dst + 1 THEN CopyDown(m, dst, src, n) ELSE memcpy(m, dst, src, n)

memmove(m, dst, src, n) ==
  IF src < dst /\ src + n > dst THEN CopyDown(m, dst, src, n) ELSE memcpy(m, dst, src, n)

memset(m, v, c, n) == [a \in DOMAIN m |-> IF a \in v .. v + n - 1 THEN c % 256 ELSE m[a]]

\* How far a loop over the bytes from s may run in memory m.
Room(m, s) == 0 .. Max(DOMAIN m) - s

strnlen(m, s, maxlen) == Min({k \in Room(m, s) \cup {maxlen} : k >= maxlen \/ m[s + k] = 0})

strlen(m, s) == Min({k \in Room(m, s) : m[s + k] = 0})

\* Copies until the byte just written is the terminator.
strcpy(m, dst, src) ==
  memcpy(m, dst, src,
         Min({k \in Room(m, Max({dst, src})) : memcpy(m, dst, src, k + 1)[dst + k] = 0}) + 1)

\* Copies up to the terminator, then fills the buffer with terminators.
strncpy(m, dst, src, maxlen) ==
  LET k == strnlen(m, src, maxlen)
  IN memset(memcpy(m, dst, src, k), dst + k, 0, maxlen - k)

memcmp(m, a, b, n) ==
  LET D == {k \in 0 .. n - 1 : m[a + k] # m[b + k]}
  IN IF D = {} THEN 0 ELSE Sign(m[a + Min(D)], m[b + Min(D)])

\* The address of the first such byte, or -1 for nullptr.
memchr(m, s, c, n) ==
  LET D == {k \in 0 .. n - 1 : m[s + k] = c % 256}
  IN IF D = {} THEN -1 ELSE s + Min(D)

strchr(m, s, c) == memchr(m, s, c, strlen(m, s) + 1)

\* The bytes the loop of a comparison at a and b can reach, those at x.
Bytes(m, a, b, x) == [k \in Room(m, Max({a, b})) |-> m[x + k]]

\* A limit of n bytes, which the loop takes for a terminator.
UpTo(s, n) == [k \in DOMAIN s |-> IF k < n THEN s[k] ELSE 0]

Folded(s) == [k \in DOMAIN s |-> tolower(s[k])]

\* The loop all string comparisons share: it ends where either byte is the
\* terminator or the bytes differ.
Compare(s, t) ==
  LET k == Min({i \in DOMAIN s : s[i] = 0 \/ t[i] = 0 \/ s[i] # t[i]})
  IN Sign(s[k], t[k])

strcmp(m, a, b) == Compare(Bytes(m, a, b, a), Bytes(m, a, b, b))

strncmp(m, a, b, n) == Compare(UpTo(Bytes(m, a, b, a), n), UpTo(Bytes(m, a, b, b), n))

strcasecmp(m, a, b) == Compare(Folded(Bytes(m, a, b, a)), Folded(Bytes(m, a, b, b)))

strncasecmp(m, a, b, n) ==
  Compare(Folded(UpTo(Bytes(m, a, b, a), n)), Folded(UpTo(Bytes(m, a, b, b), n)))
=============================================================================
