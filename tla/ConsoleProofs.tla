---------------------------- MODULE ConsoleProofs ----------------------------
(***************************************************************************)
(* No printer leaves the console's page, and one that prints alone leaves  *)
(* its text on it, for every size of the page, all texts and any number of *)
(* processes.  The second rests on where a call is: the page shows the     *)
(* last rows of an endless tape that the text is printed on, and while the *)
(* printer scrolls, the cells it has copied show the rows one further down.*)
(***************************************************************************)
EXTENDS Console, TLAPS, WellFoundedInduction

\* Whoever scrolls has run into the end of the page, so that moving up a row
\* cannot take its printer before the first cell.
ScrollsAtEnd ==
  \A p \in Procs : pc[p] = "scroll" => cell[p] = END /\ copied[p] < END

CInv == CTypeOK /\ ScrollsAtEnd

\* A page has at least one row.
LEMMA PageFacts ==
  /\ END \in Nat /\ CONSOLE_COLUMNS \in Nat /\ 0 < CONSOLE_COLUMNS
  /\ CONSOLE_COLUMNS <= END
<1>1. /\ CONSOLE_ROWS \in Nat /\ CONSOLE_ROWS >= 1
      /\ CONSOLE_COLUMNS \in Nat /\ 0 < CONSOLE_COLUMNS
  BY ConsoleAssumption, SMTT(30), Z3T(30)
<1>2. CONSOLE_ROWS * CONSOLE_COLUMNS \in Nat
  BY <1>1, SMTT(30), Z3T(30)
<1>3. CONSOLE_COLUMNS <= CONSOLE_ROWS * CONSOLE_COLUMNS
  BY <1>1, SMTT(30), Z3T(30)
<1> QED
  BY <1>1, <1>2, <1>3, SMTT(30), Z3T(30) DEF END

\* An empty console satisfies the invariant.
LEMMA CInitInv == CInit => CInv
<1> SUFFICES ASSUME CInit PROVE CInv
  OBVIOUS
<1>1. 0 \in 0 .. END
  BY PageFacts, SMTT(30), Z3T(30)
<1>2. CTypeOK
  BY <1>1, ZenonT(30) DEF CInit, CTypeOK
<1>3. ScrollsAtEnd
  BY ZenonT(30) DEF CInit, ScrollsAtEnd
<1> QED
  BY <1>2, <1>3, SMTT(30), Z3T(30) DEF CInv

\* So does what every step leaves.
LEMMA CNextInv == CInv /\ [CNext]_cvars => CInv'
<1> SUFFICES ASSUME CInv, [CNext]_cvars PROVE CInv'
  BY SMTT(30), Z3T(30)
<1> USE PageFacts DEF CInv, CTypeOK, ScrollsAtEnd
<1>1. ASSUME NEW p \in Procs, NEW t \in Texts, Begin(p, t) PROVE CInv'
  BY <1>1, SMTT(30), Z3T(30) DEF Begin
<1>2. ASSUME NEW p \in Procs, Putc(p) PROVE CInv'
  <2>1. cell[p] \in 0 .. END /\ ~(cell[p] >= END)
    BY <1>2, ZenonT(30) DEF Putc, NeedsScroll
  <2>2. cell' = [cell EXCEPT ![p] = @ + 1] /\ UNCHANGED <<cursorpos, pc, copied>>
    BY <1>2, ZenonT(30) DEF Putc
  <2>3. DOMAIN console' = Cells /\ pc[p] # "scroll"
    BY <1>2, ZenonT(30) DEF Putc
  <2> QED
    BY <2>1, <2>2, <2>3, SMTT(30), Z3T(30)
<1>3. ASSUME NEW p \in Procs, StartScroll(p) PROVE CInv'
  BY <1>3, SMTT(30), Z3T(30) DEF StartScroll, NeedsScroll
<1>4. ASSUME NEW p \in Procs, Scroll(p) PROVE CInv'
  <2>1. cell[p] = END /\ copied[p] \in 0 .. END - 1
    BY <1>4, SMTT(30), Z3T(30) DEF Scroll
  <2>2. DOMAIN console' = Cells /\ cursorpos' = cursorpos /\ copied' = [copied EXCEPT ![p] = @ + 1]
    BY <1>4, SMTT(30), Z3T(30) DEF Scroll
  <2>3. CASE copied[p] + 1 = END
    <3>1. pc' = [pc EXCEPT ![p] = "put"] /\ cell' = [cell EXCEPT ![p] = @ - CONSOLE_COLUMNS]
      BY <1>4, <2>3, SMTT(30), Z3T(30) DEF Scroll
    <3> QED
      BY <2>1, <2>2, <3>1, SMTT(30), Z3T(30)
  <2>4. CASE copied[p] + 1 # END
    <3>1. pc' = pc /\ cell' = cell
      BY <1>4, <2>4, SMTT(30), Z3T(30) DEF Scroll
    <3> QED
      BY <2>1, <2>2, <2>4, <3>1, SMTT(30), Z3T(30)
  <2> QED
    BY <2>3, <2>4, SMTT(30), Z3T(30)
<1>5. ASSUME NEW p \in Procs, End(p) PROVE CInv'
  BY <1>5, SMTT(30), Z3T(30) DEF End
<1>6. ASSUME NEW cpos, NEW t, KernelPrint(cpos, t) PROVE CInv'
  BY <1>6, SMTT(30), Z3T(30) DEF KernelPrint
<1>7. CASE UNCHANGED cvars
  BY <1>7 DEF cvars
<1> QED
  BY <1>1, <1>2, <1>3, <1>4, <1>5, <1>6, <1>7, SMTT(30), Z3T(30) DEF CNext

\* However many processes print at once without a lock, every position a
\* printer or the cursor holds is on the page or just behind it.
THEOREM PrintersStayOnPage == CSpec => []CTypeOK
<1>1. CInv => CTypeOK
  BY DEF CInv
<1> QED
  BY <1>1, CInitInv, CNextInv, PTL DEF CSpec

-----------------------------------------------------------------------------
(* Where the characters of a text begin.                                    *)

\* A recursive definition over positions, as a fact about a function.
IsStarts(s, at, t) ==
  /\ s \in [1 .. Len(t) + 1 -> Nat]
  /\ s[1] = at
  /\ \A i \in 1 .. Len(t) : s[i + 1] = After(s[i], t[i])

\* A character ends behind its beginning, a newline at the end of a row.
LEMMA AfterFacts ==
  ASSUME NEW n \in Nat, NEW c
  PROVE  After(n, c) \in Nat /\ n < After(n, c)
<1> DEFINE C == CONSOLE_COLUMNS
           q == n \div C
<1>1. C \in Nat /\ 0 < C
  BY PageFacts, SMTT(30), Z3T(30)
<1> HIDE DEF C
<1>2. q \in Nat /\ n = q * C + (n % C) /\ n % C \in 0 .. C - 1
  BY <1>1
<1> HIDE DEF q
<1>3. (q + 1) * C = q * C + C /\ q * C \in Nat
  BY <1>1, <1>2, SMTT(30), Z3T(30)
<1>4. (q + 1) * C \in Nat /\ n < (q + 1) * C
  BY <1>1, <1>2, <1>3
<1> QED
  BY <1>4 DEF After, q, C

\* A nonempty set of naturals has a least element.
LEMMA LeastNatural ==
  ASSUME NEW T, T \subseteq Nat, T # {}
  PROVE  \E x \in T : \A y \in T : x <= y
<1>1. PICK x \in T : \A y \in T : ~ (<<y, x>> \in OpToRel(<, Nat))
  BY NatLessThanWellFounded, WFMin, ZenonT(30)
<1>2. ASSUME NEW y \in T, y < x PROVE FALSE
  <2>1. <<y, x>> \in OpToRel(<, Nat)
    BY <1>2, Zenon DEF OpToRel
  <2> QED
    BY <1>1, <2>1, ZenonT(30)
<1>3. \A y \in T : x <= y
  BY <1>2, SMTT(30), Z3T(30)
<1> QED
  BY <1>3, SMTT(30), Z3T(30)

Solves(s, at, t, m) ==
  \A i \in 1 .. m : s[i] = IF i = 1 THEN at ELSE After(s[i - 1], t[i - 1])

\* The recursion has a solution up to every position.
LEMMA StartsUpTo ==
  ASSUME NEW at \in Nat, NEW t, NEW m \in Nat \ {0}
  PROVE  \E s \in [1 .. m -> Nat] : Solves(s, at, t, m)
<1> USE DEF Solves
<1> DEFINE Good(k) == \E s \in [1 .. k -> Nat] : Solves(s, at, t, k)
           Bad == {k \in Nat \ {0} : ~ Good(k)}
<1>1. Good(1)
  <2>1. [i \in 1 .. 1 |-> at] \in [1 .. 1 -> Nat] /\ Solves([i \in 1 .. 1 |-> at], at, t, 1)
    OBVIOUS
  <2> QED
    BY <2>1, ZenonT(30)
<1>2. ASSUME NEW k \in Nat \ {0}, Good(k) PROVE Good(k + 1)
  <2>1. PICK s \in [1 .. k -> Nat] : Solves(s, at, t, k)
    BY <1>2, SMTT(30), Z3T(30)
  <2> DEFINE u == [i \in 1 .. k + 1 |-> IF i = k + 1 THEN After(s[k], t[k]) ELSE s[i]]
  <2>2. s[k] \in Nat /\ After(s[k], t[k]) \in Nat
    BY AfterFacts
  <2>3. u \in [1 .. k + 1 -> Nat]
    BY <2>2, SMTT(30), Z3T(30)
  <2>4. u[k + 1] = After(s[k], t[k]) /\ \A i \in 1 .. k : u[i] = s[i]
    OBVIOUS
  <2> HIDE DEF u
  <2>5. ASSUME NEW i \in 1 .. k + 1
        PROVE  u[i] = IF i = 1 THEN at ELSE After(u[i - 1], t[i - 1])
    <3>1. CASE i = k + 1
      <4>1. i # 1 /\ i - 1 = k /\ k \in 1 .. k
        BY <3>1, SMTT(30), Z3T(30)
      <4> QED
        BY <2>4, <3>1, <4>1, SMTT(30), Z3T(30)
    <3>2. CASE i # k + 1
      <4>1. i \in 1 .. k /\ (i # 1 => i - 1 \in 1 .. k)
        BY <3>2
      <4> QED
        BY <2>1, <2>4, <4>1, SMTT(30), Z3T(30)
    <3> QED
      BY <3>1, <3>2
  <2> QED
    BY <2>3, <2>5, ZenonT(30)
<1> HIDE DEF Good
<1>3. Bad = {}
  <2> SUFFICES ASSUME Bad # {} PROVE FALSE
    BY SMTT(30), Z3T(30)
  <2>1. PICK k \in Bad : \A j \in Bad : k <= j
    BY LeastNatural, ZenonT(30)
  <2>2. k # 1
    BY <1>1, SMTT(30), Z3T(30)
  <2> DEFINE h == k - 1
  <2>3. h \in Nat \ {0} /\ h + 1 = k /\ ~ (k <= h)
    BY <2>2, SMTT(30), Z3T(30)
  <2>4. Good(h)
    BY <2>1, <2>3, SMTT(30), Z3T(30)
  <2> HIDE DEF h
  <2>5. Good(k)
    BY <1>2, <2>3, <2>4, SMTT(30), Z3T(30)
  <2> QED
    BY <2>5
<1>4. Good(m)
  BY <1>3, SMTT(30), Z3T(30)
<1> QED
  BY <1>4, SMTT(30), Z3T(30) DEF Good

\* Starts is what its recursion says.
LEMMA StartsIs ==
  ASSUME NEW at \in Nat, NEW t \in Seq(STRING)
  PROVE  IsStarts(Starts(at, t), at, t)
<1> DEFINE m == Len(t) + 1
           F(s) == [i \in 1 .. m |-> IF i = 1 THEN at ELSE After(s[i - 1], t[i - 1])]
           S == Starts(at, t)
<1>1. m \in Nat \ {0}
  OBVIOUS
<1>2. PICK s : s = F(s)
  <2> HIDE DEF m
  <2>1. PICK s \in [1 .. m -> Nat] : Solves(s, at, t, m)
    BY <1>1, StartsUpTo, ZenonT(30)
  <2>2. s = F(s)
    BY <2>1 DEF Solves
  <2> QED
    BY <2>2, ZenonT(30)
<1>3. S = CHOOSE r : r = F(r)
  BY SMTT(30), Z3T(30) DEF Starts
<1>4. S = F(S)
  BY <1>2, <1>3, SMTT(30), Z3T(30)
<1> HIDE DEF S
<1>5. \A i \in 1 .. m : S[i] = IF i = 1 THEN at ELSE After(S[i - 1], t[i - 1])
  <2> DEFINE G == F(S)
  <2>1. \A i \in 1 .. m : G[i] = IF i = 1 THEN at ELSE After(S[i - 1], t[i - 1])
    OBVIOUS
  <2>2. S = G
    BY <1>4, SMTT(30), Z3T(30)
  <2> HIDE DEF G
  <2> QED
    BY <2>1, <2>2
<1> HIDE DEF m
<1>6. \A i \in 1 .. m : S[i] \in Nat
  <2> DEFINE Bad == {i \in 1 .. m : S[i] \notin Nat}
  <2> SUFFICES ASSUME Bad # {} PROVE FALSE
    BY SMTT(30), Z3T(30)
  <2>1. PICK i \in Bad : \A j \in Bad : i <= j
    <3>1. Bad \subseteq Nat
      BY <1>1, SMTT(30), Z3T(30)
    <3> HIDE DEF Bad
    <3> QED
      BY <3>1, LeastNatural, ZenonT(30)
  <2> DEFINE h == i - 1
  <2>2. i # 1 /\ h \in 1 .. m /\ ~ (i <= h)
    BY <1>1, <1>5, SMTT(30), Z3T(30)
  <2>3. S[h] \in Nat
    BY <2>1, <2>2, SMTT(30), Z3T(30)
  <2>4. S[i] = After(S[h], t[h])
    BY <1>5, <2>2, SMTT(30), Z3T(30)
  <2> QED
    BY <2>3, <2>4, AfterFacts, SMTT(30), Z3T(30)
<1>7. S \in [1 .. m -> Nat]
  BY <1>4, <1>6, SMTT(30), Z3T(30)
<1>8. S[1] = at
  BY <1>1, <1>5, SMTT(30), Z3T(30)
<1>9. ASSUME NEW i \in 1 .. Len(t) PROVE S[i + 1] = After(S[i], t[i])
  <2> DEFINE h == i + 1
  <2>1. h \in 1 .. m /\ h # 1 /\ h - 1 = i
    BY SMTT(30), Z3T(30) DEF m
  <2> HIDE DEF h
  <2>2. S[h] = After(S[i], t[i])
    BY <1>5, <2>1, SMTT(30), Z3T(30)
  <2> QED
    BY <2>2 DEF h
<1> QED
  BY <1>7, <1>8, <1>9, SMTT(30), Z3T(30) DEF IsStarts, m, S

\* Characters begin one behind the other.
LEMMA StartsIncrease ==
  ASSUME NEW at \in Nat, NEW t \in Seq(STRING), NEW s, IsStarts(s, at, t)
  PROVE  /\ \A i \in 1 .. Len(t) : s[i] < s[i + 1]
         /\ \A i, j \in 1 .. Len(t) + 1 : i <= j => s[i] <= s[j]
<1> DEFINE m == Len(t) + 1
<1>1. m \in Nat \ {0} /\ s \in [1 .. m -> Nat]
  BY SMTT(30), Z3T(30) DEF IsStarts
<1>2. \A i \in 1 .. m - 1 : i + 1 \in 1 .. m /\ s[i] < s[i + 1]
  <2> TAKE i \in 1 .. m - 1
  <2>1. i \in 1 .. Len(t) /\ i \in 1 .. m /\ i + 1 \in 1 .. m
    BY SMTT(30), Z3T(30)
  <2>2. s[i + 1] = After(s[i], t[i]) /\ s[i] \in Nat
    BY <1>1, <2>1, SMTT(30), Z3T(30) DEF IsStarts
  <2> QED
    BY <2>1, <2>2, AfterFacts, SMTT(30), Z3T(30)
<1>3. ASSUME NEW i \in 1 .. m, NEW j \in 1 .. m, i <= j PROVE s[i] <= s[j]
  <2> DEFINE Bad == {k \in i .. m : ~ (s[i] <= s[k])}
  <2> HIDE DEF m
  <2>1. Bad = {}
    <3> SUFFICES ASSUME Bad # {} PROVE FALSE
      OBVIOUS
    <3>1. PICK k \in Bad : \A l \in Bad : k <= l
      <4>1. Bad \subseteq Nat
        BY <1>1, SMTT(30), Z3T(30)
      <4> HIDE DEF Bad
      <4> QED
        BY <4>1, LeastNatural, ZenonT(30)
    <3>2. k # i
      BY <1>1, SMTT(30), Z3T(30)
    <3> DEFINE h == k - 1
    <3>3. h \in i .. m /\ h \in 1 .. m - 1 /\ h + 1 = k /\ ~ (k <= h)
      BY <1>1, <3>2, SMTT(30), Z3T(30)
    <3>4. s[i] <= s[h]
      BY <3>1, <3>3, SMTT(30), Z3T(30)
    <3> HIDE DEF h
    <3>5. s[h] < s[k]
      BY <1>2, <3>3, SMTT(30), Z3T(30)
    <3>6. s[i] \in Nat /\ s[h] \in Nat /\ s[k] \in Nat
      BY <1>1, <3>3, SMTT(30), Z3T(30)
    <3> QED
      BY <3>4, <3>5, <3>6, SMTT(30), Z3T(30)
  <2>2. j \in i .. m
    BY <1>1, <1>3
  <2> QED
    BY <2>1, <2>2
<1> QED
  BY <1>2, <1>3, SMTT(30), Z3T(30)

-----------------------------------------------------------------------------
(* A call that nobody else prints during.                                   *)

IsCall(c) == c.text \in Seq(STRING) /\ c.at \in 0 .. END

\* Call c, with x still to print, is at position n of its tape.
Reached(c, x, n) ==
  LET s == Starts(c.at, c.text)
      i == Len(c.text) - Len(x) + 1
  IN /\ x \in Seq(STRING) /\ Len(x) <= Len(c.text)
     /\ \A j \in 1 .. Len(x) : x[j] = c.text[i + j - 1]
     /\ s[i] <= n
     /\ IF x = <<>> THEN n = s[i] ELSE n < s[i + 1]

\* The printer is at cell k of the page, of which as few rows have left as
\* that takes: R cells.
Moved(x, k, n, R) ==
  /\ k = n - R
  /\ \E r \in Nat : R = r * CONSOLE_COLUMNS
  /\ R > 0 => /\ k + CONSOLE_COLUMNS >= END
              /\ x = <<>> => k + CONSOLE_COLUMNS > END

\* The page f shows the tape from R on, and its cells before "upto" one row
\* more.
Shown(c, n, R, f, upto) ==
  \A k \in Cells :
    OnTape(c, n, IF k < upto THEN k + R + CONSOLE_COLUMNS ELSE k + R, f[k])

\* What a character leaves in its cells.
Glyph(ch) == IF ch = "\n" THEN " " ELSE ch

\* A call begins with the page as it is.
LEMMA BeginsRight ==
  ASSUME NEW c, IsCall(c)
  PROVE  /\ Reached(c, c.text, c.at) /\ Moved(c.text, c.at, c.at, 0)
         /\ Shown(c, c.at, 0, c.found, 0)
<1> DEFINE t == c.text  at == c.at  s == Starts(at, t)
<1>1. /\ t \in Seq(STRING) /\ Len(t) \in Nat /\ at \in Nat /\ at <= END
      /\ IsStarts(s, at, t) /\ END \in Nat /\ CONSOLE_COLUMNS \in Nat
  BY StartsIs, PageFacts, SMTT(30), Z3T(30) DEF IsCall
<1>2. /\ \A i \in 1 .. Len(t) : s[i] < s[i + 1]
      /\ \A i, j \in 1 .. Len(t) + 1 : i <= j => s[i] <= s[j]
  BY <1>1, StartsIncrease, SMTT(30), Z3T(30)
<1>3. s[1] = at /\ s \in [1 .. Len(t) + 1 -> Nat]
  BY <1>1 DEF IsStarts
<1>4. Reached(c, t, at)
  <2>1. Len(t) - Len(t) + 1 = 1 /\ \A j \in 1 .. Len(t) : 1 + j - 1 = j
    BY <1>1, SMTT(30), Z3T(30)
  <2>2. t # <<>> => 1 \in 1 .. Len(t) /\ 1 + 1 = 2
    BY <1>1, SMTT(30), Z3T(30)
  <2>3. t # <<>> => s[1] < s[2]
    BY <1>2, <2>2, SMTT(30), Z3T(30)
  <2> HIDE DEF t, at
  <2>4. t = c.text /\ at = c.at
    BY DEF t, at
  <2> HIDE DEF s
  <2>5. s = Starts(c.at, c.text)
    BY <2>4, SMTT(30), Z3T(30) DEF s
  <2> QED
    BY <1>1, <1>3, <2>1, <2>3, <2>4, <2>5, SMTT(30), Z3T(30) DEF Reached
<1>5. Moved(t, at, at, 0)
  <2>1. 0 \in Nat /\ 0 = 0 * CONSOLE_COLUMNS /\ at = at - 0
    BY <1>1, SMTT(30), Z3T(30)
  <2> QED
    BY <2>1, SMTT(30), Z3T(30) DEF Moved
<1>6. ASSUME NEW k \in Cells
      PROVE  OnTape(c, at, IF k < 0 THEN k + 0 + CONSOLE_COLUMNS ELSE k + 0, c.found[k])
  <2>1. k \in Nat /\ k < END /\ (IF k < 0 THEN k + 0 + CONSOLE_COLUMNS ELSE k + 0) = k
    BY <1>1, <1>6, SMTT(30), Z3T(30) DEF Cells
  <2>2. ASSUME NEW i \in 1 .. Len(t), k \in s[i] .. s[i + 1] - 1, k < at PROVE FALSE
    <3>1. i \in 1 .. Len(t) + 1 /\ 1 \in 1 .. Len(t) + 1 /\ 1 <= i
      BY <1>1, SMTT(30), Z3T(30)
    <3>2. s[1] <= s[i] /\ s[i] \in Nat
      BY <1>2, <1>3, <3>1, SMTT(30), Z3T(30)
    <3>3. i + 1 \in 1 .. Len(t) + 1
      BY <1>1, SMTT(30), Z3T(30)
    <3>4. s[i + 1] \in Nat
      BY <1>3, <3>3, SMTT(30), Z3T(30)
    <3> HIDE DEF s, t, at
    <3> QED
      BY <1>1, <1>3, <2>1, <2>2, <3>2, <3>4, SMTT(30), Z3T(30)
  <2>3. OnTape(c, at, k, c.found[k])
    BY <2>1, <2>2, ZenonT(30) DEF OnTape
  <2> QED
    BY <2>1, <2>3, SMTT(30), Z3T(30)
<1>7. Shown(c, at, 0, c.found, 0)
  BY <1>6 DEF Shown
<1> QED
  BY <1>4, <1>5, <1>7

\* Within a row, the next position is a multiple of the row's length exactly
\* at its end.
LEMMA RowEnd ==
  ASSUME NEW a \in Nat, NEW n \in Nat, a <= n, n < After(a, "\n")
  PROVE  (n + 1) % CONSOLE_COLUMNS = 0 <=> n + 1 = After(a, "\n")
<1> DEFINE C == CONSOLE_COLUMNS  q == a \div C  b == n + 1
<1>1. C \in Nat /\ 0 < C
  BY PageFacts
<1> HIDE DEF C
<1>2. q \in Nat /\ a = q * C + (a % C) /\ a % C \in 0 .. C - 1
  BY <1>1
<1> HIDE DEF q
<1>3. After(a, "\n") = (q + 1) * C /\ (q + 1) * C = q * C + C /\ q * C \in Nat
  BY <1>1, <1>2, SMTT(30), Z3T(30) DEF After, q, C
<1>4. b \in Nat /\ q * C < b /\ b <= q * C + C
  BY <1>1, <1>2, <1>3, SMTT(30), Z3T(30)
<1> HIDE DEF b
<1>5. b = (b \div C) * C + (b % C) /\ b % C \in 0 .. C - 1 /\ b \div C \in Nat
  BY <1>1, <1>4, SMTT(30), Z3T(30)
<1>6. CASE b = q * C + C
  <2>1. b = (q + 1) * C /\ q + 1 \in Nat
    BY <1>2, <1>3, <1>6, SMTT(30), Z3T(30)
  <2>2. ((q + 1) * C) % C = 0
    BY <1>1, <1>2, SMTT(30), Z3T(30)
  <2> QED
    BY <1>3, <1>6, <2>1, <2>2, SMTT(30), Z3T(30) DEF b, C
<1>7. CASE b # q * C + C
  <2>1. b \div C = q
    BY <1>1, <1>2, <1>3, <1>4, <1>7, SMTT(30), Z3T(30)
  <2>2. b % C # 0
    BY <1>3, <1>4, <1>5, <2>1, SMTT(30), Z3T(30)
  <2> QED
    BY <1>3, <1>7, <2>2, SMTT(30), Z3T(30) DEF b, C
<1> QED
  BY <1>6, <1>7

\* The character at hand, and that it alone covers the printer's position.
LEMMA AtHand ==
  ASSUME NEW c, IsCall(c), NEW x, NEW n \in Nat, Reached(c, x, n), x # <<>>,
         NEW i, i = Len(c.text) - Len(x) + 1,
         NEW s, s = Starts(c.at, c.text)
  PROVE  /\ i \in 1 .. Len(c.text) /\ Head(x) = c.text[i]
         /\ s[i] \in Nat /\ s[i + 1] \in Nat /\ s[i] <= n /\ n < s[i + 1]
         /\ s[i + 1] = After(s[i], c.text[i])
         /\ c.at <= n
         /\ \A j \in 1 .. Len(c.text) : n \in s[j] .. s[j + 1] - 1 => j = i
<1> DEFINE t == c.text  at == c.at
<1>1. /\ t \in Seq(STRING) /\ Len(t) \in Nat /\ at \in Nat /\ IsStarts(s, at, t)
  BY StartsIs, PageFacts, SMTT(30), Z3T(30) DEF IsCall
<1>2. /\ \A j \in 1 .. Len(t) : s[j] < s[j + 1]
      /\ \A j, k \in 1 .. Len(t) + 1 : j <= k => s[j] <= s[k]
  BY <1>1, StartsIncrease, SMTT(30), Z3T(30)
<1>3. x \in Seq(STRING) /\ Len(x) \in 1 .. Len(t)
  BY DEF Reached
<1>4. i \in 1 .. Len(t) /\ i \in 1 .. Len(t) + 1 /\ i + 1 \in 1 .. Len(t) + 1 /\ 1 \in 1 .. Len(t) + 1
  BY <1>1, <1>3, SMTT(30), Z3T(30)
<1>5. Head(x) = t[i]
  <2>1. x[1] = t[i + 1 - 1] /\ Head(x) = x[1]
    BY <1>3, SMTT(30), Z3T(30) DEF Reached
  <2> QED
    BY <1>4, <2>1, SMTT(30), Z3T(30)
<1>6. s[i] <= n /\ n < s[i + 1]
  BY DEF Reached
<1>7. s[i + 1] = After(s[i], t[i]) /\ s \in [1 .. Len(t) + 1 -> Nat] /\ s[1] = at
  BY <1>1, <1>4, ZenonT(30) DEF IsStarts
<1>8. at <= n
  <2>1. s[1] <= s[i]
    BY <1>2, <1>4, SMTT(30), Z3T(30)
  <2>2. s[1] \in Nat /\ s[i] \in Nat
    BY <1>4, <1>7, ZenonT(30)
  <2> QED
    BY <1>6, <1>7, <2>1, <2>2, SMTT(30), Z3T(30)
<1>9. ASSUME NEW j \in 1 .. Len(t), n \in s[j] .. s[j + 1] - 1 PROVE j = i
  <2>1. j \in 1 .. Len(t) + 1 /\ j + 1 \in 1 .. Len(t) + 1
    BY <1>1, SMTT(30), Z3T(30)
  <2>2. s[j] \in Nat /\ s[j + 1] \in Nat /\ s[i] \in Nat /\ s[i + 1] \in Nat
    BY <1>4, <1>7, <2>1, ZenonT(30)
  <2>3. s[j] <= n /\ n < s[j + 1]
    BY <1>9, <2>2, SMTT(30), Z3T(30)
  <2>4. CASE j < i
    <3>1. s[j + 1] <= s[i]
      <4>1. j + 1 <= i
        BY <1>4, <2>4, SMTT(30), Z3T(30)
      <4> DEFINE h == j + 1
      <4>2. h \in 1 .. Len(t) + 1 /\ h <= i
        BY <2>1, <4>1, SMTT(30), Z3T(30)
      <4> HIDE DEF h
      <4>3. s[h] <= s[i]
        BY <1>2, <1>4, <4>2, ZenonT(30)
      <4> QED
        BY <4>3, SMTT(30), Z3T(30) DEF h
    <3> QED
      BY <1>6, <2>2, <2>3, <3>1, SMTT(30), Z3T(30)
  <2>5. CASE i < j
    <3>1. s[i + 1] <= s[j]
      <4>1. i + 1 <= j
        BY <1>4, <2>5, SMTT(30), Z3T(30)
      <4> DEFINE h == i + 1
      <4>2. h \in 1 .. Len(t) + 1 /\ h <= j
        BY <1>4, <4>1
      <4> HIDE DEF h
      <4>3. s[h] <= s[j]
        BY <1>2, <2>1, <4>2, SMTT(30), Z3T(30)
      <4> QED
        BY <4>3 DEF h
    <3> QED
      BY <1>6, <2>2, <2>3, <3>1, SMTT(30), Z3T(30)
  <2> QED
    BY <1>4, <2>4, <2>5, SMTT(30), Z3T(30)
<1> QED
  BY <1>4, <1>5, <1>6, <1>7, <1>8, <1>9, ZenonT(30)

\* putc: one more cell is reached, and with the last of its cells the next
\* character.
LEMMA PutReaches ==
  ASSUME NEW c, IsCall(c), NEW x, NEW n \in Nat, Reached(c, x, n), x # <<>>,
         NEW y, y = IF Head(x) # "\n" \/ (n + 1) % CONSOLE_COLUMNS = 0 THEN Tail(x) ELSE x
  PROVE  Reached(c, y, n + 1)
<1> DEFINE t == c.text  s == Starts(c.at, t)  i == Len(t) - Len(x) + 1
<1>1. /\ i \in 1 .. Len(t) /\ Head(x) = t[i]
      /\ s[i] \in Nat /\ s[i + 1] \in Nat /\ s[i] <= n /\ n < s[i + 1]
      /\ s[i + 1] = After(s[i], t[i])
  BY AtHand, SMTT(30), Z3T(30)
<1>2. /\ x \in Seq(STRING) /\ Len(x) \in Nat /\ Len(x) <= Len(t) /\ Len(x) > 0
      /\ t \in Seq(STRING) /\ Len(t) \in Nat
      /\ \A j \in 1 .. Len(x) : x[j] = t[i + j - 1]
  BY SMTT(30), Z3T(30) DEF Reached, IsCall
<1>3. CASE Head(x) # "\n" \/ (n + 1) % CONSOLE_COLUMNS = 0
  <2>1. y = Tail(x) /\ y \in Seq(STRING) /\ Len(y) = Len(x) - 1
    <3>1. y = Tail(x)
      BY <1>3, Zenon
    <3>2. Tail(x) \in Seq(STRING) /\ Len(Tail(x)) = Len(x) - 1
      BY ONLY <1>2, SMTT(30), Z3T(30)
    <3> QED
      BY <3>1, <3>2, ZenonT(30)
  <2> DEFINE h == i + 1
  <2>2. Len(t) - Len(y) + 1 = h /\ Len(y) <= Len(t) /\ h \in Nat
    <3> HIDE DEF t
    <3> QED
      BY ONLY <1>1, <1>2, <2>1, SMTT(30), Z3T(30)
  <2>3. n + 1 = s[h]
    <3>1. CASE Head(x) # "\n"
      <4>1. s[i + 1] = s[i] + 1
        BY <1>1, <3>1, SMTT(30), Z3T(30) DEF After
      <4> HIDE DEF s, i, t
      <4> QED
        BY <1>1, <4>1, SMTT(30), Z3T(30)
    <3>2. CASE Head(x) = "\n"
      <4>1. (n + 1) % CONSOLE_COLUMNS = 0 /\ s[i + 1] = After(s[i], "\n")
        BY <1>1, <1>3, <3>2, SMTT(30), Z3T(30)
      <4> DEFINE a == s[i]
      <4>2. a \in Nat /\ a <= n /\ n < After(a, "\n")
        BY <1>1, <4>1, SMTT(30), Z3T(30)
      <4> HIDE DEF a
      <4>3. n + 1 = After(a, "\n")
        BY <4>1, <4>2, RowEnd, SMTT(30), Z3T(30)
      <4> QED
        BY <4>1, <4>3, SMTT(30), Z3T(30) DEF a
    <3> QED
      BY <3>1, <3>2
  <2>4. ASSUME NEW j \in 1 .. Len(y) PROVE y[j] = t[h + j - 1]
    <3>1. y[j] = x[j + 1] /\ j + 1 \in 1 .. Len(x) /\ i + (j + 1) - 1 = h + j - 1
      BY <1>1, <1>2, <2>1, SMTT(30), Z3T(30)
    <3> DEFINE k == j + 1
    <3>2. k \in 1 .. Len(x) /\ y[j] = x[k] /\ i + k - 1 = h + j - 1
      BY <3>1, SMTT(30), Z3T(30)
    <3> HIDE DEF k, h
    <3>3. x[k] = t[i + k - 1]
      BY <1>2, <3>2, SMTT(30), Z3T(30)
    <3> QED
      BY <3>2, <3>3, SMTT(30), Z3T(30)
  <2>5. y # <<>> => s[h] < s[h + 1]
    <3>1. y # <<>> => h \in 1 .. Len(t)
      <4>1. y # <<>> => Len(y) > 0
        BY <2>1, SMTT(30), Z3T(30)
      <4> QED
        BY <1>1, <1>2, <2>1, <4>1, SMTT(60), Z3T(60)
    <3>2. c.at \in Nat /\ IsStarts(s, c.at, t)
      BY StartsIs, PageFacts, SMTT(30), Z3T(30) DEF IsCall
    <3>3. \A j \in 1 .. Len(t) : s[j] < s[j + 1]
      BY <1>2, <3>2, StartsIncrease, SMTT(30), Z3T(30)
    <3> HIDE DEF h
    <3> QED
      BY <3>1, <3>3, SMTT(30), Z3T(30)
  <2>6. s[h] <= n + 1
    <3>1. n + 1 \in Nat
      BY SMTT(30), Z3T(30)
    <3> QED
      BY <2>3, <3>1
  <2>7. IF y = <<>> THEN n + 1 = s[h] ELSE n + 1 < s[h + 1]
    BY <2>3, <2>5, SMTT(30), Z3T(30)
  <2> HIDE DEF h, s
  <2>8. s = Starts(c.at, c.text) /\ h = Len(c.text) - Len(y) + 1
    BY <2>2 DEF s
  <2> QED
    BY <2>1, <2>2, <2>4, <2>6, <2>7, <2>8, ZenonT(30) DEF Reached
<1>4. CASE ~ (Head(x) # "\n" \/ (n + 1) % CONSOLE_COLUMNS = 0)
  <2>1. y = x
    BY <1>4, SMTT(30), Z3T(30)
  <2> DEFINE a == s[i]  b == s[i + 1]
  <2>2. a \in Nat /\ b \in Nat /\ a <= n /\ n < b /\ b = After(a, "\n")
    BY <1>1, <1>4, SMTT(30), Z3T(30)
  <2> HIDE DEF a, b
  <2>3. n + 1 # b
    BY <1>4, <2>2, RowEnd, SMTT(30), Z3T(30)
  <2>4. n + 1 < b /\ a <= n + 1
    BY <2>2, <2>3, SMTT(30), Z3T(30)
  <2> HIDE DEF i, s
  <2>5. s[i] <= n + 1 /\ n + 1 < s[i + 1]
    BY <2>4, SMTT(30), Z3T(30) DEF a, b
  <2>6. s = Starts(c.at, c.text) /\ i = Len(c.text) - Len(x) + 1
    BY SMTT(30), Z3T(30) DEF s, i
  <2> QED
    BY <1>2, <2>1, <2>5, <2>6, ZenonT(30) DEF Reached
<1> QED
  BY <1>3, <1>4, SMTT(30), Z3T(30)

\* putc: the cell it writes shows its position of the tape.
LEMMA PutShows ==
  ASSUME NEW c, IsCall(c), NEW x, NEW n \in Nat, Reached(c, x, n), x # <<>>,
         NEW R \in Nat, NEW f, DOMAIN f = Cells, Shown(c, n, R, f, 0),
         NEW k \in Cells, k = n - R,
         NEW g, g = [f EXCEPT ![k] = Glyph(Head(x))]
  PROVE  Shown(c, n + 1, R, g, 0)
<1> DEFINE t == c.text  s == Starts(c.at, t)  i == Len(t) - Len(x) + 1
<1>1. /\ i \in 1 .. Len(t) /\ Head(x) = t[i] /\ c.at <= n
      /\ \A j \in 1 .. Len(t) : n \in s[j] .. s[j + 1] - 1 => j = i
  <2>1. i = Len(c.text) - Len(x) + 1 /\ s = Starts(c.at, c.text)
    OBVIOUS
  <2> HIDE DEF i, s
  <2> QED
    BY ONLY <2>1, AtHand, IsCall(c), n \in Nat, Reached(c, x, n), x # <<>>, SMTT(60), Z3T(60)
<1>2. c.at \in Nat /\ END \in Nat /\ CONSOLE_COLUMNS \in Nat
  BY PageFacts DEF IsCall
<1>3. \A l \in Cells : l \in Nat /\ l < END
  BY <1>2 DEF Cells
<1> SUFFICES ASSUME NEW l \in Cells
             PROVE  OnTape(c, n + 1, IF l < 0 THEN l + R + CONSOLE_COLUMNS ELSE l + R, g[l])
  BY DEF Shown
<1>4. l \in Nat /\ (IF l < 0 THEN l + R + CONSOLE_COLUMNS ELSE l + R) = l + R
  BY <1>2, <1>3
<1> DEFINE a == l + R
<1>5. a \in Nat
  BY <1>4, SMTT(30), Z3T(30)
<1>6. CASE l = k
  <2>1. g[l] = Glyph(t[i]) /\ a = n
    BY <1>1, <1>3, <1>6, SMTT(30), Z3T(30)
  <2> HIDE DEF a
  <2>2. ~ (a < c.at) /\ ~ (a >= n + 1)
    BY <1>1, <1>2, <2>1, SMTT(30), Z3T(30)
  <2>3. ASSUME NEW j \in 1 .. Len(t), a \in s[j] .. s[j + 1] - 1
        PROVE  g[l] = IF t[j] = "\n" THEN " " ELSE t[j]
    <3>1. j = i
      BY <1>1, <2>1, <2>3, SMTT(30), Z3T(30)
    <3> QED
      BY <2>1, <3>1, ZenonT(30) DEF Glyph
  <2>4. OnTape(c, n + 1, a, g[l])
    BY <2>2, <2>3, ZenonT(30) DEF OnTape
  <2> QED
    BY <1>4, <2>4 DEF a
<1>7. CASE l # k
  <2>1. g[l] = f[l] /\ a # n
    BY <1>4, <1>7
  <2>2. OnTape(c, n, a, f[l])
    BY <1>4 DEF Shown
  <2> HIDE DEF a
  <2>3. (a < n + 1 => a < n) /\ (a >= n + 1 => a >= n)
    BY <1>5, <2>1, SMTT(30), Z3T(30)
  <2>4. OnTape(c, n + 1, a, g[l])
    BY <2>1, <2>2, <2>3, Zenon DEF OnTape
  <2> QED
    BY <1>4, <2>4 DEF a
<1> QED
  BY <1>6, <1>7, SMTT(30), Z3T(30)

\* scroll: every cell it copies or clears shows its place one row further on
\* the tape.
LEMMA ScrollShows ==
  ASSUME NEW c, IsCall(c), NEW n \in Nat, NEW R \in Nat, n = END + R,
         NEW f, DOMAIN f = Cells, NEW u \in Cells, Shown(c, n, R, f, u),
         NEW v, v = (IF u + CONSOLE_COLUMNS < END THEN f[u + CONSOLE_COLUMNS] ELSE Blank),
         NEW g, g = [f EXCEPT ![u] = v]
  PROVE  Shown(c, n, R, g, u + 1)
<1> DEFINE C == CONSOLE_COLUMNS
<1>1. c.at \in Nat /\ c.at <= END /\ END \in Nat /\ C \in Nat /\ C > 0
  BY PageFacts, SMTT(30), Z3T(30) DEF IsCall
<1>2. \A l \in Cells : l \in Nat /\ l < END
  BY <1>1, SMTT(30), Z3T(30) DEF Cells
<1> HIDE DEF C
<1>3. ASSUME NEW l \in Cells
      PROVE  OnTape(c, n, IF l < u + 1 THEN l + R + C ELSE l + R, g[l])
  <2>1. l \in Nat /\ u \in Nat /\ u < END
    BY <1>2, SMTT(30), Z3T(30)
  <2>2. CASE l = u
    <3>1. g[l] = v /\ (IF l < u + 1 THEN l + R + C ELSE l + R) = u + R + C
      BY <2>1, <2>2, SMTT(30), Z3T(30)
    <3>2. CASE u + C < END
      <4> DEFINE w == u + C
      <4>1. w \in Cells /\ ~ (w < u) /\ w + R = u + R + C /\ v = f[w]
        BY <1>1, <2>1, <3>2, SMTT(30), Z3T(30) DEF Cells, C
      <4> HIDE DEF w
      <4>2. OnTape(c, n, IF w < u THEN w + R + CONSOLE_COLUMNS ELSE w + R, f[w])
        BY <4>1, SMTT(30), Z3T(30) DEF Shown
      <4>3. OnTape(c, n, u + R + C, v)
        BY <4>1, <4>2, SMTT(30), Z3T(30)
      <4> QED
        BY <3>1, <4>3, SMTT(30), Z3T(30)
    <3>3. CASE ~ (u + C < END)
      <4> DEFINE a == u + R + C
      <4>1. v = Blank
        BY <3>3, SMTT(30), Z3T(30) DEF C
      <4>2. a \in Nat /\ a >= n /\ ~ (a < END) /\ ~ (a < n) /\ ~ (a < c.at)
        BY <1>1, <2>1, <3>3, SMTT(30), Z3T(30)
      <4> HIDE DEF a
      <4>3. OnTape(c, n, a, v)
        BY <4>1, <4>2, ZenonT(30) DEF OnTape
      <4> QED
        BY <3>1, <4>3 DEF a
    <3> QED
      BY <3>2, <3>3, SMTT(30), Z3T(30)
  <2>3. CASE l # u
    <3>1. g[l] = f[l] /\ (l < u + 1 <=> l < u)
      BY <2>1, <2>3, SMTT(30), Z3T(30)
    <3>2. OnTape(c, n, IF l < u THEN l + R + C ELSE l + R, f[l])
      BY SMTT(30), Z3T(30) DEF Shown, C
    <3> QED
      BY <3>1, <3>2, SMTT(30), Z3T(30)
  <2> QED
    BY <2>2, <2>3, SMTT(30), Z3T(30)
<1> QED
  BY <1>3, SMTT(30), Z3T(30) DEF Shown, C

\* After the last cell the page shows the tape one row further.
LEMMA ScrollEnds ==
  ASSUME NEW c, NEW n \in Nat, NEW R \in Nat, NEW f, Shown(c, n, R, f, END)
  PROVE  Shown(c, n, R + CONSOLE_COLUMNS, f, 0)
<1> DEFINE C == CONSOLE_COLUMNS
<1>1. END \in Nat /\ C \in Nat
  BY PageFacts, SMTT(30), Z3T(30)
<1> HIDE DEF C
<1>2. ASSUME NEW l \in Cells
      PROVE  OnTape(c, n, IF l < 0 THEN l + (R + C) + C ELSE l + (R + C), f[l])
  <2>1. l \in Nat /\ l < END /\ ~ (l < 0) /\ l + (R + C) = l + R + C
    BY <1>1, SMTT(30), Z3T(30) DEF Cells
  <2>2. OnTape(c, n, IF l < END THEN l + R + C ELSE l + R, f[l])
    BY SMTT(30), Z3T(30) DEF Shown, C
  <2> QED
    BY <2>1, <2>2, SMTT(30), Z3T(30)
<1> QED
  BY <1>2, SMTT(30), Z3T(30) DEF Shown, C

\* A printer's column is its column on the tape.
LEMMA SameColumn ==
  ASSUME NEW n \in Nat, NEW r \in Nat, NEW k \in Nat, k = n - r * CONSOLE_COLUMNS
  PROVE  (k + 1) % CONSOLE_COLUMNS = (n + 1) % CONSOLE_COLUMNS
<1> DEFINE C == CONSOLE_COLUMNS  b == k + 1
<1>1. C \in Nat /\ C > 0 /\ k = n - r * C
  BY PageFacts, SMTT(30), Z3T(30)
<1> HIDE DEF C
<1>2. r * C \in Nat
  BY <1>1, SMTT(30), Z3T(30)
<1>3. b \in Nat /\ n + 1 = b + r * C
  BY <1>1, <1>2, SMTT(30), Z3T(30)
<1> HIDE DEF b
<1>4. (b + r * C) % C = b % C
  <2> DEFINE q == b \div C  d == b % C  e == q + r  z == b + r * C
  <2>1. q \in Nat /\ d \in 0 .. C - 1 /\ b = q * C + d
    BY <1>1, <1>3, SMTT(30), Z3T(30)
  <2> HIDE DEF q, d
  <2>2. e * C = q * C + r * C /\ q * C \in Nat /\ e \in Nat
    BY <1>1, <2>1, SMTT(30), Z3T(30)
  <2> HIDE DEF e
  <2>3. z = e * C + d /\ z \in Nat /\ e * C \in Nat
    BY <1>2, <2>1, <2>2, SMTT(30), Z3T(30)
  <2> HIDE DEF z
  <2>4. z % C = d
    BY <1>1, <2>1, <2>2, <2>3, SMTT(30), Z3T(30)
  <2> QED
    BY <2>4, SMTT(30), Z3T(30) DEF z, d
<1> QED
  BY <1>3, <1>4, SMTT(30), Z3T(30) DEF b, C

\* The rows that have left are as few as the end of the text takes.
LEMMA RowsLeft ==
  ASSUME NEW n \in Nat, NEW R \in Nat, NEW k \in 0 .. END, Moved(<<>>, k, n, R)
  PROVE  R = Rows(n) * CONSOLE_COLUMNS
<1> DEFINE C == CONSOLE_COLUMNS
<1>1. C \in Nat /\ C > 0 /\ END \in Nat /\ k \in Nat /\ k <= END
  BY PageFacts, SMTT(30), Z3T(30)
<1>2. PICK r \in Nat : R = r * C
  BY SMTT(30), Z3T(30) DEF Moved
<1>3. k = n - R /\ (R > 0 => k + C > END)
  BY SMTT(30), Z3T(30) DEF Moved
<1> HIDE DEF C
<1>4. CASE n <= END
  <2>1. r = 0
    <3>1. r > 0 => r * C >= C
      BY <1>1, SMTT(30), Z3T(30)
    <3> QED
      BY <1>1, <1>2, <1>3, <1>4, <3>1, SMTT(30), Z3T(30)
  <2>2. Rows(n) = 0
    BY <1>4, SMTT(30), Z3T(30) DEF Rows
  <2> QED
    BY <1>1, <1>2, <2>1, <2>2, SMTT(30), Z3T(30) DEF C
<1>5. CASE ~ (n <= END)
  <2> DEFINE d == n - END + C - 1
  <2>1. R > 0
    BY <1>1, <1>3, <1>5, SMTT(30), Z3T(30)
  <2>2. d \in Nat /\ R <= d /\ d < R + C
    BY <1>1, <1>3, <1>5, <2>1, SMTT(30), Z3T(30)
  <2> HIDE DEF d
  <2>3. d \div C = r
    <3>1. r * C <= d /\ d < r * C + C /\ r * C \in Nat
      BY <1>2, <2>2, SMTT(30), Z3T(30)
    <3> QED
      BY <1>1, <2>2, <3>1, SMTT(30), Z3T(30)
  <2>4. Rows(n) = d \div C
    BY <1>5, SMTT(30), Z3T(30) DEF Rows, d, C
  <2> QED
    BY <1>2, <2>3, <2>4, SMTT(30), Z3T(30) DEF C
<1> QED
  BY <1>4, <1>5, SMTT(30), Z3T(30)


-----------------------------------------------------------------------------
(* The invariant: every call that is alone is where its text says.          *)

CallTypes ==
  /\ DOMAIN call = Procs /\ \A p \in Procs : IsCall(call[p])
  /\ text \in [Procs -> Seq(STRING)]

\* The cells a process has scrolled.
Upto(p) == IF pc[p] = "scroll" THEN copied[p] ELSE 0

OnItsWay(p) ==
  \E n, R \in Nat :
    /\ Reached(call[p], text[p], n)
    /\ Moved(text[p], cell[p], n, R)
    /\ Shown(call[p], n, R, console, Upto(p))

Prints ==
  /\ CallTypes
  /\ \A p \in Procs : pc[p] = "scroll" => text[p] # <<>>
  /\ \A p \in Procs : call[p].alone => pc[p] # "idle" /\ OnItsWay(p)

PInv == CInv /\ Prints

\* A call that is not followed is none.
LEMMA NoCallFacts == IsCall(NoCall) /\ ~ NoCall.alone
<1>1. NoCall.text = <<>> /\ NoCall.at = 0 /\ NoCall.alone = FALSE
  BY SMTT(30), Z3T(30) DEF NoCall
<1>2. <<>> \in Seq(STRING) /\ 0 \in 0 .. END
  BY PageFacts, SMTT(30), Z3T(30)
<1> QED
  BY <1>1, <1>2, SMTT(30), Z3T(30) DEF IsCall

\* An empty console has no call to follow.
LEMMA PInitInv == CInit => PInv
<1> SUFFICES ASSUME CInit PROVE PInv
  OBVIOUS
<1>1. CInv
  BY CInitInv, SMTT(30), Z3T(30)
<1>2. \A p \in Procs : call[p] = NoCall /\ pc[p] = "idle" /\ text[p] = <<>>
  BY ZenonT(30) DEF CInit
<1>3. CallTypes
  <2>0. <<>> \in Seq(STRING)
    OBVIOUS
  <2>1. DOMAIN call = Procs /\ text \in [Procs -> Seq(STRING)]
    BY <2>0, ZenonT(30) DEF CInit
  <2> QED
    BY <1>2, <2>1, NoCallFacts, SMTT(30), Z3T(30) DEF CallTypes
<1>4. \A p \in Procs : pc[p] # "scroll" /\ ~ call[p].alone
  BY <1>2, NoCallFacts, SMTT(30), Z3T(30)
<1> QED
  BY <1>1, <1>3, <1>4, SMTT(30), Z3T(30) DEF PInv, Prints

\* What a call is followed by is a matter of the page and its own printer.
LEMMA StaysOnItsWay ==
  ASSUME NEW p \in Procs, OnItsWay(p), call'[p] = call[p], text'[p] = text[p],
         cell'[p] = cell[p], pc'[p] = pc[p], copied'[p] = copied[p], console' = console
  PROVE  OnItsWay(p)'
BY SMTT(30), Z3T(30) DEF OnItsWay, Upto

\* What the steps of one process do to the calls of the others: they go on, or
\* are followed no further.
LEMMA OthersKept ==
  ASSUME PInv, NEW p \in Procs,
         text' \in [Procs -> Seq(STRING)], DOMAIN call' = Procs, IsCall(call'[p]),
         \A q \in Others(p) :
           /\ text'[q] = text[q] /\ cell'[q] = cell[q] /\ pc'[q] = pc[q] /\ copied'[q] = copied[q]
           /\ call'[q] = NoCall \/ (call'[q] = call[q] /\ console' = console),
         pc'[p] = "scroll" => text'[p] # <<>>,
         call'[p].alone => pc'[p] # "idle" /\ OnItsWay(p)'
  PROVE  Prints'
<1>1. \A q \in Procs : q = p \/ q \in Others(p)
  BY SMTT(30), Z3T(30) DEF Others
<1>2. CallTypes'
  <2>1. ASSUME NEW q \in Procs PROVE IsCall(call'[q])
    BY <1>1, NoCallFacts, SMTT(30), Z3T(30) DEF PInv, Prints, CallTypes
  <2> QED
    BY <2>1, SMTT(30), Z3T(30) DEF CallTypes
<1>3. ASSUME NEW q \in Procs, pc'[q] = "scroll" PROVE text'[q] # <<>>
  BY <1>1, <1>3, SMTT(30), Z3T(30) DEF PInv, Prints
<1>4. ASSUME NEW q \in Procs, call'[q].alone PROVE pc'[q] # "idle" /\ OnItsWay(q)'
  <2>1. CASE q = p
    BY <1>4, <2>1, SMTT(30), Z3T(30)
  <2>2. CASE q \in Others(p)
    <3>1. call'[q] = call[q] /\ console' = console
      BY <1>4, <2>2, NoCallFacts, SMTT(30), Z3T(30)
    <3>2. pc[q] # "idle" /\ OnItsWay(q)
      BY <1>4, <3>1, SMTT(30), Z3T(30) DEF PInv, Prints
    <3>3. OnItsWay(q)'
      BY <2>2, <3>1, <3>2, StaysOnItsWay, SMTT(30), Z3T(30)
    <3> QED
      BY <2>2, <3>2, <3>3, SMTT(30), Z3T(30)
  <2> QED
    BY <1>1, <2>1, <2>2, SMTT(30), Z3T(30)
<1> QED
  BY <1>2, <1>3, <1>4, SMTT(30), Z3T(30) DEF Prints

\* The printer's constructor starts a call on its way, and disturbs none.
LEMMA BeginPrints ==
  ASSUME PInv, NEW p \in Procs, NEW t \in Texts, Begin(p, t)
  PROVE  Prints'
<1> DEFINE c == [text |-> t, at |-> cursorpos, found |-> console, alone |-> TRUE]
<1>1. /\ DOMAIN call = Procs
      /\ text \in [Procs -> Seq(STRING)] /\ pc \in [Procs -> {"idle", "put", "scroll"}]
      /\ cell \in [Procs -> 0 .. END] /\ cursorpos \in 0 .. END /\ t \in Seq(STRING)
  BY ConsoleAssumption, SMTT(30), Z3T(30) DEF PInv, Prints, CallTypes, CInv, CTypeOK
<1>2. c.text = t /\ c.at = cursorpos /\ c.found = console
  BY SMTT(30), Z3T(30)
<1>3. /\ call' = [call EXCEPT ![p] = c] /\ text' = [text EXCEPT ![p] = t]
      /\ cell' = [cell EXCEPT ![p] = cursorpos] /\ pc' = [pc EXCEPT ![p] = "put"]
      /\ console' = console /\ copied' = copied
  BY SMTT(30), Z3T(30) DEF Begin
<1> HIDE DEF c
<1>4. call'[p] = c /\ text'[p] = t /\ cell'[p] = cursorpos /\ pc'[p] = "put" /\ DOMAIN call' = Procs
  BY <1>1, <1>3, SMTT(30), Z3T(30)
<1>5. IsCall(c)
  BY <1>1, <1>2, SMTT(30), Z3T(30) DEF IsCall
<1>6. /\ Reached(c, c.text, c.at) /\ Moved(c.text, c.at, c.at, 0)
      /\ Shown(c, c.at, 0, c.found, 0)
  BY <1>5, BeginsRight, SMTT(30), Z3T(30)
<1>7. OnItsWay(p)'
  <2>1. c.at \in Nat /\ 0 \in Nat
    BY <1>1, <1>2, PageFacts, SMTT(30), Z3T(30)
  <2>2. Upto(p)' = 0
    BY <1>4, SMTT(30), Z3T(30) DEF Upto
  <2>3. /\ Reached(call'[p], text'[p], c.at) /\ Moved(text'[p], cell'[p], c.at, 0)
        /\ Shown(call'[p], c.at, 0, console', Upto(p)')
    BY <1>2, <1>3, <1>4, <1>6, <2>2, SMTT(30), Z3T(30)
  <2> QED
    BY <2>1, <2>3, SMTT(30), Z3T(30) DEF OnItsWay
<1>8. text' \in [Procs -> Seq(STRING)]
  BY <1>1, <1>3, SMTT(30), Z3T(30)
<1>9. \A q \in Others(p) :
        /\ text'[q] = text[q] /\ cell'[q] = cell[q] /\ pc'[q] = pc[q] /\ copied'[q] = copied[q]
        /\ call'[q] = call[q]
  BY <1>1, <1>3, SMTT(30), Z3T(30) DEF Others
<1> QED
  BY <1>3, <1>4, <1>5, <1>7, <1>8, <1>9, OthersKept, SMTT(30), Z3T(30)

\* The calls of others are not alone once a process has written to the page or
\* moved the cursor.
LEMMA Disturbed ==
  ASSUME NEW p \in Procs, DOMAIN call = Procs
  PROVE  /\ DOMAIN Disturb(Others(p)) = Procs
         /\ Disturb(Others(p))[p] = call[p]
         /\ \A q \in Others(p) : Disturb(Others(p))[q] = NoCall
BY SMTT(30), Z3T(30) DEF Disturb, Others

\* putc keeps its call on its way and disturbs the others.
LEMMA PutcPrints ==
  ASSUME PInv, NEW p \in Procs, Putc(p)
  PROVE  Prints'
<1> DEFINE c == call[p]  x == text[p]  k == cell[p]
           y == IF Head(x) # "\n" \/ (k + 1) % CONSOLE_COLUMNS = 0 THEN Tail(x) ELSE x
<1>1. /\ DOMAIN call = Procs /\ IsCall(c) /\ x \in Seq(STRING)
      /\ text \in [Procs -> Seq(STRING)] /\ pc \in [Procs -> {"idle", "put", "scroll"}]
      /\ cell \in [Procs -> 0 .. END] /\ DOMAIN console = Cells
  BY DEF PInv, Prints, CallTypes, CInv, CTypeOK
<1>2. /\ pc[p] = "put" /\ x # <<>> /\ ~ (k >= END)
      /\ console' = [console EXCEPT ![k] = Glyph(Head(x))]
      /\ cell' = [cell EXCEPT ![p] = k + 1]
      /\ text' = [text EXCEPT ![p] = y]
      /\ call' = Disturb(Others(p)) /\ pc' = pc /\ copied' = copied
  BY ZenonT(30) DEF Putc, NeedsScroll, Glyph
<1>3. k \in Nat /\ k \in Cells
  BY <1>1, <1>2, PageFacts, SMTT(30), Z3T(30) DEF Cells
<1>4. y \in Seq(STRING)
  <2>1. Tail(x) \in Seq(STRING)
    BY <1>1, <1>2, SMTT(30), Z3T(30)
  <2> QED
    BY <1>1, <2>1, ZenonT(30)
<1> HIDE DEF y
<1>5. /\ text' \in [Procs -> Seq(STRING)] /\ text'[p] = y /\ cell'[p] = k + 1 /\ pc'[p] = "put"
      /\ DOMAIN call' = Procs /\ call'[p] = c
      /\ \A q \in Others(p) :
           /\ text'[q] = text[q] /\ cell'[q] = cell[q] /\ pc'[q] = pc[q] /\ copied'[q] = copied[q]
           /\ call'[q] = NoCall
  <2>1. \A q \in Others(p) : q \in Procs /\ q # p
    BY SMTT(30), Z3T(30) DEF Others
  <2> QED
    BY <1>1, <1>2, <1>4, <2>1, Disturbed, SMTT(30), Z3T(30)
<1>6. ASSUME call'[p].alone PROVE OnItsWay(p)'
  <2>1. PICK n, R \in Nat :
          Reached(c, x, n) /\ Moved(x, k, n, R) /\ Shown(c, n, R, console, 0)
    <3>1. OnItsWay(p) /\ Upto(p) = 0
      BY <1>2, <1>5, <1>6, SMTT(30), Z3T(30) DEF PInv, Prints, Upto
    <3> QED
      BY <3>1, SMTT(30), Z3T(30) DEF OnItsWay
  <2>2. PICK r \in Nat : R = r * CONSOLE_COLUMNS
    BY <2>1, SMTT(30), Z3T(30) DEF Moved
  <2>3. k = n - R /\ (R > 0 => k + CONSOLE_COLUMNS >= END)
    BY <2>1, SMTT(30), Z3T(30) DEF Moved
  <2>4. (k + 1) % CONSOLE_COLUMNS = (n + 1) % CONSOLE_COLUMNS
    BY <1>3, <2>2, <2>3, SameColumn, SMTT(30), Z3T(30)
  <2>5. Reached(c, y, n + 1)
    <3>1. y = IF Head(x) # "\n" \/ (n + 1) % CONSOLE_COLUMNS = 0 THEN Tail(x) ELSE x
      BY <2>4, SMTT(30), Z3T(30) DEF y
    <3> HIDE DEF c, x, k
    <3> QED
      BY <1>1, <1>2, <2>1, <3>1, PutReaches, ZenonT(30)
  <2>6. Shown(c, n + 1, R, console', 0)
    <3> HIDE DEF c, x, k
    <3> QED
      BY <1>1, <1>2, <1>3, <2>1, <2>3, PutShows, ZenonT(30)
  <2>7. Moved(y, k + 1, n + 1, R)
    <3>1. k + 1 = n + 1 - R /\ (R > 0 => k + 1 + CONSOLE_COLUMNS > END /\ k + 1 + CONSOLE_COLUMNS >= END)
      BY <1>3, <2>3, PageFacts
    <3> QED
      BY <2>2, <3>1, SMTT(30), Z3T(30) DEF Moved
  <2>8. Upto(p)' = 0 /\ n + 1 \in Nat
    BY <1>5, SMTT(30), Z3T(30) DEF Upto
  <2>9. /\ Reached(call'[p], text'[p], n + 1) /\ Moved(text'[p], cell'[p], n + 1, R)
        /\ Shown(call'[p], n + 1, R, console', Upto(p)')
    BY <1>5, <2>5, <2>6, <2>7, <2>8, SMTT(30), Z3T(30)
  <2> QED
    BY <2>8, <2>9, SMTT(30), Z3T(30) DEF OnItsWay
<1> QED
  BY <1>1, <1>5, <1>6, OthersKept, SMTT(30), Z3T(30)

\* A printer at the end of the page has copied nothing yet.
LEMMA StartScrollPrints ==
  ASSUME PInv, NEW p \in Procs, StartScroll(p)
  PROVE  Prints'
<1>1. /\ DOMAIN call = Procs /\ IsCall(call[p])
      /\ text \in [Procs -> Seq(STRING)] /\ pc \in [Procs -> {"idle", "put", "scroll"}]
      /\ copied \in [Procs -> 0 .. END]
  BY SMTT(30), Z3T(30) DEF PInv, Prints, CallTypes, CInv, CTypeOK
<1>2. /\ pc[p] = "put" /\ text[p] # <<>>
      /\ pc' = [pc EXCEPT ![p] = "scroll"] /\ copied' = [copied EXCEPT ![p] = 0]
      /\ console' = console /\ text' = text /\ cell' = cell /\ call' = call
  BY DEF StartScroll, NeedsScroll
<1>3. /\ pc'[p] = "scroll" /\ copied'[p] = 0
      /\ \A q \in Others(p) : pc'[q] = pc[q] /\ copied'[q] = copied[q]
  BY <1>1, <1>2, SMTT(30), Z3T(30) DEF Others
<1>4. ASSUME call'[p].alone PROVE OnItsWay(p)'
  <2>1. OnItsWay(p)
    BY <1>2, <1>4, SMTT(30), Z3T(30) DEF PInv, Prints
  <2>2. Upto(p) = 0 /\ Upto(p)' = 0
    BY <1>2, <1>3, SMTT(30), Z3T(30) DEF Upto
  <2> QED
    BY <1>2, <2>1, <2>2, SMTT(30), Z3T(30) DEF OnItsWay
<1> QED
  BY <1>1, <1>2, <1>3, <1>4, OthersKept, SMTT(30), Z3T(30)

\* scroll keeps its call on its way, cell by cell and when it moves up a row.
LEMMA ScrollPrints ==
  ASSUME PInv, NEW p \in Procs, Scroll(p)
  PROVE  Prints'
<1> DEFINE c == call[p]  x == text[p]  k == cell[p]  u == copied[p]
<1>1. /\ DOMAIN call = Procs /\ IsCall(c) /\ x \in Seq(STRING) /\ x # <<>>
      /\ text \in [Procs -> Seq(STRING)] /\ pc \in [Procs -> {"idle", "put", "scroll"}]
      /\ cell \in [Procs -> 0 .. END] /\ DOMAIN console = Cells
      /\ copied \in [Procs -> 0 .. END] /\ k = END /\ u < END
  BY SMTT(30), Z3T(30) DEF PInv, Prints, CallTypes, CInv, CTypeOK, ScrollsAtEnd, Scroll
<1>2. /\ pc[p] = "scroll"
      /\ console' = [console EXCEPT ![u] = Scrolled(u)]
      /\ copied' = [copied EXCEPT ![p] = u + 1]
      /\ IF u + 1 = END
         THEN pc' = [pc EXCEPT ![p] = "put"] /\ cell' = [cell EXCEPT ![p] = k - CONSOLE_COLUMNS]
         ELSE pc' = pc /\ cell' = cell
      /\ call' = Disturb(Others(p)) /\ text' = text
  BY DEF Scroll
<1>3. u \in Nat /\ u \in Cells /\ END \in Nat /\ CONSOLE_COLUMNS \in Nat /\ CONSOLE_COLUMNS > 0
  BY <1>1, PageFacts DEF Cells
<1>4. /\ DOMAIN call' = Procs /\ call'[p] = c /\ copied'[p] = u + 1 /\ pc'[p] # "idle"
      /\ u + 1 = END => pc'[p] = "put" /\ cell'[p] = k - CONSOLE_COLUMNS
      /\ u + 1 # END => pc'[p] = "scroll" /\ cell'[p] = k
      /\ \A q \in Others(p) :
           /\ text'[q] = text[q] /\ cell'[q] = cell[q] /\ pc'[q] = pc[q] /\ copied'[q] = copied[q]
           /\ call'[q] = NoCall
  <2>1. \A q \in Others(p) : q \in Procs /\ q # p
    BY DEF Others
  <2>2. CASE u + 1 = END
    BY <1>1, <1>2, <2>1, <2>2, Disturbed, SMTT(30), Z3T(30)
  <2>3. CASE u + 1 # END
    BY <1>1, <1>2, <2>1, <2>3, Disturbed, SMTT(30), Z3T(30)
  <2> QED
    BY <2>2, <2>3, SMTT(30), Z3T(30)
<1>5. ASSUME call'[p].alone PROVE OnItsWay(p)'
  <2>1. PICK n, R \in Nat :
          Reached(c, x, n) /\ Moved(x, k, n, R) /\ Shown(c, n, R, console, u)
    <3>1. OnItsWay(p) /\ Upto(p) = u
      BY <1>2, <1>4, <1>5, SMTT(30), Z3T(30) DEF PInv, Prints, Upto
    <3> QED
      BY <3>1, SMTT(30), Z3T(30) DEF OnItsWay
  <2>2. PICK r \in Nat : R = r * CONSOLE_COLUMNS
    BY <2>1, SMTT(30), Z3T(30) DEF Moved
  <2>3. k = n - R /\ n = END + R
    BY <1>1, <1>3, <2>1, SMTT(30), Z3T(30) DEF Moved
  <2>4. Shown(c, n, R, console', u + 1)
    <3>1. console' = [console EXCEPT ![u] =
             IF u + CONSOLE_COLUMNS < END THEN console[u + CONSOLE_COLUMNS] ELSE Blank]
      BY <1>2, SMTT(30), Z3T(30) DEF Scrolled
    <3> HIDE DEF c, u
    <3> QED
      BY <1>1, <1>3, <2>1, <2>3, <3>1, ScrollShows, ZenonT(30)
  <2>5. CASE u + 1 # END
    <3>1. Upto(p)' = u + 1 /\ text'[p] = x
      BY <1>2, <1>4, <2>5, SMTT(30), Z3T(30) DEF Upto
    <3> QED
      BY <1>4, <2>1, <2>4, <2>5, <3>1, SMTT(30), Z3T(30) DEF OnItsWay
  <2>6. CASE u + 1 = END
    <3> DEFINE S == R + CONSOLE_COLUMNS
    <3>1. S \in Nat /\ S = (r + 1) * CONSOLE_COLUMNS /\ r + 1 \in Nat
      BY <1>3, <2>2, SMTT(30), Z3T(30)
    <3>2. Shown(c, n, S, console', 0)
      BY <2>4, <2>6, ScrollEnds, SMTT(30), Z3T(30)
    <3>3. Moved(x, k - CONSOLE_COLUMNS, n, S)
      <4>1. k - CONSOLE_COLUMNS = n - S /\ k - CONSOLE_COLUMNS + CONSOLE_COLUMNS >= END
        BY <1>1, <1>3, <2>3, SMTT(30), Z3T(30)
      <4> QED
        BY <1>1, <3>1, <4>1, SMTT(30), Z3T(30) DEF Moved
    <3>4. Upto(p)' = 0 /\ text'[p] = x
      BY <1>2, <1>4, <2>6, SMTT(30), Z3T(30) DEF Upto
    <3> HIDE DEF S
    <3> QED
      BY <1>4, <2>1, <2>6, <3>1, <3>2, <3>3, <3>4, SMTT(30), Z3T(30) DEF OnItsWay
  <2> QED
    BY <2>5, <2>6, SMTT(30), Z3T(30)
<1> QED
  BY <1>1, <1>2, <1>4, <1>5, OthersKept, ZenonT(30)

\* A call that returns is followed no further, nor are those it moved the
\* cursor under.
LEMMA EndPrints ==
  ASSUME PInv, NEW p \in Procs, End(p)
  PROVE  Prints'
<1>1. /\ DOMAIN call = Procs
      /\ text \in [Procs -> Seq(STRING)] /\ pc \in [Procs -> {"idle", "put", "scroll"}]
      /\ cell \in [Procs -> 0 .. END] /\ copied \in [Procs -> 0 .. END]
  BY SMTT(30), Z3T(30) DEF PInv, Prints, CallTypes, CInv, CTypeOK
<1>2. /\ pc' = [pc EXCEPT ![p] = "idle"] /\ cell' = [cell EXCEPT ![p] = 0]
      /\ copied' = [copied EXCEPT ![p] = 0] /\ text' = text
      /\ call' = [Disturb(Others(p)) EXCEPT ![p] = NoCall]
  BY DEF End
<1>3. \A q \in Others(p) : q \in Procs /\ q # p
  BY DEF Others
<1>4. /\ pc'[p] = "idle"
      /\ \A q \in Others(p) :
           cell'[q] = cell[q] /\ pc'[q] = pc[q] /\ copied'[q] = copied[q]
  BY <1>1, <1>2, <1>3, SMTT(30), Z3T(30)
<1>5. /\ DOMAIN call' = Procs /\ call'[p] = NoCall
      /\ \A q \in Others(p) : call'[q] = NoCall
  BY <1>1, <1>2, <1>3, Disturbed, SMTT(30), Z3T(30)
<1> QED
  BY <1>1, <1>2, <1>4, <1>5, NoCallFacts, OthersKept, ZenonT(30)

\* The kernel's messages disturb every call.
LEMMA KernelPrints ==
  ASSUME PInv, NEW cpos, NEW t, KernelPrint(cpos, t)
  PROVE  Prints'
<1>1. /\ call' = Disturb(Procs) /\ text' = text /\ pc' = pc
      /\ text \in [Procs -> Seq(STRING)] /\ \A p \in Procs : pc[p] = "scroll" => text[p] # <<>>
  BY SMTT(30), Z3T(30) DEF KernelPrint, PInv, Prints, CallTypes
<1>2. DOMAIN call' = Procs /\ \A p \in Procs : call'[p] = NoCall
  BY <1>1, SMTT(30), Z3T(30) DEF Disturb
<1> QED
  BY <1>1, <1>2, NoCallFacts, SMTT(30), Z3T(30) DEF Prints, CallTypes

\* Every step keeps every call that is alone on its way.
LEMMA PNextInv == PInv /\ [CNext]_cvars => PInv'
<1> SUFFICES ASSUME PInv, [CNext]_cvars PROVE Prints'
  BY CNextInv, SMTT(30), Z3T(30) DEF PInv
<1>1. CASE UNCHANGED cvars
  <2>1. \A p \in Procs : OnItsWay(p) => OnItsWay(p)'
    BY <1>1, StaysOnItsWay, SMTT(30), Z3T(30) DEF cvars
  <2> QED
    BY <1>1, <2>1, SMTT(30), Z3T(30) DEF cvars, PInv, Prints, CallTypes
<1> QED
  BY <1>1, BeginPrints, PutcPrints, StartScrollPrints, ScrollPrints, EndPrints, KernelPrints, SMTT(30), Z3T(30)
     DEF CNext

\* When its text is printed, a call that was alone has left it on the page.
LEMMA InvPrints == PInv => PrintsItsText
<1> SUFFICES ASSUME PInv, NEW p \in Procs,
                    pc[p] = "put", text[p] = <<>>, call[p].alone,
                    NEW n, n = Starts(call[p].at, call[p].text)[Len(call[p].text) + 1],
                    NEW top, top = Rows(n) * CONSOLE_COLUMNS
             PROVE  /\ cell[p] = n - top
                    /\ \A k \in Cells : OnTape(call[p], n, k + top, console[k])
  BY SMTT(30), Z3T(30) DEF PrintsItsText
<1>1. OnItsWay(p) /\ Upto(p) = 0 /\ cell[p] \in 0 .. END /\ IsCall(call[p])
  BY SMTT(30), Z3T(30) DEF PInv, Prints, Upto, CInv, CTypeOK, CallTypes
<1>2. PICK m, R \in Nat :
        /\ Reached(call[p], <<>>, m) /\ Moved(<<>>, cell[p], m, R)
        /\ Shown(call[p], m, R, console, 0)
  BY <1>1, SMTT(30), Z3T(30) DEF OnItsWay
<1>3. m = n
  <2>1. Len(call[p].text) - Len(<<>>) + 1 = Len(call[p].text) + 1
    BY <1>1, SMTT(30), Z3T(30) DEF IsCall
  <2> QED
    BY <1>2, <2>1, SMTT(30), Z3T(30) DEF Reached
<1>4. R = top
  BY <1>1, <1>2, <1>3, RowsLeft, SMTT(30), Z3T(30)
<1>5. cell[p] = n - top
  BY <1>2, <1>3, <1>4, SMTT(30), Z3T(30) DEF Moved
<1>6. ASSUME NEW k \in Cells PROVE OnTape(call[p], n, k + top, console[k])
  <2>1. ~ (k < 0)
    BY PageFacts, SMTT(30), Z3T(30) DEF Cells
  <2> QED
    BY <1>2, <1>3, <1>4, <2>1, ZenonT(30) DEF Shown
<1> QED
  BY <1>5, <1>6, SMTT(30), Z3T(30)

\* What a process prints while nobody else does is on the page as its text
\* says, with the oldest rows scrolled off, for every size of the page, all
\* texts and whatever the others are in the middle of.
THEOREM PagesShowTexts == CSpec => []PrintsItsText
BY PInitInv, PNextInv, InvPrints, PTL DEF CSpec
=============================================================================
