----------------------------- MODULE Algorithms -----------------------------
(***************************************************************************)
(* Calls of the algorithms of the other modules, one at a time, with every *)
(* input from small sets, and what their results must be.  `call` records  *)
(* the function, its arguments and its result.                             *)
(***************************************************************************)
EXTENDS Strings, Printf, Loader, Pci, Backtrace

CONSTANTS Memories,     \* contents of memory for copies
          Strings2,     \* memory with a string at 0 and one at SECOND
          SECOND,
          NumberTexts,  \* texts to be read as numbers
          Specs,        \* flags, width, precision of a conversion
          Arguments,    \* numbers to be printed
          Pieces,       \* parts of formats with their arguments
          Messages,     \* texts for buffers
          Arrays,       \* arrays to be compared
          Kernels,      \* the kernel's file as it is linked
          Files,        \* files for the disk
          Images,       \* program images
          Devices,      \* PCI devices
          Stacks        \* memory, mapped pages and registers for backtraces

VARIABLE call

JUNK     == -3       \* memory nobody has written
BOOTCODE == -4

None == [fn |-> "none"]

AInit == call = None

\* The caller's side of a copy: what is read and written is memory, and
\* strings that are copied do not overlap.
CopyFits(f, m, dst, src, n) ==
  LET len == IF f = "strcpy" THEN strlen(m, src) + 1 ELSE n
  IN /\ dst + len - 1 \in DOMAIN m
     /\ src + len - 1 \in DOMAIN m
     /\ f \in {"strcpy", "strncpy"} => dst + len <= src \/ src + len <= dst

CallCopy ==
  \E m \in Memories : \E dst, src \in DOMAIN m, n \in DOMAIN m,
     f \in {"memcpy", "memmove", "strcpy", "strncpy"} :
    /\ f = "strcpy" => n = 0
    /\ CopyFits(f, m, dst, src, n)
    /\ call' = [fn |-> f, m |-> m, dst |-> dst, src |-> src, n |-> n,
                out |-> CASE f = "memcpy"  -> memcpy(m, dst, src, n)
                          [] f = "memmove" -> memmove(m, dst, src, n)
                          [] f = "strcpy"  -> strcpy(m, dst, src)
                          [] OTHER         -> strncpy(m, dst, src, n)]

CallCompare ==
  \E m \in Strings2, n \in 0 .. SECOND, c \in {0, 97, 97 + 256},
     f \in {"memcmp", "strcmp", "strncmp", "strcasecmp", "strncasecmp", "memchr", "strchr"} :
    /\ f \notin {"memchr", "strchr"} => c = 0
    /\ call' = [fn |-> f, m |-> m, n |-> n, c |-> c,
                out |-> CASE f = "memcmp"      -> memcmp(m, 0, SECOND, n)
                          [] f = "strcmp"      -> strcmp(m, 0, SECOND)
                          [] f = "strncmp"     -> strncmp(m, 0, SECOND, n)
                          [] f = "strcasecmp"  -> strcasecmp(m, 0, SECOND)
                          [] f = "strncasecmp" -> strncasecmp(m, 0, SECOND, n)
                          [] f = "memchr"      -> memchr(m, 0, c, n)
                          [] OTHER             -> strchr(m, 0, c)]

CallParse ==
  \E s \in NumberTexts, base \in {0, 10, 16}, f \in {"strtol", "strtoul"} :
    call' = [fn |-> f, s |-> s, base |-> base,
             out |-> IF f = "strtol" THEN strtol(s, base) ELSE strtoul(s, 1, base)]

CallFormat ==
  \E spec \in Specs, x \in Arguments :
    /\ spec.long \/ x \in -(UINT \div 2) .. UINT \div 2 - 1
    /\ call' = [fn |-> "format", spec |-> spec, x |-> x,
                out |-> Text(spec.f, <<x>>), bare |-> Text(spec.bare, <<x>>)]

CallPrintf ==
  \E p, q, r \in Pieces :
    call' = [fn |-> "printf", p |-> p, q |-> q, r |-> r,
             out |-> vprintf(0, p.f \o q.f \o r.f, p.args \o q.args \o r.args)]

CallBuffer ==
  \E t \in Messages, size \in 0 .. 4 :
    LET m == [a \in 0 .. 7 |-> BEYOND]
    IN call' = [fn |-> "vsnprintf", t |-> t, size |-> size, m |-> m,
                out |-> vsnprintf(m, 1, size, t)]

CallPanic ==
  \E t \in Messages :
    LET m == [a \in 0 .. PREFIX + Len(t) + PANICBUF |-> BEYOND]
    IN call' = [fn |-> "panic", t |-> t, m |-> m, out |-> panic(m, t)]

CallMemeq ==
  \E x, y \in Arrays :
    /\ Len(x) = Len(y)
    /\ x # y
    /\ call' = [fn |-> "memeq", x |-> x, y |-> y, out |-> assert_memeq_fail(x, y, Len(x))]

CallRand ==
  \E min, max \in -RAND_MAX .. RAND_MAX :
    /\ min <= max
    /\ max - min <= RAND_MAX
    /\ call' = [fn |-> "rand", min |-> min, max |-> max,
                out |-> {rand(min, max, r) : r \in 0 .. RAND_MAX}]

CallRound ==
  \E x \in 0 .. MAXU :
    call' = [fn |-> "round", x |-> x, msb |-> msb(x), lsb |-> lsb(x),
             down |-> round_down_pow2(x), up |-> round_up_pow2(x)]

CallBoot ==
  \E k \in Kernels :
    LET e == mkchickadeesymtab(k.e)
        d == mkbootdisk(<<BOOTCODE>>, <<[skip |-> FALSE, file |-> e.data]>>)
    IN call' = [fn |-> "boot", k |-> k, e |-> e,
                again |-> IF e.ok THEN mkchickadeesymtab(e) ELSE e,
                out |-> IF e.ok THEN boot([a \in 0 .. k.memory |-> JUNK], d.disk, e.ph)
                        ELSE <<>>]

CallDisk ==
  \E a, b \in Files, to \in 0 .. DISKSECTORS :
    call' = [fn |-> "disk", a |-> a, b |-> b, to |-> to,
             out |-> mkbootdisk(<<BOOTCODE>>, <<[skip |-> FALSE, file |-> a],
                                              [skip |-> TRUE, to |-> to],
                                              [skip |-> FALSE, file |-> b]>>)]

CallImage ==
  \E e \in Images :
    call' = [fn |-> "image", e |-> e, out |-> CopyImage([a \in 0 .. 7 |-> JUNK], e)]

CallPci ==
  \E dev \in Devices :
    call' = [fn |-> "pci", dev |-> dev, out |-> poweroff(dev),
             scan |-> {a \in DOMAIN dev : find(dev, {a}) = a}]

CallBacktrace ==
  \E s \in Stacks :
    call' = [fn |-> "backtrace", s |-> s,
             out |-> Backtrace(s.m, s.present, s.rsp, s.rbp, SPACE)]

Return == call' = None

ANext ==
  \/ call = None /\ CallCopy
  \/ call = None /\ CallCompare
  \/ call = None /\ CallParse
  \/ call = None /\ CallFormat
  \/ call = None /\ CallPrintf
  \/ call = None /\ CallBuffer
  \/ call = None /\ CallPanic
  \/ call = None /\ CallMemeq
  \/ call = None /\ CallRand
  \/ call = None /\ CallRound
  \/ call = None /\ CallBoot
  \/ call = None /\ CallDisk
  \/ call = None /\ CallImage
  \/ call = None /\ CallPci
  \/ call = None /\ CallBacktrace
  \/ call # None /\ Return

ASpec == AInit /\ [][ANext]_call

-----------------------------------------------------------------------------
\* Copies: memmove whatever overlaps, memcpy if no byte is read after it was
\* overwritten, strcpy with its terminator, and strncpy, which fills up its
\* buffer with terminators, leave exactly the source's former bytes in the
\* destination and every other byte alone.
CopiesExactly ==
  call.fn \in {"memcpy", "memmove", "strcpy", "strncpy"} =>
    LET m == call.m
        len == IF call.fn = "strcpy" THEN strlen(m, call.src) + 1 ELSE call.n
        ends == {k \in 0 .. len - 1 : call.fn = "strncpy" /\ \E j \in 0 .. k : m[call.src + j] = 0}
    IN \/ call.fn = "memcpy" /\ call.src < call.dst /\ call.dst < call.src + len
       \/ call.out = [a \in DOMAIN m |->
                        IF a - call.dst \notin 0 .. len - 1 THEN m[a]
                        ELSE IF a - call.dst \in ends THEN 0 ELSE m[call.src + a - call.dst]]

\* What the first n bytes at a spell, up to the terminator.
Spelled(m, a, n) ==
  LET len == Min({k \in 0 .. SECOND - 1 : k = n \/ m[a + k] = 0})
  IN [k \in 1 .. len |-> m[a + k - 1]]

\* Dictionary order on sequences.
Before(s, t) ==
  \/ Len(s) < Len(t) /\ SubSeq(t, 1, Len(s)) = s
  \/ \E k \in DOMAIN s \cap DOMAIN t :
       s[k] < t[k] /\ SubSeq(s, 1, k - 1) = SubSeq(t, 1, k - 1)

\* Comparisons: every comparison function orders its strings as a dictionary
\* does, of the first n bytes if it has an n, and ignoring case if it says so.
ComparesAsDictionary ==
  call.fn \in {"strcmp", "strncmp", "strcasecmp", "strncasecmp"} =>
    LET n == IF call.fn \in {"strncmp", "strncasecmp"} THEN call.n ELSE SECOND
        folded(s) == IF call.fn \in {"strcasecmp", "strncasecmp"}
                     THEN [k \in DOMAIN s |-> tolower(s[k])] ELSE s
        s == folded(Spelled(call.m, 0, n))
        t == folded(Spelled(call.m, SECOND, n))
    IN call.out = IF Before(s, t) THEN -1 ELSE IF Before(t, s) THEN 1 ELSE 0

\* Searches: memchr and strchr return the first byte equal to the argument's
\* low eight bits, strchr also the terminator; memcmp is the sign of the first
\* difference.
FindsFirst ==
  /\ call.fn \in {"memchr", "strchr"} =>
       LET n == IF call.fn = "strchr" THEN strlen(call.m, 0) + 1 ELSE call.n
           bytes == [k \in 1 .. n |-> call.m[k - 1]]
           c == call.c % 256
       IN IF call.out = -1 THEN c \notin Range(bytes)
          ELSE /\ call.out < n /\ call.m[call.out] = c
               /\ c \notin Range(SubSeq(bytes, 1, call.out))
  /\ call.fn = "memcmp" =>
       LET s == [k \in 1 .. call.n |-> call.m[k - 1]]
           t == [k \in 1 .. call.n |-> call.m[SECOND + k - 1]]
       IN call.out = IF s = t THEN 0 ELSE IF Before(s, t) THEN -1 ELSE 1

\* The memory and string functions of lib.cc, overlapping copies, shared
\* prefixes and characters outside a byte included: they copy, compare and
\* search as their definitions over whole sequences say.
StringFunctions == CopiesExactly /\ ComparesAsDictionary /\ FindsFirst

-----------------------------------------------------------------------------
\* The characters a base has for its digits, by their values.
DigitValue(c, base) ==
  LET V == {v \in 0 .. base - 1 : c \in {Hex(TRUE, v), Hex(FALSE, v)}}
  IN IF V = {} THEN -1 ELSE Min(V)

\* The number that the digits spell, without any limit.
Spells(digits, base) == FoldLeft(LAMBDA x, c : x * base + DigitValue(c, base), 0, digits)

\* The ways to read s from position i on as spaces, a sign, a prefix and digits.
Readings(s, base) ==
  {[neg |-> At(s, i) = 45, digits |-> SubSeq(s, j, k - 1), base |-> b, end |-> k] :
     <<i, j, k, b>> \in
       {q \in (1 .. Len(s) + 1) \X (1 .. Len(s) + 1) \X (1 .. Len(s) + 1) \X {8, 10, 16} :
          LET i == q[1]
              j == q[2]
              k == q[3]
              b == q[4]
              d == IF At(s, i) \in {43, 45} THEN i + 1 ELSE i
              x == At(s, d) = 48 /\ At(s, d + 1) = 120
          IN /\ i <= d /\ d <= j /\ j < k
             /\ \A h \in 1 .. i - 1 : isspace(s[h])
             /\ \A h \in j .. k - 1 : DigitValue(s[h], b) >= 0
             /\ DigitValue(At(s, k), b) = -1
             /\ base # 0 => b = base
             /\ base = 0 => b = IF x THEN 16 ELSE IF At(s, d) = 48 THEN 8 ELSE 10
             /\ j = IF b = 16 /\ x THEN d + 2 ELSE d}}

\* Reading numbers: strtoul gives the number that is written, negated modulo
\* 2^LONGBITS after a minus sign, or the largest one if it does not fit (and
\* its negation, 1, after a minus sign); strtol gives the number written, or
\* the limit of long on its side.  Both stop right after the last digit.
\* Nothing is said of hexadecimal digits with a character from ':' to '?' behind
\* them, which lib.cc:182 takes for one more digit.
ReadsTheNumber ==
  call.fn \in {"strtol", "strtoul"} =>
    \A w \in Readings(call.s, call.base) :
      ~ (w.base = 16 /\ At(call.s, w.end) \in 58 .. 63) =>
      LET x == Spells(w.digits, w.base)
          u == Min({x, MAXU})
      IN /\ call.out.end = w.end
         /\ call.fn = "strtoul" => call.out.val = IF w.neg THEN (ULONG - u) % ULONG ELSE u
         /\ call.fn = "strtol" =>
              call.out.val = IF w.neg THEN Max({-x, -(ULONG \div 2)})
                             ELSE Min({x, ULONG \div 2 - 1})

-----------------------------------------------------------------------------
\* The characters that vprintf printed for a number, read by strtol or strtoul,
\* give the number back, for all flags, widths and precisions: the most
\* negative long, 0 and zero-filled fields included.
PrintedReadsBack ==
  call.fn = "format" =>
    LET c == Last(call.spec.f)
        size == IF call.spec.long \/ c = 112 THEN ULONG ELSE UINT
    IN IF c = 100 THEN strtol(call.out, 10).val = call.x
       ELSE strtoul(call.out, 1, IF c = 117 THEN 10 ELSE 16).val = call.x % size

\* A width only pads: the field is as long as the wider of the width and the
\* text without it, and unless zeros fill it, it is that text with spaces
\* before it, or behind it if '-' is given.
WidthOnlyPads ==
  call.fn = "format" =>
    LET w == call.spec.width
        n == Len(call.bare)
        spaces == Repeat(32, w - n)
    IN /\ Len(call.out) = Max({w, n})
       /\ LEFTJUSTIFY \in call.spec.flags => call.out = call.bare \o spaces
       /\ call.spec.flags \cap {LEFTJUSTIFY, ZERO} = {} => call.out = spaces \o call.bare

\* A number keeps its value and its field under every combination of flags,
\* width and precision (vprintf, lib.cc:383-470).
FormatsNumbers == PrintedReadsBack /\ WidthOnlyPads

\* Directives are independent: what a format prints is what its parts print one
\* after the other, each with its own arguments and in the color the last %C
\* before it set.  And no part reads outside the array it is given.
PartsIndependent ==
  call.fn = "printf" =>
    LET q0 == call.p.color
        r0 == IF call.q.color = -1 THEN q0 ELSE call.q.color
        shade(c) == IF c = -1 THEN 0 ELSE c
    IN /\ call.out = vprintf(0, call.p.f, call.p.args)
                       \o vprintf(shade(q0), call.q.f, call.q.args)
                       \o vprintf(shade(r0), call.r.f, call.r.args)
       /\ \A k \in DOMAIN call.out : call.out[k][1] # BEYOND

\* vsnprintf writes only its buffer, which then holds as much of the text as
\* fits and its terminator.
BufferBounded ==
  call.fn = "vsnprintf" =>
    LET n == Min({Len(call.t), call.size - 1})
    IN call.out = [a \in DOMAIN call.m |->
                     IF call.size = 0 \/ a \notin 1 .. call.size THEN call.m[a]
                     ELSE IF a <= n THEN call.t[a] ELSE IF a = n + 1 THEN 0 ELSE call.out[a]]

\* panic in a process: a message that fits into the buffer is shown with its
\* prefix and one newline, which replaces the last character of a message that
\* fills the buffer; nothing behind the buffer is written.  Nothing is said of
\* longer messages (u-lib.cc:74-77 use the length of the whole text).
PanicStaysInBuffer ==
  call.fn = "panic" /\ Len(call.t) < PANICBUF - PREFIX =>
    LET n == Len(call.t)
        newline == n > 0 /\ call.t[n] = 10
        shown == Min({n, PANICBUF - PREFIX - 2})
    IN /\ \A a \in DOMAIN call.m : a >= PANICBUF => call.out[a] = call.m[a]
       /\ ~ newline =>
            \A a \in 0 .. PREFIX + shown + 1 :
              call.out[a] = IF a < PREFIX THEN 32 ELSE IF a < PREFIX + shown
                            THEN call.t[a - PREFIX + 1]
                            ELSE IF a = PREFIX + shown THEN 10 ELSE 0
       /\ newline => call.out[PREFIX + n - 1] = 10 /\ call.out[PREFIX + n] = 0

\* assert_memeq prints parts of the two arrays that begin at the same place,
\* lie inside them, and, if no terminator comes before it, hold the first
\* difference.
MemeqShowsDifference ==
  call.fn = "memeq" =>
    LET o == call.out
        at == o.pos - o.spos + 1
        inside(s, t) == /\ o.spos >= 0
                        /\ o.spos + Len(s) <= Len(t)
                        /\ \A k \in DOMAIN s : s[k] = t[o.spos + k]
    IN /\ inside(o.x, call.x) /\ inside(o.y, call.y)
       /\ call.x[o.pos + 1] # call.y[o.pos + 1]
       /\ SubSeq(call.x, 1, o.pos) = SubSeq(call.y, 1, o.pos)
       /\ (\A k \in o.spos + 1 .. o.pos + 1 : call.x[k] # 0 /\ call.y[k] # 0)
            => at \in DOMAIN o.x /\ at \in DOMAIN o.y

\* Text that is formatted into arrays stays within them: vsnprintf's buffer,
\* panic's for every message that fits it, and assert_memeq's excerpts.
StaysInBuffers == BufferBounded /\ PanicStaysInBuffer /\ MemeqShowsDifference

\* rand(min, max) gives every number from min to max and no other.  Nothing is
\* said of a distance of RAND_MAX, which lib.cc:250-256 allow: there the code's
\* max - min + 1 overflows.
RandInRange ==
  call.fn = "rand" /\ call.max - call.min < RAND_MAX => call.out = call.min .. call.max

\* round_down_pow2 and round_up_pow2 give the powers of two around x, if there
\* is one above it, and msb and lsb are the positions of its highest and
\* lowest one.
PowersAround ==
  call.fn = "round" /\ call.x > 0 =>
    LET x == call.x
        Powers == {2 ^ k : k \in 0 .. LONGBITS - 1}
    IN /\ call.down = Max({p \in Powers : p <= x})
       /\ x <= Max(Powers) => call.up = Min({p \in Powers : p >= x})
       /\ 2 ^ (call.msb - 1) = call.down
       /\ x % 2 ^ (call.lsb - 1) = 0 /\ x % 2 ^ call.lsb # 0

\* Arithmetic at the limits of its types: reading numbers that do not fit,
\* the range of rand, and the powers of two around the largest numbers.
NumberFunctions == ReadsTheNumber /\ RandInRange /\ PowersAround

-----------------------------------------------------------------------------
\* From the linked kernel to memory: when the symbol table tool accepts the
\* file, booting from the disk made of it leaves the kernel's bytes at their
\* addresses, zeros behind them, and at LOADADDR the symbols, sorted, with
\* their names where the kernel's symtab variable says.
BootLoadsKernel ==
  call.fn = "boot" /\ call.e.ok =>
    LET k == call.k
        m == call.out
        at(a, n) == [j \in 1 .. n |-> m[a + j - 1]]
    IN /\ at(k.va, k.filesz) = SubSeq(k.e.data, k.offset + 1, k.offset + k.filesz)
       /\ \A a \in k.va + k.filesz .. k.va + k.memsz - 1 : m[a] = 0
       /\ LET syms == at(call.e.ref.sym, call.e.ref.nsym)
              was  == SubSeq(k.e.data, k.symoff + 1, k.symoff + k.nsym)
          IN /\ Len(syms) = k.nsym /\ Head(syms) = Head(was)
             /\ ToSet(syms) = ToSet(was)
             /\ \A i \in 2 .. k.nsym - 1 : syms[i] <= syms[i + 1]
       /\ at(call.e.ref.strtab, k.nstr)
            = SubSeq(k.e.data, k.stroff + 1, k.stroff + k.nstr)

\* Running the symbol table tool on its own output changes nothing.
ToolIdempotent ==
  call.fn = "boot" /\ call.e.ok =>
    call.again.ok /\ ~ call.again.changed /\ [call.again EXCEPT !.changed = TRUE] = call.e

\* Every file on the disk begins at the sector the tool counted for it.
DiskHoldsFiles ==
  call.fn = "disk" =>
    LET sectors(f) == (Len(f) + SECTOR - 1) \div SECTOR
        holds(f, sect) == SubSeq(call.out.disk, sect * SECTOR + 1, sect * SECTOR + Len(f)) = f
    IN /\ call.out.ok <=> 1 + sectors(call.a) <= call.to
       /\ call.out.ok => /\ holds(call.a, 1) /\ holds(call.b, call.to)
                         /\ Len(call.out.disk) = SECTOR * Max({DISKSECTORS, call.out.nsectors})
                         /\ call.out.nsectors = call.to + sectors(call.b)

\* process_setup's copy puts the data of every loadable segment in place with
\* zeros behind it, and touches nothing else.
ImageInPlace ==
  call.fn = "image" =>
    LET owner(a) == {i \in DOMAIN call.e.ph :
                       call.e.ph[i].load /\ a - call.e.ph[i].va \in 0 .. call.e.ph[i].memsz - 1}
    IN \A a \in DOMAIN call.out :
         IF owner(a) = {} THEN call.out[a] = JUNK
         ELSE LET p == call.e.ph[Max(owner(a))]
              IN call.out[a] = IF a - p.va < p.filesz THEN call.e.data[p.offset + a - p.va + 1]
                               ELSE 0

\* Files reach memory: through the tool that sorts the symbols, however often
\* it ran, the disk made of them, and the loader of the kernel or a process.
FilesReachMemory ==
  BootLoadsKernel /\ ToolIdempotent /\ DiskHoldsFiles /\ ImageInPlace

\* The scan of PCI addresses meets exactly the functions that are there: of a
\* slot whose function 0 is absent, none; of a slot that is not multi-function,
\* only that one.  So poweroff finds a power controller iff there is one.
ScanFindsAll ==
  call.fn = "pci" =>
    LET dev == call.dev
        first(a) == a - (a % FUNCS)
        Visible == {a \in DOMAIN dev : /\ dev[a] # "none" /\ dev[first(a)] # "none"
                                       /\ a # first(a) => dev[first(a)] = "multi"}
        Controllers == {a \in Visible : dev[a] = "acpi"}
    IN /\ call.scan = Visible \cup {0}
       /\ call.out = IF Controllers = {} THEN -1 ELSE Min(Controllers)

\* The walk over the frames ends, whatever the stack holds; it reads only
\* mapped memory, if frames do not straddle pages; and it shows all callers
\* whose frames follow each other upwards in the page of the stack pointer.
BacktraceFollowsFrames ==
  call.fn = "backtrace" =>
    LET s == call.s
        f == call.out.frames
        InPage(a) == a >= s.rsp /\ a + 1 < StackTop(s.rsp) /\ PresentAt(s.present, a)
    IN /\ call.out.rsp = 0
       /\ \A k \in DOMAIN f : f[k] \div PAGEWORDS \in s.present
                              /\ (f[k] + 1) \div PAGEWORDS \in s.present
       /\ InPage(s.rbp) => f # <<>> /\ f[1] = s.rbp
       /\ \A k \in DOMAIN f :
            LET caller == s.m[f[k]]
            IN InPage(caller) /\ caller >= f[k] + 2 => k < Len(f) /\ f[k + 1] = caller
       /\ call.out.rips = [k \in DOMAIN f |-> s.m[f[k] + 1]]
=============================================================================
