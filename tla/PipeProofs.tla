----------------------------- MODULE PipeProofs ------------------------------
(***************************************************************************)
(* The pipe programs on the kernel implement PipeChannel, and only a       *)
(* message that is too long stops them, for all values of the constants.   *)
(***************************************************************************)
EXTENDS PipeSystem, KernelProofs

-----------------------------------------------------------------------------
(* The inductive invariant *)

\* The result of process p's last system call, wherever it is: in %rax or
\* saved.  While the call is handled it is the call's own number.
Result(p) == IF mode = "user" /\ current = p THEN rax ELSE regs[p]

\* Bytes of the message that the kernel took and bytes that it stored in the
\* buffer: a program that was preempted has still to count the last one.
sent == IF wpc \in {"choose", "wait"} THEN Len(message)
        ELSE IF wpc = "called" /\ Result(1) = 1 THEN pos + 1 ELSE pos
got  == IF rpc = "called" /\ Result(2) = 1 THEN buflen + 1 ELSE buflen

\* Process p has the result of its call, or call n goes on.
Answered(p, n) ==
  \/ Result(p) \in {-1, 0, 1}
  \/ Result(p) = n /\ (mode \in {"fail", "off"} \/ (Handling(n) /\ current = p))

ProgTypes ==
  /\ wpc \in {"choose", "loop", "called", "wait", "panic"}
  /\ rpc \in {"loop", "called", "panic"}
  /\ message \in Messages \cup {NoMessage} /\ pos \in 0 .. Len(message)
  /\ wait \in 0 .. MaxWait
  /\ buf \in [1 .. BUFSZ -> Bytes \cup {0}] /\ buflen \in 0 .. BUFSZ
  /\ printed \in Messages \cup {<<>>}
  /\ queue \in Seq(Messages)

WriterInv ==
  /\ wpc \in {"loop", "called", "panic"} => message \in Messages
  /\ wpc = "called" => pos < Len(message) /\ Answered(1, SYSCALL_PIPEWRITE)
  /\ Handling(SYSCALL_PIPEWRITE) =>
       /\ current = 1 /\ wpc = "called" /\ regs[1] = SYSCALL_PIPEWRITE
       /\ trap.sz = Len(message) - pos /\ trap.ch = message[pos + 1] /\ trap.page # 0
  /\ Handling(SYSCALL_YIELD) => current = 1 /\ wpc = "wait"

ReaderInv ==
  /\ rpc = "called" => ~HasNewline /\ Answered(2, SYSCALL_PIPEREAD)
  /\ rpc = "called" /\ Result(2) = 1 => buflen < BUFSZ
  /\ Handling(SYSCALL_PIPEREAD) =>
       /\ current = 2 /\ rpc = "called" /\ regs[2] = SYSCALL_PIPEREAD
       /\ trap.sz = BUFSZ - buflen /\ trap.page # 0

BootFresh == mode = "boot" => wpc = "choose" /\ rpc = "loop"

\* The first `got` bytes of the buffer are the first bytes of m.
Holds(m) == got <= Len(m) /\ \A i \in 1 .. got : buf[i] = m[i]

\* Nothing is on its way.
Empty == queue = <<>> /\ got = 0 /\ pipebuf_len = 0 /\ sent = Len(message)

\* The bytes of the writer's message are in the buffer, then in the pipe.
OneOnItsWay ==
  /\ queue = <<message>> /\ message \in Messages
  /\ sent = got + pipebuf_len /\ Holds(message)
  /\ pipebuf_len = 1 => pipebuf = message[sent]

\* The reader has still to print m, and the pipe has no room for more than the
\* first byte of the writer's next message.
TwoOnTheirWay(m) ==
  /\ queue = <<m, message>> /\ message \in Messages
  /\ sent \in {0, 1} /\ got + pipebuf_len = Len(m) + sent /\ Holds(m)
  /\ pipebuf_len = 1 => pipebuf = IF sent = 0 THEN m[Len(m)] ELSE message[1]

Stream == Empty \/ OneOnItsWay \/ \E m \in Messages : TwoOnTheirWay(m)

PInv == ProgTypes /\ WriterInv /\ ReaderInv /\ BootFresh /\ Stream

-----------------------------------------------------------------------------
(* The parts of a step *)

\* A second message joins the first.
LEMMA AppendTwo ==
  ASSUME NEW a, NEW b
  PROVE  Append(<<a>>, b) = <<a, b>>
<1> DEFINE s == Append(<<a>>, b)  t == <<a, b>>
<1>1. <<a>> \in Seq({a, b}) /\ Len(<<a>>) = 1
  BY SMTT(30), Z3T(30)
<1>2. s \in Seq({a, b}) /\ Len(s) = 2 /\ s[1] = a /\ s[2] = b
  BY <1>1, SMTT(30), Z3T(30)
<1>3. t \in Seq({a, b}) /\ Len(t) = 2 /\ t[1] = a /\ t[2] = b
  BY SMTT(30), Z3T(30)
<1> HIDE DEF s, t
<1>4. s = [i \in 1 .. 2 |-> s[i]] /\ t = [i \in 1 .. 2 |-> t[i]]
  BY <1>2, <1>3, SMTT(30), Z3T(30)
<1>5. \A i \in 1 .. 2 : s[i] = t[i]
  BY <1>2, <1>3, SMTT(30), Z3T(30)
<1> QED
  BY <1>4, <1>5, ZenonT(30) DEF s, t

\* What a message is.
LEMMA MessageFacts ==
  ASSUME NEW m \in Messages
  PROVE  /\ m \in Seq(Bytes) /\ Len(m) \in Nat /\ Len(m) >= 2 /\ Len(m) <= MaxSize
         /\ m[Len(m)] = NL /\ \A i \in 1 .. Len(m) - 1 : m[i] # NL
BY MessagesAssumption, InputAssumption, SMTT(30), Z3T(30)

\* message is a sequence of bytes, and NoMessage one of a single byte.
LEMMA MessageTypes ==
  ASSUME ProgTypes
  PROVE  message \in Seq(Bytes) /\ Len(message) \in Nat /\ Len(NoMessage) = 1
<1>1. NoMessage \in Seq(Bytes) /\ Len(NoMessage) = 1
  BY MessagesAssumption, SMTT(30), Z3T(30) DEF NoMessage
<1>2. CASE message = NoMessage
  BY <1>1, <1>2, SMTT(30), Z3T(30)
<1>3. CASE message \in Messages
  BY <1>1, <1>3, MessageFacts, SMTT(30), Z3T(30)
<1> QED
  BY <1>2, <1>3, SMTT(30), Z3T(30) DEF ProgTypes

\* In user mode one of the two programs runs.
LEMMA WhoRuns ==
  ASSUME TypeOK, ProcInv, mode \in {"user", "trap"}
  PROVE  current \in {1, 2} /\ state[current] = P_RUNNABLE
BY SMTT(30), Z3T(30) DEF TypeOK, CpuTypes, ProcInv, P_FREE, P_RUNNABLE

\* A trap saves the result of the process that runs, or the number of its
\* call, and leaves the other's alone.
LEMMA EnterFacts ==
  ASSUME TypeOK, ProcInv, NEW t, NEW reg, Enter(t, reg)
  PROVE  /\ mode = "user" /\ mode' \in {"trap", "fail"} /\ trap' = t
         /\ current \in {1, 2} /\ current' = current
         /\ pipebuf' = pipebuf /\ pipebuf_len' = pipebuf_len
         /\ regs'[current] = reg
         /\ \A p \in {1, 2} : Result(p)' = IF p = current THEN reg ELSE Result(p)
<1>1. mode = "user" /\ trap' = t /\ current' = current /\ Memshow
      /\ pipebuf' = pipebuf /\ pipebuf_len' = pipebuf_len
      /\ regs' = [regs EXCEPT ![current] = reg]
  BY SMTT(30), Z3T(30) DEF Enter, pipevars
<1>2. mode' \in {"trap", "fail"}
  BY <1>1, SMTT(30), Z3T(30) DEF Memshow, Fail
<1>3. current \in {1, 2} /\ regs \in [Pids -> Int] /\ 1 \in Pids /\ 2 \in Pids
  BY <1>1, WhoRuns, PidFacts, SMTT(30), Z3T(30) DEF TypeOK, CpuTypes
<1>4. /\ regs'[current] = reg
      /\ \A p \in {1, 2} : regs'[p] = IF p = current THEN reg ELSE regs[p]
  BY <1>1, <1>3, SMTT(30), Z3T(30)
<1>5. \A p \in {1, 2} : Result(p)' = IF p = current THEN reg ELSE Result(p)
  BY <1>1, <1>2, <1>4, SMTT(30), Z3T(30) DEF Result
<1> QED
  BY <1>1, <1>2, <1>3, <1>4, <1>5, SMTT(30), Z3T(30)

\* A system call of process p returns.
LEMMA ReturnFacts ==
  ASSUME TypeOK, ProcInv, mode = "trap", NEW value, Return(value),
         UNCHANGED <<regs, current>>
  PROVE  /\ mode' = "user" /\ trap' = NoTrap /\ current \in {1, 2} /\ current' = current
         /\ \A p \in {1, 2} : Result(p)' = IF p = current THEN value ELSE Result(p)
<1>1. mode' = "user" /\ rax' = value /\ trap' = NoTrap /\ current \in {1, 2}
  BY WhoRuns, SMTT(30), Z3T(30) DEF Return
<1> QED
  BY <1>1, SMTT(30), Z3T(30) DEF Result

\* Other steps leave both results where the program will find them.
LEMMA ResultsKept ==
  ASSUME TypeOK, ProcInv, mode # "user", UNCHANGED regs,
         mode' # "user" \/ rax' = regs[current']
  PROVE  \A p \in {1, 2} : Result(p)' = Result(p)
BY SMTT(30), Z3T(30) DEF Result

\* A step that moves no byte keeps the stream.
LEMMA StreamKept ==
  ASSUME Stream, UNCHANGED <<queue, message, pipebuf, pipebuf_len, buf>>,
         sent' = sent, got' = got
  PROVE  Stream'
<1>1. Empty => Empty'
  BY SMTT(30), Z3T(30) DEF Empty
<1>2. \A m : Holds(m) => Holds(m)'
  BY SMTT(30), Z3T(30) DEF Holds
<1>3. OneOnItsWay => OneOnItsWay'
  BY <1>2, SMTT(30), Z3T(30) DEF OneOnItsWay
<1>4. \A m : TwoOnTheirWay(m) => TwoOnTheirWay(m)'
  BY <1>2, SMTT(30), Z3T(30) DEF TwoOnTheirWay
<1> QED
  BY <1>1, <1>3, <1>4, SMTT(30), Z3T(30) DEF Stream

\* sent and got, from what they depend on.
LEMMA CountsKept ==
  ASSUME UNCHANGED <<wpc, message, pos, rpc, buflen>>,
         wpc = "called" => (Result(1)' = 1 <=> Result(1) = 1),
         rpc = "called" => (Result(2)' = 1 <=> Result(2) = 1)
  PROVE  sent' = sent /\ got' = got
BY SMTT(30), Z3T(30) DEF sent, got

-----------------------------------------------------------------------------
(* The kernel's steps *)

\* The timer's interrupt, in either program.
LEMMA TimerKeeps ==
  ASSUME TypeOK, ProcInv, PInv, TimerInterrupt, UNCHANGED progvars
  PROVE  PInv'
<1>1. /\ mode = "user" /\ mode' \in {"trap", "fail"}
      /\ trap' = [NoTrap EXCEPT !.kind = "timer"]
      /\ current \in {1, 2} /\ current' = current /\ UNCHANGED <<pipebuf, pipebuf_len>>
      /\ \A p \in {1, 2} : Result(p)' = Result(p)
  BY EnterFacts, SMTT(30), Z3T(30) DEF TimerInterrupt, Result
<1>2. trap'.kind = "timer" /\ \A n : ~Handling(n)'
  BY <1>1, SMTT(30), Z3T(30) DEF NoTrap, Handling
<1>3. \A n : ~Handling(n)
  BY <1>1, SMTT(30), Z3T(30) DEF Handling
<1>4. ProgTypes'
  BY SMTT(30), Z3T(30) DEF PInv, ProgTypes, progvars
<1>5. WriterInv'
  BY <1>1, <1>2, <1>3, SMTT(30), Z3T(30) DEF PInv, WriterInv, Answered, progvars
<1>6. ReaderInv'
  BY <1>1, <1>2, <1>3, SMTT(30), Z3T(30) DEF PInv, ReaderInv, Answered, HasNewline, progvars
<1>7. BootFresh'
  BY <1>1, SMTT(30), Z3T(30) DEF BootFresh
<1>8. Stream'
  BY <1>1, CountsKept, StreamKept, SMTT(30), Z3T(30) DEF PInv, progvars
<1> QED
  BY <1>4, <1>5, <1>6, <1>7, <1>8, SMTT(30), Z3T(30) DEF PInv

\* From a handler to the scan of schedule() or to fail(), within the scan,
\* and out of it into a program.
LEMMA MoveKeeps ==
  ASSUME TypeOK, ProcInv, PInv, UNCHANGED <<regs, pipebuf, pipebuf_len>>,
         UNCHANGED <<wpc, message, pos, rpc, buf, buflen, printed, queue>>,
         wait' \in 0 .. MaxWait,
         \/ mode = "trap" /\ trap.kind = "timer" /\ mode' = "sched"
         \/ mode = "sched" /\ (mode' = "sched" \/ (mode' = "user" /\ rax' = regs[current']))
         \/ mode \in {"trap", "sched", "fail"} /\ mode' \in {"fail", "off"}
  PROVE  PInv'
<1>1. mode # "user" /\ \A n : ~Handling(n)'
  BY SMTT(30), Z3T(30) DEF Handling
<1>2. \A p \in {1, 2} : Result(p)' = Result(p)
  BY <1>1, ResultsKept, SMTT(30), Z3T(30)
<1>3. \A p \in {1, 2} : \A n : Answered(p, n) => Answered(p, n)'
  BY <1>2, SMTT(30), Z3T(30) DEF Answered, Handling
<1>4. ProgTypes'
  BY SMTT(30), Z3T(30) DEF PInv, ProgTypes
<1>5. WriterInv'
  BY <1>1, <1>3, SMTT(30), Z3T(30) DEF PInv, WriterInv
<1>6. ReaderInv'
  BY <1>1, <1>2, <1>3, SMTT(30), Z3T(30) DEF PInv, ReaderInv, HasNewline
<1>7. BootFresh'
  BY SMTT(30), Z3T(30) DEF BootFresh
<1>8. Stream'
  BY <1>2, CountsKept, StreamKept, ZenonT(30) DEF PInv
<1> QED
  BY <1>4, <1>5, <1>6, <1>7, <1>8, SMTT(30), Z3T(30) DEF PInv

\* sys_yield is called by the writer, which waits for no result.
LEMMA YieldKeeps ==
  ASSUME TypeOK, ProcInv, PInv, SysYield, UNCHANGED progvars
  PROVE  PInv'
<1>1. /\ mode = "trap" /\ mode' = "sched" /\ current = 1 /\ wpc = "wait"
      /\ regs' = [regs EXCEPT ![current] = 0] /\ UNCHANGED <<pipebuf, pipebuf_len>>
  BY SMTT(30), Z3T(30) DEF SysYield, Handling, Schedule, PInv, WriterInv, pipevars
<1>2. \A n : ~Handling(n)'
  BY <1>1, SMTT(30), Z3T(30) DEF Handling
<1>3. Result(2)' = Result(2)
  BY <1>1, PidFacts, SMTT(30), Z3T(30) DEF Result, TypeOK, CpuTypes
<1>4. ~Handling(SYSCALL_PIPEREAD)
  BY <1>1, SMTT(30), Z3T(30) DEF PInv, ReaderInv
<1>5. ProgTypes'
  BY DEF PInv, ProgTypes, progvars
<1>6. WriterInv'
  BY <1>1, <1>2, SMTT(30), Z3T(30) DEF PInv, WriterInv, progvars
<1>7. ReaderInv'
  BY <1>1, <1>2, <1>3, <1>4, SMTT(30), Z3T(30) DEF PInv, ReaderInv, Answered, HasNewline, progvars
<1>8. BootFresh'
  BY <1>1, SMTT(30), Z3T(30) DEF BootFresh
<1>9. Stream'
  BY <1>1, <1>3, CountsKept, StreamKept, SMTT(30), Z3T(30) DEF PInv, progvars
<1> QED
  BY <1>5, <1>6, <1>7, <1>8, <1>9 DEF PInv

\* While the kernel loads the programs neither of them has begun.
LEMMA BootKeeps ==
  ASSUME TypeOK, ProcInv, PInv, KernelStartSetup \/ KernelStartRun, UNCHANGED progvars
  PROVE  PInv'
<1>1. /\ mode = "boot" /\ wpc = "choose" /\ rpc = "loop" /\ UNCHANGED <<pipebuf, pipebuf_len>>
  BY ZenonT(30) DEF KernelStartSetup, KernelStartRun, PInv, BootFresh, pipevars
<1>2. mode' \in {"boot", "fail", "user"}
  BY <1>1, SMTT(30), Z3T(30) DEF KernelStartSetup, ProcessSetup, KernelStartRun, Run, Fail
<1>3. \A n : ~Handling(n)'
  BY <1>2, SMTT(30), Z3T(30) DEF Handling
<1>4. ProgTypes'
  BY SMTT(30), Z3T(30) DEF PInv, ProgTypes, progvars
<1>5. WriterInv' /\ ReaderInv' /\ BootFresh'
  BY <1>1, <1>3, SMTT(30), Z3T(30) DEF WriterInv, ReaderInv, BootFresh, progvars
<1>6. Stream'
  BY <1>1, CountsKept, StreamKept, SMTT(30), Z3T(30) DEF PInv, progvars
<1> QED
  BY <1>4, <1>5, <1>6, SMTT(30), Z3T(30) DEF PInv

\* syscall_pipewrite takes the byte after the ones sent, if the pipe is empty.
LEMMA PipewriteKeeps ==
  ASSUME TypeOK, ProcInv, PInv, syscall_pipewrite, UNCHANGED progvars
  PROVE  PInv'
<1>1. /\ mode = "trap" /\ current = 1 /\ wpc = "called" /\ Result(1) = SYSCALL_PIPEWRITE
      /\ trap.sz = Len(message) - pos /\ trap.ch = message[pos + 1] /\ trap.page # 0
      /\ pos < Len(message) /\ message \in Messages
      /\ UNCHANGED <<regs, current>>
  BY SMTT(30), Z3T(30) DEF syscall_pipewrite, Handling, PInv, WriterInv, Result
<1>2. Len(message) \in Nat /\ pos \in Nat /\ trap.sz # 0 /\ pipebuf_len \in {0, 1}
  BY <1>1, MessageFacts, SMTT(30), Z3T(30) DEF PInv, ProgTypes, TypeOK, PipeTypes
<1>3. PICK value \in {-1, 1} :
        /\ Return(value)
        /\ value = -1 => UNCHANGED <<pipebuf, pipebuf_len>>
        /\ value = 1 => pipebuf_len = 0 /\ pipebuf' = trap.ch /\ pipebuf_len' = 1
  BY <1>1, <1>2, SMTT(30), Z3T(30) DEF syscall_pipewrite, pipevars
<1>4. /\ mode' = "user" /\ current' = 1 /\ Result(1)' = value /\ Result(2)' = Result(2)
  BY <1>1, <1>3, ReturnFacts, SMTT(30), Z3T(30)
<1>5. \A n : ~Handling(n)'
  BY <1>4, SMTT(30), Z3T(30) DEF Handling
<1>6. ProgTypes'
  BY SMTT(30), Z3T(30) DEF PInv, ProgTypes, progvars
<1>7. WriterInv'
  BY <1>1, <1>4, <1>5, SMTT(30), Z3T(30) DEF PInv, WriterInv, Answered, progvars
<1>8. ReaderInv'
  <2>1. ~Handling(SYSCALL_PIPEREAD) /\ mode \notin {"fail", "off"}
    BY <1>1, SMTT(30), Z3T(30) DEF PInv, ReaderInv
  <2> QED
    BY <1>4, <1>5, <2>1, SMTT(30), Z3T(30) DEF PInv, ReaderInv, Answered, HasNewline, progvars
<1>9. BootFresh'
  BY <1>4, SMTT(30), Z3T(30) DEF BootFresh
<1>10. got' = got /\ sent = pos
  BY <1>1, <1>4, SMTT(30), Z3T(30) DEF got, sent, progvars, SYSCALL_PIPEWRITE
<1>11. Stream'
  <2>1. CASE value = -1
    <3>1. sent' = pos
      BY <1>1, <1>4, <2>1, SMTT(30), Z3T(30) DEF sent, progvars
    <3> QED
      BY <1>3, <1>10, <2>1, <3>1, StreamKept, ZenonT(30) DEF PInv, progvars
  <2>2. CASE value = 1
    <3>1. /\ sent' = sent + 1 /\ pipebuf_len = 0 /\ pipebuf_len' = 1 /\ pipebuf' = message[sent + 1]
          /\ sent < Len(message) /\ sent \in Nat
          /\ UNCHANGED <<message, queue, buf>>
      BY <1>1, <1>2, <1>3, <1>4, <1>10, <2>2, ZenonT(30) DEF sent, progvars
    <3>2. \A m : Holds(m) => Holds(m)'
      BY <1>10, <3>1, ZenonT(30) DEF Holds
    <3>3. got \in Nat
      BY SMTT(30), Z3T(30) DEF PInv, ProgTypes, got
    <3>4. ~Empty
      BY <3>1, SMTT(30), Z3T(30) DEF Empty
    <3>5. OneOnItsWay => OneOnItsWay'
      BY <1>10, <3>1, <3>2, <3>3, SMTT(30), Z3T(30) DEF OneOnItsWay
    <3>6. ASSUME NEW m \in Messages, TwoOnTheirWay(m) PROVE TwoOnTheirWay(m)'
      <4>1. Len(m) \in Nat /\ got <= Len(m)
        BY <3>6, MessageFacts, SMTT(30), Z3T(30) DEF TwoOnTheirWay, Holds
      <4>2. sent = 0
        BY <3>1, <3>3, <3>6, <4>1, SMTT(30), Z3T(30) DEF TwoOnTheirWay
      <4> QED
        BY <1>10, <3>1, <3>2, <3>3, <3>6, <4>1, <4>2, SMTT(30), Z3T(30) DEF TwoOnTheirWay
    <3> QED
      BY <3>4, <3>5, <3>6, ZenonT(30) DEF PInv, Stream
  <2> QED
    BY <2>1, <2>2, SMTT(30), Z3T(30)
<1> QED
  BY <1>6, <1>7, <1>8, <1>9, <1>11, ZenonT(30) DEF PInv

\* syscall_piperead stores the pipe's byte after the ones the reader has.
LEMMA PipereadKeeps ==
  ASSUME TypeOK, ProcInv, PInv, Read
  PROVE  PInv'
<1>0. syscall_piperead /\ UNCHANGED <<wpc, message, pos, wait, rpc, buflen, printed, queue>>
  BY SMTT(30), Z3T(30) DEF Read, rrest
<1>1. /\ mode = "trap" /\ current = 2 /\ rpc = "called" /\ Result(2) = SYSCALL_PIPEREAD
      /\ trap.sz = BUFSZ - buflen /\ trap.page # 0 /\ ~HasNewline /\ UNCHANGED <<regs, current>>
  BY <1>0, SMTT(30), Z3T(30) DEF syscall_piperead, Handling, PInv, ReaderInv, Result
<1>2. /\ buflen \in 0 .. BUFSZ /\ BUFSZ \in Nat /\ pipebuf_len \in {0, 1}
      /\ buf \in [1 .. BUFSZ -> Bytes \cup {0}] /\ pipebuf \in Bytes \cup {0}
  BY MessagesAssumption, ZenonT(30) DEF PInv, ProgTypes, TypeOK, PipeTypes
<1>3. PICK value \in {-1, 0, 1} :
        /\ Return(value)
        /\ value # 1 => UNCHANGED <<pipebuf, pipebuf_len, buf>>
        /\ value = 1 => /\ buflen < BUFSZ /\ pipebuf_len = 1 /\ pipebuf_len' = 0
                        /\ buf' = [buf EXCEPT ![buflen + 1] = pipebuf]
  BY <1>0, <1>1, <1>2, SMTT(30), Z3T(30) DEF Read, syscall_piperead, pipevars
<1>4. mode' = "user" /\ current' = 2 /\ Result(2)' = value /\ Result(1)' = Result(1)
  BY <1>1, <1>3, ReturnFacts, SMTT(30), Z3T(30)
<1>5. \A n : ~Handling(n)'
  BY <1>4, SMTT(30), Z3T(30) DEF Handling
<1>6. buf' \in [1 .. BUFSZ -> Bytes \cup {0}] /\ \A i \in 1 .. buflen : buf'[i] = buf[i]
  BY <1>2, <1>3, SMTT(30), Z3T(30)
<1>7. ProgTypes'
  BY <1>0, <1>6, ZenonT(30) DEF PInv, ProgTypes
<1>8. WriterInv'
  <2>1. ~Handling(SYSCALL_PIPEWRITE)
    BY <1>1, SMTT(30), Z3T(30) DEF PInv, WriterInv
  <2> QED
    BY <1>0, <1>1, <1>4, <1>5, <2>1, ZenonT(30) DEF PInv, WriterInv, Answered
<1>9. ReaderInv'
  <2>1. ~HasNewline'
    BY <1>0, <1>1, <1>6, ZenonT(30) DEF HasNewline
  <2> QED
    BY <1>0, <1>3, <1>4, <1>5, <2>1, ZenonT(30) DEF ReaderInv, Answered
<1>10. BootFresh'
  BY <1>4, SMTT(30), Z3T(30) DEF BootFresh
<1>11. sent' = sent /\ got = buflen
  BY <1>0, <1>1, <1>4, SMTT(30), Z3T(30) DEF got, sent, SYSCALL_PIPEREAD
<1>12. Stream'
  <2>1. CASE value # 1
    <3>1. got' = buflen
      BY <1>0, <1>1, <1>4, <2>1, SMTT(30), Z3T(30) DEF got
    <3> QED
      BY <1>0, <1>3, <1>11, <2>1, <3>1, StreamKept, ZenonT(30) DEF PInv
  <2>2. CASE value = 1
    <3>1. /\ got' = got + 1 /\ got \in Nat /\ pipebuf_len = 1 /\ pipebuf_len' = 0
          /\ buf'[got + 1] = pipebuf /\ \A i \in 1 .. got : buf'[i] = buf[i]
      BY <1>0, <1>1, <1>2, <1>3, <1>4, <1>6, <1>11, <2>2, SMTT(30), Z3T(30) DEF got
    <3>2. \A m : Holds(m) /\ got < Len(m) /\ Len(m) \in Nat /\ pipebuf = m[got + 1] => Holds(m)'
      BY <3>1, SMTT(30), Z3T(30) DEF Holds
    <3>3. ~Empty
      BY <3>1, SMTT(30), Z3T(30) DEF Empty
    <3>4. ASSUME OneOnItsWay PROVE OneOnItsWay'
      <4>1. sent \in Nat /\ Len(message) \in Nat /\ sent <= Len(message)
        BY MessageTypes, SMTT(30), Z3T(30) DEF PInv, ProgTypes, WriterInv, sent
      <4>2. sent = got + 1 /\ pipebuf = message[got + 1]
        BY <3>1, <3>4, ZenonT(30) DEF OneOnItsWay
      <4>3. Holds(message)'
        BY <1>0, <3>1, <3>2, <3>4, <4>1, <4>2, SMTT(30), Z3T(30) DEF OneOnItsWay, Holds
      <4> QED
        BY <1>0, <1>11, <3>1, <3>4, <4>2, <4>3, SMTT(30), Z3T(30) DEF OneOnItsWay
    <3>5. ASSUME NEW m \in Messages, TwoOnTheirWay(m) PROVE TwoOnTheirWay(m)'
      <4>1. Len(m) \in Nat /\ Len(m) >= 2 /\ m[Len(m)] = NL
        BY MessageFacts, ZenonT(30)
      <4>2. got < Len(m)
        <5>1. got <= Len(m) /\ \A i \in 1 .. got : buf[i] = m[i] /\ buf[i] # NL
          BY <1>1, <1>11, <3>5, ZenonT(30) DEF TwoOnTheirWay, Holds, HasNewline
        <5> QED
          BY <3>1, <4>1, <5>1, SMTT(30), Z3T(30)
      <4>3. sent = 0 /\ got + 1 = Len(m) /\ pipebuf = m[got + 1]
        BY <3>1, <3>5, <4>1, <4>2, SMTT(30), Z3T(30) DEF TwoOnTheirWay
      <4>4. Holds(m)'
        BY <3>2, <3>5, <4>1, <4>2, <4>3, SMTT(30), Z3T(30) DEF TwoOnTheirWay
      <4> QED
        BY <1>0, <1>11, <3>1, <3>5, <4>1, <4>3, <4>4, SMTT(30), Z3T(30) DEF TwoOnTheirWay
    <3> QED
      BY <3>3, <3>4, <3>5, ZenonT(30) DEF PInv, Stream
  <2> QED
    BY <2>1, <2>2, ZenonT(30)
<1> QED
  BY <1>7, <1>8, <1>9, <1>10, <1>12, ZenonT(30) DEF PInv

\* A boot, the first or a later one, begins with an empty stream.
LEMMA FreshPrograms ==
  /\ PipeInit => PInv
  /\ \A key : SoftReboot(key) /\ ProgReset => PInv'
<1>0. /\ 0 \in 0 .. BUFSZ /\ 0 \in 0 .. MaxWait /\ 0 \in 0 .. Len(NoMessage)
      /\ Len(NoMessage) \in Nat
  BY MessagesAssumption, SMTT(30), Z3T(30) DEF NoMessage
<1>1. ASSUME PipeInit PROVE PInv
  <2>1. /\ wpc = "choose" /\ rpc = "loop" /\ message = NoMessage /\ buflen = 0 /\ queue = <<>>
        /\ pipebuf_len = 0 /\ mode = "boot"
    BY <1>1, SMTT(30), Z3T(30) DEF PipeInit, ProgInit, Init
  <2>2. ProgTypes
    BY <1>0, <1>1, SMTT(30), Z3T(30) DEF PipeInit, ProgInit, ProgTypes
  <2>3. WriterInv /\ ReaderInv /\ BootFresh
    BY <2>1, ZenonT(30) DEF WriterInv, ReaderInv, BootFresh, Handling
  <2>4. Empty
    BY <2>1, ZenonT(30) DEF Empty, sent, got
  <2> QED
    BY <2>2, <2>3, <2>4, SMTT(30), Z3T(30) DEF PInv, Stream
<1>2. ASSUME NEW key, SoftReboot(key), ProgReset PROVE PInv'
  <2>1. /\ wpc' = "choose" /\ rpc' = "loop" /\ message' = NoMessage /\ buflen' = 0 /\ queue' = <<>>
        /\ pipebuf_len' = 0 /\ mode' = "boot"
    BY <1>2, SMTT(30), Z3T(30) DEF ProgReset, SoftReboot
  <2>2. ProgTypes'
    BY <1>0, <1>2, SMTT(30), Z3T(30) DEF ProgReset, ProgTypes
  <2>3. WriterInv' /\ ReaderInv' /\ BootFresh'
    BY <2>1, ZenonT(30) DEF WriterInv, ReaderInv, BootFresh, Handling
  <2>4. Empty'
    BY <2>1, SMTT(30), Z3T(30) DEF Empty, sent, got
  <2> QED
    BY <2>2, <2>3, <2>4, SMTT(30), Z3T(30) DEF PInv, Stream
<1> QED
  BY <1>1, <1>2, SMTT(30), Z3T(30)

-----------------------------------------------------------------------------
(* The programs' steps *)

\* A program makes a system call.
LEMMA CallKeeps ==
  ASSUME TypeOK, ProcInv, PInv, WriterCall \/ WriterYield \/ ReaderCall \/ Panic
  PROVE  PInv'
<1>0. /\ UNCHANGED <<message, pos, wait, buf, buflen, printed, queue>>
      /\ wpc' \in {wpc, "called"} /\ rpc' \in {rpc, "called"}
  BY SMTT(30), Z3T(30) DEF WriterCall, WriterYield, ReaderCall, Panic, wrest, rrest, progvars
<1>1. PICK n, g, sz, c : Syscall(n, g, sz, c)
  BY ZenonT(30) DEF WriterCall, WriterYield, ReaderCall, Panic
<1>2. /\ mode = "user" /\ mode' \in {"trap", "fail"}
      /\ current \in {1, 2} /\ current' = current /\ UNCHANGED <<pipebuf, pipebuf_len>>
  BY <1>1, EnterFacts, SMTT(30), Z3T(30) DEF Syscall
<1>3. (\A k : ~Handling(k)) /\ BootFresh'
  BY <1>2, SMTT(30), Z3T(30) DEF Handling, BootFresh
<1>4. ProgTypes'
  BY <1>0, SMTT(30), Z3T(30) DEF PInv, ProgTypes
<1> USE DEF SYSCALL_PIPEWRITE, SYSCALL_PIPEREAD, SYSCALL_YIELD, SYSCALL_PANIC
<1>a. PROC_START_ADDR # 0
  BY LayoutAssumption, SMTT(30), Z3T(30)
<1>5. CASE WriterCall
  <2>1. /\ trap' = [kind |-> "syscall", nr |-> 7, page |-> PROC_START_ADDR, sz |-> Len(message) - pos,
                    ch |-> message[pos + 1]]
        /\ Result(1)' = 7 /\ Result(2)' = Result(2) /\ regs'[1] = 7
        /\ current = 1 /\ wpc = "loop" /\ wpc' = "called" /\ rpc' = rpc /\ pos < Len(message)
    BY <1>5, EnterFacts, SMTT(30), Z3T(30) DEF WriterCall, WriterRuns, Syscall, wrest
  <2>2. WriterInv'
    BY <1>0, <1>2, <1>a, <2>1, SMTT(60), Z3T(60) DEF PInv, WriterInv, Answered, Handling
  <2>3. ReaderInv'
    BY <1>0, <1>2, <1>3, <2>1, SMTT(30), Z3T(30) DEF PInv, ReaderInv, Answered, HasNewline, Handling
  <2>4. sent' = sent /\ got' = got
    BY <1>0, <2>1, SMTT(30), Z3T(30) DEF sent, got
  <2> QED
    BY <1>0, <1>2, <1>3, <1>4, <2>2, <2>3, <2>4, StreamKept, ZenonT(30) DEF PInv
<1>6. CASE ReaderCall
  <2>1. /\ trap' = [kind |-> "syscall", nr |-> 8, page |-> PROC_START_ADDR, sz |-> BUFSZ - buflen, ch |-> 0]
        /\ Result(2)' = 8 /\ Result(1)' = Result(1) /\ regs'[2] = 8
        /\ current = 2 /\ rpc = "loop" /\ rpc' = "called" /\ wpc' = wpc /\ ~HasNewline
    BY <1>6, EnterFacts, SMTT(30), Z3T(30) DEF ReaderCall, ReaderRuns, Syscall, rrest
  <2>2. WriterInv'
    BY <1>0, <1>2, <1>3, <2>1, SMTT(30), Z3T(30) DEF PInv, WriterInv, Answered, Handling
  <2>3. ReaderInv'
    BY <1>0, <1>2, <1>a, <2>1, SMTT(30), Z3T(30) DEF PInv, ReaderInv, Answered, HasNewline, Handling
  <2>4. sent' = sent /\ got' = got
    BY <1>0, <2>1, SMTT(30), Z3T(30) DEF sent, got
  <2> QED
    BY <1>0, <1>2, <1>3, <1>4, <2>2, <2>3, <2>4, StreamKept, SMTT(30), Z3T(30) DEF PInv
<1>7. CASE WriterYield \/ Panic
  <2>1. /\ wpc' = wpc /\ rpc' = rpc
        /\ current = 1 => wpc \in {"wait", "panic"}
        /\ current = 2 => rpc = "panic"
        /\ wpc = "called" => Result(1)' = Result(1)
        /\ rpc = "called" => Result(2)' = Result(2)
    BY <1>2, <1>7, EnterFacts, SMTT(30), Z3T(30) DEF WriterYield, Panic, WriterRuns, ReaderRuns, Syscall, progvars
  <2>2. \/ trap'.nr = 2 /\ current = 1 /\ wpc = "wait"
        \/ trap'.nr = 3
    BY <1>7, EnterFacts, SMTT(30), Z3T(30) DEF WriterYield, Panic, WriterRuns, Syscall
  <2>3. WriterInv'
    BY <1>0, <1>2, <1>3, <2>1, <2>2, SMTT(60), Z3T(60) DEF PInv, WriterInv, Answered, Handling
  <2>4. ReaderInv'
    BY <1>0, <1>2, <1>3, <2>1, <2>2, SMTT(60), Z3T(60) DEF PInv, ReaderInv, Answered, HasNewline, Handling
  <2>5. sent' = sent /\ got' = got
    BY <1>0, <2>1, CountsKept, SMTT(30), Z3T(30)
  <2> QED
    BY <1>0, <1>2, <1>3, <1>4, <2>3, <2>4, <2>5, StreamKept DEF PInv
<1> QED
  BY <1>5, <1>6, <1>7, ZenonT(30)

\* A program counts the byte that was moved, prints that a message was
\* written, or goes back to the start of its loop.
LEMMA CountKeeps ==
  ASSUME TypeOK, ProcInv, PInv, WriterResult \/ WriterDone \/ WriterAgain \/ ReaderResult
  PROVE  PInv'
<1>0. /\ UNCHANGED <<vars, message, buf, printed, queue>> /\ mode = "user"
  BY ZenonT(30) DEF WriterResult, WriterDone, WriterAgain, ReaderResult, WriterRuns, ReaderRuns, wrest, rrest
<1>1. /\ UNCHANGED <<mode, current, rax, regs, trap, pipebuf, pipebuf_len>>
      /\ \A k : ~Handling(k) /\ ~Handling(k)'
      /\ \A p \in {1, 2} : Result(p)' = Result(p)
  BY <1>0, ZenonT(30) DEF vars, Handling, Result
<1>2. BootFresh'
  BY <1>0, <1>1, ZenonT(30) DEF BootFresh
<1>3. Len(message) \in Nat /\ pos \in 0 .. Len(message) /\ BUFSZ \in Nat /\ buflen \in 0 .. BUFSZ
  BY MessageTypes, MessagesAssumption, ZenonT(30) DEF PInv, ProgTypes
<1>4. CASE WriterResult
  <2>1. /\ wpc = "called" /\ Result(1) = rax /\ rax \in {-1, 0, 1} /\ pos < Len(message)
        /\ UNCHANGED <<rpc, buflen, wait>>
    BY <1>0, <1>1, <1>4, ZenonT(30) DEF WriterResult, WriterRuns, Result, PInv, WriterInv, Answered, wrest
  <2>2. wpc' \in {"loop", "panic"} /\ pos' = IF rax = 1 THEN pos + 1 ELSE pos
    BY <1>4, <2>1, SMTT(30), Z3T(30) DEF WriterResult
  <2>3. ProgTypes'
    BY <1>0, <1>3, <2>1, <2>2, SMTT(30), Z3T(30) DEF PInv, ProgTypes
  <2>4. WriterInv'
    BY <1>0, <1>1, <2>1, <2>2, ZenonT(30) DEF PInv, WriterInv
  <2>5. ReaderInv'
    BY <1>0, <1>1, <2>1, ZenonT(30) DEF PInv, ReaderInv, Answered, HasNewline
  <2>6. sent' = sent /\ got' = got
    BY <1>0, <1>1, <2>1, <2>2, ZenonT(30) DEF sent, got
  <2> QED
    BY <1>0, <1>1, <1>2, <2>3, <2>4, <2>5, <2>6, StreamKept, ZenonT(30) DEF PInv
<1>5. CASE WriterDone \/ WriterAgain
  <2>1. /\ wpc \in {"loop", "wait"} /\ wpc' \in {"wait", "choose"}
        /\ wpc = "loop" => pos = Len(message)
        /\ wait' \in 0 .. MaxWait /\ UNCHANGED <<rpc, buflen, pos>>
    BY <1>3, <1>5, MessagesAssumption, SMTT(30), Z3T(30)
       DEF WriterDone, WriterAgain, WriterRuns, wrest, PInv, ProgTypes
  <2>2. ProgTypes'
    BY <1>0, <2>1, ZenonT(30) DEF PInv, ProgTypes
  <2>3. WriterInv'
    BY <1>0, <1>1, <2>1, ZenonT(30) DEF PInv, WriterInv
  <2>4. ReaderInv'
    BY <1>0, <1>1, <2>1, ZenonT(30) DEF PInv, ReaderInv, Answered, HasNewline
  <2>5. sent' = sent /\ got' = got
    BY <1>0, <1>1, <2>1, ZenonT(30) DEF sent, got
  <2> QED
    BY <1>0, <1>1, <1>2, <2>2, <2>3, <2>4, <2>5, StreamKept, SMTT(30), Z3T(30) DEF PInv
<1>6. CASE ReaderResult
  <2>1. /\ rpc = "called" /\ Result(2) = rax /\ rax \in {-1, 0, 1}
        /\ rax = 1 => buflen < BUFSZ
        /\ UNCHANGED <<wpc, pos, wait>>
    BY <1>0, <1>1, <1>6, ZenonT(30) DEF ReaderResult, ReaderRuns, Result, PInv, ReaderInv, Answered, rrest
  <2>2. rpc' \in {"loop", "panic"} /\ buflen' = IF rax = 1 THEN buflen + 1 ELSE buflen
    BY <1>6, <2>1, SMTT(30), Z3T(30) DEF ReaderResult
  <2>3. ProgTypes'
    BY <1>0, <1>3, <2>1, <2>2, SMTT(30), Z3T(30) DEF PInv, ProgTypes
  <2>4. WriterInv'
    BY <1>0, <1>1, <2>1, ZenonT(30) DEF PInv, WriterInv, Answered
  <2>5. ReaderInv'
    BY <1>1, <2>2, ZenonT(30) DEF ReaderInv
  <2>6. sent' = sent /\ got' = got
    BY <1>0, <1>1, <2>1, <2>2, ZenonT(30) DEF sent, got
  <2> QED
    BY <1>0, <1>1, <1>2, <2>3, <2>4, <2>5, <2>6, StreamKept DEF PInv
<1> QED
  BY <1>4, <1>5, <1>6, ZenonT(30)

\* The writer chooses its next message when the last one is sent: at most one
\* is then still on its way.
LEMMA ChooseKeeps ==
  ASSUME TypeOK, ProcInv, PInv, WriterChoose
  PROVE  PInv' /\ \E m \in Messages : Channel!Choose(m)
<1>1. PICK m \in Messages : message' = m /\ queue' = Append(queue, m)
  BY ZenonT(30) DEF WriterChoose
<1>2. /\ UNCHANGED <<vars, wait, rpc, buf, buflen, printed>> /\ mode = "user" /\ wpc = "choose"
      /\ pos' = 0 /\ wpc' = "loop"
  BY SMTT(30), Z3T(30) DEF WriterChoose, WriterRuns, wrest
<1>3. /\ UNCHANGED <<mode, current, rax, regs, trap, pipebuf, pipebuf_len>>
      /\ \A k : ~Handling(k) /\ ~Handling(k)'
      /\ \A p \in {1, 2} : Result(p)' = Result(p)
  BY <1>2, ZenonT(30) DEF vars, Handling, Result
<1>4. sent = Len(message) /\ sent' = 0 /\ got' = got /\ got \in Nat /\ Len(m) \in Nat
  BY <1>1, <1>2, <1>3, MessageFacts, SMTT(30), Z3T(30) DEF sent, got, PInv, ProgTypes
<1>5. ProgTypes'
  BY <1>1, <1>2, <1>4, SMTT(30), Z3T(30) DEF PInv, ProgTypes
<1>6. WriterInv' /\ BootFresh'
  BY <1>1, <1>2, <1>3, ZenonT(30) DEF WriterInv, BootFresh
<1>7. ReaderInv'
  BY <1>2, <1>3, ZenonT(30) DEF PInv, ReaderInv, Answered, HasNewline
<1>8. \A x : Holds(x) => Holds(x)'
  BY <1>2, <1>4, ZenonT(30) DEF Holds
<1>9. CASE Empty
  <2>1. queue = <<>> /\ queue' = <<m>> /\ Len(queue) < 2
    BY <1>1, <1>9, SMTT(30), Z3T(30) DEF Empty
  <2>2. OneOnItsWay'
    BY <1>1, <1>2, <1>3, <1>4, <1>9, <2>1, SMTT(60), Z3T(60) DEF Empty, OneOnItsWay, Holds
  <2> QED
    BY <1>1, <1>2, <1>5, <1>6, <1>7, <2>1, <2>2, ZenonT(30) DEF PInv, Stream, Channel!Choose
<1>10. CASE OneOnItsWay
  <2>0. PICK old \in Messages : message = old
    BY <1>10, ZenonT(30) DEF OneOnItsWay
  <2>1. queue = <<old>> /\ Len(queue) < 2 /\ Holds(old)
    BY <1>10, <2>0, SMTT(30), Z3T(30) DEF OneOnItsWay
  <2>2. queue' = <<old, m>>
    BY <1>1, <2>1, AppendTwo, ZenonT(30)
  <2>3. TwoOnTheirWay(old)'
    <3>1. sent = got + pipebuf_len /\ (pipebuf_len = 1 => pipebuf = old[sent]) /\ sent = Len(old)
      BY <1>4, <1>10, <2>0, ZenonT(30) DEF OneOnItsWay
    <3>2. Holds(old)'
      BY <1>8, <2>1, SMTT(30), Z3T(30)
    <3> QED
      BY <1>1, <1>3, <1>4, <2>2, <3>1, <3>2, SMTT(30), Z3T(30) DEF TwoOnTheirWay
  <2> QED
    BY <1>1, <1>2, <1>5, <1>6, <1>7, <2>1, <2>3, ZenonT(30) DEF PInv, Stream, Channel!Choose
<1>11. \A x : ~TwoOnTheirWay(x)
  BY <1>4, MessageFacts, SMTT(30), Z3T(30) DEF TwoOnTheirWay
<1> QED
  BY <1>9, <1>10, <1>11, SMTT(30), Z3T(30) DEF PInv, Stream

\* The reader prints the first message that is on its way, and all of it.
LEMMA PrintKeeps ==
  ASSUME TypeOK, ProcInv, PInv, ReaderPrint
  PROVE  PInv' /\ Channel!Deliver
<1>1. PICK n \in 1 .. buflen :
        /\ buf[n] = NL
        /\ printed' = [i \in 1 .. n |-> buf[i]]
        /\ buf' = [i \in 1 .. BUFSZ |-> IF i <= buflen - n THEN buf[i + n] ELSE buf[i]]
        /\ buflen' = buflen - n
  BY SMTT(30), Z3T(30) DEF ReaderPrint
<1>2. /\ UNCHANGED <<vars, wpc, message, pos, wait, rpc>> /\ mode = "user" /\ rpc = "loop"
      /\ queue' = IF queue = <<>> THEN <<>> ELSE Tail(queue)
  BY SMTT(30), Z3T(30) DEF ReaderPrint, ReaderRuns, rrest
<1>3. /\ UNCHANGED <<mode, current, rax, regs, trap, pipebuf, pipebuf_len>>
      /\ \A k : ~Handling(k) /\ ~Handling(k)'
      /\ \A p \in {1, 2} : Result(p)' = Result(p)
  BY <1>2, ZenonT(30) DEF vars, Handling, Result
<1>4. /\ buflen \in 0 .. BUFSZ /\ BUFSZ \in Nat /\ buf \in [1 .. BUFSZ -> Bytes \cup {0}]
      /\ pipebuf_len \in {0, 1}
  BY MessagesAssumption, ZenonT(30) DEF PInv, ProgTypes, TypeOK, PipeTypes
<1>5. got = buflen /\ sent' = sent /\ got' = buflen'
  BY <1>2, <1>3, ZenonT(30) DEF sent, got
<1>6. buf' \in [1 .. BUFSZ -> Bytes \cup {0}] /\ buflen' \in 0 .. BUFSZ
  BY <1>1, <1>4, SMTT(30), Z3T(30)
<1>7. WriterInv' /\ ReaderInv' /\ BootFresh'
  BY <1>2, <1>3, ZenonT(30) DEF PInv, WriterInv, ReaderInv, BootFresh, Answered
<1>8. ASSUME NEW m \in Messages, Holds(m)
      PROVE  n = Len(m) /\ got = Len(m) /\ printed' = m /\ got' = 0
  <2>1. Len(m) \in Nat /\ Len(m) >= 2 /\ m \in Seq(Bytes) /\ \A i \in 1 .. Len(m) - 1 : m[i] # NL
    BY MessageFacts, SMTT(30), Z3T(30)
  <2>2. n \in 1 .. got /\ got <= Len(m) /\ m[n] = NL
    BY <1>1, <1>4, <1>5, <1>8, ZenonT(30) DEF Holds
  <2>3. n = Len(m) /\ got = Len(m)
    BY <1>4, <1>5, <2>1, <2>2, SMTT(30), Z3T(30)
  <2>4. printed' = [i \in 1 .. Len(m) |-> m[i]]
    BY <1>1, <1>8, <2>3, ZenonT(30) DEF Holds
  <2>5. m = [i \in 1 .. Len(m) |-> m[i]]
    BY <2>1, SMTT(30), Z3T(30)
  <2> QED
    BY <1>1, <1>4, <1>5, <2>3, <2>4, <2>5, SMTT(30), Z3T(30)
<1>9. ~Empty
  BY <1>1, <1>4, <1>5, SMTT(30), Z3T(30) DEF Empty
<1>10. CASE OneOnItsWay
  <2>1. message \in Messages /\ queue = <<message>> /\ queue' = <<>> /\ printed' = message
        /\ Head(queue) = message /\ Tail(queue) = <<>>
    BY <1>2, <1>8, <1>10, SMTT(30), Z3T(30) DEF OneOnItsWay
  <2>2. sent <= Len(message) /\ sent \in Nat /\ Len(message) \in Nat
    BY MessageTypes, SMTT(30), Z3T(30) DEF PInv, ProgTypes, WriterInv, sent
  <2>3. Empty'
    BY <1>2, <1>3, <1>4, <1>5, <1>8, <1>10, <2>1, <2>2, SMTT(30), Z3T(30) DEF OneOnItsWay, Empty
  <2>4. ProgTypes'
    BY <1>2, <1>6, <2>1, SMTT(30), Z3T(30) DEF PInv, ProgTypes
  <2> QED
    BY <1>7, <2>1, <2>3, <2>4, ZenonT(30) DEF PInv, Stream, Channel!Deliver
<1>11. ASSUME NEW m \in Messages, TwoOnTheirWay(m) PROVE PInv' /\ Channel!Deliver
  <2>1. /\ queue = <<m, message>> /\ queue' = <<message>> /\ printed' = m /\ message \in Messages
        /\ Head(queue) = m /\ Tail(queue) = <<message>>
    BY <1>2, <1>8, <1>11, SMTT(30), Z3T(30) DEF TwoOnTheirWay
  <2>2. got = Len(m) /\ got' = 0 /\ sent \in {0, 1} /\ pipebuf_len = sent /\ Len(message) \in Nat
    BY <1>4, <1>5, <1>8, <1>11, <2>1, MessageFacts, SMTT(30), Z3T(30) DEF TwoOnTheirWay
  <2>3. OneOnItsWay'
    BY <1>2, <1>3, <1>5, <1>11, <2>1, <2>2, SMTT(60), Z3T(60) DEF TwoOnTheirWay, OneOnItsWay, Holds
  <2>4. ProgTypes'
    BY <1>2, <1>6, <2>1, SMTT(30), Z3T(30) DEF PInv, ProgTypes
  <2> QED
    BY <1>7, <2>1, <2>3, <2>4, ZenonT(30) DEF PInv, Stream, Channel!Deliver
<1> QED
  BY <1>9, <1>10, <1>11, ZenonT(30) DEF PInv, Stream

-----------------------------------------------------------------------------
(* The theorems *)

\* The programs make only calls that Kernel's arbitrary user may make, so what
\* is proved of Kernel holds of them.
LEMMA KernelSteps == PInv /\ [PipeNext]_pvars => [Next]_vars
<1> SUFFICES ASSUME PInv, [PipeNext]_pvars PROVE [Next]_vars
  BY SMTT(30), Z3T(30)
<1>1. CASE UNCHANGED vars
  BY <1>1, ZenonT(30)
<1>2. CASE WriterCall
  <2>1. message \in Messages /\ pos \in 0 .. Len(message) /\ pos < Len(message)
    BY <1>2, SMTT(30), Z3T(30) DEF WriterCall, WriterRuns, PInv, WriterInv, ProgTypes
  <2>2. message[pos + 1] \in Bytes /\ Len(message) - pos \in 0 .. MaxSize
    BY <2>1, MessageFacts, InputAssumption, SMTT(30), Z3T(30)
  <2> QED
    BY <1>2, <2>2, ZenonT(30) DEF WriterCall, Next, UserStep, Buffers
<1>3. CASE ReaderCall
  <2>1. BUFSZ - buflen \in 0 .. MaxSize
    BY MessagesAssumption, InputAssumption, SMTT(30), Z3T(30) DEF PInv, ProgTypes
  <2> QED
    BY <1>3, <2>1, ZenonT(30) DEF ReaderCall, Next, UserStep, Buffers
<1>4. CASE WriterYield \/ Panic
  BY <1>4, ZenonT(30) DEF WriterYield, Panic, Next, UserStep
<1>5. CASE Tick \/ Read \/ OtherKernelStep
  BY <1>5, SMTT(30), Z3T(30) DEF Tick, Read, OtherKernelStep, Next, KernelStep
<1>6. CASE Reboot
  BY <1>6, ZenonT(30) DEF Reboot, Next
<1>7. CASE WriterChoose \/ WriterResult \/ WriterDone \/ WriterAgain \/ ReaderResult \/ ReaderPrint
  BY <1>1, <1>7, ZenonT(30) DEF WriterChoose, WriterResult, WriterDone, WriterAgain, ReaderResult, ReaderPrint
<1> QED
  BY <1>1, <1>2, <1>3, <1>4, <1>5, <1>6, <1>7, ZenonT(30) DEF PipeNext, Writer, Reader, pvars

\* Every step keeps the invariant and is a step of PipeChannel.
LEMMA PipeStep ==
  ASSUME IInv, PInv, [PipeNext]_pvars
  PROVE  PInv' /\ [Channel!ChNext]_(Channel!chvars)
<1>0. TypeOK /\ ProcInv
  BY SMTT(30), Z3T(30) DEF IInv
<1>1. CASE WriterChoose
  BY <1>0, <1>1, ChooseKeeps, ZenonT(30) DEF Channel!ChNext
<1>2. CASE ReaderPrint
  BY <1>0, <1>2, PrintKeeps, ZenonT(30) DEF Channel!ChNext
<1>3. CASE WriterCall \/ WriterYield \/ ReaderCall \/ Panic
  <2>1. UNCHANGED <<queue, printed>>
    BY <1>3, ZenonT(30) DEF WriterCall, WriterYield, ReaderCall, Panic, wrest, rrest, progvars
  <2> QED
    BY <1>0, <1>3, <2>1, CallKeeps, ZenonT(30) DEF Channel!chvars
<1>4. CASE WriterResult \/ WriterDone \/ WriterAgain \/ ReaderResult
  <2>1. UNCHANGED <<queue, printed>>
    BY <1>4, ZenonT(30) DEF WriterResult, WriterDone, WriterAgain, ReaderResult, wrest, rrest
  <2> QED
    BY <1>0, <1>4, <2>1, CountKeeps, SMTT(30), Z3T(30) DEF Channel!chvars
<1>5. CASE Tick
  <2>1. /\ mode = "trap" /\ trap.kind = "timer" /\ mode' = "sched"
        /\ UNCHANGED <<regs, pipebuf, pipebuf_len>>
        /\ UNCHANGED <<wpc, message, pos, rpc, buf, buflen, printed, queue>>
    BY <1>5, ZenonT(30) DEF Tick, HandleTimer, Schedule, wrest, pipevars
  <2>2. wait' \in 0 .. MaxWait
    BY <1>5, MessagesAssumption, SMTT(30), Z3T(30) DEF Tick, PInv, ProgTypes
  <2> QED
    BY <1>0, <2>1, <2>2, MoveKeeps, ZenonT(30) DEF Channel!chvars
<1>6. CASE Read
  <2>1. UNCHANGED <<queue, printed>>
    BY <1>6, SMTT(30), Z3T(30) DEF Read
  <2> QED
    BY <1>0, <1>6, <2>1, PipereadKeeps, ZenonT(30) DEF Channel!chvars
<1>7. CASE OtherKernelStep
  <2>0. /\ UNCHANGED progvars
        /\ UNCHANGED <<wpc, message, pos, rpc, buf, buflen, printed, queue>> /\ wait' \in 0 .. MaxWait
    BY <1>7, SMTT(30), Z3T(30) DEF OtherKernelStep, progvars, PInv, ProgTypes
  <2>1. CASE KernelStartSetup \/ KernelStartRun
    BY <1>0, <2>0, <2>1, BootKeeps, ZenonT(30) DEF Channel!chvars
  <2>2. CASE HandlePanic
    <3>1. mode = "trap" /\ mode' = "fail" /\ UNCHANGED <<regs, pipebuf, pipebuf_len>>
      BY <2>2, PanicEnds, ZenonT(30) DEF Stops, pipevars
    <3> QED
      BY <1>0, <2>0, <3>1, MoveKeeps, ZenonT(30) DEF Channel!chvars
  <2>3. CASE SysYield
    BY <1>0, <2>0, <2>3, YieldKeeps, SMTT(30), Z3T(30) DEF Channel!chvars
  <2>4. CASE syscall_pipewrite
    BY <1>0, <2>0, <2>4, PipewriteKeeps, ZenonT(30) DEF Channel!chvars
  <2>5. CASE ScheduleSpin
    <3>1. /\ mode = "sched" /\ UNCHANGED <<regs, pipebuf, pipebuf_len>>
          /\ mode' \in {"sched", "fail"} \/ (mode' = "user" /\ rax' = regs[current'])
      BY <2>5, ZenonT(30) DEF ScheduleSpin, Run, Fail, pipevars
    <3> QED
      BY <1>0, <2>0, <3>1, MoveKeeps, ZenonT(30) DEF Channel!chvars
  <2>6. CASE TimerInterrupt
    BY <1>0, <2>0, <2>6, TimerKeeps DEF Channel!chvars
  <2> QED
    BY <1>7, <2>1, <2>2, <2>3, <2>4, <2>5, <2>6, ZenonT(30) DEF OtherKernelStep
<1>8. CASE Reboot
  <2>1. PICK key \in Keys : Keypress(key) /\ IF key = "q" THEN UNCHANGED progvars ELSE ProgReset
    BY <1>8, ZenonT(30) DEF Reboot
  <2>2. CASE key = "q"
    <3>1. /\ mode \in {"trap", "sched", "fail"} /\ mode' = "off"
          /\ UNCHANGED <<regs, pipebuf, pipebuf_len>>
          /\ UNCHANGED <<wpc, message, pos, rpc, buf, buflen, printed, queue>> /\ wait' = wait
      BY <2>1, <2>2, ZenonT(30) DEF Keypress, pipevars, progvars
    <3>2. wait' \in 0 .. MaxWait
      BY <3>1, ZenonT(30) DEF PInv, ProgTypes
    <3> QED
      BY <1>0, <3>1, <3>2, MoveKeeps, ZenonT(30) DEF Channel!chvars
  <2>3. CASE key # "q"
    <3>1. SoftReboot(key) /\ ProgReset
      BY <2>1, <2>3, ZenonT(30) DEF Keypress
    <3> QED
      BY <3>1, FreshPrograms, ZenonT(30) DEF ProgReset, Channel!ChNext, Channel!Clear
  <2> QED
    BY <2>2, <2>3, SMTT(30), Z3T(30)
<1>9. CASE UNCHANGED pvars
  <2>1. /\ \A p \in {1, 2} : Result(p)' = Result(p)
        /\ \A p \in {1, 2} : \A n : Answered(p, n)' = Answered(p, n)
        /\ \A n : Handling(n)' = Handling(n)
    BY <1>9, ZenonT(30) DEF Result, Answered, Handling, pvars, vars
  <2>2. ProgTypes' /\ BootFresh'
    BY <1>9, ZenonT(30) DEF PInv, ProgTypes, BootFresh, pvars, vars, progvars
  <2>3. WriterInv' /\ ReaderInv'
    BY <1>9, <2>1, ZenonT(30) DEF PInv, WriterInv, ReaderInv, HasNewline, pvars, vars, progvars
  <2>4. Stream'
    BY <1>9, <2>1, CountsKept, StreamKept, SMTT(30), Z3T(30) DEF PInv, pvars, vars, progvars
  <2> QED
    BY <1>9, <2>2, <2>3, <2>4, ZenonT(30) DEF PInv, Channel!chvars, pvars, progvars
<1> QED
  BY <1>1, <1>2, <1>3, <1>4, <1>5, <1>6, <1>7, <1>8, <1>9, ZenonT(30) DEF PipeNext, Writer, Reader

\* Both invariants hold in every reachable state.
LEMMA PipeInvariance == PipeSpec => [](IInv /\ PInv)
<1>1. PipeInit => IInv /\ PInv
  BY FreshPrograms, InitType, BootInv, SMTT(30), Z3T(30) DEF PipeInit, IInv, PagePart
<1>2. IInv /\ PInv /\ [PipeNext]_pvars => (IInv /\ PInv)'
  BY PipeStep, KernelSteps, Inductive, SMTT(30), Z3T(30)
<1> QED
  BY <1>1, <1>2, PTL DEF PipeSpec

\* The programs' variables have their types, and what is printed is a message.
THEOREM PipeTypesHold == PipeSpec => []PipeTypeOK
<1>1. PInv => PipeTypeOK
  <2> SUFFICES ASSUME PInv PROVE PipeTypeOK
    BY SMTT(30), Z3T(30)
  <2>1. message \in Seq(Bytes)
    BY MessageTypes, SMTT(30), Z3T(30) DEF PInv
  <2> QED
    BY <2>1, SMTT(30), Z3T(30) DEF PInv, ProgTypes, PipeTypeOK
<1> QED
  BY <1>1, PipeInvariance, PTL

\* No byte is lost, repeated or reordered, whatever the messages, the buffer
\* and the preemptions: PipeSystem implements PipeChannel.
THEOREM PipeIsChannel == PipeSpec => ImplementsChannel
<1>1. PipeInit => Channel!ChInit
  BY SMTT(30), Z3T(30) DEF PipeInit, ProgInit, Channel!ChInit
<1>2. IInv /\ PInv /\ [PipeNext]_pvars => [Channel!ChNext]_(Channel!chvars)
  BY PipeStep, SMTT(30), Z3T(30)
<1> QED
  BY <1>1, <1>2, PipeInvariance, PTL DEF PipeSpec, ImplementsChannel, Channel!ChSpec

\* The pipe programs' machine is one of Kernel's: what is proved of arbitrary
\* programs (kernel.cc's assertions, page counts, isolation) holds for them.
THEOREM PipeRunsOnKernel == PipeSpec => Spec
<1>1. PipeInit => Init
  BY SMTT(30), Z3T(30) DEF PipeInit
<1>2. IInv /\ PInv /\ [PipeNext]_pvars => [Next]_vars
  BY KernelSteps, ZenonT(30)
<1> QED
  BY <1>1, <1>2, PipeInvariance, PTL DEF PipeSpec, Spec

-----------------------------------------------------------------------------
(* What stops the machine *)

\* The programs make four system calls and cause no other trap, sys_pipewrite
\* never returns 0 to the writer, and sys_piperead returns 0 to the reader only
\* when its buffer is full of a message that does not end there.
CallInv ==
  /\ mode = "trap" =>
       \/ trap.kind = "timer"
       \/ trap.kind = "syscall" /\ trap.nr \in {SYSCALL_YIELD, SYSCALL_PANIC,
                                                SYSCALL_PIPEWRITE, SYSCALL_PIPEREAD}
  /\ Handling(SYSCALL_PANIC) => rpc = "panic"
  /\ wpc # "panic" /\ (wpc = "called" => Result(1) # 0)
  /\ rpc = "panic" \/ (rpc = "called" /\ Result(2) = 0) => TooLong
  /\ why # "none" => mode \in {"fail", "off"}

\* Until the memory viewer takes its page, only the programs' pages are in use;
\* kernel_start loads the writer and then the reader.
LoadInv ==
  /\ v_ = 0 => next_alloc_pa = 0 /\ \A g \in Pages \ PipePages : refcount[g] = 0
  /\ mode = "boot" =>
       /\ v_ = 0
       /\ \/ todo = StartList("pipe") /\ \A g \in Pages : refcount[g] = 0
          \/ /\ todo = <<[pid |-> 2, name |-> "pipereader"]>>
             /\ \A g \in Region(2) : refcount[g] = 0
          \/ todo = <<>>

StopInv == StopsOnlyWhenTooLong /\ CallInv /\ LoadInv

\* What the command "pipe" loads, in order.
LEMMA PipeList ==
  LET both == StartList("pipe") IN
  /\ both # <<>> /\ Head(both) = [pid |-> 1, name |-> "pipewriter"]
  /\ Tail(both) = <<[pid |-> 2, name |-> "pipereader"]>>
BY PipeImageAssumption, SMTT(30), Z3T(30) DEF StartList

\* process_setup succeeds: nobody else uses a page of the program's region.
LEMMA SetupSucceeds ==
  ASSUME TypeOK, NEW p \in {1, 2}, ProcessSetup(p, Program(p)),
         \A g \in Region(p) : refcount[g] = 0
  PROVE  /\ UNCHANGED <<mode, why>>
         /\ \A g \in Pages : refcount'[g] # refcount[g] => g \in Region(p) \cap PipePages
<1> DEFINE fp == Footprint(p, Program(p))
<1>1. Len(fp) \in Nat
  BY ImageAssumption, SMTT(30), Z3T(30) DEF Footprint, Program
<1>2. PICK n \in 0 .. Len(fp) :
        /\ Claimed(p, fp, n)
        /\ refcount' = [g \in Pages |-> IF g \in {fp[i] : i \in 1 .. n} THEN refcount[g] + 1
                                                                       ELSE refcount[g]]
        /\ n = Len(fp) => UNCHANGED <<mode, why>>
  BY ZenonT(30) DEF ProcessSetup
<1>3. \A i \in 1 .. Len(fp) : fp[i] \in Region(p) \cap PipePages /\ CanClaim(p, fp, i)
  <2>1. \A i \in 1 .. Len(fp) : fp[i] \in Region(p) /\ \A j \in 1 .. i - 1 : fp[j] # fp[i]
    BY PipeImageAssumption, ZenonT(30)
  <2>2. \A i \in 1 .. Len(fp) : fp[i] \in PipePages
    BY ZenonT(60) DEF PipePages
  <2> HIDE DEF fp
  <2> QED
    BY <2>1, <2>2, ZenonT(30) DEF CanClaim
<1> HIDE DEF fp
<1>4. n = Len(fp)
  BY <1>1, <1>2, <1>3, SMTT(60), Z3T(60) DEF Claimed
<1>5. ASSUME NEW g \in Pages, refcount'[g] # refcount[g] PROVE g \in Region(p) \cap PipePages
  <2>1. g \in {fp[i] : i \in 1 .. n}
    BY <1>2, <1>5, ZenonT(30)
  <2> QED
    BY <1>3, <1>4, <2>1, ZenonT(30)
<1> QED
  BY <1>2, <1>4, <1>5, SMTT(30), Z3T(30)

\* The two regions have no page in common.
LEMMA RegionsDisjoint == Region(1) \cap Region(2) = {}
BY LayoutAssumption, SMTT(30), Z3T(30) DEF Region

\* Loading keeps the invariant and stops nothing.
LEMMA LoadKeeps ==
  ASSUME TypeOK, ProcInv, LoadInv, KernelStartSetup
  PROVE  LoadInv' /\ UNCHANGED <<mode, why>>
<1>1. /\ mode = "boot" /\ todo # <<>> /\ todo' = Tail(todo)
      /\ ProcessSetup(Head(todo).pid, Head(todo).name) /\ UNCHANGED <<next_alloc_pa, v_>>
  BY ZenonT(30) DEF KernelStartSetup
<1>2. v_ = 0 /\ next_alloc_pa = 0 /\ \A g \in Pages \ PipePages : refcount[g] = 0
  BY <1>1, ZenonT(30) DEF LoadInv
<1>3. CASE todo = StartList("pipe") /\ \A g \in Pages : refcount[g] = 0
  <2>1. /\ ProcessSetup(1, Program(1)) /\ todo' = <<[pid |-> 2, name |-> "pipereader"]>>
        /\ 1 \in {1, 2}
    BY <1>1, <1>3, PipeList, SMTT(30), Z3T(30) DEF Program
  <2>2. \A g \in Region(1) \cup Region(2) : g \in Pages
    BY RegionFacts, ZenonT(30)
  <2>3. /\ UNCHANGED <<mode, why>>
        /\ \A g \in Pages : refcount'[g] # refcount[g] => g \in Region(1) \cap PipePages
    BY <1>3, <2>1, <2>2, SetupSucceeds, ZenonT(30)
  <2>4. \A g \in Region(2) : refcount'[g] = 0
    BY <1>3, <2>2, <2>3, RegionsDisjoint, ZenonT(30)
  <2> QED
    BY <1>1, <1>2, <2>1, <2>3, <2>4, ZenonT(30) DEF LoadInv
<1>4. CASE todo = <<[pid |-> 2, name |-> "pipereader"]>> /\ \A g \in Region(2) : refcount[g] = 0
  <2>1. ProcessSetup(2, Program(2)) /\ todo' = <<>> /\ 2 \in {1, 2}
    BY <1>1, <1>4, SMTT(30), Z3T(30) DEF Program
  <2>2. /\ UNCHANGED <<mode, why>>
        /\ \A g \in Pages : refcount'[g] # refcount[g] => g \in Region(2) \cap PipePages
    BY <1>4, <2>1, SetupSucceeds, ZenonT(30)
  <2> QED
    BY <1>1, <1>2, <2>1, <2>2, ZenonT(30) DEF LoadInv
<1> QED
  BY <1>1, <1>3, <1>4, ZenonT(30) DEF LoadInv

\* Entering the kernel stops nothing: the memory viewer finds a page.
LEMMA EnterSucceeds ==
  ASSUME TypeOK, ProcInv, LoadInv, NEW t, NEW reg, Enter(t, reg)
  PROVE  LoadInv' /\ mode' = "trap" /\ UNCHANGED why
<1>1. Memshow /\ mode = "user"
  BY ZenonT(30) DEF Enter
<1>2. CASE ~show_memory \/ v_ # 0
  BY <1>1, <1>2, ZenonT(30) DEF Memshow, LoadInv
<1>3. CASE show_memory /\ v_ = 0
  <2>1. PICK g \in Pages \ PipePages : allocatable_physical_address(g)
    BY <1>3, PipeImageAssumption, ZenonT(30)
  <2>2. next_alloc_pa = 0 /\ g >= 0 /\ refcount[g] = 0
    BY <1>3, <2>1, PageFacts, SMTT(30), Z3T(30) DEF LoadInv
  <2>3. ~KallocFails
    BY <2>1, <2>2, ZenonT(30) DEF KallocFails, Allocable
  <2>4. PICK h \in Pages : Kalloc(h) /\ v_' = h /\ mode' = "trap" /\ UNCHANGED why
    BY <1>1, <1>3, <2>3, ZenonT(30) DEF Memshow, ProcInv
  <2>5. h # 0
    BY <2>4, PageFacts, SMTT(30), Z3T(30) DEF Kalloc, Allocable, allocatable_physical_address, reserved_physical_address
  <2> QED
    BY <2>4, <2>5, ZenonT(30) DEF LoadInv
<1> QED
  BY <1>2, <1>3, SMTT(30), Z3T(30)

\* A step that leaves the pages and the memory viewer alone.
LEMMA LoadKept ==
  ASSUME LoadInv, UNCHANGED <<v_, next_alloc_pa, refcount>>, mode' # "boot"
  PROVE  LoadInv'
BY SMTT(30), Z3T(30) DEF LoadInv

\* The reader reads with a full buffer only when the message is too long.
LEMMA FullBuffer ==
  ASSUME ProgTypes, Stream, ~HasNewline, got = buflen, buflen = BUFSZ
  PROVE  TooLong
<1>1. buflen \in Nat /\ buflen > 0 /\ \A i \in 1 .. buflen : buf[i] # NL
  BY MessagesAssumption, SMTT(30), Z3T(30) DEF ProgTypes, HasNewline
<1>2. ASSUME NEW m \in Messages, Holds(m) PROVE Len(m) > BUFSZ
  <2>1. Len(m) \in Nat /\ Len(m) >= 2 /\ m[Len(m)] = NL
    BY MessageFacts, ZenonT(30)
  <2>2. got <= Len(m) /\ \A i \in 1 .. got : m[i] # NL
    BY <1>1, <1>2, ZenonT(30) DEF Holds
  <2> QED
    BY <1>1, <2>1, <2>2, SMTT(30), Z3T(30)
<1>3. ~Empty
  BY <1>1, SMTT(30), Z3T(30) DEF Empty
<1>4. CASE OneOnItsWay
  <2>1. queue # <<>> /\ Head(queue) = message /\ message \in Messages /\ Holds(message)
    BY <1>4, SMTT(30), Z3T(30) DEF OneOnItsWay
  <2> QED
    BY <1>2, <2>1, SMTT(30), Z3T(30) DEF TooLong
<1>5. ASSUME NEW m \in Messages, TwoOnTheirWay(m) PROVE TooLong
  <2>1. queue # <<>> /\ Head(queue) = m /\ Holds(m)
    BY <1>5, SMTT(30), Z3T(30) DEF TwoOnTheirWay
  <2> QED
    BY <1>2, <2>1, ZenonT(30) DEF TooLong
<1> QED
  BY <1>3, <1>4, <1>5, ZenonT(30) DEF Stream

\* The programs' calls.
LEMMA CallStops ==
  ASSUME TypeOK, ProcInv, PInv, StopInv, WriterCall \/ WriterYield \/ ReaderCall \/ Panic
  PROVE  StopInv'
<1> USE DEF SYSCALL_PIPEWRITE, SYSCALL_PIPEREAD, SYSCALL_YIELD, SYSCALL_PANIC
<1>0. queue' = queue /\ wpc' \in {wpc, "called"} /\ rpc' \in {rpc, "called"}
  BY ZenonT(30) DEF WriterCall, WriterYield, ReaderCall, Panic, wrest, rrest, progvars
<1>1. PICK n, g, sz, c : n \in {2, 3, 7, 8} /\ Syscall(n, g, sz, c)
  BY SMTT(30), Z3T(30) DEF WriterCall, WriterYield, ReaderCall, Panic
<1>2. LoadInv' /\ mode' = "trap" /\ UNCHANGED why
  BY <1>1, EnterSucceeds, ZenonT(30) DEF Syscall, StopInv
<1>3. /\ trap' = [kind |-> "syscall", nr |-> n, page |-> g, sz |-> sz, ch |-> c]
      /\ mode = "user" /\ current \in {1, 2}
      /\ \A p \in {1, 2} : Result(p)' = IF p = current THEN n ELSE Result(p)
  BY <1>1, EnterFacts, ZenonT(30) DEF Syscall
<1>4. trap'.kind = "syscall" /\ trap'.nr = n
  BY <1>3, SMTT(30), Z3T(30)
<1>5. TooLong' = TooLong
  BY <1>0, SMTT(30), Z3T(30) DEF TooLong
<1>6. StopsOnlyWhenTooLong'
  BY <1>2, <1>5, ZenonT(30) DEF StopInv, StopsOnlyWhenTooLong
<1>7. Handling(SYSCALL_PANIC)' => rpc' = "panic"
  <2> SUFFICES ASSUME n = 3 PROVE rpc' = "panic"
    BY <1>4, ZenonT(30) DEF Handling
  <2>1. Panic
    BY <1>4, EnterFacts, SMTT(60), Z3T(60) DEF WriterCall, WriterYield, ReaderCall, Syscall
  <2> QED
    BY <2>1, SMTT(30), Z3T(30) DEF Panic, WriterRuns, ReaderRuns, progvars, StopInv, CallInv
<1>8. /\ wpc' # "panic" /\ (wpc' = "called" => Result(1)' # 0)
      /\ rpc' = "panic" \/ (rpc' = "called" /\ Result(2)' = 0) => TooLong'
  <2>1. CASE current = 1
    <3>1. rpc' = rpc
      BY <2>1, SMTT(30), Z3T(30) DEF WriterCall, WriterYield, ReaderCall, ReaderRuns, Panic, wrest, progvars
    <3>2. Result(1)' = n /\ Result(2)' = Result(2)
      BY <1>3, <2>1, SMTT(30), Z3T(30)
    <3> QED
      BY <1>0, <1>1, <1>5, <3>1, <3>2, SMTT(30), Z3T(30) DEF StopInv, CallInv
  <2>2. CASE current = 2
    <3>1. wpc' = wpc
      BY <2>2, SMTT(30), Z3T(30) DEF WriterCall, WriterYield, WriterRuns, ReaderCall, Panic, rrest, progvars
    <3>2. Result(2)' = n /\ Result(1)' = Result(1)
      BY <1>3, <2>2, SMTT(30), Z3T(30)
    <3> QED
      BY <1>0, <1>1, <1>5, <3>1, <3>2, SMTT(30), Z3T(30) DEF StopInv, CallInv
  <2> QED
    BY <1>3, <2>1, <2>2, ZenonT(30)
<1> QED
  BY <1>1, <1>2, <1>3, <1>4, <1>6, <1>7, <1>8, ZenonT(30) DEF StopInv, CallInv

\* The programs' other steps.
LEMMA RunStops ==
  ASSUME TypeOK, ProcInv, PInv, StopInv,
         WriterChoose \/ WriterResult \/ WriterDone \/ WriterAgain \/ ReaderResult \/ ReaderPrint
  PROVE  StopInv'
<1>1. /\ UNCHANGED vars /\ mode = "user"
  BY ZenonT(30) DEF WriterChoose, WriterResult, WriterDone, WriterAgain, ReaderResult, ReaderPrint,
         WriterRuns, ReaderRuns
<1>2. /\ UNCHANGED <<mode, current, rax, regs, trap, why, v_, next_alloc_pa, refcount>>
      /\ \A k : ~Handling(k)' /\ \A p \in {1, 2} : Result(p)' = Result(p)
  BY <1>1, ZenonT(30) DEF vars, Handling, Result
<1>3. why' = "none"
  BY <1>1, <1>2, ZenonT(30) DEF StopInv, CallInv
<1>4. LoadInv' /\ StopsOnlyWhenTooLong'
  BY <1>1, <1>2, <1>3, LoadKept, SMTT(30), Z3T(30) DEF StopInv, StopsOnlyWhenTooLong
<1>5. TooLong /\ ~ReaderPrint => TooLong'
  <2>1. CASE WriterChoose
    <3>1. PICK m \in Messages : queue' = Append(queue, m)
      BY <2>1, SMTT(30), Z3T(30) DEF WriterChoose
    <3>2. queue \in Seq(Messages)
      BY ZenonT(30) DEF PInv, ProgTypes
    <3> QED
      BY <3>1, <3>2, SMTT(30), Z3T(30) DEF TooLong
  <2>2. CASE ~WriterChoose /\ ~ReaderPrint
    BY <2>2, ZenonT(30) DEF WriterResult, WriterDone, WriterAgain, ReaderResult, TooLong, rrest
  <2> QED
    BY <2>1, <2>2, SMTT(30), Z3T(30)
<1>6. wpc' # "panic" /\ (wpc' = "called" => Result(1)' # 0)
  BY <1>2, ZenonT(30) DEF StopInv, CallInv, WriterChoose, WriterResult, WriterDone, WriterAgain, ReaderResult,
     ReaderPrint, WriterRuns, Result, rrest
<1>7. rpc' = "panic" \/ (rpc' = "called" /\ Result(2)' = 0) => TooLong'
  <2>1. CASE ReaderPrint
    BY <2>1, ZenonT(30) DEF ReaderPrint, ReaderRuns
  <2>2. CASE ReaderResult
    <3>1. rpc = "called" /\ Result(2) = rax /\ rpc' = IF rax = 0 THEN "panic" ELSE "loop"
      BY <1>1, <2>2, ZenonT(30) DEF ReaderResult, ReaderRuns, Result
    <3> QED
      BY <1>1, <1>5, <2>2, <3>1, ZenonT(30) DEF StopInv, CallInv, ReaderPrint, ReaderRuns
  <2>3. CASE WriterChoose \/ WriterResult \/ WriterDone \/ WriterAgain
    <3>1. rpc' = rpc /\ ~ReaderPrint
      BY <2>3, SMTT(60), Z3T(60) DEF WriterChoose, WriterResult, WriterDone, WriterAgain, WriterRuns, ReaderPrint,
         ReaderRuns, wrest
    <3> QED
      BY <1>2, <1>5, <3>1, ZenonT(30) DEF StopInv, CallInv
  <2> QED
    BY <2>1, <2>2, <2>3, ZenonT(30)
<1> QED
  BY <1>1, <1>2, <1>3, <1>4, <1>6, <1>7, ZenonT(30) DEF StopInv, CallInv

\* The kernel's steps other than the boot's, and the timer.
LEMMA KernelStops ==
  ASSUME IInv, IInv', PInv, StopInv,
         Tick \/ Read \/ (UNCHANGED progvars /\ (HandlePanic \/ SysYield \/ syscall_pipewrite
                                                  \/ ScheduleSpin))
  PROVE  StopInv'
<1> USE DEF SYSCALL_PIPEWRITE, SYSCALL_PIPEREAD, SYSCALL_YIELD, SYSCALL_PANIC
<1>1. /\ UNCHANGED <<v_, next_alloc_pa, refcount, wpc, rpc, queue>> /\ mode' # "boot"
      /\ mode \in {"trap", "sched"} /\ why = "none" /\ TypeOK /\ ProcInv
  <2>1. /\ UNCHANGED <<v_, next_alloc_pa, refcount, wpc, rpc, queue>>
        /\ mode \in {"trap", "sched"} /\ mode' # "boot"
    <3>1. CASE HandlePanic
      BY <3>1, PanicEnds, ZenonT(30) DEF Stops, Read, syscall_piperead, Tick, progvars, wrest, rrest
    <3>2. CASE ~HandlePanic
      BY <3>2, ZenonT(30) DEF Tick, Read, HandleTimer, SysYield, syscall_pipewrite, syscall_piperead,
         ScheduleSpin, Schedule, Return, Run, KernelFaults, StopsWith, Fail, Handling, memvars,
         progvars, wrest, rrest
    <3> QED
      BY <3>1, <3>2, ZenonT(30)
  <2> QED
    BY <2>1, ZenonT(30) DEF StopInv, CallInv, IInv
<1>2. LoadInv' /\ (TooLong' = TooLong)
  BY <1>1, LoadKept, ZenonT(30) DEF StopInv, TooLong
<1>3. CASE HandlePanic
  <2>1. Handling(SYSCALL_PANIC) /\ why' = "user_panic" /\ mode' = "fail" /\ mode = "trap"
        /\ UNCHANGED regs
    <3>1. ~UnexpectedException /\ ~UnexpectedSyscall
      BY SMTT(30), Z3T(30) DEF UnexpectedException, UnexpectedSyscall, StopInv, CallInv, Handling,
         UnknownSyscall
    <3> QED
      BY <1>3, <3>1, ZenonT(30) DEF HandlePanic, SysPanic, StopsWith, Fail, Handling
  <2>2. rpc = "panic" /\ TooLong
    BY <2>1, ZenonT(30) DEF StopInv, CallInv
  <2>3. \A p \in {1, 2} : Result(p)' = Result(p)
    BY <2>1, ZenonT(30) DEF Result
  <2> QED
    BY <1>1, <1>2, <2>1, <2>2, <2>3, ZenonT(30) DEF StopInv, CallInv, StopsOnlyWhenTooLong, Handling
<1>4. CASE ~HandlePanic
  <2>0. (syscall_pipewrite => trap.page # 0) /\ (syscall_piperead => trap.page # 0)
    BY ZenonT(30) DEF syscall_pipewrite, syscall_piperead, PInv, WriterInv, ReaderInv
  <2>1. why' \in {"none", "run", "check_pagetable", "syscall_entry"}
    BY <1>1, <1>4, <2>0, ZenonT(30) DEF Tick, Read, HandleTimer, SysYield, syscall_pipewrite,
       syscall_piperead, ScheduleSpin, Return, Run, Fail
  <2>2. why' = "none"
    BY <2>1, ZenonT(30) DEF IInv, ProcInv, InternalAssertsHold
  <2>3. mode' # "trap" /\ \A k : ~Handling(k)'
    BY <1>4, <2>0, ZenonT(30) DEF Tick, Read, HandleTimer, SysYield, syscall_pipewrite,
       syscall_piperead, ScheduleSpin, Schedule, Return, Run, Fail, Handling
  <2>4. (wpc = "called" => Result(1)' # 0) /\ (rpc = "called" /\ Result(2)' = 0 => TooLong)
    <3>1. CASE Tick \/ ScheduleSpin
      <4>1. UNCHANGED regs /\ mode # "user" /\ (mode' # "user" \/ rax' = regs[current'])
        BY <1>1, <3>1, ZenonT(30) DEF Tick, HandleTimer, Schedule, ScheduleSpin, Run, Fail
      <4>2. \A p \in {1, 2} : Result(p)' = Result(p)
        BY <1>1, <4>1, ResultsKept, ZenonT(30)
      <4> QED
        BY <4>2, ZenonT(30) DEF StopInv, CallInv
    <3>2. CASE SysYield
      <4>1. /\ mode = "trap" /\ mode' = "sched" /\ current = 1 /\ wpc = "wait"
            /\ regs' = [regs EXCEPT ![current] = 0]
        BY <3>2, ZenonT(30) DEF SysYield, Handling, Schedule, PInv, WriterInv
      <4>2. Result(2)' = Result(2)
        BY <1>1, <4>1, PidFacts, SMTT(30), Z3T(30) DEF Result, TypeOK, CpuTypes
      <4> QED
        BY <4>1, <4>2, ZenonT(30) DEF StopInv, CallInv
    <3>3. CASE syscall_pipewrite
      <4>1. /\ mode = "trap" /\ current = 1 /\ pos < Len(message) /\ trap.sz = Len(message) - pos
            /\ UNCHANGED <<regs, current>>
        BY <3>3, ZenonT(30) DEF syscall_pipewrite, Handling, PInv, WriterInv
      <4>2. Len(message) \in Nat /\ pos \in Nat
        BY MessageTypes, SMTT(30), Z3T(30) DEF PInv, ProgTypes
      <4>3. trap.sz # 0
        BY <4>1, <4>2, SMTT(30), Z3T(30)
      <4>4. PICK value \in {-1, 1} : Return(value)
        BY <2>0, <3>3, <4>3, ZenonT(30) DEF syscall_pipewrite
      <4>5. Result(1)' = value /\ Result(2)' = Result(2)
        BY <1>1, <4>1, <4>4, ReturnFacts, SMTT(30), Z3T(30)
      <4> QED
        BY <4>5, SMTT(30), Z3T(30) DEF StopInv, CallInv
    <3>4. CASE Read
      <4>1. /\ mode = "trap" /\ current = 2 /\ rpc = "called" /\ ~HasNewline
            /\ trap.sz = BUFSZ - buflen /\ regs[2] = SYSCALL_PIPEREAD /\ UNCHANGED <<regs, current>>
        BY <3>4, ZenonT(30) DEF Read, syscall_piperead, Handling, PInv, ReaderInv
      <4>2. PICK value \in {-1, 0, 1} : Return(value) /\ (value = 0 => trap.sz = 0)
        BY <2>0, <3>4, SMTT(60), Z3T(60) DEF Read, syscall_piperead
      <4>3. Result(2)' = value /\ Result(1)' = Result(1)
        BY <1>1, <4>1, <4>2, ReturnFacts, SMTT(30), Z3T(30)
      <4>4. ASSUME value = 0 PROVE TooLong
        <5>1. buflen = BUFSZ
          BY <4>1, <4>2, <4>4, MessagesAssumption, SMTT(30), Z3T(30) DEF PInv, ProgTypes
        <5>2. got = buflen
          BY <4>1, SMTT(30), Z3T(30) DEF got, Result
        <5> QED
          BY <4>1, <5>1, <5>2, FullBuffer, ZenonT(30) DEF PInv
      <4> QED
        BY <4>3, <4>4, ZenonT(30) DEF StopInv, CallInv
    <3> QED
      BY <1>4, <3>1, <3>2, <3>3, <3>4, ZenonT(30)
  <2> QED
    BY <1>1, <1>2, <2>2, <2>3, <2>4, ZenonT(30) DEF StopInv, CallInv, StopsOnlyWhenTooLong
<1> QED
  BY <1>3, <1>4, SMTT(30), Z3T(30)

\* Every step keeps the invariant.
LEMMA StopStep ==
  ASSUME IInv, IInv', PInv, StopInv, [PipeNext]_pvars
  PROVE  StopInv'
<1>0. TypeOK /\ ProcInv
  BY SMTT(30), Z3T(30) DEF IInv
<1>1. CASE WriterCall \/ WriterYield \/ ReaderCall \/ Panic
  BY <1>0, <1>1, CallStops, ZenonT(30)
<1>2. CASE WriterChoose \/ WriterResult \/ WriterDone \/ WriterAgain \/ ReaderResult \/ ReaderPrint
  BY <1>0, <1>2, RunStops, ZenonT(30)
<1>3. CASE Tick \/ Read
  BY <1>3, KernelStops, ZenonT(30)
<1>4. CASE OtherKernelStep
  <2>0. UNCHANGED progvars
    BY <1>4, SMTT(30), Z3T(30) DEF OtherKernelStep
  <2>1. CASE HandlePanic \/ SysYield \/ syscall_pipewrite \/ ScheduleSpin
    BY <2>0, <2>1, KernelStops, ZenonT(30)
  <2>2. CASE TimerInterrupt
    <3>1. LoadInv' /\ mode' = "trap" /\ UNCHANGED why /\ mode = "user"
      BY <1>0, <2>2, EnterSucceeds, ZenonT(30) DEF TimerInterrupt, StopInv, Enter
    <3>2. /\ trap' = [NoTrap EXCEPT !.kind = "timer"]
          /\ \A p \in {1, 2} : Result(p)' = Result(p)
      BY <1>0, <2>2, EnterFacts, SMTT(30), Z3T(30) DEF TimerInterrupt, Result
    <3>3. trap'.kind = "timer"
      BY <3>2, SMTT(30), Z3T(30) DEF NoTrap
    <3> QED
      BY <2>0, <3>1, <3>2, <3>3, ZenonT(30)
         DEF StopInv, CallInv, StopsOnlyWhenTooLong, TooLong, Handling, progvars
  <2>3. CASE KernelStartSetup \/ KernelStartRun
    <3>1. mode = "boot" /\ wpc = "choose" /\ rpc = "loop" /\ why = "none"
      BY <2>3, ZenonT(30) DEF KernelStartSetup, KernelStartRun, PInv, BootFresh, StopInv, CallInv
    <3>2. LoadInv' /\ mode' \in {"boot", "user"} /\ why' = "none"
      <4>1. CASE KernelStartSetup
        BY <1>0, <3>1, <4>1, LoadKeeps, ZenonT(30) DEF StopInv
      <4>2. CASE KernelStartRun
        <5>1. UNCHANGED <<v_, next_alloc_pa, refcount>> /\ Run(1)
          BY <4>2, ZenonT(30) DEF KernelStartRun, memvars
        <5>2. mode' = "user" /\ why' = "none"
          BY <3>1, <5>1, ZenonT(30) DEF Run, Fail, IInv, ProcInv, InternalAssertsHold
        <5> QED
          BY <5>1, <5>2, LoadKept, ZenonT(30) DEF StopInv
      <4> QED
        BY <2>3, <4>1, <4>2, ZenonT(30)
    <3> QED
      BY <2>0, <3>1, <3>2, ZenonT(30) DEF StopInv, CallInv, StopsOnlyWhenTooLong, Handling, progvars
  <2> QED
    BY <1>4, <2>1, <2>2, <2>3, ZenonT(30) DEF OtherKernelStep
<1>5. CASE Reboot
  <2>1. PICK key \in Keys : Keypress(key) /\ IF key = "q" THEN UNCHANGED progvars ELSE ProgReset
    BY <1>5, ZenonT(30) DEF Reboot
  <2>2. CASE key = "q"
    <3>1. /\ mode \in {"trap", "sched", "fail"} /\ mode' = "off"
          /\ UNCHANGED <<regs, current, why, v_, next_alloc_pa, refcount>>
      BY <2>1, <2>2, ZenonT(30) DEF Keypress, memvars
    <3>2. /\ \A p \in {1, 2} : Result(p)' = Result(p)
          /\ UNCHANGED <<wpc, rpc, queue>>
      BY <2>1, <2>2, <3>1, ZenonT(30) DEF Result, progvars
    <3>3. LoadInv'
      BY <3>1, LoadKept, ZenonT(30) DEF StopInv
    <3> QED
      BY <3>1, <3>2, <3>3, ZenonT(30) DEF StopInv, CallInv, StopsOnlyWhenTooLong, TooLong, Handling
  <2>3. CASE key # "q"
    <3>1. SoftReboot(key) /\ ProgReset /\ key = "p"
      BY <2>1, <2>3, MessagesAssumption, ZenonT(30) DEF Keypress
    <3>2. /\ mode' = "boot" /\ why' = "none" /\ v_' = 0 /\ next_alloc_pa' = 0
          /\ todo' = StartList("pipe") /\ \A g \in Pages : refcount'[g] = 0
          /\ wpc' = "choose" /\ rpc' = "loop"
      BY <3>1, ZenonT(30) DEF SoftReboot, ProgReset, NoUse, Argument
    <3> QED
      BY <3>2, ZenonT(30) DEF StopInv, CallInv, LoadInv, StopsOnlyWhenTooLong, Handling
  <2> QED
    BY <2>2, <2>3, ZenonT(30)
<1>6. CASE UNCHANGED pvars
  <2>1. UNCHANGED vars /\ UNCHANGED progvars
    BY <1>6, ZenonT(30) DEF pvars
  <2>2. /\ \A p \in {1, 2} : Result(p)' = Result(p)
        /\ \A n : Handling(n)' = Handling(n)
        /\ TooLong' = TooLong
    BY <2>1, ZenonT(30) DEF Result, Handling, TooLong, vars, progvars
  <2>3. LoadInv'
    BY <2>1, ZenonT(30) DEF LoadInv, StopInv, vars
  <2> QED
    BY <2>1, <2>2, <2>3, ZenonT(30) DEF StopInv, CallInv, StopsOnlyWhenTooLong, vars, progvars
<1> QED
  BY <1>1, <1>2, <1>3, <1>4, <1>5, <1>6, ZenonT(30) DEF PipeNext, Writer, Reader

\* Nothing stops the two programs but a message longer than the reader's
\* buffer: every other fail(), panic() and assertion of the kernel is out of
\* their reach, however they are preempted and rebooted.
THEOREM OnlyLongMessagesStop == PipeSpec => []StopsOnlyWhenTooLong
<1>1. PipeInit => StopInv
  <2> SUFFICES ASSUME PipeInit PROVE StopInv
    BY ZenonT(30)
  <2>1. /\ mode = "boot" /\ why = "none" /\ v_ = 0 /\ next_alloc_pa = 0
        /\ todo = StartList("pipe") /\ \A g \in Pages : refcount[g] = 0
        /\ wpc = "choose" /\ rpc = "loop"
    BY MessagesAssumption, ZenonT(30) DEF PipeInit, Init, ProgInit, NoUse
  <2> QED
    BY <2>1, ZenonT(30) DEF StopInv, CallInv, LoadInv, StopsOnlyWhenTooLong, Handling
<1>2. IInv /\ IInv' /\ PInv /\ StopInv /\ [PipeNext]_pvars => StopInv'
  BY StopStep, SMTT(30), Z3T(30)
<1>3. StopInv => StopsOnlyWhenTooLong
  BY DEF StopInv
<1> QED
  BY <1>1, <1>2, <1>3, PipeInvariance, PTL DEF PipeSpec
=============================================================================
