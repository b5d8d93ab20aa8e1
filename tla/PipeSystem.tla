----------------------------- MODULE PipeSystem -----------------------------
(***************************************************************************)
(* The kernel running p-pipewriter (process 1) and p-pipereader (process   *)
(* 2).  The programs take the place of Kernel's arbitrary user steps; the  *)
(* kernel's actions are Kernel's own.  Either program may be preempted     *)
(* between any two of its steps, also between a system call's return and   *)
(* the use of its result.                                                  *)
(***************************************************************************)
EXTENDS Kernel

CONSTANTS
  Messages,      \* messages[] of p-pipewriter.cc
  NL,            \* '\n'
  BUFSZ,         \* sizeof(buf) in p-pipereader.cc
  MaxWait        \* bound on the ticks the writer waits (rand(HZ, 3 * HZ - 1))

ASSUME MessagesAssumption ==
  /\ BUFSZ \in Nat \ {0} /\ BUFSZ <= MaxSize
  /\ MaxWait \in Nat \ {0}
  /\ NL \in Bytes
  /\ \A m \in Messages :
       /\ m \in Seq(Bytes) /\ Len(m) \in 2 .. MaxSize
       /\ m[Len(m)] = NL
       /\ \A i \in 1 .. Len(m) - 1 : m[i] # NL
  /\ FIRST_PROCESS = "pipe" /\ Keys \subseteq {"p", "q"}

\* The programs that the command "pipe" loads, and the pages of both.
Program(p) == IF p = 1 THEN "pipewriter" ELSE "pipereader"
PipePages  == UNION {{Footprint(p, Program(p))[i] : i \in 1 .. Len(Footprint(p, Program(p)))} :
                       p \in {1, 2}}

\* Each program is linked for its own region, its segments share no page, and
\* the memory viewer, when it is switched on, finds a page that neither needs.
ASSUME PipeImageAssumption ==
  /\ "pipe" \notin Names
  /\ \A p \in {1, 2} : \A i \in 1 .. Len(Footprint(p, Program(p))) :
       /\ Footprint(p, Program(p))[i] \in Region(p)
       /\ \A j \in 1 .. i - 1 : Footprint(p, Program(p))[j] # Footprint(p, Program(p))[i]
  /\ show_memory => \E g \in Pages \ PipePages : allocatable_physical_address(g)

VARIABLES
  wpc, message, pos,  \* the writer: where it is, its message, bytes accepted
  wait,               \* wait_until - ticks while the writer waits, else 0
  rpc, buf, buflen,   \* the reader: where it is, its buffer
  printed,            \* the message the reader printed last
  queue               \* ghost: messages chosen and not yet printed

progvars == <<wpc, message, pos, wait, rpc, buf, buflen, printed, queue>>
pvars == <<vars, progvars>>

NoMessage == <<NL>>

\* Fresh programs: the first instruction of each process_main.
ProgInit ==
  /\ wpc = "choose" /\ message = NoMessage /\ pos = 0 /\ wait = 0
  /\ rpc = "loop" /\ buf = [i \in 1 .. BUFSZ |-> 0] /\ buflen = 0
  /\ printed = <<>> /\ queue = <<>>

ProgReset ==
  /\ wpc' = "choose" /\ message' = NoMessage /\ pos' = 0 /\ wait' = 0
  /\ rpc' = "loop" /\ buf' = [i \in 1 .. BUFSZ |-> 0] /\ buflen' = 0
  /\ printed' = <<>> /\ queue' = <<>>

-----------------------------------------------------------------------------
(* p-pipewriter *)

WriterRuns(pc) == mode = "user" /\ current = 1 /\ wpc = pc

wrest == <<rpc, buf, buflen, printed>>

WriterChoose ==
  /\ WriterRuns("choose")
  /\ \E m \in Messages : message' = m /\ queue' = Append(queue, m)
  /\ pos' = 0 /\ wpc' = "loop"
  /\ UNCHANGED <<vars, wait, wrest>>

WriterCall ==
  /\ WriterRuns("loop") /\ pos < Len(message)
  /\ Syscall(SYSCALL_PIPEWRITE, PROC_START_ADDR, Len(message) - pos, message[pos + 1])
  /\ wpc' = "called"
  /\ UNCHANGED <<message, pos, wait, wrest, queue>>

WriterResult ==
  /\ WriterRuns("called")
  /\ pos' = IF rax > 0 THEN pos + rax ELSE pos
  /\ wpc' = IF rax = 0 THEN "panic" ELSE "loop"
  /\ UNCHANGED <<vars, message, wait, wrest, queue>>

\* Prints that the message was written, and sets wait_until.
WriterDone ==
  /\ WriterRuns("loop") /\ pos >= Len(message)
  /\ wait' \in 1 .. MaxWait
  /\ wpc' = "wait"
  /\ UNCHANGED <<vars, message, pos, wrest, queue>>

WriterYield ==
  /\ WriterRuns("wait") /\ wait > 0
  /\ Syscall(SYSCALL_YIELD, 0, 0, 0)
  /\ UNCHANGED progvars

WriterAgain ==
  /\ WriterRuns("wait") /\ wait = 0
  /\ wpc' = "choose"
  /\ UNCHANGED <<vars, message, pos, wait, wrest, queue>>

Writer == \/ WriterChoose \/ WriterCall \/ WriterResult \/ WriterDone
          \/ WriterYield \/ WriterAgain

-----------------------------------------------------------------------------
(* p-pipereader *)

ReaderRuns(pc) == mode = "user" /\ current = 2 /\ rpc = pc

rrest == <<wpc, message, pos, wait>>

\* memchr(buf, '\n', buflen) != NULL
HasNewline == \E i \in 1 .. buflen : buf[i] = NL

ReaderCall ==
  /\ ReaderRuns("loop") /\ ~HasNewline
  /\ Syscall(SYSCALL_PIPEREAD, PROC_START_ADDR, BUFSZ - buflen, 0)
  /\ rpc' = "called"
  /\ UNCHANGED <<rrest, buf, buflen, printed, queue>>

\* Mutant of ReaderResult: -1 is taken for a closed pipe.
ReaderResultCloses ==
  /\ ReaderRuns("called")
  /\ buflen' = IF rax > 0 THEN buflen + rax ELSE buflen
  /\ rpc' = IF rax <= 0 THEN "panic" ELSE "loop"
  /\ UNCHANGED <<vars, rrest, buf, printed, queue>>

ReaderResult ==
  /\ ReaderRuns("called")
  /\ buflen' = IF rax > 0 THEN buflen + rax ELSE buflen
  /\ rpc' = IF rax = 0 THEN "panic" ELSE "loop"
  /\ UNCHANGED <<vars, rrest, buf, printed, queue>>

\* Prints the bytes up to the first newline and moves the rest down.
ReaderPrint ==
  /\ ReaderRuns("loop") /\ HasNewline
  /\ \E n \in 1 .. buflen :
       /\ buf[n] = NL /\ \A i \in 1 .. n - 1 : buf[i] # NL
       /\ printed' = [i \in 1 .. n |-> buf[i]]
       /\ buf' = [i \in 1 .. BUFSZ |-> IF i <= buflen - n THEN buf[i + n] ELSE buf[i]]
       /\ buflen' = buflen - n
  /\ queue' = IF queue = <<>> THEN <<>> ELSE Tail(queue)
  /\ UNCHANGED <<vars, rrest, rpc>>

Reader == ReaderCall \/ ReaderResult \/ ReaderPrint

\* panic() of u-lib.cc, in either program.
Panic ==
  /\ WriterRuns("panic") \/ ReaderRuns("panic")
  /\ Syscall(SYSCALL_PANIC, 0, 0, 0)
  /\ UNCHANGED progvars

-----------------------------------------------------------------------------
(* The kernel's steps, with what they do to the programs *)

\* ++ticks.
Tick ==
  /\ HandleTimer
  /\ wait' = IF wait > 0 THEN wait - 1 ELSE 0
  /\ UNCHANGED <<wpc, message, pos, wrest, queue>>

\* syscall_piperead stores through the reader's pointer.
Read ==
  /\ syscall_piperead
  /\ buf' = IF trap.sz # 0 /\ pipebuf_len # 0 /\ trap.page # 0
              THEN [buf EXCEPT ![buflen + 1] = pipebuf] ELSE buf
  /\ UNCHANGED <<rrest, rpc, buflen, printed, queue>>

OtherKernelStep ==
  /\ \/ KernelStartSetup \/ KernelStartRun \/ HandlePanic \/ SysYield
     \/ syscall_pipewrite \/ ScheduleSpin \/ TimerInterrupt
  /\ UNCHANGED progvars

Reboot == \E key \in Keys : Keypress(key) /\ IF key = "q" THEN UNCHANGED progvars ELSE ProgReset

PipeNext == Writer \/ Reader \/ Panic \/ Tick \/ Read \/ OtherKernelStep \/ Reboot

PipeInit == Init /\ ProgInit

PipeSpec == PipeInit /\ [][PipeNext]_pvars

\* A process is given whole time slices: one that keeps getting the CPU makes
\* progress.  For the kernel and the timer see Kernel!FairSpec.
PipeFairSpec ==
  /\ PipeSpec
  /\ WF_pvars(Tick \/ Read \/ (OtherKernelStep /\ ~(mode = "user")))
  /\ SF_pvars(OtherKernelStep /\ TimerInterrupt)
  /\ SF_pvars(Writer) /\ SF_pvars(Reader) /\ SF_pvars(Panic)

-----------------------------------------------------------------------------
(* Properties *)

\* Types of the programs' variables; what is printed is one of the messages
\* (p-pipereader.cc:20-27).
PipeTypeOK ==
  /\ wpc \in {"choose", "loop", "called", "wait", "panic"}
  /\ rpc \in {"loop", "called", "panic"}
  /\ message \in Seq(Bytes) /\ pos \in 0 .. Len(message)
  /\ wait \in 0 .. MaxWait
  /\ buf \in [1 .. BUFSZ -> Bytes \cup {0}] /\ buflen \in 0 .. BUFSZ
  /\ printed \in Messages \cup {<<>>}
  /\ queue \in Seq(Messages)

\* No byte is lost, repeated or reordered between the programs, though either
\* may be preempted after the kernel moved a byte and before the program
\* counted it (kernel.cc:373-405, p-pipewriter.cc:17-25, p-pipereader.cc:10-18).
Channel == INSTANCE PipeChannel

ImplementsChannel == Channel!ChSpec

\* The message that the reader is to print next does not fit its buffer.
TooLong == queue # <<>> /\ Len(Head(queue)) > BUFSZ

\* The reader's "pipe closed" panic (p-pipereader.cc:13-14) needs a message
\* that does not fit its buffer, though the writer may be at its next message
\* by then; the writer's (p-pipewriter.cc:20-21) never happens; nothing else
\* stops the machine.
StopsOnlyWhenTooLong == why # "none" => why = "user_panic" /\ TooLong

\* The reader polls without yielding, yet it prints for ever, and so, by
\* ImplementsChannel, every message chosen: the timer takes the CPU from its
\* loop and from the writer's (kernel.cc:231-234).  Only a machine that stops,
\* or is rebooted again and again, prints no more.
MessagesKeepComing ==
  \/ []<><<ReaderPrint>>_pvars
  \/ []<><<Reboot>>_pvars
  \/ <>(mode \in {"fail", "off"})
=============================================================================
