----------------------------- MODULE RoundRobin -----------------------------
(***************************************************************************)
(* What schedule() in kernels1/kernel.cc promises, without its loop: a CPU *)
(* handed from process to process in cyclic order of process number, never *)
(* to a process that is not ready.  The kernel in module Kernel implements *)
(* this specification.                                                     *)
(***************************************************************************)
EXTENDS Naturals

CONSTANT NPROC          \* number of slots of the process table, slot 0 unused

ASSUME NPROCAssumption == NPROC \in Nat /\ NPROC >= 2

VARIABLES ready,        \* the processes that may be given the CPU
          cpu,          \* the process the CPU was last given to, 0 after boot
          running       \* TRUE while process cpu has the CPU

rrvars == <<ready, cpu, running>>

Slots == 0 .. NPROC - 1
Procs == 1 .. NPROC - 1

\* The slots strictly after c and strictly before p in cyclic order; every
\* other slot when p = c.
Between(c, p) ==
  IF c < p THEN c + 1 .. p - 1
           ELSE (c + 1 .. NPROC - 1) \cup (0 .. p - 1)

\* How many slots the scan that starts after c visits to reach p: 1..NPROC.
Dist(c, p) == IF c < p THEN p - c ELSE (NPROC - c) + p

RRTypeOK ==
  /\ ready \subseteq Procs
  /\ cpu \in Slots
  /\ running \in BOOLEAN

RRInit ==
  /\ ready = {}
  /\ cpu = 0
  /\ running = FALSE

\* A process is made ready.  Only the boot code does so, before the first
\* dispatch.
Admit(p) ==
  /\ cpu = 0 /\ ~running
  /\ ready' = ready \cup {p}
  /\ UNCHANGED <<cpu, running>>

\* Mutants of Dispatch: a scan that takes any ready process, and one that
\* always starts at slot 1.
DispatchAny(p) ==
  /\ ~running /\ p \in ready
  /\ cpu' = p /\ running' = TRUE /\ UNCHANGED ready

DispatchFromFirst(p) ==
  /\ ~running /\ p \in ready /\ Between(0, p) \cap ready = {}
  /\ cpu' = p /\ running' = TRUE /\ UNCHANGED ready

\* The CPU goes to the first ready process after the one that had it.
Dispatch(p) ==
  /\ ~running
  /\ p \in ready
  /\ Between(cpu, p) \cap ready = {}
  /\ cpu' = p
  /\ running' = TRUE
  /\ UNCHANGED ready

\* The process loses the CPU: it yields or is preempted (and stays ready), or
\* it faults (and is never ready again), or the kernel stops.
Relinquish ==
  /\ running
  /\ running' = FALSE
  /\ ready' \in {ready, ready \ {cpu}}
  /\ UNCHANGED cpu

\* The machine reboots.
Restart ==
  /\ ready' = {}
  /\ cpu' = 0
  /\ running' = FALSE

RRNext ==
  \/ \E p \in Procs : Admit(p) \/ Dispatch(p)
  \/ Relinquish
  \/ Restart

RRSpec == RRInit /\ [][RRNext]_rrvars

\* The CPU is handed out and taken back for ever, and the machine is not
\* rebooted infinitely often.
RRFairSpec == RRSpec /\ WF_rrvars(Relinquish)
                     /\ WF_rrvars(\E p \in Procs : Dispatch(p))
                     /\ <>[][~Restart]_rrvars

-----------------------------------------------------------------------------
\* Whoever holds the CPU is ready (kernel.cc:436, k-exception.S:106).
OnlyReadyRuns == running => cpu \in ready

\* Bounded waiting (kernel.cc:412-428): every dispatch of another process
\* brings a waiting ready process strictly closer to the CPU.  Dist is at most
\* NPROC, so fewer than NPROC dispatches go before it.
Overtaking ==
  [][ \A p \in ready :
        (~running /\ running' /\ cpu' # p) => Dist(cpu', p) < Dist(cpu, p) ]_rrvars

\* A process that stays ready gets the CPU (kernel.cc:412-428).
NoStarvation ==
  \A p \in Procs : (p \in ready) ~> (p \notin ready \/ (running /\ cpu = p))
=============================================================================
