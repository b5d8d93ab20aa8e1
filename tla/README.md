# WeensyOS and the CS 61 section code in TLA+

The repository is section code of a systems course. Its one real system is
WeensyOS (`kernels1/`), a teaching kernel for one CPU with its boot loader,
build tools, library and user programs. The other directories are exercises on
containers (`s01/`), memory errors (`s02/`), assembly (`asms1/`) and storage
traces (`storages1/`). This project models the kernel and what surrounds it.

## The system

- **Processes and traps** (`kernel.cc`, `k-exception.S`). `kernel_start` loads
  one or two programs. From then on the kernel runs only when a process traps,
  with interrupts off; user code can be preempted anywhere by the timer.
- **Scheduler** (`schedule` in `kernel.cc`). A scan of the process table from
  `current` for the next runnable slot.
- **Pages** (`physpages`, `kalloc`, `sys_page_alloc`, `process_setup`). A count
  per page; nothing is ever freed except by a reboot.
- **Pipe**: one byte in the kernel, polled by `p-pipewriter` and `p-pipereader`.
- **Page tables** (`k-vmiter.cc`, `k-vmiter.hh`). Iterators that walk, read and
  extend four-level tables.
- **Keyboard** (`keyboard_readc`, `check_keyboard` in `k-hardware.cc`). Decodes
  scan codes; some keys reboot the kernel in place, some turn the machine off.
- **Console** (`console_printer` in `lib.cc`). A page of cells and a cursor that
  the kernel and all processes write without a lock.
- **Symbol table** (`build/mkchickadeesymtab.cc`, `lookup_symbol`). Sorted at
  build time, searched when a backtrace is printed.
- **Soft reboot** (`stash_kernel_data`, `check_keyboard`, `k-exception.S`). The
  kernel restores its data from a copy it made at its start, on a page table it
  builds where the boot loader's was.
- **Library** (`lib.cc`, `lib.hh`, `u-lib.cc`). Memory, strings, numbers,
  formatted output.
- **From file to memory** (`mkchickadeesymtab.cc`, `mkbootdisk.cc`, `boot.cc`,
  program images). Two build tools, the boot loader, the loader of processes.
- **Diagnostics** (`k-memviewer.cc`, `memshow`, `backtracer`) and **PCI**
  (`pcistate`, `poweroff`).

## Modules

| Module | Models | Kind |
| --- | --- | --- |
| `RoundRobin` | what the scheduler promises | abstract specification |
| `Kernel` | `kernel.cc`, `k-exception.S`, the commands of `check_keyboard` | component |
| `PipeChannel` | what the pipe programs promise | abstract specification |
| `PipeSystem` | the two pipe programs running on `Kernel` | composition |
| `AddressSpace` | what mapping a page promises | abstract specification |
| `PageTable` | `vmiter`, `ptiter` | component |
| `Keyboard` | `keyboard_readc`, `check_keyboard` | component |
| `Console` | `console_printer` | component |
| `Symtab` | `sort_symtab`, `lookup_symbol` | algorithm, step by step |
| `Reboot` | boot and soft reboot around `Symtab`: page tables, data, stash | composition |
| `Memviewer` | `memusage`, `symbol_at`, `memshow` over the states of `Kernel` | operators |
| `Strings`, `Numbers`, `Printf` | the C library | operators |
| `Loader` | symbol table tool, disk tool, boot loader, program images | operators |
| `Pci`, `Backtrace` | `pcistate`, `poweroff`; `backtracer` | operators |
| `Algorithms` | calls of the operators above, and reference definitions | component |
| `MC...` | values for TLC | instances |
| `KernelProofs`, `PipeProofs`, `MemviewerProofs`, `PageTableProofs`, `MappingProofs`, `KeyboardProofs`, `ConsoleProofs`, `RebootProofs` | | proofs |

Definitions named after a bug (`KallocTwoSteps`, `StoreOnlyNew`) are variants of
the definition after them. No specification uses them; they show that a property
notices that bug.

### Kernel

Addresses are page numbers. `mode` says who has the CPU: `boot` (inside
`kernel_start`), `user`, `trap` (inside `exception` or `syscall`), `sched`
(inside `schedule`), `fail` (the loop after a panic) and `off`. `state`, `regs`,
`current`, `refcount`, `next_alloc_pa`, `v_`, `pipebuf` and `pipebuf_len` are
the variables of those names. `pagetable` is the table of each slot, `mapping`
what `kernel_pagetable` maps each page to, and `useracc` the pages it maps for user
code. `users` and `why` are ghosts: who uses a page, and what led to `fail`.

User programs are arbitrary. In `user` mode any exception and any system call
may come, with arguments as `u-lib.cc` documents them: pages up to
`MEMSIZE_VIRTUAL`, also behind physical memory; buffers that the kernel can access,
or nullptr, where the kernel itself faults (`KernelFaults`). `Enter` is a trap up to
the handler's `switch`, including the page `memshow` may allocate. Each handler
is an action; a failed assertion leads to `fail`. `process_setup` may stop at
any of its assertions, with the pages before it already claimed. `run` makes the
checks of `check_pagetable`, but for the alignment of the table, which is that of
its type. `schedule` makes one step per slot, and a key may come wherever
`check_keyboard` is called.

### PipeSystem

The kernel's actions are those of `Kernel`. The programs replace its arbitrary
user steps, and make a system call and use its result in separate steps, so they
can be preempted in between. `queue` is a ghost: messages chosen, not printed.

### PageTable

A table has `ENTRIES` entries on each of four levels. An address space has a
lower half, a hole and an upper half, and addresses wrap at its end, as with 64
bits. `it` is one `vmiter`, moved by `New`, `Find`, `Next_` and `NextRange_`, and
mapping through `TryMap`. A failed assertion is `TryMapFails`. `Translate` is the
processor's own walk, the reference. `kalloc` gives `NTABLES` pages and fills
each with junk first, as the code does. `PA_LIMIT` is 4 GiB in pages: `down` panics
at any entry that points there or above, and the junk does. The constant `UnmapLarge` allows callers
to unmap inside a large page; it is FALSE except in the run about that case.

### Keyboard, Console, Symtab

`Keyboard` has the user, who presses and releases keys, the controller's queue,
and `Read`, one call of `check_keyboard`. The rest is history. `held` and `locks`
say what the user means: the keys that are down, the locks that are on. `expect` has
for each press not yet read what may be read of it. That is one character, but for
`halfUp`: if one of two keys of a modifier is released the decoder drops the
modifier although the other key is down, so a press may then be read with it or
without. Bytes that a full queue would drop are left out: keys wait for room.

`Console` prints cell by cell and scrolls cell by cell; each is a point of
preemption. Only the kernel's own messages are one step. `call` is history: where
a call started and what it found. The text is given; how it comes about from a
format is in `Printf`. The last prints of a process that panics, at a place of
their own, are left out: the machine stops with them.

`Symtab` sorts the table once and then makes one step per round of the search. A
symbol is its address, its size and whether it is a section or file symbol.

### Reboot

`pc` runs through a boot (`PowerOn`, `StashData`, `ClearTable`, `BuildTable`,
`SwitchTable`), the running kernel (`Work`, `Search`) and a soft reboot
(`ClearLow`, `FillLow`, `LeaveTable`, `Restore`, `Restart`). `cr3` is the active
table, `low` the table at 0x1000, `ktable` the kernel's own. `data`, `bss` and
`stash` say whether they hold what the linker put there. Every step accesses
regions; `fault` is a ghost that records an access outside the active table.
`Symtab`'s variables take part: a reboot clears the entry that maps the symbol
table, between two searches and never within one, since no search polls keys.

### Memviewer

Operators over `Kernel`'s state: the marks of `refresh`, the symbol of each page,
and the rotation of `memshow`. The run `kernel` evaluates them in every state.

### Strings, Numbers, Printf, Loader, Pci, Backtrace, Algorithms

Pure code. A loop that writes is a function of its rounds, a loop that only reads
is the round at which it stops. Integers have `INTBITS` and `LONGBITS` bits and
wrap or overflow as in the code. `Algorithms` calls each function with all inputs
of a small set and keeps call and result in `call`; its invariants compare the
result with a definition that does not follow the code: the ways to read a text as
a number, dictionary order, the field without its width, the bytes the linker
meant for an address. Most relate two functions: what `vprintf` prints, `strtol`
reads; what the tools wrote, the boot loader loads. Five of the run's properties
gather the statements about one subject, each a definition of its own named in
"Observations" where it matters; the mutant listed for such a property breaks one
of its statements.

## Runs

| Run | Instance | Checks |
| --- | --- | --- |
| `round_robin` | 6 slots | every dispatch brings a waiting process closer (`Overtaking`); nobody starves |
| `kernel` | 4 slots, 11 pages, keys f, p, q | page counts and owners (`RefcountCountsUses`, `UserPages`, `MemoryOfProcesses`), `kalloc`'s pass (`NothingSkipped`), the kernel's own assertions, faults are final, `Kernel` implements `RoundRobin`, a runnable process runs; the viewer draws the pages of processes as theirs and no other page so (`ViewerDrawsProcesses`), and its rotation shows every process |
| `pipe` | buffer of 3, messages of 2, 3 and 4 bytes, keys p, q | `PipeSystem` implements `PipeChannel`; only a message longer than the buffer stops it; otherwise messages keep coming |
| `page_table` | 2 entries per table, 2 bytes per page, 5 table pages (the kernel's own, or a walk to the bottom and one more, after which `try_map` is refused half way) | iterators agree with the processor, no uncleared table is read, nothing is passed over, freeing order, exact range permissions, `PageTable` implements `AddressSpace` |
| `keyboard` | 7 keys, 3 bytes queued | characters as typed with the keys held, no stuck modifier, a quit key takes effect |
| `console` | 2 by 2 cells, 2 processes | printers stay on the page; an undisturbed call leaves its text |
| `symtab` | up to 4 symbols, 7 addresses | the search ends, it is right on searchable tables; through any number of reboots no step runs without its page table and every kernel starts with fresh data; `Reboot` implements `Symtab` |
| `algorithms` | int of 4 and long of 8 bits; see below | `StringFunctions`, `NumberFunctions`, `FormatsNumbers`, `PartsIndependent` (printf), `StaysInBuffers`, `FilesReachMemory` (tools and boot loader), `ScanFindsAll` (PCI), `BacktraceFollowsFrames`, against reference definitions |
| `spawn_key`, `range_perm_doc`, `unmap_large`, `symtab_doc` | | violated: see "Disagreements" |

Why the bounds are enough for what is asked:

- `kernel`: two process regions, as in the code's programs, filled by some images
  and not by others, so that `kalloc` both succeeds past used pages and fails.
  Four slots leave empty ones on both sides of the processes.
- `pipe`: messages shorter than, as long as and longer than the buffer.
- `page_table`: a new table, and the kernel's with its large pages. Of
  the five table pages the first mapping in a new table takes three; one more
  then succeeds if it shares the walk but for the last page, and a farther one is
  refused with a page linked. The kernel's table cannot grow; the theorems below
  hold for any number of pages. Two bytes per page give addresses that are not aligned.
- `keyboard`: three bytes hold a prefixed key and another. The real queue is
  longer, but the decoder keeps only the prefix and the modifiers between bytes.
- `console`: every text of two lines scrolls, and scrolls overlap. Two columns
  stand for the 80 that `putc` writes as a number.
- `symtab`: all tables of up to four symbols, sorted or not, special symbols and
  equal addresses included. `LookupFindsOwner` speaks of those in which ordinary
  symbols have different addresses; a built kernel has aliases, about which there are
  `LookupEnds` and the run `symtab_doc`.
- `algorithms`: widths at which every limit of int and long is an input. Texts of
  up to four characters hold a sign, a prefix and digits that overflow. All sets
  of flags with several widths and precisions. Memory of five bytes: every overlap
  of a copy. Sectors of two bytes and a page of four, so that segments begin and
  end inside and at the edge of both. Two PCI functions in each of three slots.
  Frame chains of every shape, loops included, in pages mapped or not.

`CHECK_DEADLOCK FALSE` is set where the machine may be off or stopped for good.

### Fairness

- Kernel steps are weakly fair: nothing preempts the kernel.
- The timer's interrupt is strongly fair: it stays pending while interrupts are
  off and is taken on the return to user mode.
- A pipe program's steps are strongly fair: a time slice is long against a step.
- `check_keyboard` is weakly fair: timer and failure loop call it for ever.
- A round of `lookup_symbol` is weakly fair: it is a sequential loop.

### Disagreements between a comment and the code

- `spawn_key`: `k-hardware.cc:748` promises that 's' runs p-spawn. The program is
  linked for process 2's region and loaded as process 1; an assertion stops it.
- `range_perm_doc`: `k-vmiter.hh:39`. A range no longer than a page that crosses
  the page's end gets the permissions of its first page.
- `unmap_large`: `k-vmiter.hh:72`. Unmapping inside a large page returns 0 and
  changes nothing. No caller in the repository does it.
- `symtab_doc`: `kernel.hh:277`. If two symbols start at one address, looking up
  exactly that address can find neither.

## Proofs

TLAPS checks these for every value of the constants that satisfies the named
assumptions of the modules:

- `Kernel`, `RoundRobin`: at least three slots, a memory layout in which the
  console precedes the two process regions and these fit into memory, with the
  kernel's code and page table in the kernel's pages, and images
  for the four programs `kernel_start` names. Nothing is assumed of where an
  image's segments lie: `process_setup` checks that, and so does the model.
- `PipeSystem`: messages of at least two bytes whose only newline is the last,
  and (`PipeImageAssumption`) images of the two programs that `process_setup` can
  load, as those of the repository can.
- `Memviewer`: the kernel lies below the processes.
- `PageTable`: an even number of entries per table page, pages of at least one
  byte, enough table pages for the kernel's own, and all physical memory below
  4 GiB (the repository's is 2 MiB).
- `Console`: a page of at least one cell. `Keyboard`, `Symtab`: only the types of
  the constants. `RangeAssumption`: so too for the lengths given to `range_perm`.

| Module | Theorems |
| --- | --- |
| `KernelProofs` | `TypeCorrect`, `Invariance`, and from it `AssertsHold`, `PagesCounted`, `KallocComplete`, `Isolation`, `UserReach`, `FaultIsFinal`; `SchedulesRoundRobin`: `Kernel` implements `RoundRobin`; of `RoundRobin`: `RRTypes`, `RRSafety`: only ready processes hold the CPU, and `BoundedWaiting`: every dispatch of another process brings a ready one closer; with the refinement, `KernelBoundsWaiting`: so does every dispatch of the kernel |
| `PipeProofs` | `PipeIsChannel`: `PipeSystem` implements `PipeChannel`; `PipeTypesHold`; `PipeRunsOnKernel`: it is a behaviour of `Kernel`; `OnlyLongMessagesStop` |
| `MemviewerProofs` | `ViewerShowsProcesses`, the picture of memory; `RotationShowsAll`, the rotation of `memshow` |
| `PageTableProofs` | `TablesFormTree`; `IteratorIsRight`, `PanicIsDead`, `NextSkipsNothing` |
| `MappingProofs` | `MapsOnePage`: `PageTable` implements `AddressSpace`; `RangesAreExact` |
| `KeyboardProofs` | `NoModifierSticks`, `ReadsWhatIsTyped` |
| `ConsoleProofs` | `PrintersStayOnPage`, `PagesShowTexts` |
| `RebootProofs` | `TablesHold`, `AlwaysStartsFresh`; `SearchNarrows`, `LookupIsRight`; `RebootsAreSymtabSteps`: the safety part of "`Reboot` implements `Symtab`" |

A leaf names the prover that finds it. `SMTT(30), Z3T(30)` is two attempts at the
same obligation: translating it has a time limit of its own, which a busy machine
may exceed.

### The invariants

**Kernel.** `IInv` has three parts beside the types. `ProcInv` is about processes:
slot 0 stays empty, `current` is runnable from its dispatch to its handler, and
`kernel_start` has loaded process 1 before it runs it. `TableInv`: what is loaded
has the kernel's page table, and that maps every page but the first to itself.
Without these the assertions of `run`, of `check_pagetable` and of the memory viewer cannot be shown
to hold. The part about pages is
`PageInv` (a page is unused and counted 0, or has one user and is counted 1) with
`NothingSkipped`, `UserPages` and `MemoryOfProcesses`, which need each other: a
claim keeps other processes' memory intact because a page with count 0 has no
user. `RefcountCountsUses` follows. The refinement needs `SpinInv`: while
`schedule` scans, no slot passed since `current` is runnable. So the slot it stops
at is the next ready one in cyclic order, which is what `RoundRobin` asks of a
dispatch.

**Pipe.** The refinement follows the bytes. `sent` and `got` count what the kernel
took and stored, which is one more than a program's own count while its result
waits in a saved register (`Result`). `Stream` then says where the bytes are:
nothing is on its way; or the writer's message is, its first `got` bytes in the
buffer and the next in the pipe; or a whole message waits for the reader and the
pipe holds no more than the first byte of the next. The last case needs messages
of at least two bytes: with one-byte messages the writer could be two messages
ahead. The step proofs use `Kernel`'s invariant, so `KernelSteps` shows that the
programs only make calls that `Kernel`'s arbitrary programs make.
`OnlyLongMessagesStop` adds that booting, the two programs' images and the
kernel's handlers fail no assertion; a message is printed in full before the
reader's buffer runs out unless it is longer than that.

**Memory viewer.** It goes by addresses, and is right about processes because a page
user code can access lies in the region of its user (`UserInRegion`). It is not
right about every page: its own, or one of `sys_page_alloc`, is drawn as free. `RotationShowsAll` counts
the loaded processes off in cyclic order; `memshow` takes one further at a time.

**Page tables.** `PTInv`: the table pages are a tree (`Tree`: every page has a
level, an entry above level 0 that points down points to a page of the level
below, and no two point to the same page), and the iterator stands where its
address leads in it. "Leads" is a `Trail`, the table pages from the root; two
trails of one address agree, so the iterator and the processor end at the same
entry. A stored entry is on no other page's trail because no two entries point to
one table page, and a new table page translates everything below it as the absent
entry did. That gives `MapsOnePage`, under `UnmapLarge = FALSE`: with it TRUE the
code does what the run `unmap_large` shows, and the theorem would be false.
`RangesAreExact` follows the loop of `range_perm` round by round: before each
round the bits are those of all bytes up to the end of the iterator's range, and
the next range begins exactly there, since a larger region that began before would
already have held the last address. The loops of `down` and `try_map` run three
rounds at most and are written as three rounds.

**Keyboard.** Bytes wait in the controller between the key and the kernel, so the
invariants speak of a trace: the decoder as it is, its states after each byte
waiting, and what the user means at the end (`Leads`, `Consumes`). A byte read
drops the first state of the trace, a byte sent adds one. The
modifiers at the end of the trace are `Kept`: those that `held` and `locks` give
(`Meant`), less the ones half up.

**Console.** A printer that scrolls stands exactly at the end of the page
(`ScrollsAtEnd`), so moving up a row cannot take it before the first cell, whatever
others do to the cursor meanwhile. For `PagesShowTexts` a call is followed on an
endless tape: `Reached` says how far on the tape the call is, `Moved` how many rows
the page has moved along it, and `Shown` that every cell shows its position of the
tape, where the cells that a scroll has copied already show the next row's.

**Reboot and symbol table.** `RInv` says, for each place in boot and reboot, which
table is active and whole and what the stash holds. The stash is written only from
fresh data, and data is used only after that; the symbol table is searched only in
a running kernel whose table maps it. `LookupIsRight` needs that the sort makes
the table sorted, for every table (`StableSortSorts`: places counted by the number
of symbols ahead), and that no round of the search leaves the owner outside its
interval.

### How recursion is proved

The provers make no induction. Where one is needed, over rounds, positions or
places, the proof takes the smallest counterexample, which exists because the
naturals are well-founded, and refutes it. So also for recursive functions: a
definition `f[i \in S] == e` chooses a function that satisfies the equation, and
the proof first shows, position by position, that there is one (`StartsUpTo` in
`ConsoleProofs`, `RoundsExist` in `MappingProofs`).

### Only model-checked

- Everything under fairness, which the prover does not do: `NoStarvation`,
  `RunnableRuns`, `MessagesKeepComing`, `QuitQuits`, `LookupEnds`, and the fairness
  part of `ImplementsSymtab`.
- `PtiterFreesSafely`. The recursion of `ptiter::down` is over a walk whose end
  depends on the tables, and is only defined on trees; the steps above do not reach
  it.
- The eight properties of `Algorithms`. They compare recursive operators and folds
  over characters and bits with their references; `RECURSIVE` operators are out of
  the prover's reach.

### Observations

Where the code does at an edge what no reader would call right, the property named
leaves the case out and the model has it:

- `rand(min, max)` overflows if `max - min` is `RAND_MAX`, which the comment at
  `lib.cc:250-253` allows (`RandInRange` is about smaller distances).
- `strtoul` in base 16 takes the characters from ':' to '?' for digits
  (`ReadsTheNumber` says nothing of digits followed by one of them).
- `panic` in a process writes behind its buffer for a message of 153 characters
  or more (`PanicStaysInBuffer` is about shorter ones).
- `backtracer` asks about the 16 bytes of a frame with `range_perm`, which judges
  them by their first page; frames that straddle pages are not among the inputs
  (`BacktraceFollowsFrames`).
- `keyboard_readc` drops a modifier with the first of its two keys (`ReadAsTyped`
  allows both readings).

Elsewhere a property states what is surprising:

- `strtoul` gives 1 for a negative number that does not fit; `strtol` accepts a
  second sign (`ReadsTheNumber`).
- `round_up_pow2` above the largest power shifts by the width (`PowersAround`).
- `backtracer` does not stop at a frame above the top of the stack by its first
  test, since the difference is unsigned; its other tests end the walk
  (`BacktraceFollowsFrames`).
- `rewrite_symtabref` gives up on a variable that is last in its section, and
  `boot` loads program headers of every type (`BootLoadsKernel`).
- `check_keyboard` copies the stash back and `stash_kernel_data` does so again
  (`StartsFresh` holds without one of the two).

Seen while reading and outside the models: `pcistate::writew` and `writeb` add the
low bits of the address to the data instead of the port; `memshow`'s comment says
0.25 s where the code waits `HZ / 2` ticks; the warning at `k-hardware.cc:711` has
three directives and two arguments.

## Not modelled

- `console_memviewer_virtual` and the colors of the memory viewer.
- Hardware setup, interrupt controller, parallel port, the accessors of PCI
  registers: writes of constants to devices.
- The text of log messages. `rand`'s generator: any number may come.
- `__cxa_guard_acquire` and its kin: with one CPU and no interrupts in the kernel
  the lock is never contended, and no initialiser in the kernel recurs.
- The switch to 64-bit mode in `bootentry.S`, the registers of the disk, and `boot`'s
  wait at a wrong magic number. What `validate` checks of names and entry sizes.
- `mkbootdisk`'s options -p and -m, `mkchickadeesymtab`'s -a and -s, several
  symbols named `symtab`, alignment of sections.
- `kfree` is an `assert(false)` that nothing calls.
- Programs other than the pipe's: `Kernel` runs arbitrary ones.
- `s01/`, `s02/`, `asms1/`: demonstrations of containers, of undefined behaviour
  and of assembly, each without state that outlives a call. `storages1/`: traces.

## Plan

1. `Memviewer`: the picture of a virtual address space over `PageTable`.
2. `Keyboard` composed with `Reboot`: bytes left in the controller over a reboot.
3. The order of `ptiter` as a theorem, with a measure for its walk.
