------------------------------- MODULE Console -------------------------------
(***************************************************************************)
(* The console (kernels1/lib.cc, console_printer): a page of cells and a   *)
(* cursor that all processes share and none locks.  A process prints a     *)
(* text one cell at a time, scrolling included, and may be preempted at    *)
(* any of them; the kernel prints a message at a fixed place at once.  The *)
(* formatted text of a call is given (vprintf only calls putc).            *)
(***************************************************************************)
EXTENDS Integers, Sequences

CONSTANTS
  CONSOLE_ROWS, CONSOLE_COLUMNS,
  Procs,              \* processes that print
  Texts,              \* what they print: sequences of characters and "\n"
  KernelTexts,        \* what the kernel prints
  KernelPositions     \* and where (cpos)

END == CONSOLE_ROWS * CONSOLE_COLUMNS
Cells == 0 .. END - 1
Blank == "blank"      \* the 0 that scrolling leaves

ASSUME ConsoleAssumption ==
  /\ CONSOLE_ROWS \in Nat \ {0} /\ CONSOLE_COLUMNS \in Nat \ {0}
  /\ Texts \subseteq Seq(STRING) /\ KernelTexts \subseteq Seq(STRING)
  /\ KernelPositions \subseteq 0 .. END

VARIABLES
  console,            \* Cells -> character
  cursorpos,
  pc,                 \* process -> "idle", "put" or "scroll"
  text,               \* process -> what it has still to print
  cell,               \* process -> cell_ of its printer
  copied,             \* process -> cells done of a scroll
  call                \* process -> its call and what it found (history)

cvars == <<console, cursorpos, pc, text, cell, copied, call>>

NoCall == [text |-> <<>>, at |-> 0, found |-> [k \in Cells |-> " "], alone |-> FALSE]

\* The calls of these processes are not alone: they are followed no further.
Disturb(ps) == [p \in Procs |-> IF p \in ps THEN NoCall ELSE call[p]]
Others(p) == Procs \ {p}

-----------------------------------------------------------------------------
\* console_vprintf(-1, ...): the printer starts at the cursor.
Begin(p, t) ==
  /\ pc[p] = "idle"
  /\ pc' = [pc EXCEPT ![p] = "put"]
  /\ text' = [text EXCEPT ![p] = t]
  /\ cell' = [cell EXCEPT ![p] = cursorpos]
  /\ call' = [call EXCEPT ![p] =
       [text |-> t, at |-> cursorpos, found |-> console, alone |-> TRUE]]
  /\ UNCHANGED <<console, cursorpos, copied>>

\* Mutant: the test for the end of the console is one cell late.
NeedsScrollLate(p) ==
  pc[p] = "put" /\ text[p] # <<>> /\ cell[p] > END

\* putc finds the printer past the last cell.
NeedsScroll(p) ==
  pc[p] = "put" /\ text[p] # <<>> /\ cell[p] >= END

\* putc, one cell: a newline fills its row with spaces.
Putc(p) ==
  LET c == Head(text[p])
      done == c # "\n" \/ (cell[p] + 1) % CONSOLE_COLUMNS = 0
  IN /\ pc[p] = "put" /\ text[p] # <<>> /\ ~ NeedsScroll(p)
     /\ console' = [console EXCEPT ![cell[p]] = IF c = "\n" THEN " " ELSE c]
     /\ cell' = [cell EXCEPT ![p] = @ + 1]
     /\ text' = [text EXCEPT ![p] = IF done THEN Tail(@) ELSE @]
     /\ call' = Disturb(Others(p))
     /\ UNCHANGED <<cursorpos, pc, copied>>

StartScroll(p) ==
  /\ NeedsScroll(p)
  /\ pc' = [pc EXCEPT ![p] = "scroll"]
  /\ copied' = [copied EXCEPT ![p] = 0]
  /\ UNCHANGED <<console, cursorpos, text, cell, call>>

\* Mutant: the last row is left as it was.
ScrolledNoClear(k) ==
  IF k + CONSOLE_COLUMNS < END THEN console[k + CONSOLE_COLUMNS] ELSE console[k]

\* What the memmove and the memset of scroll put into a cell.
Scrolled(k) ==
  IF k + CONSOLE_COLUMNS < END THEN console[k + CONSOLE_COLUMNS] ELSE Blank

\* scroll, one cell; after the last the printer moves up a row.
Scroll(p) ==
  /\ pc[p] = "scroll"
  /\ console' = [console EXCEPT ![copied[p]] = Scrolled(copied[p])]
  /\ copied' = [copied EXCEPT ![p] = @ + 1]
  /\ IF copied[p] + 1 = END
     THEN /\ pc' = [pc EXCEPT ![p] = "put"]
          /\ cell' = [cell EXCEPT ![p] = @ - CONSOLE_COLUMNS]
     ELSE UNCHANGED <<pc, cell>>
  /\ call' = Disturb(Others(p))
  /\ UNCHANGED <<cursorpos, text>>

\* move_cursor, and return.
End(p) ==
  /\ pc[p] = "put" /\ text[p] = <<>>
  /\ cursorpos' = cell[p]
  /\ pc' = [pc EXCEPT ![p] = "idle"]
  /\ call' = [Disturb(Others(p)) EXCEPT ![p] = NoCall]
  /\ cell' = [cell EXCEPT ![p] = 0]
  /\ copied' = [copied EXCEPT ![p] = 0]
  /\ UNCHANGED <<console, text>>

\* putc of a printer that does not scroll but starts over at the top.
PutNoScroll(s, c) ==
  LET at   == IF s.cell >= END THEN 0 ELSE s.cell
      last == IF c = "\n" THEN at - (at % CONSOLE_COLUMNS) + CONSOLE_COLUMNS - 1 ELSE at
  IN [cells |-> [k \in Cells |-> IF k \in at .. last
                                 THEN IF c = "\n" THEN " " ELSE c
                                 ELSE s.cells[k]],
      cell |-> last + 1]

\* console_vprintf(cpos, ...) with cpos >= 0 in the kernel, where nothing
\* preempts it: the cursor stays.  Processes print at a place of their own, and
\* set the cursor, only on their way to sys_panic (u-lib.cc:79, 89), which stops
\* the machine; those prints are left out.
KernelPrint(cpos, t) ==
  /\ LET s[i \in 0 .. Len(t)] == IF i = 0 THEN [cells |-> console, cell |-> cpos]
                                 ELSE PutNoScroll(s[i - 1], t[i])
     IN console' = [k \in Cells |-> s[Len(t)].cells[k]]
  /\ call' = Disturb(Procs)
  /\ UNCHANGED <<cursorpos, pc, text, cell, copied>>

\* console_clear.
CInit ==
  /\ console = [k \in Cells |-> " "]
  /\ cursorpos = 0
  /\ pc = [p \in Procs |-> "idle"]
  /\ text = [p \in Procs |-> <<>>]
  /\ cell = [p \in Procs |-> 0]
  /\ copied = [p \in Procs |-> 0]
  /\ call = [p \in Procs |-> NoCall]

CNext ==
  \/ \E p \in Procs :
       \/ \E t \in Texts : Begin(p, t)
       \/ Putc(p)
       \/ StartScroll(p)
       \/ Scroll(p)
       \/ End(p)
  \/ \E cpos \in KernelPositions, t \in KernelTexts : KernelPrint(cpos, t)

CSpec == CInit /\ [][CNext]_cvars

-----------------------------------------------------------------------------
(* Properties.                                                             *)

\* Types; in particular no printer ever holds a position outside the page,
\* though each works from a cursor that others move under it.
CTypeOK ==
  /\ DOMAIN console = Cells
  /\ cursorpos \in 0 .. END
  /\ cell \in [Procs -> 0 .. END]
  /\ copied \in [Procs -> 0 .. END]
  /\ pc \in [Procs -> {"idle", "put", "scroll"}]

\* Where a character printed at position n of an endless tape ends: a newline
\* fills up its row.
After(n, c) ==
  IF c = "\n" THEN (n \div CONSOLE_COLUMNS + 1) * CONSOLE_COLUMNS ELSE n + 1

\* Where the characters of a text begin if it is printed from position at, and
\* where it ends.
Starts(at, t) ==
  LET s[i \in 1 .. Len(t) + 1] == IF i = 1 THEN at ELSE After(s[i - 1], t[i - 1])
  IN s

\* What position a of the tape holds when call c has printed all before n: the
\* page that the call found with its text over it, and blank rows behind.
OnTape(c, n, a, v) ==
  LET s == Starts(c.at, c.text)
  IN /\ \A i \in 1 .. Len(c.text) :
          a \in s[i] .. s[i + 1] - 1 /\ a < n
            => v = IF c.text[i] = "\n" THEN " " ELSE c.text[i]
     /\ a < c.at => v = c.found[a]
     /\ a >= n => v = IF a < END THEN c.found[a] ELSE Blank

\* The rows that have left the page when the tape is written up to n.
Rows(n) ==
  IF n <= END THEN 0 ELSE (n - END + CONSOLE_COLUMNS - 1) \div CONSOLE_COLUMNS

\* A call that nobody else printed during leaves its text on the page in
\* order after what was there, with the oldest rows scrolled off, and itself
\* just behind it - also when it starts from a cursor at the very end, and
\* whoever is in the middle of a call of their own (console_printer).
PrintsItsText ==
  \A p \in Procs :
    pc[p] = "put" /\ text[p] = <<>> /\ call[p].alone =>
      LET n   == Starts(call[p].at, call[p].text)[Len(call[p].text) + 1]
          top == Rows(n) * CONSOLE_COLUMNS
      IN /\ cell[p] = n - top
         /\ \A k \in Cells : OnTape(call[p], n, k + top, console[k])
=============================================================================
