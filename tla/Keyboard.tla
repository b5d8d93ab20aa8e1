------------------------------ MODULE Keyboard ------------------------------
(***************************************************************************)
(* The keyboard decoder (kernels1/k-hardware.cc, keyboard_readc) and what  *)
(* check_keyboard makes of its characters.  The user presses and releases  *)
(* keys; the controller queues the bytes; the kernel takes one byte at a   *)
(* time, at an interrupt, a system call or a round of the failure loop.    *)
(* Characters and scan codes are the numbers of the source.                *)
(***************************************************************************)
EXTENDS Integers, Sequences, FiniteSets

CONSTANTS Keys,        \* the keys in use, each [code, ext]: ext keys send 0xE0
          MaxQueue     \* bytes the controller holds: keys wait for room in it,
                       \* bytes that a full one drops are left out

ASSUME KeysAssumption ==
  /\ Keys \subseteq [code : 1 .. 95, ext : BOOLEAN]
  /\ MaxQueue \in Nat

VARIABLES
  held,                \* keys that are down
  queue,               \* bytes in the controller
  modifiers,           \* bits of the static variable of that name
  last_escape,         \* 0 or 0x80
  mode,                \* "on", "rebooted" or "off"
  locks,               \* locks the user has on (history)
  halfUp,              \* modifiers of which one key was released, another is held
                       \* and none was pressed since (history)
  expect,              \* per press not yet read, what may be read of it (history)
  garbled              \* something was read that was not typed (history)

kvars == <<held, queue, modifiers, last_escape, mode, locks, halfUp, expect, garbled>>

MOD_SHIFT    == 0
MOD_CONTROL  == 1
MOD_CAPSLOCK == 3

KEY_SHIFT      == 250
KEY_CONTROL    == 251
KEY_ALT        == 252
KEY_CAPSLOCK   == 253
KEY_NUMLOCK    == 254
KEY_SCROLLLOCK == 255
CKEY(n) == 128 + n

\* keymap[0x00 .. 0x53]
PlainKeys == <<
  0, 27, 128, 129, 130, 131, 132, 133, 134, 135, 136, 137, 138, 139, 8, 9,
  113, 119, 101, 114, 116, 121, 117, 105, 111, 112, 140, 141, 142, 251, 97, 115,
  100, 102, 103, 104, 106, 107, 108, 143, 144, 145, 250, 146, 122, 120, 99, 118,
  98, 110, 109, 147, 148, 149, 250, 42, 252, 32, 253, 0, 0, 0, 0, 0,
  0, 0, 0, 0, 0, 254, 255, 55, 56, 57, 45, 52, 53, 54, 43, 49,
  50, 51, 48, 46 >>

\* keymap[0x80 .. 0xFF] where it is not 0: enter, control, /, alt and the
\* keys between the letters and the numbers.
ExtendedKeys == { <<156, 142>>, <<157, 251>>, <<181, 47>>, <<184, 252>>,
  <<199, 196>>, <<200, 192>>, <<201, 198>>, <<203, 195>>, <<205, 193>>,
  <<207, 197>>, <<208, 194>>, <<209, 199>>, <<210, 200>>, <<211, 201>> }

keymap(x) ==
  IF x < Len(PlainKeys) THEN PlainKeys[x + 1]
  ELSE IF \E p \in ExtendedKeys : p[1] = x
  THEN (CHOOSE p \in ExtendedKeys : p[1] = x)[2]
  ELSE 0

complex_keymap == <<
  <<49, 33, 0, 0>>, <<50, 64, 0, 0>>, <<51, 35, 0, 0>>, <<52, 36, 0, 0>>,
  <<53, 37, 0, 0>>, <<54, 94, 0, 30>>, <<55, 38, 0, 0>>, <<56, 42, 0, 0>>,
  <<57, 40, 0, 0>>, <<48, 41, 0, 0>>, <<45, 95, 0, 31>>, <<61, 43, 0, 0>>,
  <<91, 123, 27, 0>>, <<93, 125, 29, 0>>, <<10, 10, 13, 13>>, <<59, 58, 0, 0>>,
  <<39, 34, 0, 0>>, <<96, 126, 0, 0>>, <<92, 124, 28, 0>>, <<44, 60, 0, 0>>,
  <<46, 62, 0, 0>>, <<47, 63, 0, 0>> >>

\* The character of a key that is pressed while the modifiers are mods.
Char(ch, mods) ==
  IF ch \in 97 .. 122
  THEN IF MOD_CONTROL \in mods THEN ch - 96
       ELSE IF (MOD_SHIFT \in mods) # (MOD_CAPSLOCK \in mods) THEN ch - 32
       ELSE ch
  ELSE IF ch >= KEY_SHIFT THEN 0
  ELSE IF ch \in CKEY(0) .. CKEY(21)
  THEN complex_keymap[ch - CKEY(0) + 1]
         [1 + (IF MOD_SHIFT \in mods THEN 1 ELSE 0)
            + (IF MOD_CONTROL \in mods THEN 2 ELSE 0)]
  ELSE IF ch < 128 /\ MOD_CONTROL \in mods THEN 0
  ELSE ch

\* The modifiers after a key is pressed: a lock changes over, others are set.
Pressed(ch, mods) ==
  IF ch >= KEY_CAPSLOCK
  THEN IF ch - KEY_SHIFT \in mods THEN mods \ {ch - KEY_SHIFT}
       ELSE mods \cup {ch - KEY_SHIFT}
  ELSE IF ch >= KEY_SHIFT THEN mods \cup {ch - KEY_SHIFT}
  ELSE mods

\* Mutant: the release of a modifier is not noticed.
ReleasedNot(ch, mods) == mods

Released(ch, mods) ==
  IF ch \in KEY_SHIFT .. KEY_CAPSLOCK - 1 THEN mods \ {ch - KEY_SHIFT} ELSE mods

-----------------------------------------------------------------------------
(* The user and the controller.                                            *)

KeyOf(k) == keymap(k.code + (IF k.ext THEN 128 ELSE 0))
IsLock(k) == KeyOf(k) >= KEY_CAPSLOCK
IsModifier(k) == KeyOf(k) \in KEY_SHIFT .. KEY_ALT
ModifierOf(k) == KeyOf(k) - KEY_SHIFT
HeldKeys(ch) == {k \in held : KeyOf(k) = ch}

\* The modifiers the user means: the locks that are on, and those with a key
\* that is down.
Meant == locks \cup {m \in 0 .. 2 : HeldKeys(KEY_SHIFT + m) # {}}

\* What a press of k may be read as.  A modifier that is half up may count or
\* not: its key is down, but the decoder drops it with the first of two keys.
Answers(k) == {Char(KeyOf(k), Meant \ dropped) : dropped \in SUBSET halfUp}

Send(bytes) ==
  /\ Len(queue) + Len(bytes) <= MaxQueue
  /\ queue' = queue \o bytes

\* A press, or the repetition of a key that is held (locks do not repeat).
Press(k) ==
  /\ k \in held => ~ IsLock(k)
  /\ Send(IF k.ext THEN <<224, k.code>> ELSE <<k.code>>)
  /\ held' = held \cup {k}
  /\ locks' = IF ~ IsLock(k) THEN locks
              ELSE IF ModifierOf(k) \in locks THEN locks \ {ModifierOf(k)}
              ELSE locks \cup {ModifierOf(k)}
  /\ halfUp' = halfUp \ {ModifierOf(k)}
  /\ expect' = IF mode = "on" THEN Append(expect, Answers(k)) ELSE expect
  /\ UNCHANGED <<modifiers, last_escape, mode, garbled>>

Release(k) ==
  /\ k \in held
  /\ Send(IF k.ext THEN <<224, k.code + 128>> ELSE <<k.code + 128>>)
  /\ held' = held \ {k}
  /\ halfUp' = IF IsModifier(k) /\ HeldKeys(KeyOf(k)) # {k}
               THEN halfUp \cup {ModifierOf(k)} ELSE halfUp \ {ModifierOf(k)}
  /\ UNCHANGED <<modifiers, last_escape, mode, locks, expect, garbled>>

-----------------------------------------------------------------------------
(* The kernel.                                                             *)

\* What keyboard_readc makes of one byte: the character, or 0, and the new
\* values of its two static variables.
ReadByte(data, key) ==
  IF data = 224 THEN [ch |-> 0, mods |-> modifiers, esc |-> 128]
  ELSE IF data >= 128
  THEN [ch |-> 0, mods |-> Released(key, modifiers), esc |-> 0]
  ELSE [ch |-> Char(key, modifiers), mods |-> Pressed(key, modifiers), esc |-> 0]

\* Mutant: the prefix of a byte is ignored.
DecodeNoEscape(data) == ReadByte(data, keymap(data % 128))

Decode(data) == ReadByte(data, keymap((data % 128) + last_escape))

Reboots == {97, 102, 49, 50, 112, 115}      \* a f 1 2 p s
Quits   == {3, 113}                         \* Control-C q

\* Mutant: Control-C is forgotten.
CommandNoQuit(c) == IF c \in Reboots THEN "rebooted" ELSE mode

\* What check_keyboard does with a character.
Command(c) ==
  IF c \in Reboots THEN "rebooted" ELSE IF c \in Quits THEN "off" ELSE mode

\* check_keyboard with a byte waiting.  A soft reboot clears the kernel's
\* variables; what was typed is not followed beyond it.  A press ends in one
\* byte below 128, and a release has none.
Read ==
  LET byte == Head(queue)
      d == Decode(byte)
  IN /\ mode # "off"
     /\ queue # <<>>
     /\ queue' = Tail(queue)
     /\ modifiers' = IF d.ch \in Reboots THEN {} ELSE d.mods
     /\ last_escape' = IF d.ch \in Reboots THEN 0 ELSE d.esc
     /\ mode' = Command(d.ch)
     /\ garbled' = \/ garbled
                   \/ mode = "on" /\ IF byte >= 128 THEN d.ch # 0
                                     ELSE expect = <<>> \/ d.ch \notin Head(expect)
     /\ expect' = IF mode' = "rebooted" THEN <<>>
                  ELSE IF byte >= 128 \/ expect = <<>> THEN expect ELSE Tail(expect)
     /\ UNCHANGED <<held, locks, halfUp>>

KInit ==
  /\ held = {} /\ queue = <<>> /\ modifiers = {} /\ last_escape = 0
  /\ mode = "on" /\ locks = {} /\ halfUp = {} /\ expect = <<>> /\ garbled = FALSE

KNext ==
  \/ mode # "off" /\ \E k \in Keys : Press(k) \/ Release(k)
  \/ Read
  \/ mode = "off" /\ UNCHANGED kvars

\* The timer interrupt, or the failure loop, calls check_keyboard for ever.
KSpec == KInit /\ [][KNext]_kvars /\ WF_kvars(Read)

-----------------------------------------------------------------------------
(* Properties.                                                             *)

\* Once all bytes are read no modifier is left on by a key that is up, and the
\* decoder waits for a fresh key, whatever was pressed in which order and
\* also after a soft reboot (keyboard_readc's two static variables).
NoStuckModifier ==
  queue = <<>> /\ mode # "off" =>
    /\ last_escape = 0
    /\ \A ch \in KEY_SHIFT .. KEY_ALT : ch - KEY_SHIFT \in modifiers => HeldKeys(ch) # {}

\* The kernel reads every press once and in order, as the character of that key
\* with the modifiers whose keys were down and the locks that were on when it
\* was pressed, though the bytes are read later and one at a time
\* (keyboard_readc).  One case is left open: when one of two keys of a modifier
\* is released, the code drops the modifier (k-hardware.cc:526-527) although
\* the other key is down, and a press may be read with it or without.
ReadAsTyped ==
  mode # "rebooted" => ~ garbled /\ (queue = <<>> => expect = <<>>)

\* Typing Control-C or q turns the machine off, unless a command typed before
\* it reboots ("Loop until user presses Control-C, then poweroff").
QuitQuits ==
  mode = "on" /\ (\E i \in 1 .. Len(expect) : expect[i] \subseteq Quits) ~> mode # "on"
=============================================================================
