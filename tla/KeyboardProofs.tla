--------------------------- MODULE KeyboardProofs ---------------------------
(***************************************************************************)
(* Proofs about the keyboard decoder: no modifier sticks, and the kernel   *)
(* reads what was typed.  Bytes wait in the controller between the key and *)
(* the kernel, so the invariants speak of the decoder's states on the way  *)
(* through the queue: a trace t with t[0] the decoder as it is now, one    *)
(* step for each byte, and the state the keys that are down and the locks  *)
(* account for at the end.  A byte read drops the first state of the       *)
(* trace, a byte sent adds one.                                            *)
(***************************************************************************)
EXTENDS Keyboard, TLAPS

Bytes == 0 .. 255
Bits  == 0 .. 5

\* The characters a key can give, whatever the modifiers.
Chars == {Char(ch, m) : ch \in 0 .. 255, m \in SUBSET Bits}

Decoders == [mods : SUBSET Bits, esc : {0, 128}]

\* keyboard_readc on one byte, for a decoder d that need not be the kernel's
\* present one.
KeyAt(d, b) == keymap((b % 128) + d.esc)
Out(d, b)   == IF b >= 128 THEN 0 ELSE Char(KeyAt(d, b), d.mods)
After(d, b) ==
  IF b = 224 THEN [mods |-> d.mods, esc |-> 128]
  ELSE IF b >= 128 THEN [mods |-> Released(KeyAt(d, b), d.mods), esc |-> 0]
  ELSE [mods |-> Pressed(KeyAt(d, b), d.mods), esc |-> 0]

\* The same with the soft reboot that the character may ask for.
Fresh == [mods |-> {}, esc |-> 0]
Next1(d, b) == IF Out(d, b) \in Reboots THEN Fresh ELSE After(d, b)

Now == [mods |-> modifiers, esc |-> last_escape]

KeyTypes ==
  /\ held \subseteq Keys
  /\ queue \in Seq(Bytes)
  /\ modifiers \subseteq Bits
  /\ last_escape \in {0, 128}
  /\ mode \in {"on", "rebooted", "off"}
  /\ locks \subseteq 3 .. 5
  /\ halfUp \subseteq 0 .. 2
  /\ expect \in Seq(SUBSET Chars)
  /\ garbled \in BOOLEAN

-----------------------------------------------------------------------------
(* The operators.                                                          *)

\* keymap gives a byte for every index the decoder can form.
LEMMA KeymapType ==
  ASSUME NEW x \in 0 .. 255
  PROVE  keymap(x) \in 0 .. 255
<1>1. \A i \in 1 .. 84 : PlainKeys[i] \in 0 .. 255
  BY SMTT(30), Z3T(30) DEF PlainKeys
<1>2. Len(PlainKeys) = 84
  BY DEF PlainKeys
<1>3. \A p \in ExtendedKeys : p[2] \in 0 .. 255
  BY SMTT(30), Z3T(30) DEF ExtendedKeys
<1>4. CASE x < 84
  <2>1. x + 1 \in 1 .. 84
    BY <1>4, SMTT(30), Z3T(30)
  <2>2. keymap(x) = PlainKeys[x + 1]
    BY <1>2, <1>4, SMTT(30), Z3T(30) DEF keymap
  <2>3. PlainKeys[x + 1] \in 0 .. 255
    BY <2>1, <1>1, ZenonT(30)
  <2> QED
    BY <2>2, <2>3
<1>5. CASE ~ (x < 84)
  <2>1. CASE \E p \in ExtendedKeys : p[1] = x
    <3> DEFINE q == CHOOSE p \in ExtendedKeys : p[1] = x
    <3>1. q \in ExtendedKeys
      BY <2>1
    <3>2. keymap(x) = q[2]
      BY <1>2, <1>5, <2>1, SMTT(30), Z3T(30) DEF keymap
    <3> QED
      BY <3>1, <3>2, <1>3
  <2>2. CASE ~ \E p \in ExtendedKeys : p[1] = x
    BY <1>2, <1>5, <2>2 DEF keymap
  <2> QED
    BY <2>1, <2>2
<1> QED
  BY <1>4, <1>5, SMTT(30), Z3T(30)

\* Presses and releases keep the modifiers in their six bits.
LEMMA ModsType ==
  ASSUME NEW ch \in 0 .. 255, NEW m \in SUBSET Bits
  PROVE  /\ Pressed(ch, m) \in SUBSET Bits
         /\ Released(ch, m) \in SUBSET Bits
         /\ Char(ch, m) \in Chars
<1>1. ch >= KEY_SHIFT => ch - KEY_SHIFT \in Bits
  BY SMTT(30), Z3T(30) DEF KEY_SHIFT, Bits
<1>2. Pressed(ch, m) \in SUBSET Bits
  BY <1>1 DEF Pressed, KEY_SHIFT, KEY_CAPSLOCK
<1>3. Released(ch, m) \in SUBSET Bits
  BY SMTT(30), Z3T(30) DEF Released
<1> QED
  BY <1>2, <1>3, SMTT(30), Z3T(30) DEF Chars

LEMMA KeyOfType ==
  ASSUME NEW k \in Keys
  PROVE  /\ k.code \in 1 .. 95 /\ k.ext \in BOOLEAN
         /\ k.code \in Bytes /\ k.code + 128 \in Bytes /\ 224 \in Bytes
         /\ KeyOf(k) \in 0 .. 255
<1>1. k.code \in 1 .. 95 /\ k.ext \in BOOLEAN
  BY KeysAssumption
<1>2. k.code + (IF k.ext THEN 128 ELSE 0) \in 0 .. 255
  BY <1>1
<1>3. k.code \in Bytes /\ k.code + 128 \in Bytes /\ 224 \in Bytes
  BY <1>1, SMTT(30), Z3T(30) DEF Bytes
<1> QED
  BY <1>1, <1>2, <1>3, KeymapType, ZenonT(30) DEF KeyOf

\* The modifiers that the decoder has on once it has read all bytes: those the
\* user means, without the half released ones.
Kept == Meant \ halfUp

LEMMA MeantType ==
  ASSUME KeyTypes
  PROVE  Meant \in SUBSET Bits /\ Kept \in SUBSET Bits
<1>1. 0 .. 2 \subseteq Bits /\ 3 .. 5 \subseteq Bits
  BY SMTT(30), Z3T(30) DEF Bits
<1>2. ASSUME NEW m \in Meant PROVE m \in Bits
  BY <1>1, <1>2, SMTT(30), Z3T(30) DEF KeyTypes, Meant
<1> QED
  BY <1>2, ZenonT(30) DEF Kept

\* A press and a release of a key change what is kept as the decoder does.
LEMMA PressKept ==
  ASSUME KeyTypes, NEW k \in Keys, Press(k)
  PROVE  Kept' = Pressed(KeyOf(k), Kept)
<1> DEFINE ch == KeyOf(k)
           Down(m) == HeldKeys(KEY_SHIFT + m) # {}
<1>1. ch \in 0 .. 255
  BY KeyOfType, ZenonT(30)
<1>2. \A m \in 0 .. 2 : Down(m)' <=> Down(m) \/ KEY_SHIFT + m = ch
  BY ZenonT(30) DEF HeldKeys, Press
<1>3. Meant' = locks' \cup {m \in 0 .. 2 : Down(m) \/ KEY_SHIFT + m = ch}
  BY <1>2, SMTT(30), Z3T(30) DEF Meant
<1>4. Meant = locks \cup {m \in 0 .. 2 : Down(m)}
  BY ZenonT(30) DEF Meant
<1>5. /\ halfUp' = halfUp \ {ch - KEY_SHIFT}
      /\ locks' = IF ~ (ch >= KEY_CAPSLOCK) THEN locks
                  ELSE IF ch - KEY_SHIFT \in locks THEN locks \ {ch - KEY_SHIFT}
                  ELSE locks \cup {ch - KEY_SHIFT}
      /\ locks \subseteq 3 .. 5 /\ halfUp \subseteq 0 .. 2
  BY ZenonT(30) DEF Press, IsLock, ModifierOf, KeyTypes
<1> HIDE DEF ch, Down
<1>6. CASE ch >= KEY_CAPSLOCK
  <2>1. ch - KEY_SHIFT \in 3 .. 5 /\ \A m \in 0 .. 2 : KEY_SHIFT + m # ch
    BY <1>1, <1>6, SMTT(30), Z3T(30) DEF KEY_SHIFT, KEY_CAPSLOCK
  <2>2. \A m \in 3 .. 5 : m \notin 0 .. 2
    BY SMTT(30), Z3T(30)
  <2>3. ch - KEY_SHIFT \in Kept <=> ch - KEY_SHIFT \in locks
    BY <1>4, <1>5, <2>1, <2>2, ZenonT(30) DEF Kept
  <2>4. ASSUME NEW m PROVE m \in Kept' <=> m \in Pressed(ch, Kept)
    BY <1>3, <1>4, <1>5, <1>6, <2>1, <2>2, <2>3, SMTT(30), Z3T(30) DEF Kept, Pressed
  <2> QED
    BY <2>4, SetExtensionality, ZenonT(30) DEF ch
<1>7. CASE ch >= KEY_SHIFT /\ ~ (ch >= KEY_CAPSLOCK)
  <2>1. /\ ch - KEY_SHIFT \in 0 .. 2
        /\ \A m \in 0 .. 2 : KEY_SHIFT + m = ch <=> m = ch - KEY_SHIFT
    BY <1>1, <1>7, SMTT(30), Z3T(30) DEF KEY_SHIFT, KEY_CAPSLOCK
  <2>2. ASSUME NEW m PROVE m \in Kept' <=> m \in Pressed(ch, Kept)
    BY <1>3, <1>4, <1>5, <1>7, <2>1, SMTT(30), Z3T(30) DEF Kept, Pressed
  <2> QED
    BY <2>2, SetExtensionality, ZenonT(30) DEF ch
<1>8. CASE ~ (ch >= KEY_SHIFT)
  <2>1. /\ ch - KEY_SHIFT \notin 0 .. 2 /\ ~ (ch >= KEY_CAPSLOCK)
        /\ \A m \in 0 .. 2 : KEY_SHIFT + m # ch
    BY <1>1, <1>8, SMTT(30), Z3T(30) DEF KEY_SHIFT, KEY_CAPSLOCK
  <2>2. Meant' = Meant
    BY <1>3, <1>4, <1>5, <2>1, SMTT(30), Z3T(30)
  <2>3. halfUp' = halfUp
    <3>1. ASSUME NEW m PROVE m \in halfUp' <=> m \in halfUp
      BY <1>5, <2>1, ZenonT(30)
    <3> QED
      BY <3>1, SetExtensionality, ZenonT(30)
  <2> QED
    BY <1>8, <2>1, <2>2, <2>3, ZenonT(30) DEF ch, Kept, Pressed
<1> QED
  BY <1>6, <1>7, <1>8, ZenonT(30)

LEMMA ReleaseKept ==
  ASSUME KeyTypes, NEW k \in Keys, Release(k)
  PROVE  Kept' = Released(KeyOf(k), Kept)
<1> DEFINE ch == KeyOf(k)
           Down(m) == HeldKeys(KEY_SHIFT + m) # {}
           Others == HeldKeys(ch) # {k}
<1>1. ch \in 0 .. 255
  BY KeyOfType, ZenonT(30)
<1>2. /\ k \in held /\ held' = held \ {k} /\ locks' = locks
      /\ halfUp' = IF ch \in KEY_SHIFT .. KEY_ALT /\ Others
                   THEN halfUp \cup {ch - KEY_SHIFT} ELSE halfUp \ {ch - KEY_SHIFT}
      /\ locks \subseteq 3 .. 5 /\ halfUp \subseteq 0 .. 2
  BY ZenonT(30) DEF Release, IsModifier, ModifierOf, KeyTypes
<1>3. Others <=> \E x \in held : x # k /\ KeyOf(x) = ch
  BY <1>2, SMTT(30), Z3T(30) DEF HeldKeys
<1>4. \A m \in 0 .. 2 : Down(m)' <=> IF KEY_SHIFT + m = ch THEN Others ELSE Down(m)
  BY <1>2, <1>3, SMTT(30), Z3T(30) DEF HeldKeys
<1>5. \A m \in 0 .. 2 : KEY_SHIFT + m = ch => Down(m)
  BY <1>2, SMTT(30), Z3T(30) DEF HeldKeys
<1>6. Meant' = locks \cup {m \in 0 .. 2 : IF KEY_SHIFT + m = ch THEN Others ELSE Down(m)}
  BY <1>2, <1>4, SMTT(30), Z3T(30) DEF Meant
<1>7. Meant = locks \cup {m \in 0 .. 2 : Down(m)}
  BY ZenonT(30) DEF Meant
<1> HIDE DEF ch, Down, Others
<1>8. CASE ch \in KEY_SHIFT .. KEY_CAPSLOCK - 1
  <2>1. /\ ch - KEY_SHIFT \in 0 .. 2 /\ ch - KEY_SHIFT \notin 3 .. 5 /\ ch \in KEY_SHIFT .. KEY_ALT
        /\ \A m \in 0 .. 2 : KEY_SHIFT + m = ch <=> m = ch - KEY_SHIFT
    BY <1>1, <1>8, SMTT(30), Z3T(30) DEF KEY_SHIFT, KEY_ALT, KEY_CAPSLOCK
  <2>2. ASSUME NEW m PROVE m \in Kept' <=> m \in Released(ch, Kept)
    BY <1>2, <1>5, <1>6, <1>7, <1>8, <2>1, SMTT(30), Z3T(30) DEF Kept, Released
  <2> QED
    BY <2>2, SetExtensionality, ZenonT(30) DEF ch
<1>9. CASE ch \notin KEY_SHIFT .. KEY_CAPSLOCK - 1
  <2>1. /\ ch - KEY_SHIFT \notin 0 .. 2 /\ ch \notin KEY_SHIFT .. KEY_ALT
        /\ \A m \in 0 .. 2 : KEY_SHIFT + m # ch
    BY <1>1, <1>9, SMTT(30), Z3T(30) DEF KEY_SHIFT, KEY_ALT, KEY_CAPSLOCK
  <2>2. Meant' = Meant
    BY <1>6, <1>7, <2>1, SMTT(30), Z3T(30)
  <2>3. halfUp' = halfUp
    <3>1. ASSUME NEW m PROVE m \in halfUp' <=> m \in halfUp
      BY <1>2, <2>1, ZenonT(30)
    <3> QED
      BY <3>1, SetExtensionality, ZenonT(30)
  <2> QED
    BY <1>9, <2>2, <2>3, ZenonT(30) DEF ch, Kept, Released
<1> QED
  BY <1>8, <1>9, ZenonT(30)

\* What a press may be read as are characters, the one the decoder gives for
\* what is kept among them.
LEMMA AnswersFacts ==
  ASSUME KeyTypes, NEW k \in Keys
  PROVE  Answers(k) \in SUBSET Chars /\ Char(KeyOf(k), Kept) \in Answers(k)
<1>1. KeyOf(k) \in 0 .. 255 /\ Meant \in SUBSET Bits
  BY KeyOfType, MeantType, ZenonT(30)
<1>2. ASSUME NEW dropped \in SUBSET halfUp PROVE Char(KeyOf(k), Meant \ dropped) \in Chars
  <2>1. Meant \ dropped \in SUBSET Bits
    BY <1>1, SMTT(30), Z3T(30)
  <2> QED
    BY <1>1, <2>1, ModsType, ZenonT(30)
<1>3. Answers(k) \in SUBSET Chars
  BY <1>2, ZenonT(30) DEF Answers
<1>4. halfUp \in SUBSET halfUp
  BY SMTT(30), Z3T(30)
<1> QED
  BY <1>3, <1>4, ZenonT(30) DEF Answers, Kept

LEMMA AfterType ==
  ASSUME NEW d \in Decoders, NEW b \in Bytes
  PROVE  /\ KeyAt(d, b) \in 0 .. 255
         /\ After(d, b) \in Decoders
         /\ Next1(d, b) \in Decoders
<1>1. (b % 128) + d.esc \in 0 .. 255
  BY SMTT(30), Z3T(30) DEF Decoders, Bytes
<1>2. KeyAt(d, b) \in 0 .. 255
  BY <1>1, KeymapType, ZenonT(30) DEF KeyAt
<1>3. d.mods \in SUBSET Bits
  BY DEF Decoders
<1>4. Pressed(KeyAt(d, b), d.mods) \in SUBSET Bits /\ Released(KeyAt(d, b), d.mods) \in SUBSET Bits
  BY <1>2, <1>3, ModsType, SMTT(30), Z3T(30)
<1>5. After(d, b) \in Decoders
  BY <1>3, <1>4 DEF After, Decoders
<1>6. Fresh \in Decoders
  BY DEF Fresh, Decoders
<1> QED
  BY <1>2, <1>5, <1>6 DEF Next1

\* What the prefix does to a decoder, and what the rest of a key then does.
Prefixed(d) == [mods |-> d.mods, esc |-> 128]

LEMMA PrefixByte ==
  ASSUME NEW d \in Decoders
  PROVE  /\ Out(d, 224) = 0 /\ After(d, 224) = Prefixed(d) /\ Next1(d, 224) = Prefixed(d)
         /\ Prefixed(d) \in Decoders
BY DEF Out, After, Next1, Reboots, Prefixed, Decoders

LEMMA KeyByte ==
  ASSUME NEW d \in Decoders, NEW k \in Keys, d.esc = IF k.ext THEN 128 ELSE 0
  PROVE  /\ Out(d, k.code) = Char(KeyOf(k), d.mods)
         /\ Out(d, k.code + 128) = 0
         /\ After(d, k.code) = [mods |-> Pressed(KeyOf(k), d.mods), esc |-> 0]
         /\ After(d, k.code + 128) = [mods |-> Released(KeyOf(k), d.mods), esc |-> 0]
<1>1. k.code \in 1 .. 95 /\ k.ext \in BOOLEAN
  BY KeyOfType, SMTT(30), Z3T(30)
<1>2. /\ k.code % 128 = k.code /\ (k.code + 128) % 128 = k.code
      /\ k.code < 128 /\ k.code + 128 >= 128 /\ k.code + 128 # 224 /\ k.code # 224
  BY <1>1, SMTT(30), Z3T(30)
<1>3. KeyAt(d, k.code) = KeyOf(k) /\ KeyAt(d, k.code + 128) = KeyOf(k)
  BY <1>1, <1>2 DEF KeyAt, KeyOf
<1> QED
  BY <1>1, <1>2, <1>3, SMTT(30), Z3T(30) DEF Out, After

\* The kernel's own decoder takes the step that After and Out describe.
LEMMA DecodeIsAfter ==
  ASSUME KeyTypes, NEW b \in Bytes
  PROVE  /\ Decode(b).ch = Out(Now, b)
         /\ [mods |-> Decode(b).mods, esc |-> Decode(b).esc] = After(Now, b)
         /\ Now \in Decoders
BY SMTT(30), Z3T(30) DEF KeyTypes, Decode, ReadByte, Out, After, KeyAt, Now, Decoders, Bytes

-----------------------------------------------------------------------------
(* Traces through the queue.                                               *)

\* Reading the bytes q takes the decoder from d to e, reboots included.
Leads(q, d, e) ==
  \E t \in [0 .. Len(q) -> Decoders] :
    /\ t[0] = d /\ t[Len(q)] = e
    /\ \A i \in 1 .. Len(q) : t[i] = Next1(t[i - 1], q[i])

LEMMA LeadsNowhere ==
  ASSUME NEW d \in Decoders
  PROVE  /\ Leads(<<>>, d, d)
         /\ \A e : Leads(<<>>, d, e) => e = d
<1> DEFINE t == [i \in 0 .. 0 |-> d]
<1>1. t \in [0 .. Len(<<>>) -> Decoders] /\ t[0] = d /\ t[Len(<<>>)] = d
  BY SMTT(30), Z3T(30)
<1>2. \A i \in 1 .. Len(<<>>) : FALSE
  BY SMTT(30), Z3T(30)
<1> HIDE DEF t
<1>3. Leads(<<>>, d, d)
  BY <1>1, <1>2 DEF Leads
<1>4. \A e : Leads(<<>>, d, e) => e = d
  BY SMTT(30), Z3T(30) DEF Leads
<1> QED
  BY <1>3, <1>4

LEMMA LeadsAppend ==
  ASSUME NEW q \in Seq(Bytes), NEW d, NEW e, Leads(q, d, e), NEW b \in Bytes
  PROVE  Leads(Append(q, b), d, Next1(e, b))
<1>1. PICK t \in [0 .. Len(q) -> Decoders] :
        /\ t[0] = d /\ t[Len(q)] = e
        /\ \A i \in 1 .. Len(q) : t[i] = Next1(t[i - 1], q[i])
  BY SMTT(30), Z3T(30) DEF Leads
<1> DEFINE n == Len(q)
           u == [i \in 0 .. n + 1 |-> IF i = n + 1 THEN Next1(e, b) ELSE t[i]]
<1>2. n \in Nat /\ Len(Append(q, b)) = n + 1 /\ e \in Decoders
  BY <1>1, SMTT(30), Z3T(30)
<1>3. Next1(e, b) \in Decoders
  BY <1>2, AfterType
<1>4. /\ \A i \in 1 .. n : Append(q, b)[i] = q[i]
      /\ Append(q, b)[n + 1] = b
  OBVIOUS
<1>5. u \in [0 .. n + 1 -> Decoders] /\ u[0] = d /\ u[n + 1] = Next1(e, b)
  BY <1>1, <1>2, <1>3, SMTT(30), Z3T(30)
<1>6. ASSUME NEW i \in 1 .. n + 1 PROVE u[i] = Next1(u[i - 1], Append(q, b)[i])
  <2>1. CASE i = n + 1
    <3>1. u[i - 1] = e
      BY <1>1, <1>2, <2>1, SMTT(30), Z3T(30)
    <3> QED
      BY <3>1, <2>1, <1>4, <1>5, SMTT(30), Z3T(30)
  <2>2. CASE i # n + 1
    <3>1. i \in 1 .. n /\ u[i] = t[i] /\ u[i - 1] = t[i - 1]
      BY <1>2, <2>2
    <3> QED
      BY <3>1, <1>1, <1>4, SMTT(30), Z3T(30)
  <2> QED
    BY <2>1, <2>2
<1> HIDE DEF u, n
<1> QED
  BY <1>2, <1>5, <1>6, ZenonT(30) DEF Leads

LEMMA LeadsTail ==
  ASSUME NEW q \in Seq(Bytes), NEW d, NEW e, Leads(q, d, e), q # <<>>
  PROVE  Leads(Tail(q), Next1(d, Head(q)), e)
<1>1. PICK t \in [0 .. Len(q) -> Decoders] :
        /\ t[0] = d /\ t[Len(q)] = e
        /\ \A i \in 1 .. Len(q) : t[i] = Next1(t[i - 1], q[i])
  BY SMTT(30), Z3T(30) DEF Leads
<1> DEFINE n == Len(q) - 1
           u == [i \in 0 .. n |-> t[i + 1]]
<1>2. n \in Nat /\ Len(q) = n + 1 /\ Len(Tail(q)) = n
  OBVIOUS
<1>3. Head(q) = q[1] /\ \A i \in 1 .. n : Tail(q)[i] = q[i + 1]
  BY SMTT(30), Z3T(30)
<1>4. u \in [0 .. n -> Decoders] /\ u[n] = e
  BY <1>1, <1>2, SMTT(30), Z3T(30)
<1>5. u[0] = Next1(d, Head(q))
  BY <1>1, <1>2, <1>3, SMTT(30), Z3T(30)
<1>6. ASSUME NEW i \in 1 .. n PROVE u[i] = Next1(u[i - 1], Tail(q)[i])
  <2>1. u[i] = t[i + 1] /\ u[i - 1] = t[i] /\ i + 1 \in 1 .. Len(q) /\ (i + 1) - 1 = i
    BY <1>2, SMTT(30), Z3T(30)
  <2>2. t[i + 1] = Next1(t[i], q[i + 1])
    BY <1>1, <2>1
  <2> QED
    BY <2>1, <2>2, <1>3, SMTT(30), Z3T(30)
<1> HIDE DEF u, n
<1> QED
  BY <1>2, <1>4, <1>5, <1>6, ZenonT(30) DEF Leads

-----------------------------------------------------------------------------
(* Types, and no stuck modifier.                                           *)

LEMMA KeyTypesInit ==
  ASSUME KInit
  PROVE  KeyTypes
<1>1. queue \in Seq(Bytes) /\ expect \in Seq(SUBSET Chars)
  BY DEF KInit
<1>2. garbled \in BOOLEAN
  BY ZenonT(30) DEF KInit
<1> QED
  BY <1>1, <1>2 DEF KInit, KeyTypes

\* The queue after the bytes of a key.
LEMMA SendBytes ==
  ASSUME KeyTypes, NEW k \in Keys, NEW base \in Bytes
  PROVE  LET sent == queue \o (IF k.ext THEN <<224, base>> ELSE <<base>>) IN
         /\ ~ k.ext => sent = Append(queue, base)
         /\ k.ext => sent = Append(Append(queue, 224), base)
         /\ sent \in Seq(Bytes)
<1>1. queue \in Seq(Bytes) /\ 224 \in Bytes /\ k.ext \in BOOLEAN
  BY KeyOfType, SMTT(30), Z3T(30) DEF KeyTypes
<1>2. queue \o <<base>> = Append(queue, base)
  BY <1>1, SMTT(30), Z3T(30)
<1>3. queue \o <<224, base>> = Append(Append(queue, 224), base)
  BY <1>1, SMTT(30), Z3T(30)
<1>4. Append(queue, base) \in Seq(Bytes) /\ Append(Append(queue, 224), base) \in Seq(Bytes)
  BY <1>1
<1> QED
  BY <1>1, <1>2, <1>3, <1>4, SMTT(30), Z3T(30)

\* The bytes of a key lead through a decoder c that has the prefix, if any.
LEMMA LeadsKey ==
  ASSUME KeyTypes, NEW k \in Keys, NEW base \in Bytes, NEW s, NEW d \in Decoders,
         d.esc = 0, Leads(queue, s, d)
  PROVE  \E c \in Decoders :
           /\ c.esc = IF k.ext THEN 128 ELSE 0
           /\ c.mods = d.mods
           /\ Leads(queue \o (IF k.ext THEN <<224, base>> ELSE <<base>>), s, Next1(c, base))
<1>1. queue \in Seq(Bytes) /\ 224 \in Bytes /\ k.ext \in BOOLEAN
  BY KeyOfType, SMTT(30), Z3T(30) DEF KeyTypes
<1>2. CASE ~ k.ext
  <2>1. Leads(Append(queue, base), s, Next1(d, base))
    BY <1>1, LeadsAppend, SMTT(30), Z3T(30)
  <2>2. Leads(queue \o (IF k.ext THEN <<224, base>> ELSE <<base>>), s, Next1(d, base))
    BY <1>2, <2>1, SendBytes, ZenonT(30)
  <2> QED
    BY <1>2, <2>2, SMTT(30), Z3T(30)
<1>3. CASE k.ext
  <2> DEFINE c == Prefixed(d)
  <2>1. c \in Decoders /\ c.esc = 128 /\ c.mods = d.mods /\ Next1(d, 224) = c
    BY PrefixByte DEF Prefixed
  <2>2. Leads(Append(queue, 224), s, c) /\ Append(queue, 224) \in Seq(Bytes)
    BY <1>1, <2>1, LeadsAppend
  <2> HIDE DEF c
  <2>3. Leads(Append(Append(queue, 224), base), s, Next1(c, base))
    BY <2>2, LeadsAppend, ZenonT(30)
  <2>4. Leads(queue \o (IF k.ext THEN <<224, base>> ELSE <<base>>), s, Next1(c, base))
    BY <1>3, <2>3, SendBytes, ZenonT(30)
  <2> QED
    BY <1>3, <2>1, <2>4
<1> QED
  BY <1>1, <1>2, <1>3, ZenonT(30)

\* Every step keeps the types.
LEMMA KeyTypesNext ==
  ASSUME KeyTypes, [KNext]_kvars
  PROVE  KeyTypes'
<1>1. ASSUME NEW k \in Keys, Press(k) PROVE KeyTypes'
  <2>1. KeyOf(k) \in 0 .. 255
    BY KeyOfType, SMTT(30), Z3T(30)
  <2>2. queue' \in Seq(Bytes)
    BY <1>1, KeyOfType, SendBytes, SMTT(30), Z3T(30) DEF Press, Send
  <2>3. locks' \subseteq 3 .. 5 /\ halfUp' \subseteq 0 .. 2
    <3>1. IsLock(k) => ModifierOf(k) \in 3 .. 5
      BY <2>1, SMTT(30), Z3T(30) DEF IsLock, ModifierOf, KEY_SHIFT, KEY_CAPSLOCK
    <3>2. halfUp' \subseteq 0 .. 2
      BY <1>1, ZenonT(30) DEF Press, KeyTypes
    <3>3. locks' \subseteq 3 .. 5
      <4>1. locks \subseteq 3 .. 5 /\ locks' \subseteq locks \cup (IF IsLock(k) THEN {ModifierOf(k)} ELSE {})
        BY <1>1, ZenonT(30) DEF Press, KeyTypes
      <4> QED
        BY <3>1, <4>1, ZenonT(30)
    <3> QED
      BY <3>2, <3>3
  <2>4. expect' \in Seq(SUBSET Chars)
    <3>1. expect \in Seq(SUBSET Chars) /\ Answers(k) \in SUBSET Chars
      BY AnswersFacts, ZenonT(30) DEF KeyTypes
    <3>2. Append(expect, Answers(k)) \in Seq(SUBSET Chars)
      BY <3>1, SMTT(30), Z3T(30)
    <3> QED
      BY <1>1, <3>1, <3>2, ZenonT(30) DEF Press
  <2> QED
    BY <1>1, <2>2, <2>3, <2>4, SMTT(30), Z3T(30) DEF Press, KeyTypes
<1>2. ASSUME NEW k \in Keys, Release(k) PROVE KeyTypes'
  <2>1. KeyOf(k) \in 0 .. 255
    BY KeyOfType
  <2>2. queue' \in Seq(Bytes)
    BY <1>2, KeyOfType, SendBytes, SMTT(30), Z3T(30) DEF Release, Send
  <2>3. halfUp' \subseteq 0 .. 2
    <3>1. IsModifier(k) => ModifierOf(k) \in 0 .. 2
      BY <2>1, SMTT(30), Z3T(30) DEF IsModifier, ModifierOf, KEY_SHIFT, KEY_ALT
    <3>2. /\ halfUp \subseteq 0 .. 2
          /\ halfUp' \subseteq halfUp \cup (IF IsModifier(k) THEN {ModifierOf(k)} ELSE {})
      BY <1>2, ZenonT(30) DEF Release, KeyTypes
    <3> QED
      BY <3>1, <3>2, ZenonT(30)
  <2> QED
    BY <1>2, <2>2, <2>3, SMTT(30), Z3T(30) DEF Release, KeyTypes
<1>3. ASSUME Read PROVE KeyTypes'
  <2> DEFINE b == Head(queue)
             d == Decode(b)
  <2>1. b \in Bytes /\ queue' \in Seq(Bytes)
    BY <1>3 DEF Read, KeyTypes
  <2>2. After(Now, b) \in Decoders
    BY <2>1, DecodeIsAfter, AfterType
  <2>3. [mods |-> d.mods, esc |-> d.esc] \in Decoders
    BY <2>1, <2>2, DecodeIsAfter
  <2>4. d.mods \subseteq Bits /\ d.esc \in {0, 128}
    BY <2>3 DEF Decoders
  <2>5. modifiers' \subseteq Bits /\ last_escape' \in {0, 128}
    BY <1>3, <2>4 DEF Read
  <2>6. expect' \in Seq(SUBSET Chars)
    <3>1. expect \in Seq(SUBSET Chars)
      BY DEF KeyTypes
    <3>2. <<>> \in Seq(SUBSET Chars) /\ (expect # <<>> => Tail(expect) \in Seq(SUBSET Chars))
      BY <3>1, SMTT(30), Z3T(30)
    <3> QED
      BY <1>3, <3>1, <3>2, ZenonT(30) DEF Read
  <2>7. mode' \in {"on", "rebooted", "off"}
    BY <1>3 DEF Read, KeyTypes, Command
  <2>8. garbled' \in BOOLEAN
    BY <1>3, ZenonT(30) DEF Read, KeyTypes
  <2> QED
    BY <1>3, <2>1, <2>5, <2>6, <2>7, <2>8, SMTT(30), Z3T(30) DEF Read, KeyTypes
<1>4. ASSUME UNCHANGED kvars PROVE KeyTypes'
  BY <1>4 DEF kvars, KeyTypes
<1> QED
  BY <1>1, <1>2, <1>3, <1>4, SMTT(30), Z3T(30) DEF KNext

\* The state the queue leads to has no modifier on that no key holds.
Unstuck(e) ==
  /\ e.esc = 0
  /\ \A ch \in KEY_SHIFT .. KEY_ALT : ch - KEY_SHIFT \in e.mods => HeldKeys(ch) # {}

LeadsUnstuck == \E e \in Decoders : Leads(queue, Now, e) /\ Unstuck(e)

\* A key that goes down or up leaves the end of the queue unstuck.
LEMMA UnstuckPress ==
  ASSUME KeyTypes, LeadsUnstuck, NEW k \in Keys, Press(k)
  PROVE  LeadsUnstuck'
<1>1. PICK d \in Decoders : Leads(queue, Now, d) /\ Unstuck(d)
  BY DEF LeadsUnstuck
<1> DEFINE p == [mods |-> Pressed(KeyOf(k), d.mods), esc |-> 0]
<1>2. d.esc = 0 /\ d.mods \in SUBSET Bits /\ KeyOf(k) \in 0 .. 255
  BY <1>1, KeyOfType DEF Unstuck, Decoders
<1>3. queue' = queue \o (IF k.ext THEN <<224, k.code>> ELSE <<k.code>>) /\ k.code \in Bytes
  BY KeyOfType, SMTT(30), Z3T(30) DEF Press, Send
<1>4. PICK c \in Decoders : /\ c.esc = IF k.ext THEN 128 ELSE 0
                            /\ c.mods = d.mods
                            /\ Leads(queue', Now, Next1(c, k.code))
  BY <1>1, <1>2, <1>3, LeadsKey, SMTT(30), Z3T(30)
<1>5. Now' = Now /\ held' = held \cup {k}
  BY SMTT(30), Z3T(30) DEF Press, Now
<1>6. After(c, k.code) = p
  BY <1>4, KeyByte, ZenonT(30)
<1>7. \E f \in {p, Fresh} : Leads(queue', Now, f)
  BY <1>4, <1>6 DEF Next1
<1>8. Fresh \in Decoders /\ Unstuck(Fresh)'
  BY DEF Fresh, Decoders, Unstuck
<1>9. p \in Decoders
  BY <1>2, ModsType, SMTT(30), Z3T(30) DEF Decoders
<1>10. Unstuck(p)'
  <2>1. ASSUME NEW ch \in KEY_SHIFT .. KEY_ALT, ch - KEY_SHIFT \in p.mods
        PROVE  \E x \in held' : KeyOf(x) = ch
    <3>1. CASE ch - KEY_SHIFT \in d.mods
      BY <1>1, <1>5, <3>1 DEF Unstuck, HeldKeys
    <3>2. CASE ch - KEY_SHIFT \notin d.mods
      <4>1. ch = KeyOf(k)
        BY <1>2, <2>1, <3>2, SMTT(30), Z3T(30) DEF Pressed, KEY_SHIFT, KEY_ALT, KEY_CAPSLOCK
      <4> QED
        BY <4>1, <1>5
    <3> QED
      BY <3>1, <3>2, SMTT(30), Z3T(30)
  <2> QED
    BY <2>1, SMTT(30), Z3T(30) DEF Unstuck, HeldKeys
<1> HIDE DEF p
<1> QED
  BY <1>5, <1>7, <1>8, <1>9, <1>10 DEF LeadsUnstuck

LEMMA UnstuckRelease ==
  ASSUME KeyTypes, LeadsUnstuck, NEW k \in Keys, Release(k)
  PROVE  LeadsUnstuck'
<1>1. PICK d \in Decoders : Leads(queue, Now, d) /\ Unstuck(d)
  BY DEF LeadsUnstuck
<1> DEFINE r == [mods |-> Released(KeyOf(k), d.mods), esc |-> 0]
<1>2. d.esc = 0 /\ d.mods \in SUBSET Bits /\ KeyOf(k) \in 0 .. 255
  BY <1>1, KeyOfType DEF Unstuck, Decoders
<1>3. /\ queue' = queue \o (IF k.ext THEN <<224, k.code + 128>> ELSE <<k.code + 128>>)
      /\ k.code + 128 \in Bytes
  BY KeyOfType DEF Release, Send
<1>4. PICK c \in Decoders : /\ c.esc = IF k.ext THEN 128 ELSE 0
                            /\ c.mods = d.mods
                            /\ Leads(queue', Now, Next1(c, k.code + 128))
  BY <1>1, <1>2, <1>3, LeadsKey, SMTT(30), Z3T(30)
<1>5. Now' = Now /\ held' = held \ {k}
  BY DEF Release, Now
<1>6. After(c, k.code + 128) = r /\ Out(c, k.code + 128) = 0
  BY <1>4, KeyByte, ZenonT(30)
<1>7. Leads(queue', Now, r)
  BY <1>4, <1>6 DEF Next1, Reboots
<1>8. r \in Decoders
  BY <1>2, ModsType, SMTT(30), Z3T(30) DEF Decoders
<1>9. Unstuck(r)'
  <2>1. ASSUME NEW ch \in KEY_SHIFT .. KEY_ALT, ch - KEY_SHIFT \in r.mods
        PROVE  \E x \in held' : KeyOf(x) = ch
    <3>1. ch - KEY_SHIFT \in d.mods
      BY <2>1 DEF Released
    <3>2. PICK x \in held : KeyOf(x) = ch
      BY <1>1, <3>1 DEF Unstuck, HeldKeys
    <3>3. KeyOf(k) # ch
      BY <2>1, SMTT(30), Z3T(30) DEF Released, KEY_SHIFT, KEY_ALT, KEY_CAPSLOCK
    <3> QED
      BY <1>5, <3>2, <3>3
  <2> QED
    BY <2>1 DEF Unstuck, HeldKeys
<1> HIDE DEF r
<1> QED
  BY <1>5, <1>7, <1>8, <1>9 DEF LeadsUnstuck

LEMMA UnstuckRead ==
  ASSUME KeyTypes, LeadsUnstuck, Read
  PROVE  LeadsUnstuck'
<1>1. PICK d \in Decoders : Leads(queue, Now, d) /\ Unstuck(d)
  BY DEF LeadsUnstuck
<1> DEFINE b == Head(queue)
<1>2. queue \in Seq(Bytes) /\ queue # <<>> /\ queue' = Tail(queue) /\ held' = held
  BY SMTT(30), Z3T(30) DEF Read, KeyTypes
<1>3. b \in Bytes
  BY <1>2, SMTT(30), Z3T(30)
<1>4. Now' = Next1(Now, b)
  <2>1. Decode(b).ch = Out(Now, b) /\ [mods |-> Decode(b).mods, esc |-> Decode(b).esc] = After(Now, b)
    BY <1>3, DecodeIsAfter, SMTT(30), Z3T(30)
  <2>2. Now' = [mods |-> IF Decode(b).ch \in Reboots THEN {} ELSE Decode(b).mods,
                esc |-> IF Decode(b).ch \in Reboots THEN 0 ELSE Decode(b).esc]
    BY SMTT(30), Z3T(30) DEF Read, Now
  <2> QED
    BY <2>1, <2>2, SMTT(30), Z3T(30) DEF Next1, Fresh
<1>5. Leads(queue', Now', d)
  BY <1>1, <1>2, <1>4, LeadsTail, SMTT(30), Z3T(30)
<1>6. Unstuck(d)'
  BY <1>1, <1>2, SMTT(30), Z3T(30) DEF Unstuck, HeldKeys
<1> QED
  BY <1>5, <1>6 DEF LeadsUnstuck

\* No modifier stays on that no held key accounts for, and no prefix is left
\* over, once the kernel has read all bytes (keyboard_readc).
THEOREM NoModifierSticks == KSpec => []NoStuckModifier
<1> DEFINE Inv == KeyTypes /\ LeadsUnstuck
<1>1. KInit => Inv
  <2> SUFFICES ASSUME KInit PROVE LeadsUnstuck
    BY KeyTypesInit
  <2>1. Now = Fresh /\ Fresh \in Decoders /\ queue = <<>>
    BY SMTT(30), Z3T(30) DEF KInit, Now, Fresh, Decoders
  <2>2. Leads(queue, Now, Fresh)
    BY <2>1, LeadsNowhere, SMTT(30), Z3T(30)
  <2>3. Unstuck(Fresh)
    BY DEF Unstuck, Fresh
  <2> QED
    BY <2>1, <2>2, <2>3, SMTT(30), Z3T(30) DEF LeadsUnstuck
<1>2. Inv /\ [KNext]_kvars => Inv'
  <2> SUFFICES ASSUME KeyTypes, LeadsUnstuck, [KNext]_kvars PROVE LeadsUnstuck'
    BY KeyTypesNext, SMTT(30), Z3T(30)
  <2>1. ASSUME UNCHANGED kvars PROVE LeadsUnstuck'
    BY <2>1 DEF kvars, LeadsUnstuck, Unstuck, HeldKeys, Now
  <2> QED
    BY <2>1, UnstuckPress, UnstuckRelease, UnstuckRead DEF KNext
<1>3. Inv => NoStuckModifier
  <2> SUFFICES ASSUME KeyTypes, LeadsUnstuck, queue = <<>>
               PROVE  /\ last_escape = 0
                      /\ \A ch \in KEY_SHIFT .. KEY_ALT :
                            ch - KEY_SHIFT \in modifiers => HeldKeys(ch) # {}
    BY DEF NoStuckModifier
  <2>1. PICK e \in Decoders : Leads(queue, Now, e) /\ Unstuck(e)
    BY DEF LeadsUnstuck
  <2>2. Now \in Decoders
    BY DEF KeyTypes, Now, Decoders
  <2>3. e = Now
    BY <2>1, <2>2, LeadsNowhere
  <2> QED
    BY <2>1, <2>3 DEF Unstuck, Now
<1> QED
  BY <1>1, <1>2, <1>3, PTL DEF KSpec

-----------------------------------------------------------------------------
(* What is typed is what is read.  A reader is a decoder together with the *)
(* presses it still has to read, each as the set of what it may be read    *)
(* as: the last byte of a press takes the first of them.                   *)

Readers == [dec : Decoders, left : Seq(SUBSET Chars)]

Reads(r, b, s) ==
  /\ s.dec = After(r.dec, b)
  /\ IF b >= 128 THEN s.left = r.left
     ELSE r.left # <<>> /\ Out(r.dec, b) \in Head(r.left) /\ s.left = Tail(r.left)

\* The bytes q are read in full by r and leave the decoder d.
Consumes(q, r, d) ==
  \E t \in [0 .. Len(q) -> Readers] :
    /\ t[0] = r /\ t[Len(q)] = [dec |-> d, left |-> <<>>]
    /\ \A i \in 1 .. Len(q) : Reads(t[i - 1], q[i], t[i])

LEMMA ConsumesNothing ==
  ASSUME NEW d \in Decoders
  PROVE  /\ Consumes(<<>>, [dec |-> d, left |-> <<>>], d)
         /\ \A r, e : Consumes(<<>>, r, e) => r.left = <<>>
<1> DEFINE r0 == [dec |-> d, left |-> <<>>]
           t == [i \in 0 .. 0 |-> r0]
<1>1. r0 \in Readers
  BY DEF Readers
<1> HIDE DEF r0
<1>2. t \in [0 .. Len(<<>>) -> Readers] /\ t[0] = r0 /\ t[Len(<<>>)] = r0
  BY <1>1
<1>3. \A i \in 1 .. Len(<<>>) : FALSE
  OBVIOUS
<1> HIDE DEF t
<1>4. Consumes(<<>>, r0, d)
  BY <1>2, <1>3, SMTT(30), Z3T(30) DEF Consumes, r0
<1>5. \A r, e : Consumes(<<>>, r, e) => r.left = <<>>
  BY DEF Consumes
<1> QED
  BY <1>4, <1>5 DEF r0

\* A byte of a release, or a prefix.
LEMMA ConsumesSilent ==
  ASSUME NEW q \in Seq(Bytes), NEW r, NEW d \in Decoders, Consumes(q, r, d),
         NEW b \in Bytes, b >= 128
  PROVE  Consumes(Append(q, b), r, After(d, b))
<1>1. PICK t \in [0 .. Len(q) -> Readers] :
        /\ t[0] = r /\ t[Len(q)] = [dec |-> d, left |-> <<>>]
        /\ \A i \in 1 .. Len(q) : Reads(t[i - 1], q[i], t[i])
  BY SMTT(30), Z3T(30) DEF Consumes
<1> DEFINE n == Len(q)
           z == [dec |-> After(d, b), left |-> <<>>]
           u == [i \in 0 .. n + 1 |-> IF i = n + 1 THEN z ELSE t[i]]
<1>2. n \in Nat /\ Len(Append(q, b)) = n + 1
  BY SMTT(30), Z3T(30)
<1>3. z \in Readers
  BY AfterType, SMTT(30), Z3T(30) DEF Readers
<1>4. Reads(t[n], b, z)
  BY <1>1, SMTT(30), Z3T(30) DEF Reads
<1> HIDE DEF z
<1>5. /\ \A i \in 1 .. n : Append(q, b)[i] = q[i]
      /\ Append(q, b)[n + 1] = b
  OBVIOUS
<1>6. u \in [0 .. n + 1 -> Readers] /\ u[0] = r /\ u[n + 1] = z
  BY <1>1, <1>2, <1>3, SMTT(30), Z3T(30)
<1>7. ASSUME NEW i \in 1 .. n + 1 PROVE Reads(u[i - 1], Append(q, b)[i], u[i])
  <2>1. CASE i = n + 1
    <3>1. u[i - 1] = t[n]
      BY <1>2, <2>1, SMTT(30), Z3T(30)
    <3> QED
      BY <3>1, <2>1, <1>4, <1>5, <1>6
  <2>2. CASE i # n + 1
    <3>1. i \in 1 .. n /\ u[i] = t[i] /\ u[i - 1] = t[i - 1]
      BY <1>2, <2>2, SMTT(30), Z3T(30)
    <3> QED
      BY <3>1, <1>1, <1>5, SMTT(30), Z3T(30)
  <2> QED
    BY <2>1, <2>2, SMTT(30), Z3T(30)
<1> HIDE DEF u, n
<1> QED
  BY <1>2, <1>6, <1>7, ZenonT(30) DEF Consumes, z

\* A reader with one more press to read at the end.
Longer(r, c) == [dec |-> r.dec, left |-> Append(r.left, c)]

LEMMA ReadsLater ==
  ASSUME NEW r \in Readers, NEW s \in Readers, NEW b \in Bytes, Reads(r, b, s), NEW c \in SUBSET Chars
  PROVE  Reads(Longer(r, c), b, Longer(s, c)) /\ Longer(r, c) \in Readers
<1>1. r.left \in Seq(SUBSET Chars) /\ s.left \in Seq(SUBSET Chars)
  BY SMTT(30), Z3T(30) DEF Readers
<1>2. r.left # <<>> => /\ Append(r.left, c) # <<>>
                       /\ Head(Append(r.left, c)) = Head(r.left)
                       /\ Tail(Append(r.left, c)) = Append(Tail(r.left), c)
  BY <1>1, SMTT(30), Z3T(30)
<1> QED
  BY <1>1, <1>2, SMTT(30), Z3T(30) DEF Reads, Longer, Readers

\* The last byte of a press that may be read as any of c, when c is added to what
\* is to be read.
LEMMA ConsumesTyped ==
  ASSUME NEW q \in Seq(Bytes), NEW r \in Readers, NEW d \in Decoders, Consumes(q, r, d),
         NEW b \in Bytes, b < 128, NEW c \in SUBSET Chars, Out(d, b) \in c
  PROVE  Consumes(Append(q, b), Longer(r, c), After(d, b))
<1>1. PICK t \in [0 .. Len(q) -> Readers] :
        /\ t[0] = r /\ t[Len(q)] = [dec |-> d, left |-> <<>>]
        /\ \A i \in 1 .. Len(q) : Reads(t[i - 1], q[i], t[i])
  BY SMTT(30), Z3T(30) DEF Consumes
<1> DEFINE n == Len(q)
           z == [dec |-> After(d, b), left |-> <<>>]
           more == [i \in 0 .. n |-> Longer(t[i], c)]
           u == [i \in 0 .. n + 1 |-> IF i = n + 1 THEN z ELSE more[i]]
<1>2. n \in Nat /\ Len(Append(q, b)) = n + 1
  BY SMTT(30), Z3T(30)
<1>3. z \in Readers
  BY AfterType, SMTT(60), Z3T(60) DEF Readers
<1>4. more \in [0 .. n -> Readers]
  <2>1. ASSUME NEW i \in 0 .. n PROVE Longer(t[i], c) \in Readers
    <3>1. t[i] \in Readers
      BY <1>1, SMTT(30), Z3T(30)
    <3> QED
      BY <3>1, SMTT(30), Z3T(30) DEF Readers, Longer
  <2> QED
    BY <2>1, SMTT(30), Z3T(30)
<1>5. more[0] = Longer(r, c)
  BY <1>1, <1>2, SMTT(30), Z3T(30)
<1>6. Reads(more[n], b, z)
  <2>1. more[n] = [dec |-> d, left |-> <<c>>]
    BY <1>1, <1>2, SMTT(60), Z3T(60) DEF Longer
  <2>2. <<c>> # <<>> /\ Head(<<c>>) = c /\ Tail(<<c>>) = <<>>
    OBVIOUS
  <2>3. ~ (b >= 128)
    BY SMTT(30), Z3T(30) DEF Bytes
  <2>4. Reads([dec |-> d, left |-> <<c>>], b, z)
    BY <2>2, <2>3, SMTT(30), Z3T(30) DEF Reads
  <2> HIDE DEF more, z
  <2> QED
    BY <2>1, <2>4, ZenonT(30)
<1>7. ASSUME NEW i \in 1 .. n PROVE Reads(more[i - 1], q[i], more[i])
  <2>1. t[i - 1] \in Readers /\ t[i] \in Readers /\ q[i] \in Bytes /\ Reads(t[i - 1], q[i], t[i])
    BY <1>1, <1>2, SMTT(30), Z3T(30)
  <2>2. more[i - 1] = Longer(t[i - 1], c) /\ more[i] = Longer(t[i], c)
    BY <1>2, SMTT(30), Z3T(30)
  <2> HIDE DEF more
  <2> QED
    BY <2>1, <2>2, ReadsLater, SMTT(30), Z3T(30)
<1> HIDE DEF z, more
<1>8. /\ \A i \in 1 .. n : Append(q, b)[i] = q[i]
      /\ Append(q, b)[n + 1] = b
  BY SMTT(60), Z3T(60)
<1>9. u \in [0 .. n + 1 -> Readers] /\ u[0] = more[0] /\ u[n + 1] = z
  BY <1>2, <1>3, <1>4, SMTT(30), Z3T(30)
<1>10. ASSUME NEW i \in 1 .. n + 1 PROVE Reads(u[i - 1], Append(q, b)[i], u[i])
  <2>1. CASE i = n + 1
    <3>1. u[i - 1] = more[n]
      BY <1>2, <2>1, SMTT(30), Z3T(30)
    <3> QED
      BY <3>1, <2>1, <1>6, <1>8, <1>9, ZenonT(30)
  <2>2. CASE i # n + 1
    <3>1. i \in 1 .. n /\ u[i] = more[i] /\ u[i - 1] = more[i - 1]
      BY <1>2, <2>2, SMTT(30), Z3T(30)
    <3> QED
      BY <3>1, <1>7, <1>8, SMTT(30), Z3T(30)
  <2> QED
    BY <2>1, <2>2, SMTT(30), Z3T(30)
<1> HIDE DEF u, n
<1> QED
  BY <1>2, <1>5, <1>9, <1>10, ZenonT(30) DEF Consumes, z

LEMMA ConsumesTail ==
  ASSUME NEW q \in Seq(Bytes), NEW r, NEW d, Consumes(q, r, d), q # <<>>
  PROVE  \E s \in Readers : Reads(r, Head(q), s) /\ Consumes(Tail(q), s, d)
<1>1. PICK t \in [0 .. Len(q) -> Readers] :
        /\ t[0] = r /\ t[Len(q)] = [dec |-> d, left |-> <<>>]
        /\ \A i \in 1 .. Len(q) : Reads(t[i - 1], q[i], t[i])
  BY SMTT(30), Z3T(30) DEF Consumes
<1> DEFINE n == Len(q) - 1
           u == [i \in 0 .. n |-> t[i + 1]]
<1>2. n \in Nat /\ Len(q) = n + 1 /\ Len(Tail(q)) = n
  OBVIOUS
<1>3. Head(q) = q[1] /\ \A i \in 1 .. n : Tail(q)[i] = q[i + 1]
  OBVIOUS
<1>4. u \in [0 .. n -> Readers] /\ u[n] = [dec |-> d, left |-> <<>>] /\ u[0] = t[1]
  BY <1>1, <1>2, SMTT(30), Z3T(30)
<1>5. Reads(r, Head(q), t[1]) /\ t[1] \in Readers
  <2>1. 1 \in 1 .. Len(q) /\ 1 - 1 = 0
    BY <1>2, SMTT(30), Z3T(30)
  <2>2. Reads(t[1 - 1], q[1], t[1])
    BY <1>1, <2>1, SMTT(30), Z3T(30)
  <2> QED
    BY <1>1, <1>3, <2>1, <2>2, SMTT(30), Z3T(30)
<1>6. ASSUME NEW i \in 1 .. n PROVE Reads(u[i - 1], Tail(q)[i], u[i])
  <2>1. u[i] = t[i + 1] /\ u[i - 1] = t[i] /\ i + 1 \in 1 .. Len(q) /\ (i + 1) - 1 = i
    BY <1>2
  <2>2. Reads(t[i], q[i + 1], t[i + 1])
    BY <1>1, <2>1, SMTT(30), Z3T(30)
  <2> QED
    BY <2>1, <2>2, <1>3, SMTT(30), Z3T(30)
<1> HIDE DEF u, n
<1>7. Consumes(Tail(q), t[1], d)
  BY <1>2, <1>4, <1>6, ZenonT(30) DEF Consumes
<1> QED
  BY <1>5, <1>7, SMTT(30), Z3T(30)

Typist == [mods |-> Kept, esc |-> 0]
Reader == [dec |-> Now, left |-> expect]

\* Until a reboot the waiting bytes are read in full as the presses that are
\* expected, and leave the modifiers that are kept.
Faithful ==
  /\ garbled = FALSE
  /\ mode = "on" => Consumes(queue, Reader, Typist)
  /\ mode = "rebooted" => expect = <<>>
  /\ mode = "off" => (queue = <<>> => expect = <<>>)

\* The bytes before the last of a key give no character and take the decoder
\* to one that has the prefix, if any.
LEMMA ConsumesPrefix ==
  ASSUME KeyTypes, NEW k \in Keys, NEW base \in Bytes, Consumes(queue, Reader, Typist)
  PROVE  \E p \in Seq(Bytes), c \in Decoders :
           /\ c.esc = IF k.ext THEN 128 ELSE 0
           /\ c.mods = Kept
           /\ queue \o (IF k.ext THEN <<224, base>> ELSE <<base>>) = Append(p, base)
           /\ Consumes(p, Reader, c)
<1>1. queue \in Seq(Bytes) /\ 224 \in Bytes /\ k.ext \in BOOLEAN
  BY KeyOfType, SMTT(30), Z3T(30) DEF KeyTypes
<1>2. Typist \in Decoders /\ Typist.esc = 0 /\ Typist.mods = Kept
  BY MeantType, SMTT(30), Z3T(30) DEF Typist, Decoders
<1>3. CASE ~ k.ext
  <2>1. queue \o (IF k.ext THEN <<224, base>> ELSE <<base>>) = Append(queue, base)
    BY <1>3, SendBytes, SMTT(30), Z3T(30)
  <2> QED
    BY <1>1, <1>2, <1>3, <2>1, SMTT(30), Z3T(30)
<1>4. CASE k.ext
  <2>1. queue \o (IF k.ext THEN <<224, base>> ELSE <<base>>) = Append(Append(queue, 224), base)
    BY <1>4, SendBytes, SMTT(30), Z3T(30)
  <2> DEFINE c == Prefixed(Typist)
  <2>2. c \in Decoders /\ c.esc = 128 /\ c.mods = Kept /\ After(Typist, 224) = c /\ 224 >= 128
    BY <1>2, PrefixByte, SMTT(30), Z3T(30) DEF Prefixed
  <2> HIDE DEF c
  <2>3. Consumes(Append(queue, 224), Reader, c) /\ Append(queue, 224) \in Seq(Bytes)
    BY <1>1, <1>2, <2>2, ConsumesSilent, SMTT(30), Z3T(30)
  <2>4. c.esc = IF k.ext THEN 128 ELSE 0
    BY <1>4, <2>2, SMTT(30), Z3T(30)
  <2> DEFINE p == Append(queue, 224)
  <2>5. p \in Seq(Bytes) /\ Consumes(p, Reader, c) /\ Append(p, base) = Append(Append(queue, 224), base)
    BY <2>3, SMTT(30), Z3T(30)
  <2> HIDE DEF p
  <2> QED
    BY <2>1, <2>2, <2>4, <2>5, SMTT(30), Z3T(30)
<1> QED
  BY <1>1, <1>3, <1>4, ZenonT(30)

LEMMA FaithfulPress ==
  ASSUME KeyTypes, Faithful, NEW k \in Keys, Press(k), mode # "off"
  PROVE  Faithful'
<1>1. /\ queue' = queue \o (IF k.ext THEN <<224, k.code>> ELSE <<k.code>>)
      /\ Now' = Now /\ mode' = mode /\ garbled' = garbled
  BY SMTT(30), Z3T(30) DEF Press, Send, Now
<1>2. CASE mode # "on"
  BY <1>1, <1>2, SMTT(30), Z3T(30) DEF Faithful, Press, KeyTypes
<1>3. CASE mode = "on"
  <2>1. k.code \in Bytes /\ k.code < 128
    BY KeyOfType, SMTT(30), Z3T(30)
  <2>2. PICK p \in Seq(Bytes), c \in Decoders :
           /\ c.esc = IF k.ext THEN 128 ELSE 0
           /\ c.mods = Kept
           /\ queue' = Append(p, k.code)
           /\ Consumes(p, Reader, c)
    BY <1>1, <1>3, <2>1, ConsumesPrefix, ZenonT(30) DEF Faithful
  <2>3. Out(c, k.code) \in Answers(k) /\ Answers(k) \in SUBSET Chars
    BY <2>2, KeyByte, AnswersFacts, ZenonT(30)
  <2>4. After(c, k.code) = Typist'
    BY <2>2, KeyByte, PressKept, ZenonT(30) DEF Typist
  <2>5. Reader \in Readers /\ Reader' = Longer(Reader, Answers(k))
    BY <1>1, <1>3, ZenonT(30) DEF KeyTypes, Reader, Readers, Now, Decoders, Press, Longer
  <2>6. Consumes(queue', Reader', Typist')
    BY <2>1, <2>2, <2>3, <2>4, <2>5, ConsumesTyped, ZenonT(30)
  <2> QED
    BY <1>1, <1>3, <2>6, SMTT(30), Z3T(30) DEF Faithful
<1> QED
  BY <1>2, <1>3, SMTT(30), Z3T(30)

LEMMA FaithfulRelease ==
  ASSUME KeyTypes, Faithful, NEW k \in Keys, Release(k), mode # "off"
  PROVE  Faithful'
<1>1. /\ queue' = queue \o (IF k.ext THEN <<224, k.code + 128>> ELSE <<k.code + 128>>)
      /\ Now' = Now /\ mode' = mode /\ garbled' = garbled /\ expect' = expect
  BY SMTT(30), Z3T(30) DEF Release, Send, Now
<1>2. CASE mode # "on"
  BY <1>1, <1>2, SMTT(30), Z3T(30) DEF Faithful, KeyTypes
<1>3. CASE mode = "on"
  <2>1. k.code + 128 \in Bytes /\ k.code + 128 >= 128
    BY KeyOfType, SMTT(30), Z3T(30)
  <2>2. PICK p \in Seq(Bytes), c \in Decoders :
           /\ c.esc = IF k.ext THEN 128 ELSE 0
           /\ c.mods = Kept
           /\ queue' = Append(p, k.code + 128)
           /\ Consumes(p, Reader, c)
    BY <1>1, <1>3, <2>1, ConsumesPrefix, ZenonT(30) DEF Faithful
  <2>3. After(c, k.code + 128) = Typist'
    BY <2>2, KeyByte, ReleaseKept, ZenonT(30) DEF Typist
  <2>4. Reader' = Reader
    BY <1>1, SMTT(30), Z3T(30) DEF Reader
  <2>5. Consumes(queue', Reader', Typist')
    BY <2>1, <2>2, <2>3, <2>4, ConsumesSilent, ZenonT(30)
  <2> QED
    BY <1>1, <1>3, <2>5, SMTT(30), Z3T(30) DEF Faithful
<1> QED
  BY <1>2, <1>3

LEMMA FaithfulRead ==
  ASSUME KeyTypes, Faithful, Read
  PROVE  Faithful'
<1> DEFINE b == Head(queue)
           c == Decode(b).ch
<1>1. queue \in Seq(Bytes) /\ queue # <<>> /\ queue' = Tail(queue) /\ Kept' = Kept
  BY SMTT(30), Z3T(30) DEF Read, KeyTypes, Kept, Meant, HeldKeys
<1>2. b \in Bytes
  BY <1>1
<1>3. c = Out(Now, b) /\ [mods |-> Decode(b).mods, esc |-> Decode(b).esc] = After(Now, b)
  BY <1>2, DecodeIsAfter, SMTT(30), Z3T(30)
<1>4. CASE mode # "on"
  <2>1. mode = "rebooted" /\ expect = <<>>
    BY <1>4 DEF Read, KeyTypes, Faithful
  <2>2. mode' \in {"rebooted", "off"} /\ expect' = <<>> /\ garbled' = FALSE
    BY <2>1 DEF Read, Command, Faithful
  <2> QED
    BY <2>2, SMTT(30), Z3T(30) DEF Faithful
<1>5. CASE mode = "on"
  <2>1. PICK s \in Readers : Reads(Reader, b, s) /\ Consumes(queue', s, Typist)
    BY <1>1, <1>5, ConsumesTail, SMTT(30), Z3T(30) DEF Faithful
  <2>2. ~ (b >= 128) => expect # <<>> /\ c \in Head(expect) /\ s.left = Tail(expect)
    BY <1>3, <2>1, ZenonT(30) DEF Reads, Reader
  <2>3. b >= 128 => s.left = expect /\ c = 0
    BY <1>3, <2>1, ZenonT(30) DEF Reads, Reader, Out
  <2>4. s.dec = After(Now, b) /\ s = [dec |-> s.dec, left |-> s.left]
    BY <2>1, SMTT(30), Z3T(30) DEF Reads, Reader, Readers
  <2>5. garbled' = FALSE
    BY <1>5, <2>2, <2>3, ZenonT(30) DEF Read, Faithful
  <2>6. CASE c \in Reboots
    <3>1. mode' = "rebooted" /\ expect' = <<>>
      BY <2>6 DEF Read, Command
    <3> QED
      BY <2>5, <3>1, SMTT(30), Z3T(30) DEF Faithful
  <2>7. CASE c \notin Reboots
    <3>1. mode' # "rebooted"
      BY <1>5, <2>7, SMTT(30), Z3T(30) DEF Read, Command
    <3>2. expect' = s.left
      BY <2>2, <2>3, <3>1, ZenonT(30) DEF Read
    <3>3. Now' = After(Now, b)
      BY <1>3, <2>7 DEF Read, Now
    <3>4. Reader' = s /\ Typist' = Typist
      BY <1>1, <2>4, <3>2, <3>3, SMTT(30), Z3T(30) DEF Reader, Typist
    <3>5. Consumes(queue', Reader', Typist')
      BY <2>1, <3>4
    <3>6. queue' = <<>> => expect' = <<>>
      <4>1. Typist \in Decoders
        BY MeantType, SMTT(30), Z3T(30) DEF Typist, Decoders
      <4> QED
        BY <2>1, <3>2, <4>1, ConsumesNothing, ZenonT(30)
    <3> QED
      BY <2>5, <3>1, <3>5, <3>6, SMTT(30), Z3T(30) DEF Faithful
  <2> QED
    BY <2>6, <2>7
<1> QED
  BY <1>4, <1>5, SMTT(30), Z3T(30)

\* What the kernel reads is what was typed: every press once, in order, with the
\* modifiers whose keys were down and the locks that were on at the moment of
\* typing, but for a modifier of which one of two keys was let go, which may be
\* missing; no press is left over once all bytes are read (keyboard_readc,
\* check_keyboard).
THEOREM ReadsWhatIsTyped == KSpec => []ReadAsTyped
<1> DEFINE Inv == KeyTypes /\ Faithful
<1>1. KInit => Inv
  <2> SUFFICES ASSUME KInit PROVE Faithful
    BY KeyTypesInit
  <2>1. Typist \in Decoders /\ Reader = [dec |-> Typist, left |-> <<>>]
    <3>1. Kept = {}
      BY SMTT(30), Z3T(30) DEF KInit, Kept, Meant, HeldKeys
    <3> QED
      BY <3>1, SMTT(30), Z3T(30) DEF KInit, Typist, Reader, Now, Decoders
  <2> QED
    BY <2>1, ConsumesNothing, SMTT(30), Z3T(30) DEF KInit, Faithful
<1>2. Inv /\ [KNext]_kvars => Inv'
  <2> SUFFICES ASSUME KeyTypes, Faithful, [KNext]_kvars PROVE Faithful'
    BY KeyTypesNext
  <2>1. ASSUME UNCHANGED kvars PROVE Faithful'
    BY <2>1, ZenonT(30) DEF kvars, Faithful, Reader, Typist, Now, Kept, Meant, HeldKeys
  <2> QED
    BY <2>1, FaithfulPress, FaithfulRelease, FaithfulRead, SMTT(30), Z3T(30) DEF KNext
<1>3. Inv => ReadAsTyped
  <2> SUFFICES ASSUME KeyTypes, Faithful, mode # "rebooted", queue = <<>>, mode = "on"
               PROVE  expect = <<>>
    BY ZenonT(30) DEF ReadAsTyped, Faithful, KeyTypes
  <2>1. Typist \in Decoders
    BY MeantType, SMTT(30), Z3T(30) DEF Typist, Decoders
  <2>2. Consumes(<<>>, Reader, Typist)
    BY DEF Faithful
  <2>3. Reader.left = <<>>
    BY <2>1, <2>2, ConsumesNothing, ZenonT(30)
  <2> QED
    BY <2>3, SMTT(30), Z3T(30) DEF Reader
<1> QED
  BY <1>1, <1>2, <1>3, PTL DEF KSpec
=============================================================================
