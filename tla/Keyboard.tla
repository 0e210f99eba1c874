----------------------------- MODULE Keyboard ------------------------------
(***************************************************************************)
(* The translation of scancodes into characters: do_scancode               *)
(* (kernel/keyboard-glue.c), the driver taken from Linux                   *)
(* (kernel/kbd-linux/keyboard.c and scancode.c) and the default key map    *)
(* (defkeymap.c), facing a keyboard that may lose a code.                  *)
(*                                                                         *)
(* The keys are one or two of each class that the map has; their numbers   *)
(* are the key codes.  The modes that nothing in the kernel sets (raw,     *)
(* medium raw, Unicode, application keypad) and the classes of keys that   *)
(* the map does not have (dead, locking and sticky keys) are left out.     *)
(***************************************************************************)
EXTENDS Integers, SequencesExt

CONSTANTS
  Keys,                 \* the keys of the keyboard
  MaxStrokes,           \* bound: presses and repetitions
  MaxLost               \* bound: codes lost

Enter == 28
LeftCtrl == 29
LetterQ == 30
LeftShift == 42
RightShift == 54
LeftAlt == 56
CapsLock == 58
NumLock == 69
ScrollLock == 70
Pad1 == 79
RightCtrl == 97
AltGr == 100
Pause == 119

AllKeys == {Enter, LeftCtrl, LetterQ, LeftShift, RightShift, LeftAlt, CapsLock,
            NumLock, ScrollLock, Pad1, RightCtrl, AltGr, Pause}

KeysAssumption ==
  Keys \subseteq AllKeys /\ MaxStrokes \in Nat /\ MaxLost \in Nat

ASSUME KeysAssumption

VARIABLES
  kbd,          \* the driver's state, see KbdInit
  held,         \* the keys that are really down
  line,         \* the codes that have not been handled
  strokes, lost,
  locked,       \* whether CapsLock was pressed an odd number of times
  doubted       \* history: the keys of which codes were lost, see LoseCode

kbdVars == <<kbd, held, line, strokes, lost, locked, doubted>>

-----------------------------------------------------------------------------
(* The keyboard (external): make and break codes                           *)

E0 == 224
E1 == 225
SC_LIM == 89

Make(key) ==
  CASE key = RightCtrl -> <<E0, 29>>
    [] key = AltGr -> <<E0, 56>>
    [] key = Pause -> <<E1, 29, 69, E1, 29 + 128, 69 + 128>>
    [] OTHER -> <<key>>

Break(key) ==
  CASE key = RightCtrl -> <<E0, 29 + 128>>
    [] key = AltGr -> <<E0, 56 + 128>>
    [] key = Pause -> <<>>
    [] OTHER -> <<key + 128>>

-----------------------------------------------------------------------------
(* Scancodes to key codes                                                  *)

NoKey == 0
Translated(prev, key) == [prev |-> prev, key |-> key]

\* The two keys of the extended set among ours; a fake shift is none.
e0_keys(code) ==
  CASE code = 29 -> RightCtrl
    [] code = 56 -> AltGr
    [] OTHER -> NoKey

kbd_translate(prev, c) ==
  LET code == c % 128 IN
  IF c \in {E0, E1} THEN Translated(c, NoKey)
  ELSE IF prev = E1 /\ code = 29 THEN Translated(256, NoKey)
  ELSE IF prev = 256 /\ code = 69 THEN Translated(0, Pause)
  ELSE IF prev \in {E1, 256} THEN Translated(0, NoKey)
  ELSE IF prev = E0 THEN Translated(0, e0_keys(code))
  ELSE Translated(0, IF code < SC_LIM THEN code ELSE NoKey)

\* A release that was not expected is taken for a press, if its key may be one
\* that only reports its release.
kbd_unexpected_up(key) == ~ (key >= SC_LIM \/ key = 85)

-----------------------------------------------------------------------------
(* The key map                                                             *)

Modifiers == {"shift", "altgr", "ctrl", "alt"}

\* The combinations of modifiers for which there is a map.
key_maps == {{}, {"shift"}, {"altgr"}, {"ctrl"}, {"altgr", "ctrl"},
             {"alt"}, {"ctrl", "alt"}}

ModifierOf(key) ==
  CASE key \in {LeftShift, RightShift} -> "shift"
    [] key \in {LeftCtrl, RightCtrl} -> "ctrl"
    [] key = LeftAlt -> "alt"
    [] key = AltGr -> "altgr"
    [] OTHER -> "none"

\* What is the same in all the maps.
CommonSym(key) ==
  CASE ModifierOf(key) # "none" -> <<"SHIFT", ModifierOf(key)>>
    [] key = CapsLock -> <<"SPEC", "caps_toggle">>
    [] key = Pause -> <<"FN", "pause">>
    [] OTHER -> <<"SPEC", "null">>

plain_map(key) ==
  CASE key = LetterQ -> <<"LETTER", "q">>
    [] key = Pad1 -> <<"PAD", "1">>
    [] key = NumLock -> <<"SPEC", "num">>
    [] key = ScrollLock -> <<"SPEC", "hold">>
    [] key = Enter -> <<"SPEC", "enter">>
    [] OTHER -> CommonSym(key)

shift_map(key) ==
  CASE key = LetterQ -> <<"LETTER", "Q">>
    [] key = ScrollLock -> <<"SPEC", "show">>
    [] OTHER -> plain_map(key)

altgr_map(key) ==
  CASE key = Pad1 -> <<"ASCII", 11>>
    [] key = NumLock -> <<"ASCII", 20>>
    [] key = ScrollLock -> <<"SPEC", "show">>
    [] OTHER -> plain_map(key)

ctrl_map(key) ==
  CASE key = LetterQ -> <<"LATIN", "^Q">>
    [] key = ScrollLock -> <<"SPEC", "show">>
    [] OTHER -> plain_map(key)

altgr_ctrl_map(key) ==
  IF key = ScrollLock THEN CommonSym(key) ELSE ctrl_map(key)

alt_map(key) ==
  CASE key = LetterQ -> <<"META", "q">>
    [] key = Enter -> <<"META", "enter">>
    [] key = Pad1 -> <<"ASCII", 1>>
    [] OTHER -> plain_map(key)

ctrl_alt_map(key) ==
  CASE key = LetterQ -> <<"META", "^Q">>
    [] key = ScrollLock -> CommonSym(key)
    [] OTHER -> plain_map(key)

KeySym(mods, key) ==
  CASE mods = {} -> plain_map(key)
    [] mods = {"shift"} -> shift_map(key)
    [] mods = {"altgr"} -> altgr_map(key)
    [] mods = {"ctrl"} -> ctrl_map(key)
    [] mods = {"altgr", "ctrl"} -> altgr_ctrl_map(key)
    [] mods = {"alt"} -> alt_map(key)
    [] mods = {"ctrl", "alt"} -> ctrl_alt_map(key)

-----------------------------------------------------------------------------
(* The handlers of the classes of keys                                     *)

put_queue(k, c) == [k EXCEPT !.out = Append(@, c)]

\* The held keys that count for a modifier.
KeysFor(k, m) == {key \in k.key_down : ModifierOf(key) = m}

compute_shiftstate(k) ==
  [k EXCEPT !.k_down = [m \in Modifiers |-> Cardinality(KeysFor(k, m))],
            !.shift_state = {m \in Modifiers : KeysFor(k, m) # {}},
            !.strays = [m \in Modifiers |-> 0]]

do_fn(k, value, up) == IF up THEN k ELSE put_queue(k, value)

do_self(k, value, up) == IF up THEN k ELSE put_queue(k, value)

do_meta(k, value, up) ==
  IF up THEN k ELSE put_queue(put_queue(k, "ESC"), value)

\* Without NumLock the keypad moves the cursor.
do_pad(k, value, up) ==
  IF up THEN k
  ELSE put_queue(k, IF k.num THEN value ELSE "END")

do_ascii(k, value, up) ==
  LET base == IF value < 10 THEN 10 ELSE 16
      digit == IF value < 10 THEN value ELSE value - 10
  IN IF up THEN k
     ELSE [k EXCEPT !.npadch = IF @ = -1 THEN digit ELSE @ * base + digit]

do_spec(k, value, up) ==
  IF up THEN k
  ELSE CASE value = "caps_toggle" -> [k EXCEPT !.caps = IF k.rep THEN @ ELSE ~ @]
         [] value = "num" -> [k EXCEPT !.num = IF k.rep THEN @ ELSE ~ @]
         [] value = "hold" -> [k EXCEPT !.stopped = IF k.rep THEN @ ELSE ~ @]
         [] value = "enter" -> put_queue(k, "\r")
         [] value = "null" -> compute_shiftstate(k)
         [] OTHER -> k

\* The character with a number, of which a byte is kept.
CharOf(n) == "chr " \o ToString(n % 256)

\* A number typed on the keypad is sent by the first modifier released.
SendPadNumber(k, up, old) ==
  IF up /\ k.shift_state # old /\ k.npadch # -1
  THEN [put_queue(k, CharOf(k.npadch)) EXCEPT !.npadch = -1]
  ELSE k

\* Mutant: two keys for a modifier are not counted.
do_shiftUncounted(k, value, up) ==
  LET state == IF up THEN k.shift_state \ {value}
               ELSE k.shift_state \cup {value}
  IN IF k.rep THEN k
     ELSE SendPadNumber([k EXCEPT !.shift_state = state], up, k.shift_state)

do_shift(k, value, up) ==
  LET n == k.k_down[value]
      count == IF up THEN (IF n > 0 THEN n - 1 ELSE 0) ELSE (n + 1) % 256
      state == IF count > 0 THEN k.shift_state \cup {value}
               ELSE k.shift_state \ {value}
  IN IF k.rep THEN k
     ELSE SendPadNumber([k EXCEPT !.k_down[value] = count,
                                  !.shift_state = state],
                        up, k.shift_state)

key_handler(k, type, value, up) ==
  CASE type = "LATIN" -> do_self(k, value, up)
    [] type = "FN" -> do_fn(k, value, up)
    [] type = "SPEC" -> do_spec(k, value, up)
    [] type = "PAD" -> do_pad(k, value, up)
    [] type = "SHIFT" -> do_shift(k, value, up)
    [] type = "META" -> do_meta(k, value, up)
    [] type = "ASCII" -> do_ascii(k, value, up)

-----------------------------------------------------------------------------
(* A scancode                                                              *)

\* CapsLock exchanges the maps with and without shift, for the letters.
Flip(mods) == (mods \cup {"shift"}) \ (mods \cap {"shift"})

LetterSym(k, mods, key) ==
  LET caps == k.caps /\ Flip(mods) \in key_maps
  IN KeySym(IF caps THEN Flip(mods) ELSE mods, key)

\* Without a map for the modifiers nothing but their state is updated.
HandleKey(k, key, up) ==
  LET mods == k.shift_state
      sym == KeySym(mods, key)
  IN IF mods \notin key_maps THEN compute_shiftstate(k)
     ELSE IF sym[1] = "LETTER"
     THEN key_handler(k, "LATIN", LetterSym(k, mods, key)[2], up)
     ELSE key_handler(k, sym[1], sym[2], up)

\* A release changes the state of its key; so does a press, which is a
\* repetition when the key was down.
KeyEvent(k, key, up) ==
  LET unexpected == up /\ key \notin k.key_down
      as_up == IF unexpected THEN kbd_unexpected_up(key) ELSE up
      stray == unexpected /\ key >= SC_LIM
      down == [k EXCEPT !.key_down = IF up THEN @ \ {key} ELSE @ \cup {key},
                        !.rep = ~ up /\ key \in k.key_down,
                        !.strays = [m \in Modifiers |->
                          IF stray /\ m = ModifierOf(key) THEN @[m] + 1 ELSE @[m]]]
  IN HandleKey(down, key, as_up)

handle_scancode(k, c) ==
  LET t == kbd_translate(k.prev_scancode, c)
      next == [k EXCEPT !.prev_scancode = t.prev, !.out = <<>>]
  IN IF t.key = NoKey THEN next ELSE KeyEvent(next, t.key, c >= 128)

\* The codes 0 and 255 of the controller are not passed on.
do_scancode ==
  /\ line # <<>>
  /\ kbd' = handle_scancode(kbd, Head(line))
  /\ line' = Tail(line)
  /\ UNCHANGED <<held, strokes, lost, locked, doubted>>

-----------------------------------------------------------------------------
(* What the user does, and what goes wrong (external)                      *)

Mods(keys) == {ModifierOf(key) : key \in keys} \ {"none"}

\* The keys for which the codes can be taken, behind whichever prefix.
MayBe(c) == {c % 128, e0_keys(c % 128), IF c % 128 = 69 THEN Pause ELSE NoKey}
            \cap AllKeys
KeysOf(codes) == UNION {MayBe(codes[i]) : i \in 1 .. Len(codes)}

\* A stroke makes its key known, unless a prefix of which the code was lost
\* still waits and takes the first code of the stroke for its own.
Stroke(key, codes) ==
  /\ line' = codes
  /\ doubted' = IF kbd.prev_scancode = 0 THEN doubted \ {key}
                ELSE doubted \cup KeysOf(codes)

\* The codes of a key are read before the next key moves.
Press ==
  /\ line = <<>> /\ strokes < MaxStrokes
  /\ \E key \in Keys \ held :
       /\ Stroke(key, Make(key))
       /\ held' = IF key = Pause THEN held ELSE held \cup {key}
       /\ locked' = (locked # (key = CapsLock /\ Mods(held) \in key_maps))
  /\ strokes' = strokes + 1
  /\ UNCHANGED <<kbd, lost>>

Repeat ==
  /\ line = <<>> /\ strokes < MaxStrokes
  /\ \E key \in held : Stroke(key, Make(key))
  /\ strokes' = strokes + 1
  /\ UNCHANGED <<kbd, held, lost, locked>>

Release ==
  /\ line = <<>>
  /\ \E key \in held : Stroke(key, Break(key)) /\ held' = held \ {key}
  /\ UNCHANGED <<kbd, strokes, lost, locked>>

LoseCode ==
  /\ line # <<>> /\ lost < MaxLost
  /\ line' = Tail(line)
  /\ lost' = lost + 1
  /\ doubted' = doubted \cup KeysOf(line)
  /\ UNCHANGED <<kbd, held, strokes, locked>>

KbdInit ==
  /\ kbd = [prev_scancode |-> 0, key_down |-> {},
            k_down |-> [m \in Modifiers |-> 0], shift_state |-> {},
            npadch |-> -1, rep |-> FALSE, caps |-> FALSE, num |-> FALSE,
            stopped |-> FALSE, out |-> <<>>,
            strays |-> [m \in Modifiers |-> 0]]   \* history: see KeyEvent
  /\ held = {} /\ line = <<>> /\ strokes = 0 /\ lost = 0 /\ locked = FALSE
  /\ doubted = {}

KbdNext == do_scancode \/ Press \/ Repeat \/ Release \/ LoseCode

KbdSpec == KbdInit /\ [][KbdNext]_kbdVars

-----------------------------------------------------------------------------
(* Properties                                                              *)

Settled == line = <<>> /\ lost = 0

\* When every code has come, the driver knows the keys that are down, the
\* modifiers are exactly those that are held, however many keys stand for one
\* and whichever map the codes went through (keyboard.c:741-767 and 782-805),
\* and no prefix waits for its code (scancode.c:163-224).
DriverKnowsTheKeys ==
  Settled => /\ kbd.key_down = held
             /\ kbd.shift_state = Mods(held)
             /\ kbd.prev_scancode = 0

\* A lost code, or a lost prefix that makes its code another key's, is made
\* good by the next stroke of the key that comes whole, also when the key was
\* taken for held or for up meanwhile (keyboard.c:289-293, scancode.c:163-256):
\* of all the other keys the driver knows whether they are down.
OnlyDoubtedKeysDiffer ==
  line = <<>> => \A key \in AllKeys \ doubted :
                   key \in kbd.key_down <=> key \in held

\* A modifier that is on although none of its keys is held has a cause: a key
\* whose release was lost and that the driver takes for held until its next
\* release, or the unexpected release of a key of the extended set, which is
\* taken for a press (scancode.c:256) and which the modifiers count from then
\* on, until they are computed anew.  The converse does not hold: after a lost
\* press, the release turns off the modifier that another key still holds.
StuckModifiersAreExplained ==
  line = <<>> => \A m \in kbd.shift_state \ Mods(held) :
                   \/ \E key \in doubted \cap kbd.key_down : ModifierOf(key) = m
                   \/ kbd.strays[m] > 0

\* CapsLock changes once per press, as long as it is held and repeated, unless
\* the modifiers have no map (keyboard.c:428-433 and 336, 364).
LockChangesOncePerPress == Settled => kbd.caps = locked

\* A number typed on the keypad is not left behind: as long as it waits, a
\* modifier is down whose release will send it (keyboard.c:770-776), also when
\* the modifiers went through a combination without a map (keyboard.c:364).
PadNumberWillBeSent == Settled /\ kbd.npadch # -1 => kbd.shift_state # {}

\* However keys are pressed, repeated and released, the driver agrees with the
\* keyboard as long as no code is lost; after a loss it differs only on the keys
\* whose codes were lost, until they are struck again, and on the modifiers of
\* which such a key or a stray release is the cause
\* (keyboard.c:741-805, scancode.c:163-256).
KeysAreKnown ==
  /\ DriverKnowsTheKeys /\ OnlyDoubtedKeysDiffer /\ StuckModifiersAreExplained
  /\ LockChangesOncePerPress /\ PadNumberWillBeSent
=============================================================================
