------------------------------ MODULE Keyboard ------------------------------
(***************************************************************************)
(* The keyboard on Linux, keypad.c: presses, repeats and releases queued   *)
(* by the kernel, the modifiers tracked from both their edges, and the     *)
(* layout that says what a press means.  The shell reads a queue that may  *)
(* be long behind the fingers.                                             *)
(***************************************************************************)
EXTENDS Naturals, Sequences

CONSTANTS
    Codes,       \* keys beside the modifiers
    MaxStrokes   \* bound: presses, repeats and releases

ASSUME KeyboardAssumption == MaxStrokes \in Nat

VARIABLES
    evdev,         \* events not yet read, each with the modifiers held at the time
    held,          \* modifiers physically held
    shift, altgr,  \* g_shift_held, g_altgr_held
    read,          \* the last press read: what it meant, and what it should have
    strokes,       \* against the bound
    layout         \* g_layout, set once from QDOS_KEYMAP

keyboardVars == <<evdev, held, shift, altgr, read, strokes, layout>>

None == "none"
NoKey == [key |-> None, ch |-> None]
Shifts == {"lshift", "rshift"}
Modifiers == Shifts \cup {"ralt"}

\* Keys that act, whatever the modifiers, and a row of each kind from the two
\* layouts: a key plain, shifted and with AltGr.  Only the Swedish one has a
\* third level, and it has levels it does not define.
Acts == [kp7 |-> "7", kpplus |-> "add", power |-> "power"]
LayoutUS == [seven |-> <<"7", "&", None>>, four |-> <<"4", "$", None>>, a |-> <<"a", "A", None>>]
LayoutSE == [seven |-> <<"7", "/", "{">>, four |-> <<"4", None, "$">>, a |-> <<"a", "A", None>>]
TypedOperators == [x \in {"/"} |-> "div"]

\* qdos_keypad_map; an operator that is typed keeps its character.
KeypadMap(code, sh, alt) ==
    IF code \in DOMAIN Acts THEN [key |-> Acts[code], ch |-> None]
    ELSE LET row == (IF layout = "se" THEN LayoutSE ELSE LayoutUS)[code]
             ch  == IF alt /\ row[3] # None THEN row[3] ELSE IF sh THEN row[2] ELSE row[1]
         IN  CASE ch = None                    -> NoKey
               [] ch \in {"7", "4"}            -> [key |-> ch, ch |-> None]
               [] ch \in DOMAIN TypedOperators -> [key |-> TypedOperators[ch], ch |-> ch]
               [] OTHER                        -> [key |-> "char", ch |-> ch]

\* A key goes down (1), repeats (2) or comes up (0), and the kernel queues it.
\* One shift at a time: with both held, letting go of one ends the shift.
Stroke(code, value) ==
    /\ strokes < MaxStrokes /\ strokes' = strokes + 1
    /\ code \in Modifiers => (value = 1 <=> code \notin held)
    /\ code \in Shifts => held \cap (Shifts \ {code}) = {}
    /\ held' = IF code \notin Modifiers THEN held
               ELSE IF value = 0 THEN held \ {code} ELSE held \cup {code}
    /\ evdev' = Append(evdev, [code |-> code, value |-> value, with |-> held])
    /\ UNCHANGED <<shift, altgr, read, layout>>

\* Mutant: a modifier is seen going down only.
ReadModifierDown(e) ==
    /\ shift' = (shift \/ (e.code \in Shifts /\ e.value # 0))
    /\ altgr' = (altgr \/ (e.code = "ralt" /\ e.value # 0))

ReadModifier(e) ==
    /\ shift' = IF e.code \in Shifts THEN e.value # 0 ELSE shift
    /\ altgr' = IF e.code = "ralt" THEN e.value # 0 ELSE altgr

\* qdos_keypad_poll, an event at a time; only a press acts.
KeypadPoll ==
    /\ evdev # <<>> /\ evdev' = Tail(evdev)
    /\ LET e == Head(evdev)
       IN  \/ e.code \in Modifiers /\ ReadModifier(e) /\ UNCHANGED read
           \/ e.code \notin Modifiers /\ e.value # 1 /\ UNCHANGED <<shift, altgr, read>>
           \/ /\ e.code \notin Modifiers /\ e.value = 1 /\ UNCHANGED <<shift, altgr>>
              /\ read' = [as |-> KeypadMap(e.code, shift, altgr),
                          meant |-> KeypadMap(e.code, e.with \cap Shifts # {}, "ralt" \in e.with)]
    /\ UNCHANGED <<held, strokes, layout>>

\* qdos_keypad_set_layout: another name is refused and leaves the US one.
SetLayout == layout \in {"us", "se"}

KeyboardInit ==
    /\ evdev = <<>> /\ held = {} /\ shift = FALSE /\ altgr = FALSE
    /\ read = [as |-> NoKey, meant |-> NoKey] /\ strokes = 0
    /\ SetLayout

KeyboardNext ==
    \/ \E code \in Codes \cup Modifiers, value \in 0..2 : Stroke(code, value)
    \/ KeypadPoll

KeyboardSpec == KeyboardInit /\ [][KeyboardNext]_keyboardVars

\* A key is what the modifiers held when it was pressed make it, however late
\* the events are read and whatever was held since.
KeysAsPressed == read.as = read.meant
=============================================================================
