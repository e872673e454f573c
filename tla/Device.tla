------------------------------- MODULE Device -------------------------------
(***************************************************************************)
(* The machine left alone, on Linux: the run loop's cursor, warning and    *)
(* auto-off, the wait on the keypad and the card's watch, the card handed  *)
(* to a PC.                                                                *)
(*                                                                         *)
(* The loop sleeps in poll() until something is due.  The tick is 32 bits  *)
(* and only differences of it are used, so the model keeps the two         *)
(* differences, modulo TICKS.  poll() ends at once while a descriptor has  *)
(* something to read; the watch's queue has an event for whatever lands in *)
(* a watched folder, and one (IN_IGNORED) whenever a watch is taken away,  *)
(* by inotify_rm_watch or by an unmount: that is the kernel's doing and    *)
(* external.  What a key is is in Keyboard, and what it does its handler's *)
(* affair: here it may change the page, the message and the settings.      *)
(***************************************************************************)
EXTENDS Integers, Sequences, FiniteSets, FiniteSetsExt

CONSTANTS
    TICKS,      \* 2^32
    BLINK,      \* CURSOR_BLINK_MS
    SETTLE,     \* CURSOR_SETTLE_MS
    OFF,        \* AUTO_OFF_MINUTES, where it is not nought
    WARN,       \* AUTO_OFF_WARN_MS
    NOPAD,      \* the wait of a machine with no keypad
    MINUTE,     \* a minute, and STATUS_POLL_MS
    Folders,    \* app folders that may be on the card
    WATCH_SUBS, \* QDOS_WATCH_SUBS: folders watched at most
    MaxPresses, \* bound: keys pressed
    MaxLanded   \* bound: files that land on the card

ASSUME DeviceAssumption ==
    /\ {TICKS, BLINK, SETTLE, OFF, WARN, NOPAD, MINUTE} \subseteq Nat \ {0}
    /\ OFF + 1 < TICKS /\ SETTLE < TICKS /\ 1 < WARN /\ WARN < OFF

VARIABLES
    pc,       \* the loop "keys", "card", "rest" or "wait"; "off" once it has ended
    idle,     \* now - last_key
    since,    \* now - last_blink
    cursorOn,
    warned,   \* off_warned
    message,  \* a message is on the input row
    caret,    \* the page's caret is on the input "row", in the "text", or there is "none"
    auto,     \* auto-off: OFF or nought
    left,     \* what is left of poll()'s timeout, or NEVER
    late,     \* poll() is past its timeout
    unread,   \* the watch's queue has events
    watched,  \* folders with a watch, "top" being the card itself
    shared,   \* usb_exported
    fresh,    \* ghost: places where a file has landed that was not read yet
    made,     \* app folders on the card
    pending,  \* key presses that wait to be read
    presses, landed,  \* counts against the bounds
    has       \* what device_init found: a keypad, a watch, a USB helper, a clock or battery

loopVars == <<pc, idle, since, cursorOn, warned, message, caret, auto, left, late>>
cardVars == <<unread, watched, shared, fresh, made, landed>>
keyVars == <<pending, presses>>
vars == <<loopVars, cardVars, keyVars, has>>

NEVER == -1

-----------------------------------------------------------------------------
(* The card and its watch, device_linux.c.                                  *)

\* Mutant: a folder that arrived later gets no watch.
WatchInboxKept(queued) ==
    watched' = (IF watched = {} THEN {"top"} ELSE watched) /\ unread' = queued

\* device_watch_inbox: every watch is taken away and made again, the folders'
\* while there is room.  Each one taken away leaves an event (external) in a
\* queue that has some already or was just drained.
WatchInbox(queued) ==
    /\ IF Cardinality(made) <= WATCH_SUBS THEN watched' = {"top"} \cup made
       ELSE \E some \in SUBSET made :
               Cardinality(some) = WATCH_SUBS /\ watched' = {"top"} \cup some
    /\ unread' = (queued \/ watched # {})

\* A file, or a new folder, lands on the card by another way than the shell's.
Lands(place) ==
    /\ ~shared /\ pc # "off" /\ landed < MaxLanded /\ landed' = landed + 1
    /\ place \in {"top"} \cup made
    /\ fresh' = fresh \cup {place}
    /\ unread' = (unread \/ (has.watch /\ place \in watched))
    /\ UNCHANGED <<loopVars, keyVars, watched, shared, made, has>>

FolderMade(folder) ==
    /\ ~shared /\ pc # "off" /\ landed < MaxLanded /\ landed' = landed + 1
    /\ folder \notin made /\ made' = made \cup {folder}
    /\ fresh' = fresh \cup {"top"}
    /\ unread' = (unread \/ (has.watch /\ "top" \in watched))
    /\ UNCHANGED <<loopVars, keyVars, watched, shared, has>>

\* device_usb_export and toggle_usb, from SETTINGS.  Sharing unmounts the card,
\* which takes the watches with it; taking it back makes them, and reads it.
\* The script may fail either way.
UsbShare == /\ ~shared
            /\ \/ /\ shared' = TRUE /\ watched' = {} /\ unread' = (unread \/ watched # {})
               \/ UNCHANGED <<shared, watched, unread>>
            /\ UNCHANGED <<fresh, made>>

UsbTake == /\ shared
           /\ IF has.watch THEN WatchInbox(unread) ELSE UNCHANGED <<watched, unread>>
           /\ \/ shared' = FALSE /\ fresh' = {}
              \/ UNCHANGED <<shared, fresh>>
           /\ UNCHANGED made

ToggleUsb == has.helper /\ (UsbShare \/ UsbTake) /\ UNCHANGED landed

-----------------------------------------------------------------------------
(* The run loop.                                                            *)

\* has_cursor
HasCursor == caret = "text" \/ (caret = "row" /\ ~message)

\* auto_off_ms: nought while the card is shared.
AutoOff == IF shared THEN 0 ELSE auto

\* The end of what made the screen dirty: a key or a card read.
Dirty == idle' = 0 /\ since' = 0 /\ cursorOn' = TRUE /\ warned' = FALSE

\* A press is queued by the kernel.
Press ==
    /\ has.pad /\ presses < MaxPresses /\ presses' = presses + 1
    /\ pending' = pending + 1
    /\ UNCHANGED <<loopVars, cardVars, has>>

\* device_poll_key and handle_key, the power key leading out.  What dirtied the
\* screen is accounted for at once and not when the keys are drained, which comes
\* to the same: the clock is read once, after the drain.
PollKey ==
    /\ pc = "keys" /\ pending > 0 /\ pending' = pending - 1
    /\ \/ pc' = "off" /\ UNCHANGED <<cardVars, idle, since, cursorOn, warned, message, caret, auto>>
       \/ /\ UNCHANGED pc
          /\ Dirty /\ message' \in BOOLEAN
          /\ \/ caret' \in {"row", "text", "none"} /\ UNCHANGED <<auto, cardVars>>
             \/ auto' \in {0, OFF} /\ UNCHANGED <<caret, cardVars>>
             \/ ToggleUsb /\ UNCHANGED <<caret, auto>>
    /\ UNCHANGED <<left, late, presses, has>>

KeysDrained ==
    /\ pc = "keys" /\ pending = 0 /\ pc' = "card"
    /\ UNCHANGED <<idle, since, cursorOn, warned, message, caret, auto, left, late, cardVars, keyVars, has>>

\* device_store_changed and reload_card.  The queue is drained and the watches
\* are made before the card is read.
ReadCard ==
    /\ pc = "card" /\ ~shared /\ has.watch /\ unread
    /\ WatchInbox(FALSE) /\ fresh' = {} /\ message' = TRUE /\ Dirty
    /\ pc' = "rest"
    /\ UNCHANGED <<caret, auto, left, late, shared, made, landed, keyVars, has>>

CardQuiet ==
    /\ pc = "card" /\ (shared \/ ~has.watch \/ ~unread) /\ pc' = "rest"
    /\ UNCHANGED <<idle, since, cursorOn, warned, message, caret, auto, left, late, cardVars, keyVars, has>>

Settled == idle >= SETTLE
Blinks == ~Settled /\ HasCursor /\ since >= BLINK
Warns == AutoOff > 0 /\ ~warned /\ idle >= AutoOff - WARN

\* Mutant: the loop wakes for the power-off and not for the warning before it.
DuesUnwarned ==
    (IF ~Settled /\ HasCursor THEN {BLINK - since'} ELSE {})
    \cup (IF AutoOff > 0 THEN {AutoOff - idle} ELSE {})

\* Mutant: the warning is taken for the last thing that is due.
DuesWarned ==
    (IF ~Settled /\ HasCursor' THEN {IF since' >= BLINK THEN 0 ELSE BLINK - since'} ELSE {})
    \cup (IF AutoOff = 0 \/ warned' THEN {}
          ELSE {IF idle >= AutoOff - WARN THEN 0 ELSE AutoOff - WARN - idle})

\* What is due, and in how long: the next blink, the warning, the power-off.
Dues ==
    (IF ~Settled /\ HasCursor' THEN {IF since' >= BLINK THEN 0 ELSE BLINK - since'} ELSE {})
    \cup (IF AutoOff = 0 THEN {}
          ELSE LET due == IF warned' THEN AutoOff ELSE AutoOff - WARN
               IN  {IF idle >= due THEN 0 ELSE due - idle})

\* A clock or a battery that is shown is looked at once a minute as well.  When
\* it has changed the screen is painted in place of a blink (status_stale).
StatusDue == IF has.status THEN {{m} : m \in 1..MINUTE} ELSE {{}}
StatusStale == IF has.status THEN BOOLEAN ELSE {FALSE}

\* device_wait bounds an endless wait where there is no keypad to end it.
Timeout(dues) == IF dues # {} THEN Min(dues) ELSE IF has.pad THEN NEVER ELSE NOPAD

TurnsItselfOff ==
    /\ pc = "rest" /\ AutoOff > 0 /\ idle >= AutoOff
    /\ pc' = "off"
    /\ UNCHANGED <<idle, since, cursorOn, warned, message, caret, auto, left, late, cardVars, keyVars, has>>

\* The cursor settles or blinks, the warning is shown, and the wait begins.
Sleep ==
    /\ pc = "rest" /\ ~(AutoOff > 0 /\ idle >= AutoOff)
    /\ pc' = "wait"
    /\ \E stale \in StatusStale :
         /\ cursorOn' = (Settled \/ cursorOn # (Blinks /\ ~stale))
         /\ since' = IF Blinks /\ ~stale THEN 0 ELSE since
    /\ warned' = (warned \/ Warns) /\ message' = (message \/ Warns)
    /\ UNCHANGED <<idle, caret>>
    /\ \E minute \in StatusDue : left' = Timeout(Dues \cup minute)
    /\ late' = FALSE
    /\ UNCHANGED <<auto, cardVars, keyVars, has>>

\* poll(): it ends when a descriptor has something to read or the time is up,
\* which it may find out a little late.
Readable == pending > 0 \/ (has.watch /\ unread)

Wakes ==
    /\ pc = "wait" /\ (Readable \/ left = 0) /\ pc' = "keys"
    /\ UNCHANGED <<idle, since, cursorOn, warned, message, caret, auto, left, late, cardVars, keyVars, has>>

Tick ==
    /\ pc = "wait" /\ ~late
    /\ idle' = (idle + 1) % TICKS /\ since' = (since + 1) % TICKS
    /\ left' = IF left > 0 THEN left - 1 ELSE left
    /\ late' = (left = 0)
    /\ UNCHANGED <<pc, cursorOn, warned, message, caret, auto, cardVars, keyVars, has>>

Loop == PollKey \/ KeysDrained \/ ReadCard \/ CardQuiet
        \/ TurnsItselfOff \/ Sleep \/ Wakes

-----------------------------------------------------------------------------

\* device_init: with no framebuffer there is no machine, and the rest it may
\* find or not.
DeviceInit ==
    /\ has \in [pad : BOOLEAN, watch : BOOLEAN, helper : BOOLEAN, status : BOOLEAN]
    /\ unread = FALSE /\ watched = (IF has.watch THEN {"top"} ELSE {})

\* qdos_shell_run's beginning.
Init ==
    /\ DeviceInit
    /\ pc = "keys" /\ idle = 0 /\ since = 0 /\ cursorOn = TRUE /\ warned = FALSE
    /\ message = FALSE /\ caret = "row" /\ auto = OFF /\ left = NEVER /\ late = FALSE
    /\ shared = FALSE /\ fresh = {} /\ made = {} /\ landed = 0
    /\ pending = 0 /\ presses = 0

World == \/ Press
         \/ \E place \in {"top"} \cup Folders : Lands(place)
         \/ \E folder \in Folders : FolderMade(folder)

Next == (pc # "off" /\ World) \/ Loop \/ Tick

\* The loop is a program that runs, and time passes however short its waits are;
\* the world owes nothing.
Spec == Init /\ [][Next]_vars /\ WF_vars(Loop) /\ SF_vars(Tick)

-----------------------------------------------------------------------------
(* Properties.                                                              *)

\* The machine never turns itself off without having said so first: the warning
\* is up, and nothing has been touched since, although poll() may be late.
SaysSoFirst == pc = "rest" /\ AutoOff > 0 /\ idle >= AutoOff => warned

\* Left alone with auto-off on, the machine turns itself off, keypad or none,
\* unless the card's watch stirs (see ComesToRest).
LeftAlone == pending = 0 /\ presses = MaxPresses /\ AutoOff > 0 /\ ~unread
TurnsOff == LeftAlone ~> (pc = "off" \/ unread)

\* Whatever lands on the card is read, in a folder that has only just arrived
\* too, for the watches are made before the card is read.
Room == has.watch /\ Cardinality(Folders) <= WATCH_SUBS
LandedIsRead == Room /\ fresh # {} ~> fresh = {} \/ pc = "off" \/ shared

\* Once nothing happens any more a machine with a keypad and no clock to show
\* sleeps for good: reading the card has cleared what said it changed.
ComesToRest == has.pad /\ ~has.status => <>[](pc \in {"wait", "off"})
=============================================================================
