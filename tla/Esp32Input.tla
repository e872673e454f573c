----------------------------- MODULE Esp32Input -----------------------------
(***************************************************************************)
(* The ESP32's input: the key matrix's interrupt and scan task, the serial *)
(* task, and the shell on the other core, with the queue and the flag      *)
(* between them.  A key held down must come through once; an upload must   *)
(* be read, though the shell may be waiting for a key with no timeout.     *)
(*                                                                         *)
(* A scan is one step: the keys do not affect each other.  What a key does *)
(* is left out but for what moves the loop: it opens or closes a page that *)
(* polls for itself, or turns the machine off.                             *)
(***************************************************************************)
EXTENDS Naturals, Sequences, FiniteSets

CONSTANTS
    Keys,             \* places in the matrix
    COLS,             \* column pins (g_col_count)
    ColumnOf,         \* the column of each key
    RTC_COLUMNS,      \* columns on pins that can wake the chip (rtc_gpio_is_valid_gpio)
    QUEUE_MAX,        \* entries of the input queue (esp_init)
    DEBOUNCE_SCANS, IDLE_SCANS,
    TEXT_MAX          \* most characters a key types

Columns == 0..(COLS - 1)

ASSUME InputAssumption ==
    /\ COLS \in Nat \ {0} /\ ColumnOf \in [Keys -> Columns] /\ IsFiniteSet(Keys)
    /\ RTC_COLUMNS \subseteq Columns
    /\ DEBOUNCE_SCANS \in Nat \ {0} /\ IDLE_SCANS \in Nat \ {0}
    /\ QUEUE_MAX \in Nat \ {0} /\ TEXT_MAX \in Nat \ {0}

VARIABLES
    pressed,   \* keys held down
    intr,      \* columns whose interrupt is enabled
    notified,  \* whether the scan task has been notified
    scan,      \* where the scan task is
    armed,     \* columns it has enabled again
    down,      \* keys it takes to be down
    streak,    \* scans each key has read otherwise
    idle,      \* scans with nothing down
    queue,     \* the input queue: "pad", "key" and "wake" entries
    serial,    \* where the serial task is
    touched,   \* g_store_touched
    shell,     \* where the shell's task is
    pending,   \* characters left of a key that types text
    saw,       \* the flag as esp_store_changed read it
    due,       \* whether auto-off's time has come
    reported,  \* history: keys sent since they were last seen up
    seenUp,    \* history: scans running each key has read up
    twice,     \* history: whether one press was ever sent twice
    stale,     \* history: whether the inbox has changed since it was read
    missed     \* history: whether a flag was cleared that was never seen

matrixVars == <<intr, notified, scan, armed, down, streak, idle>>
pressVars == <<reported, seenUp, twice>>
serialVars == <<serial, touched, stale, missed>>
shellVars == <<shell, pending, saw, due>>
vars == <<pressed, matrixVars, pressVars, queue, serialVars, shellVars>>

\* esp_init, with nothing known yet of the inbox
Init ==
    /\ pressed = {}
    /\ intr = Columns /\ notified = FALSE /\ scan = "waiting" /\ armed = COLS
    /\ down = {} /\ streak = [k \in Keys |-> 0] /\ idle = 0
    /\ queue = <<>> /\ serial = "idle" /\ touched = FALSE
    /\ shell = "boot" /\ pending = 0 /\ saw = FALSE /\ due = FALSE
    /\ reported = {} /\ seenUp = [k \in Keys |-> 0] /\ twice = FALSE
    /\ stale = TRUE /\ missed = FALSE

On == shell # "off"

\* xQueueSend with no timeout: dropped where there is no room
Offered(q, entry) == IF Len(q) < QUEUE_MAX THEN Append(q, entry) ELSE q

-----------------------------------------------------------------------------
(* The key matrix *)

\* Someone presses or lets go of a key, or it bounces.
Finger ==
    /\ \E k \in Keys : pressed' \in {pressed \cup {k}, pressed \ {k}}
    /\ pressed' # pressed
    /\ UNCHANGED <<matrixVars, pressVars, queue, serialVars, shellVars>>

\* on_column
Interrupt ==
    /\ On
    /\ \E k \in pressed : ColumnOf[k] \in intr
    /\ intr' = {} /\ notified' = TRUE
    /\ UNCHANGED <<pressed, scan, armed, down, streak, idle, pressVars, queue,
                   serialVars, shellVars>>

ScanBegin ==
    /\ On /\ scan = "waiting" /\ notified
    /\ notified' = FALSE /\ scan' = "scanning"
    /\ down' = {} /\ streak' = [k \in Keys |-> 0] /\ idle' = 0
    /\ UNCHANGED <<pressed, intr, armed, pressVars, queue, serialVars, shellVars>>

\* The key reads otherwise than it is taken to be, and has for long enough.
Differs(k) == (k \in pressed) # (k \in down)
Flips(k) == Differs(k) /\ streak[k] + 1 >= DEBOUNCE_SCANS
Fresh == {k \in Keys : Flips(k) /\ k \in pressed}

\* The queue once every fresh press has been offered to it
AfterPresses ==
    LET room == QUEUE_MAX - Len(queue)
        n == IF Cardinality(Fresh) < room THEN Cardinality(Fresh) ELSE room
    IN queue \o [i \in 1..n |-> "pad"]

SeenUp(k) == IF k \in pressed THEN 0
             ELSE IF seenUp[k] < DEBOUNCE_SCANS THEN seenUp[k] + 1 ELSE seenUp[k]

\* Mutant of StreakOf: every scan starts the count again.
StreakOfNever(k) == 0

StreakOf(k) == IF Differs(k) /\ ~Flips(k) THEN streak[k] + 1 ELSE 0

\* Mutant of AnyDown: only the presses not yet reported keep it awake.
AnyDownNew == \E k \in pressed : k \notin down

AnyDown == pressed \cup down # {}

\* scan_once
ScanOnce ==
    /\ On /\ scan = "scanning" /\ idle < IDLE_SCANS
    /\ streak' = [k \in Keys |-> StreakOf(k)]
    /\ down' = {k \in Keys : (k \in down) # Flips(k)}
    /\ queue' = AfterPresses
    /\ idle' = IF AnyDown THEN 0 ELSE idle + 1
    /\ seenUp' = [k \in Keys |-> SeenUp(k)]
    /\ reported' = {k \in reported : SeenUp(k) < DEBOUNCE_SCANS} \cup Fresh
    /\ twice' = (twice \/ Fresh \cap reported # {})
    /\ UNCHANGED <<pressed, intr, notified, scan, armed, serialVars, shellVars>>

ScanEnd ==
    /\ On /\ scan = "scanning" /\ idle = IDLE_SCANS
    /\ scan' = "arming" /\ armed' = 0
    /\ UNCHANGED <<pressed, intr, notified, down, streak, idle, pressVars, queue,
                   serialVars, shellVars>>

\* Mutant of Arm: the last column is left out.
ArmShort ==
    /\ On /\ scan = "arming"
    /\ IF armed + 1 < COLS
       THEN intr' = intr \cup {armed} /\ armed' = armed + 1 /\ UNCHANGED scan
       ELSE scan' = "waiting" /\ armed' = COLS /\ UNCHANGED intr
    /\ UNCHANGED <<pressed, notified, down, streak, idle, pressVars, queue, serialVars,
                   shellVars>>

\* columns_interrupt(true), a column at a time
Arm ==
    /\ On /\ scan = "arming"
    /\ IF armed < COLS
       THEN intr' = intr \cup {armed} /\ armed' = armed + 1 /\ UNCHANGED scan
       ELSE scan' = "waiting" /\ UNCHANGED <<intr, armed>>
    /\ UNCHANGED <<pressed, notified, down, streak, idle, pressVars, queue, serialVars,
                   shellVars>>

ScanTask == ScanBegin \/ ScanOnce \/ ScanEnd \/ Arm

-----------------------------------------------------------------------------
(* The serial task *)

\* A key comes over the port.
KeyArrives ==
    /\ On /\ serial = "idle" /\ serial' = "key"
    /\ UNCHANGED <<pressed, matrixVars, pressVars, queue, touched, stale, missed,
                   shellVars>>

\* port_key, which waits for room
PortKey ==
    /\ On /\ serial = "key" /\ Len(queue) < QUEUE_MAX
    /\ queue' = Append(queue, "key") /\ serial' = "idle"
    /\ UNCHANGED <<pressed, matrixVars, pressVars, touched, stale, missed, shellVars>>

\* An upload or a removal changes the inbox.
Lands ==
    /\ On /\ serial = "idle" /\ serial' = "landed" /\ stale' = TRUE
    /\ UNCHANGED <<pressed, matrixVars, pressVars, queue, touched, missed, shellVars>>

\* qdos_esp32_store_touched: the flag, then the wake
TouchFlag ==
    /\ On /\ serial = "landed" /\ touched' = TRUE /\ serial' = "flagged"
    /\ UNCHANGED <<pressed, matrixVars, pressVars, queue, stale, missed, shellVars>>

\* Mutant of TouchWake: nothing ends the shell's wait.
TouchNoWake ==
    /\ On /\ serial = "flagged" /\ serial' = "idle"
    /\ UNCHANGED <<pressed, matrixVars, pressVars, queue, touched, stale, missed,
                   shellVars>>

TouchWake ==
    /\ On /\ serial = "flagged" /\ serial' = "idle"
    /\ queue' = Offered(queue, "wake")
    /\ UNCHANGED <<pressed, matrixVars, pressVars, touched, stale, missed, shellVars>>

SerialTask == PortKey \/ TouchFlag \/ TouchWake

-----------------------------------------------------------------------------
(* The shell *)

Polling == shell \in {"poll", "modal"}

\* qdos_shell_create reads the inbox with everything else.
Boot ==
    /\ shell = "boot" /\ shell' = "poll" /\ stale' = FALSE
    /\ UNCHANGED <<pressed, matrixVars, pressVars, queue, serial, touched, missed,
                   pending, saw, due>>

\* handle_key: on with the loop, into or out of modal_run, or off
HandleKey ==
    /\ shell' \in {"poll", "modal", "off"} /\ (shell' = "off" => shell = "poll")
    /\ due' = FALSE
    /\ UNCHANGED <<pressed, matrixVars, pressVars, serialVars, saw>>

\* esp_poll_key, the rest of a key that types text
PollPending ==
    /\ Polling /\ pending > 0
    /\ pending' = pending - 1 /\ HandleKey /\ UNCHANGED queue

PollWake ==
    /\ Polling /\ pending = 0 /\ queue # <<>> /\ Head(queue) = "wake"
    /\ queue' = Tail(queue)
    /\ UNCHANGED <<pressed, matrixVars, pressVars, serialVars, shellVars>>

PollKey ==
    /\ Polling /\ pending = 0 /\ queue # <<>> /\ Head(queue) = "key"
    /\ queue' = Tail(queue) /\ HandleKey /\ UNCHANGED pending

\* A place on the pad is a key, text, or a modifier, which only changes the
\* face.
PollPad ==
    /\ Polling /\ pending = 0 /\ queue # <<>> /\ Head(queue) = "pad"
    /\ queue' = Tail(queue)
    /\ \/ HandleKey /\ pending' \in 0..(TEXT_MAX - 1)
       \/ /\ due' = FALSE
          /\ UNCHANGED <<pressed, matrixVars, pressVars, serialVars, shell, pending, saw>>

PollEmpty ==
    /\ Polling /\ pending = 0 /\ queue = <<>>
    /\ shell' = IF shell = "poll" THEN "check" ELSE "modalwait"
    /\ UNCHANGED <<pressed, matrixVars, pressVars, queue, serialVars, pending, saw, due>>

\* esp_store_changed reads the flag,
StoreChangedRead ==
    /\ shell = "check" /\ shell' = "clear" /\ saw' = touched
    /\ UNCHANGED <<pressed, matrixVars, pressVars, queue, serialVars, pending, due>>

\* and then clears it; with nothing new and the time up, the machine goes off.
StoreChangedClear ==
    /\ shell = "clear" /\ touched' = FALSE
    /\ missed' = (missed \/ (touched /\ ~saw))
    /\ shell' = IF saw THEN "reload" ELSE IF due THEN "off" ELSE "wait"
    /\ UNCHANGED <<pressed, matrixVars, pressVars, queue, serial, stale, pending, saw,
                   due>>

ReloadCard ==
    /\ shell = "reload" /\ shell' = "wait"
    /\ stale' = FALSE /\ missed' = FALSE /\ due' = FALSE
    /\ UNCHANGED <<pressed, matrixVars, pressVars, queue, serial, touched, pending, saw>>

Waiting == shell \in {"wait", "modalwait"}
Polls == shell' = IF shell = "wait" THEN "poll" ELSE "modal"

\* Mutant of WaitEnds: a wake does not end it.
WaitEndsOnKeys ==
    /\ Waiting /\ (pending > 0 \/ \E i \in 1..Len(queue) : queue[i] # "wake") /\ Polls
    /\ UNCHANGED <<pressed, matrixVars, pressVars, queue, serialVars, pending, saw, due>>

\* esp_wait ends on an entry, of any kind, or on text still to come.
WaitEnds ==
    /\ Waiting /\ (pending > 0 \/ queue # <<>>) /\ Polls
    /\ UNCHANGED <<pressed, matrixVars, pressVars, queue, serialVars, pending, saw, due>>

\* A blink, the clock or auto-off is due; modal_run has no timeout.
WaitTimesOut ==
    /\ shell = "wait" /\ Polls /\ due' \in BOOLEAN
    /\ UNCHANGED <<pressed, matrixVars, pressVars, queue, serialVars, pending, saw>>

\* qdos_matrix_arm_wake: the rows are held low through deep sleep, and a column
\* going low wakes the chip.  The two seconds it waits for the pad to be let go
\* are no time here: a key held through them wakes it at once.
Wakes == \E k \in pressed : ColumnOf[k] \in RTC_COLUMNS

\* Deep sleep ends in a start afresh.
WakeUp ==
    /\ shell = "off" /\ Wakes
    /\ intr' = Columns /\ notified' = FALSE /\ scan' = "waiting" /\ armed' = COLS
    /\ down' = {} /\ streak' = [k \in Keys |-> 0] /\ idle' = 0
    /\ queue' = <<>> /\ serial' = "idle" /\ touched' = FALSE
    /\ shell' = "boot" /\ pending' = 0 /\ saw' = FALSE /\ due' = FALSE
    /\ reported' = {} /\ seenUp' = [k \in Keys |-> 0]
    /\ stale' = TRUE /\ missed' = FALSE
    /\ UNCHANGED <<pressed, twice>>

ShellTask ==
    \/ Boot \/ PollPending \/ PollWake \/ PollKey \/ PollPad \/ PollEmpty
    \/ StoreChangedRead \/ StoreChangedClear \/ ReloadCard \/ WaitEnds

Next ==
    \/ Finger \/ Interrupt \/ ScanTask
    \/ KeyArrives \/ Lands \/ SerialTask
    \/ ShellTask \/ WaitTimesOut \/ WakeUp

Spec == Init /\ [][Next]_vars

\* Every task runs when it can, and a level interrupt that is enabled fires;
\* nobody need press anything, and no timeout need ever come.
FairSpec ==
    /\ Spec
    /\ WF_vars(Interrupt) /\ WF_vars(ScanTask)
    /\ WF_vars(SerialTask) /\ WF_vars(ShellTask)

-----------------------------------------------------------------------------
(* Properties *)

TypeOK ==
    /\ pressed \subseteq Keys /\ down \subseteq Keys /\ reported \subseteq Keys
    /\ intr \subseteq Columns /\ armed \in 0..COLS
    /\ {notified, touched, saw, due, twice, stale, missed} \subseteq BOOLEAN
    /\ scan \in {"waiting", "scanning", "arming"}
    /\ streak \in [Keys -> 0..(DEBOUNCE_SCANS - 1)]
    /\ seenUp \in [Keys -> 0..DEBOUNCE_SCANS]
    /\ idle \in 0..IDLE_SCANS
    /\ queue \in Seq({"pad", "key", "wake"}) /\ Len(queue) <= QUEUE_MAX
    /\ serial \in {"idle", "key", "landed", "flagged"}
    /\ shell \in {"boot", "poll", "modal", "check", "clear", "reload", "wait",
                  "modalwait", "off"}
    /\ pending \in 0..TEXT_MAX

\* The matrix is never deaf: while the scan task waits with no notification
\* due, every column can still interrupt -- though on_column may run between
\* any two columns being enabled again.
NotDeaf == On /\ scan = "waiting" /\ ~notified => intr = Columns

\* A press is sent once, however long it is held and however the key bounces
\* within DEBOUNCE_SCANS, from one round of scanning to the next.
OncePerPress == ~twice

\* The shell does not sleep on an upload: waiting with nothing to wake it, it
\* has read the inbox as it is, unless esp_store_changed cleared a flag that
\* was set after it looked.
Asleep == shell = "wait" /\ queue = <<>> /\ pending = 0
NotAsleepOnUpload == Asleep /\ serial = "idle" /\ stale => missed

\* The shell reads the inbox again as soon as a file lands.
UploadNoticed == Asleep /\ serial = "idle" => ~stale

\* A key held down is seen, whatever the scan task was doing when it went down.
PressSeen ==
    \A k \in Keys : (On /\ k \in pressed /\ k \notin reported)
                        ~> (~On \/ k \notin pressed \/ k \in reported)

\* An upload is read in the end, once the keys and uploads let the poll loop
\* run dry, unless a page inside a word has the keypad, the machine is off or
\* the flag was lost.
UploadRead ==
    \/ []<><<Finger \/ KeyArrives \/ Lands>>_vars
    \/ stale ~> (~stale \/ missed \/ shell \in {"modal", "modalwait", "off"})
=============================================================================
