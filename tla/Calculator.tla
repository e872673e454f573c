---------------------------- MODULE Calculator -----------------------------
(***************************************************************************)
(* The calculator's stack under the keys, and the one step UNDO takes back *)
(* (src/shell/shell.c: undo_snapshot, undo_put_back, undo_restore and      *)
(* undo_failed, with every handler that calls them: the calculator's keys, *)
(* the command line, RUN on APPS, the answers a graph pushes, the stack    *)
(* browser, and the reload when something lands on the card).              *)
(*                                                                         *)
(* A word is anything the interpreter may do to the stack, and may fail    *)
(* with part of it done.  Values are what the snapshot tells apart: those  *)
(* it can hold, and arrays (and strings too long for it), which come back  *)
(* as Text.                                                                *)
(***************************************************************************)
EXTENDS Naturals, SequencesExt

CONSTANTS
    Numbers,       \* what can be typed
    Array,         \* a value the snapshot cannot hold
    Text,          \* what it holds in its place
    None, Sign, Huge,  \* nothing typed, a bare "-", a number past the largest
    Registers,     \* the registers the digit keys reach
    REGISTER_MAX,  \* most levels a snapshot holds (QDOS_REGISTER_MAX)
    STACK_MAX,     \* depth at which the interpreter refuses a push
    CardRuns       \* whether a file on the card may run and take values away

ASSUME CalculatorAssumption ==
    /\ REGISTER_MAX \in Nat \ {0} /\ STACK_MAX \in Nat \ {0}
    /\ CardRuns \in BOOLEAN
    /\ {Array, Text, None, Sign, Huge} \cap Numbers = {}
    /\ Text # Array /\ None \notin {Array, Text}

Held == Numbers \cup {Text}
Values == Held \cup {Array}

VARIABLES
    stack,      \* the interpreter's stack, bottom first
    entry,      \* the number being typed
    undo,       \* the snapshot: its levels, undo_ready and undo_exact
    undoPrev,   \* the one before it
    wait,       \* register_wait
    sel,        \* stack_sel, the level picked out, from 1; 0 for none
    regs,       \* the registers in the store
    mode,       \* calc, line, list, or page for any page that draws
    from,       \* the mode a list or a page goes back to
    line,       \* there is text on the command line
    once,       \* line_once
    running,    \* whose evaluation is under way: no, line or run
    \* History
    outcome,    \* how the last key that had something to do ended
    by,         \* which kind of key it was
    base,       \* the stack when its evaluation began
    prior,      \* the stack before the last step that stands
    nested,     \* a page inside that evaluation pushed an answer
    spoilt      \* the snapshot is of something else: a register key has failed
                \* or a page inside an evaluation has pushed since

coreVars == <<stack, undo, undoPrev>>
keyVars == <<entry, wait, sel, regs>>
modeVars == <<mode, from, line, once, running>>
histVars == <<outcome, by, base, prior, nested, spoilt>>
vars == <<coreVars, keyVars, modeVars, histVars>>

-----------------------------------------------------------------------------
(* Snapshots *)

\* value_at, and what is kept of a value it refuses
Kept(v) == IF v = Array THEN Text ELSE v
KeptOf(s) == [i \in 1..Len(s) |-> Kept(s[i])]

TopOf(s, n) == SubSeq(s, Len(s) - n + 1, Len(s))
Depth(s) == IF Len(s) > REGISTER_MAX THEN REGISTER_MAX ELSE Len(s)

Exact(s) == Len(s) <= REGISTER_MAX /\ \A i \in 1..Len(s) : s[i] # Array

Snapshot(s) == [levels |-> KeptOf(TopOf(s, Depth(s))), ready |-> TRUE, exact |-> Exact(s)]
NoSnapshot == [levels |-> <<>>, ready |-> FALSE, exact |-> FALSE]

\* undo_snapshot, of the stack s
UndoSnapshot(s) == undo' = Snapshot(s) /\ undoPrev' = undo

Full(s) == Len(s) >= STACK_MAX
Push(s, v) == IF Full(s) THEN s ELSE Append(s, v)
Pop(s) == IF s = <<>> THEN s ELSE Front(s)

\* What a word may leave of a stack, done or part done
Outcomes(s) ==
    {s, Pop(s), <<>>} \cup {Push(t, v) : t \in {s, Pop(s)}, v \in Numbers \cup {Array}}

-----------------------------------------------------------------------------
(* What the history keeps *)

Ended(how, kind, began, stands) ==
    /\ outcome' = how /\ by' = kind /\ base' = began
    /\ prior' = IF stands THEN began ELSE prior
    /\ nested' = FALSE
    /\ spoilt' = IF kind = "register" /\ how = "failed" THEN TRUE
                 ELSE IF stands THEN FALSE ELSE spoilt

\* A key that evaluates nothing
Quiet ==
    /\ outcome' = "none" /\ by' = "key" /\ base' = <<>> /\ nested' = FALSE
    /\ UNCHANGED <<prior, spoilt>>

-----------------------------------------------------------------------------
(* An evaluation that fails: undo_failed, with the snapshots as they are     *)
(* after undo_snapshot                                                     *)

\* Mutant of PutBack: the snapshot of the key that failed is left in place.
PutBackOnly(now, earlier, left) ==
    IF now.ready /\ now.exact
    THEN stack' = now.levels /\ undo' = now /\ undoPrev' = earlier
    ELSE stack' = left /\ undo' = now /\ undoPrev' = earlier

\* Another: what the word had done by then is left on the stack.
PutBackHalf(now, earlier, left) ==
    stack' = left /\ undo' = earlier /\ undoPrev' = earlier

PutBack(now, earlier, left) ==
    IF now.ready /\ now.exact
    THEN stack' = now.levels /\ undo' = earlier /\ undoPrev' = earlier
    ELSE stack' = left /\ undo' = now /\ undoPrev' = earlier

-----------------------------------------------------------------------------
(* entry_commit *)

Pending == entry \notin {None, Sign}

\* Whether the number goes on the stack; the stack and the snapshots after it.
Commits == ~Pending \/ (entry \in Numbers /\ ~Full(stack))
Committed == IF Pending /\ Commits THEN Append(stack, entry) ELSE stack
CommitUndo ==
    IF Pending /\ (Commits \/ (entry # Huge /\ ~Exact(stack))) THEN Snapshot(stack)
    ELSE undo
CommitPrev == IF Pending /\ Commits THEN undo ELSE undoPrev

\* The number is refused: past the largest, or no room for it
CommitRefused ==
    /\ ~Commits
    /\ UNCHANGED entry
    /\ IF entry = Huge
       THEN UNCHANGED coreVars /\ Quiet
       ELSE /\ PutBack(Snapshot(stack), undo, stack)
            /\ Ended("failed", "key", stack, ~Exact(stack))

-----------------------------------------------------------------------------
(* handle_calc_key *)

Idle == running = "no"
InCalc == Idle /\ mode = "calc" /\ wait = "idle"
NoPick == sel' = 0

\* A digit, the point or EE: more of the number
TypeDigit ==
    /\ InCalc /\ NoPick
    /\ entry' \in IF entry = Huge THEN {Huge} ELSE Numbers \cup {Huge}
    /\ Quiet
    /\ UNCHANGED <<coreVars, wait, regs, modeVars>>

\* entry_negate with something typed
NegateEntry ==
    /\ InCalc /\ entry # None /\ NoPick
    /\ entry' \in CASE entry = Sign -> {None}
                    [] entry = Huge -> {Huge}
                    [] OTHER -> Numbers
    /\ Quiet
    /\ UNCHANGED <<coreVars, wait, regs, modeVars>>

\* BACKSPACE with something typed
EraseDigit ==
    /\ InCalc /\ entry # None /\ sel = 0
    /\ entry' \in CASE entry = Sign -> {None}
                    [] entry = Huge -> Numbers \cup {Huge}
                    [] OTHER -> Numbers \cup {None, Sign}
    /\ Quiet
    /\ UNCHANGED <<coreVars, wait, sel, regs, modeVars>>

ClearEntry ==
    /\ InCalc /\ NoPick
    /\ entry' = None
    /\ Quiet
    /\ UNCHANGED <<coreVars, wait, regs, modeVars>>

\* ENTER with a number typed
EnterNumber ==
    /\ InCalc /\ entry # None /\ sel = 0
    /\ \/ CommitRefused
       \/ /\ Commits /\ entry' = None
          /\ stack' = Committed /\ undo' = CommitUndo /\ undoPrev' = CommitPrev
          /\ IF Pending THEN Ended("ok", "key", stack, TRUE) ELSE Quiet
    /\ UNCHANGED <<wait, sel, regs, modeVars>>

\* apply_key_word: the number first, then the word
ApplyKeyWord ==
    /\ InCalc /\ NoPick
    /\ \/ CommitRefused
       \/ /\ Commits /\ entry' = None
          /\ \E s \in Outcomes(Committed) :
               \/ /\ stack' = s
                  /\ undo' = Snapshot(Committed) /\ undoPrev' = CommitUndo
                  /\ Ended("ok", "key", Committed, TRUE)
               \/ /\ PutBack(Snapshot(Committed), CommitUndo, s)
                  /\ outcome' = "failed" /\ by' = "key" /\ base' = Committed
                  /\ prior' = IF ~Exact(Committed) THEN Committed
                              ELSE IF Pending THEN stack ELSE prior
                  /\ spoilt' = IF Exact(Committed) /\ ~Pending THEN spoilt ELSE FALSE
                  /\ nested' = FALSE
    /\ UNCHANGED <<wait, regs, modeVars>>

\* CLST, in the calculator and in a line
ClearStack ==
    /\ Idle /\ mode \in {"calc", "line"} /\ wait = "idle" /\ NoPick
    /\ stack' = <<>>
    /\ UndoSnapshot(stack)
    /\ entry' = IF mode = "calc" THEN None ELSE entry
    /\ Ended("ok", "key", stack, TRUE)
    /\ UNCHANGED <<wait, regs, modeVars>>

Undo ==
    /\ Idle /\ mode \in {"calc", "line"} /\ wait = "idle" /\ NoPick
    /\ IF undo.ready
       THEN /\ stack' = undo.levels
            /\ undo' = NoSnapshot
            /\ outcome' = "undone" /\ by' = "key" /\ base' = <<>> /\ nested' = FALSE
            /\ UNCHANGED <<undoPrev, prior, spoilt>>
       ELSE Quiet /\ UNCHANGED coreVars
    /\ UNCHANGED <<entry, wait, regs, modeVars>>

-----------------------------------------------------------------------------
(* Registers *)

RegisterKey(which) ==
    /\ InCalc /\ NoPick
    /\ \/ CommitRefused /\ UNCHANGED wait
       \/ /\ Commits /\ entry' = None /\ wait' = which
          /\ stack' = Committed /\ undo' = CommitUndo /\ undoPrev' = CommitPrev
          /\ IF Pending THEN Ended("ok", "key", stack, TRUE) ELSE Quiet
    /\ UNCHANGED <<regs, modeVars>>

\* Any key but a digit
RegisterCancelled ==
    /\ Idle /\ mode = "calc" /\ wait # "idle"
    /\ wait' = "idle" /\ sel' \in {0, sel}
    /\ Quiet
    /\ UNCHANGED <<coreVars, entry, regs, modeVars>>

\* "dup r sto": one that fails is not put back.
StoreDigit(r) ==
    /\ Idle /\ mode = "calc" /\ wait = "storing" /\ NoPick
    /\ wait' = "idle"
    /\ LET copied == Push(stack, Last(stack))
           room == Len(stack) + 2 <= STACK_MAX
           fails(s) == stack' = s /\ Ended("failed", "register", stack, FALSE)
       IN IF stack = <<>>
          THEN UNCHANGED <<coreVars, regs>> /\ Quiet
          ELSE /\ UndoSnapshot(stack)
               /\ \/ /\ room /\ Last(stack) # Array
                     /\ regs' = [regs EXCEPT ![r] = Last(stack)]
                     /\ UNCHANGED stack
                     /\ Ended("ok", "register", stack, TRUE)
                  \/ room /\ Last(stack) # Array /\ fails(stack) /\ UNCHANGED regs
                  \/ room /\ Last(stack) = Array /\ fails(copied) /\ UNCHANGED regs
                  \/ ~room /\ fails(copied) /\ UNCHANGED regs
    /\ UNCHANGED <<entry, modeVars>>

\* "r rcl"
RecallDigit(r) ==
    /\ Idle /\ mode = "calc" /\ wait = "recalling" /\ NoPick
    /\ wait' = "idle"
    /\ UndoSnapshot(stack)
    /\ IF Full(stack) \/ regs[r] = None
       THEN UNCHANGED stack /\ Ended("failed", "register", stack, FALSE)
       ELSE stack' = Append(stack, regs[r]) /\ Ended("ok", "register", stack, TRUE)
    /\ UNCHANGED <<entry, regs, modeVars>>

-----------------------------------------------------------------------------
(* stack_select_key *)

PickUp ==
    /\ InCalc /\ entry = None /\ sel < Len(stack)
    /\ sel' = sel + 1
    /\ Quiet
    /\ UNCHANGED <<coreVars, entry, wait, regs, modeVars>>

PickDown ==
    /\ InCalc /\ sel > 0
    /\ sel' = sel - 1
    /\ Quiet
    /\ UNCHANGED <<coreVars, entry, wait, regs, modeVars>>

\* Level n counted from the top
LevelAt(n) == Len(stack) - n + 1

PickEnter ==
    /\ InCalc /\ sel > 0
    /\ sel' = 0
    /\ IF sel > Len(stack) \/ stack[LevelAt(sel)] = Array
       THEN UNCHANGED coreVars /\ Quiet
       ELSE /\ UndoSnapshot(stack)
            /\ stack' = Push(stack, stack[LevelAt(sel)])
            /\ Ended("ok", "key", stack, TRUE)
    /\ UNCHANGED <<entry, wait, regs, modeVars>>

PickDrop ==
    /\ InCalc /\ sel > 0 /\ sel <= Len(stack)
    /\ UndoSnapshot(stack)
    /\ stack' = RemoveAt(stack, LevelAt(sel))
    /\ sel' = IF sel > Len(stack) - 1 THEN Len(stack) - 1 ELSE sel
    /\ Ended("ok", "key", stack, TRUE)
    /\ UNCHANGED <<entry, wait, regs, modeVars>>

-----------------------------------------------------------------------------
(* The command line *)

\* enter_line_mode: the number first, though one that is refused stays typed.
\* A letter opens a line that closes once it has run.
EnterLine(letter) ==
    /\ InCalc /\ NoPick
    /\ mode' = "line" /\ once' = letter /\ line' = letter
    /\ \/ CommitRefused
       \/ /\ Commits /\ entry' = None
          /\ stack' = Committed /\ undo' = CommitUndo /\ undoPrev' = CommitPrev
          /\ IF Pending THEN Ended("ok", "key", stack, TRUE) ELSE Quiet
    /\ UNCHANGED <<wait, regs, from, running>>

InLine == Idle /\ mode = "line"

TypeLine ==
    /\ InLine /\ sel' = 0 /\ wait' = "idle"
    /\ line' \in BOOLEAN
    /\ Quiet
    /\ UNCHANGED <<coreVars, entry, regs, mode, from, once, running>>

\* ESC on an empty line, or the soft key
LeaveLine ==
    /\ InLine /\ sel' = 0 /\ wait' = "idle"
    /\ mode' = "calc" /\ once' = FALSE /\ line' = FALSE
    /\ Quiet
    /\ UNCHANGED <<coreVars, entry, regs, from, running>>

\* submit: the snapshot, and the evaluation is under way.
Submit ==
    /\ InLine /\ line /\ sel' = 0 /\ wait' = "idle"
    /\ UndoSnapshot(stack)
    /\ running' = "line"
    /\ base' = stack /\ by' = "line" /\ nested' = FALSE /\ outcome' = "none"
    /\ UNCHANGED <<stack, entry, regs, mode, from, line, once, prior, spoilt>>

-----------------------------------------------------------------------------
(* APPS and the pages *)

\* APPS, from the calculator or a line; a pending number stays pending.
ListOpen ==
    /\ Idle /\ mode \in {"calc", "line"} /\ sel' = 0
    /\ mode' = "list" /\ from' = mode
    /\ wait' = IF mode = "calc" THEN wait ELSE "idle"
    /\ Quiet
    /\ UNCHANGED <<coreVars, entry, regs, line, once, running>>

\* Any page that draws: Y=, the table, the results of a statistic
PageOpen ==
    /\ Idle /\ mode \in {"calc", "line"} /\ sel' = 0
    /\ mode' = "page" /\ from' = mode
    /\ wait' = IF mode = "calc" THEN wait ELSE "idle"
    /\ Quiet
    /\ UNCHANGED <<coreVars, entry, regs, line, once, running>>

Back ==
    /\ Idle /\ mode \in {"list", "page"} /\ sel' = 0 /\ wait' = "idle"
    /\ mode' = from
    /\ Quiet
    /\ UNCHANGED <<coreVars, entry, regs, from, line, once, running>>

\* graph_push, from a page opened on its own
GraphPush(v) ==
    /\ Idle /\ mode = "page" /\ sel' = 0 /\ wait' = "idle"
    /\ UndoSnapshot(stack)
    /\ stack' = Push(stack, v)
    /\ Ended("ok", "page", stack, TRUE)
    /\ UNCHANGED <<entry, regs, modeVars>>

\* list_run: back to where the list was opened, and the word is run.  A number
\* that is refused stays typed and the word runs all the same.
ListRun ==
    /\ Idle /\ mode = "list" /\ sel' = 0 /\ wait' = "idle"
    /\ mode' = from
    /\ running' = "run"
    /\ LET commits == from = "calc" /\ Commits
           began == IF commits THEN Committed ELSE stack
       IN /\ entry' = IF commits THEN None ELSE entry
          /\ stack' = began
          /\ undo' = Snapshot(began)
          /\ undoPrev' = IF from = "calc" THEN CommitUndo ELSE undo
          /\ base' = began
    /\ by' = "run" /\ nested' = FALSE /\ outcome' = "none"
    /\ UNCHANGED <<regs, from, line, once, prior, spoilt>>

-----------------------------------------------------------------------------
(* An evaluation of a line or a program *)

EvalStep ==
    /\ ~Idle
    /\ stack' \in Outcomes(stack)
    /\ UNCHANGED <<undo, undoPrev, keyVars, modeVars, histVars>>

\* A page the program opened (modal_run) pushes an answer: graph_push again,
\* and a snapshot with it.
NestedPush(v) ==
    /\ ~Idle
    /\ UndoSnapshot(stack)
    /\ stack' = Push(stack, v)
    /\ nested' = TRUE
    /\ UNCHANGED <<keyVars, modeVars, outcome, by, base, prior, spoilt>>

\* The word may have put a page of its own on the screen.
Shows(screen) == from' = IF screen # mode THEN mode ELSE from

\* submit, run_word: done
EvalOk ==
    /\ ~Idle
    /\ running' = "no"
    /\ \E screen \in {mode, "page"} :
         /\ Shows(screen)
         /\ line' = IF running = "line" THEN FALSE ELSE line
         /\ LET closes == running = "line" /\ once /\ screen = "line"
            IN /\ mode' = IF closes THEN "calc" ELSE screen
               /\ once' = (once /\ ~closes)
    /\ outcome' = "ok" /\ prior' = base /\ spoilt' = nested
    /\ UNCHANGED <<coreVars, keyVars, by, base, nested>>

\* submit: the stack is put back, and the line stays to be corrected unless
\* a page has taken its place.
LineFails ==
    /\ running = "line"
    /\ running' = "no"
    /\ \E screen \in {mode, "page"} :
         /\ Shows(screen) /\ mode' = screen
         /\ line' = (line /\ screen = mode)
    /\ PutBack(undo, undoPrev, stack)
    /\ outcome' = "failed"
    /\ prior' = IF undo.exact THEN prior ELSE base
    /\ spoilt' = IF undo.exact THEN spoilt \/ nested ELSE nested
    /\ UNCHANGED <<keyVars, once, by, base, nested>>

\* run_word: it is not.
RunFails ==
    /\ running = "run"
    /\ running' = "no"
    /\ \E screen \in {mode, "page"} : Shows(screen) /\ mode' = screen
    /\ outcome' = "failed" /\ prior' = base /\ spoilt' = nested
    /\ UNCHANGED <<coreVars, keyVars, line, once, by, base, nested>>

-----------------------------------------------------------------------------
(* reload_card: what a file that runs left behind is trimmed off; what it    *)
(* took is not put back.                                                   *)

ReloadCard ==
    /\ Idle
    /\ LET trimmed(s) == IF Len(s) > Len(stack) THEN SubSeq(s, 1, Len(stack)) ELSE s
       IN stack' \in {trimmed(s) : s \in IF CardRuns THEN Outcomes(stack)
                                         ELSE {Push(stack, v) : v \in Values}}
    /\ outcome' = "reloaded" /\ by' = "card" /\ base' = stack /\ nested' = FALSE
    /\ UNCHANGED <<undo, undoPrev, keyVars, modeVars, prior, spoilt>>

-----------------------------------------------------------------------------

Init ==
    /\ stack = <<>> /\ entry = None /\ undo = NoSnapshot /\ undoPrev = NoSnapshot
    /\ wait = "idle" /\ sel = 0 /\ regs = [r \in Registers |-> None]
    /\ mode = "calc" /\ from = "calc" /\ line = FALSE /\ once = FALSE
    /\ running = "no"
    /\ outcome = "none" /\ by = "key" /\ base = <<>> /\ prior = <<>>
    /\ nested = FALSE /\ spoilt = FALSE

Next ==
    \/ TypeDigit \/ NegateEntry \/ EraseDigit \/ ClearEntry \/ EnterNumber
    \/ ApplyKeyWord \/ ClearStack \/ Undo
    \/ \E w \in {"storing", "recalling"} : RegisterKey(w)
    \/ RegisterCancelled
    \/ \E r \in Registers : StoreDigit(r) \/ RecallDigit(r)
    \/ PickUp \/ PickDown \/ PickEnter \/ PickDrop
    \/ \E letter \in BOOLEAN : EnterLine(letter)
    \/ TypeLine \/ LeaveLine \/ Submit
    \/ ListOpen \/ PageOpen \/ Back \/ ListRun
    \/ \E v \in Numbers : GraphPush(v) \/ NestedPush(v)
    \/ EvalStep \/ EvalOk \/ LineFails \/ RunFails
    \/ ReloadCard

Spec == Init /\ [][Next]_vars

-----------------------------------------------------------------------------
(* Properties *)

SnapshotType ==
    [levels : BoundedSeq(Held, REGISTER_MAX), ready : BOOLEAN, exact : BOOLEAN]

TypeOK ==
    /\ stack \in BoundedSeq(Values, STACK_MAX)
    /\ entry \in Numbers \cup {None, Sign, Huge}
    /\ undo \in SnapshotType /\ undoPrev \in SnapshotType
    /\ wait \in {"idle", "storing", "recalling"}
    /\ sel \in 0..STACK_MAX
    /\ regs \in [Registers -> Held \cup {None}]
    /\ mode \in {"calc", "line", "list", "page"}
    /\ from \in {"calc", "line"}
    /\ {line, once, nested, spoilt} \subseteq BOOLEAN
    /\ running \in {"no", "line", "run"}

\* Between keys, a snapshot that is the whole stack is the stack before the
\* last step that stands: a key that failed and was put back has left UNDO on
\* the step before it, through any run of keys.  And UNDO gives that stack back,
\* an array as its text, when it was not too deep for the snapshot.
UndoIsPrior ==
    /\ running = "no" /\ undo.ready /\ undo.exact /\ ~spoilt
         => undo.levels = prior
    /\ outcome = "undone" /\ ~spoilt /\ Len(prior) <= REGISTER_MAX
         => stack = KeptOf(prior)

\* What failed part-way is not left half done on the stack, where the snapshot
\* was the whole of it and nothing inside the evaluation took another.
FailurePutBack ==
    outcome = "failed" /\ by \in {"key", "line"} /\ ~nested /\ Exact(base)
        => stack = base

\* A key that fails changes nothing, so UNDO still takes back the one before
\* it; the register keys included.
FailedKeyChangesNothing ==
    outcome = "failed" /\ by \in {"key", "register"} /\ Exact(base)
        => /\ stack = base
           /\ undo.ready /\ undo.exact => undo.levels = prior

\* What failed part-way is not left half done, pages inside it included.
FailedLineChangesNothing ==
    outcome = "failed" /\ by = "line" /\ Exact(base) => stack = base
=============================================================================
