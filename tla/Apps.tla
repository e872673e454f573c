-------------------------------- MODULE Apps ---------------------------------
(***************************************************************************)
(* An app runs in an interpreter of its own, as a visitor: the settings,    *)
(* the Y= slots, the window and the graph's format are put back when it     *)
(* ends unless it says they are to be kept, it reads its arguments off the  *)
(* stack it was called from without taking them, and gives answers back.    *)
(*                                                                         *)
(* An app's interpreter has no apps among its words, but Y1 to Y6 are       *)
(* evaluated in the session wherever they are drawn: an app whose graph     *)
(* draws a slot that calls an app has another run inside it.                *)
(*                                                                         *)
(* A setting is a small number; what an app computes is left out.  Writes   *)
(* to the store do not fail here.                                           *)
(***************************************************************************)
EXTENDS Naturals, Sequences, SequencesExt

CONSTANTS
    AppNames,    \* the apps on the card
    Numbers,     \* the numbers a stack can hold
    UI_ANSWERS,  \* answers one outermost run can give
    MaxNest,     \* bound on runs inside runs
    MaxStack     \* bound on the calculator's stack

ASSUME AppsAssumption == UI_ANSWERS \in Nat /\ MaxNest \in Nat /\ MaxStack \in Nat

\* cfg: angle, complex, decimals, notation and auto-off; fmt: grid and axes;
\* slot: the bodies of Y= and which are on; win: the window kept for Y=;
\* plot: STAT PLOT.  Slot 0 is a body switched on, 1 the same switched off and
\* 2 one that calls an app; plot 2 is a program's own scatter.
Parts == {"cfg", "fmt", "slot", "win", "plot"}
Setting(p) == IF p \in {"slot", "plot"} THEN 0..2 ELSE 0..1
Settings == {m \in [Parts -> 0..2] : \A p \in Parts : m[p] \in Setting(p)}

Values == Numbers \cup {"text"}
Kinds == {"cfg", "gr"}    \* what cfg::keep and gr::keep keep
KeptWith(p) == IF p = "cfg" THEN "cfg" ELSE IF p = "plot" THEN "none" ELSE "gr"

VARIABLES
    mem,      \* the settings in force
    store,    \* the settings on the card
    stack,    \* the calculator's stack
    runs,     \* the apps running, the innermost last
    app_name, \* the app ui::save and ui::load write and read for, or "none"
    keep,     \* app_keep_cfg and app_keep_gr
    answers,  \* ui_answer
    taken,    \* ui_args_taken
    kept,     \* what each app has in its folder
    broken,   \* POWER came while a program had the keypad
    user,     \* the settings as the user, or a program let keep them, left them
    said      \* what the outermost app said to keep

vars == <<mem, store, stack, runs, app_name, keep, answers, taken, kept, broken, user, said>>

Idle == runs = <<>>
Inner == Last(runs)
Running == ~Idle /\ ~broken

Init ==
    /\ mem = [p \in Parts |-> 0] /\ store = mem /\ user = mem
    /\ stack = <<>> /\ runs = <<>> /\ app_name = "none" /\ keep = {}
    /\ answers = <<>> /\ taken = 0 /\ kept = [a \in AppNames |-> 0]
    /\ broken = FALSE /\ said = {}

-----------------------------------------------------------------------------
(* Settings.  A change is written at once: save_settings writes every      *)
(* setting there is, slot_save and window_save the one.                    *)

save_settings(m) == [p \in Parts |-> IF p \in {"cfg", "fmt", "plot"} THEN m[p] ELSE store[p]]
Saved(p, m) == IF p \in {"slot", "win"} THEN [store EXCEPT ![p] = m[p]] ELSE save_settings(m)

Change(p, v) ==
    /\ v # mem[p]
    /\ mem' = [mem EXCEPT ![p] = v]
    /\ store' = Saved(p, mem')
    /\ user' = IF Idle THEN [user EXCEPT ![p] = v] ELSE user

\* The cfg:: and gr:: words, at the prompt or in an app; at the prompt also SET,
\* Y=, WINDOW and FORMAT.  A slot that does not parse is kept, and the word fails.
Word == Idle \/ (Running /\ Inner.page = "main")
CfgSet == Word /\ \E v \in Setting("cfg") : Change("cfg", v)
GrSetSlot == Word /\ \E v \in {0, 2} : Change("slot", v)
GrSetOn == Word /\ \E v \in {0, 1} : mem.slot # 2 /\ Change("slot", v)
GrSetWindow == Word /\ \E v \in Setting("win") : Change("win", v)
GrSetFormat == Word /\ \E v \in Setting("fmt") : Change("fmt", v)
PlotSet == Idle /\ \E v \in 0..1 : Change("plot", v)

\* cfg::keep and gr::keep; at the prompt the flag is set all the same.
NativeKeep(k) ==
    /\ Word /\ k \notin keep
    /\ keep' = keep \cup {k}
    /\ said' = IF Len(runs) = 1 THEN said \cup {k} ELSE said

-----------------------------------------------------------------------------
(* The calculator's stack between apps.                                    *)

Enter(v) == Idle /\ Len(stack) < MaxStack /\ stack' = Append(stack, v)
Drop == Idle /\ stack # <<>> /\ stack' = Front(stack)

-----------------------------------------------------------------------------
(* An app starts: typed at the prompt, or called by a slot that is being   *)
(* sampled with x on the stack.  What was there is taken down in its run.  *)

AppStart(a, st, at) ==
    /\ Len(runs) < MaxNest
    /\ runs' = Append(runs, [name |-> a, found |-> mem, keepWas |-> keep, takenWas |-> taken,
                             answersWas |-> Len(answers), page |-> "main", plotWas |-> 0,
                             sampled |-> ~Idle, before |-> at, entry |-> st, read |-> <<>>, gave |-> <<>>, clean |-> TRUE])
    /\ stack' = st
    /\ app_name' = a /\ keep' = {} /\ taken' = 0
    /\ said' = IF Idle THEN {} ELSE said

Run(a) == Idle /\ ~broken /\ AppStart(a, stack, Len(stack))

\* graph_run on Y1 to Y6, at a repaint of the graph an app has open.
Sample(a) ==
    /\ ~Idle /\ ~broken /\ Inner.page = "graph" /\ mem.slot = 2
    /\ \E x \in Numbers : AppStart(a, Append(stack, x), Len(stack))

-----------------------------------------------------------------------------
(* What an app does.                                                       *)

Main == Running /\ Inner.page = "main"
InnerGets(f, v) == runs' = [runs EXCEPT ![Len(runs)][f] = v]

\* ui::arg reads the next number and leaves it; a string or the end of the stack is not read.
NativeArg ==
    /\ Main /\ taken < Len(stack)
    /\ LET v == stack[Len(stack) - taken] IN
       /\ v \in Numbers
       /\ taken' = taken + 1
       /\ InnerGets("read", Append(Inner.read, v))

\* ui::answer; too many is an error, and ends the app as any does.  MaxStack bounds
\* what the answers come to.
NativeAnswer(v) ==
    /\ Main /\ Len(answers) < UI_ANSWERS /\ Len(stack) + Len(answers) <= MaxStack
    /\ answers' = Append(answers, v)
    /\ InnerGets("gave", Append(Inner.gave, v))

\* app_value_key: outside an app, or once one inside this one has ended, there is no folder.
NativeSave(v) ==
    /\ Main /\ app_name # "none" /\ v # kept[app_name]
    /\ kept' = [kept EXCEPT ![app_name] = v]

\* gr::graph, graph, graph3 and ui::plot give the keypad to a graph until it is left;
\* with ui::points a plot puts its own scatter over STAT PLOT.
PageOpen(points) ==
    /\ Running /\ Inner.page = "main"
    /\ runs' = [runs EXCEPT ![Len(runs)].page = "graph", ![Len(runs)].plotWas = mem.plot]
    /\ mem' = IF points THEN [mem EXCEPT !.plot = 2] ELSE mem

NativePlot == \E points \in BOOLEAN : PageOpen(points)
NativeGrGraph == PageOpen(FALSE)

PageLeft ==
    /\ Running /\ Inner.page = "graph"
    /\ mem' = [mem EXCEPT !.plot = Inner.plotWas]
    /\ InnerGets("page", "main")

\* The user at an app's page: WINDOW, FORMAT and STAT PLOT are open to him there.
PageChanges ==
    /\ Running /\ Inner.page = "graph"
    /\ \E p \in {"win", "fmt", "plot"} : \E v \in Setting(p) \ {2} : Change(p, v)

\* qdos_natives_key: POWER is never a program's to read.  The break holds until the
\* next evaluation is begun at the prompt.
Power == Running /\ broken' = TRUE
Rearm == Idle /\ broken /\ broken' = FALSE

-----------------------------------------------------------------------------
(* An app ends: main returned, a word failed, or POWER broke it.  plot_and  *)
(* _wait puts STAT PLOT back on its way out.                                *)

\* Mutant: a kept window is decided by cfg::keep.
PutBackByCfg(f, m) == [p \in Parts |-> IF p # "plot" /\ "cfg" \notin keep THEN f.found[p] ELSE m[p]]

\* app_found_put_back: STAT PLOT is not among what is found.
PutBack(f, m) == [p \in Parts |-> IF p # "plot" /\ KeptWith(p) \notin keep THEN f.found[p] ELSE m[p]]

\* Mutant: the format is not looked at.
WrittenBackNoFormat(m, n) ==
    [p \in Parts |->
        IF p \in {"slot", "win"} THEN IF m[p] # n[p] THEN n[p] ELSE store[p]
        ELSE IF m.cfg # n.cfg THEN n[p] ELSE store[p]]

\* Only what differs is written, and of the settings all when one does.
WrittenBack(m, n) ==
    [p \in Parts |->
        IF p \in {"slot", "win"} THEN IF m[p] # n[p] THEN n[p] ELSE store[p]
        ELSE IF m.cfg # n.cfg \/ m.fmt # n.fmt THEN n[p] ELSE store[p]]

\* Mutant: what was read is popped whether or not an answer was given.
GivenAlways(n, st) ==
    SubSeq(st, 1, IF taken > Len(st) THEN 0 ELSE Len(st) - taken) \o SubSeq(answers, n + 1, Len(answers))

\* The arguments read are popped only for an answer, and then the answers pushed.
Given(n, st) ==
    LET own == SubSeq(answers, n + 1, Len(answers)) IN
    IF own = <<>> THEN st
    ELSE SubSeq(st, 1, IF taken > Len(st) THEN 0 ELSE Len(st) - taken) \o own

\* graph_run drops what a curve left above the stack it was sampled on.
Dropped(f, st) == IF f.sampled /\ f.before < Len(st) THEN SubSeq(st, 1, f.before) ELSE st

EndedName(f) == "none"

\* Mutant: what a failed app gave stays.
AnswersKept(f, ok) == IF ok THEN SubSeq(answers, 1, f.answersWas) ELSE answers

AnswersLeft(f, ok) == SubSeq(answers, 1, f.answersWas)

AppEnd(ok) ==
    LET f == Inner
        m == IF f.page = "graph" THEN [mem EXCEPT !.plot = f.plotWas] ELSE mem
        n == PutBack(f, m)
        st == Dropped(f, IF ok THEN Given(f.answersWas, stack) ELSE stack)
        out == Front(runs)
        under == SubSeq(f.entry, 1, f.before)
    IN
    /\ mem' = n /\ store' = WrittenBack(m, n)
    /\ stack' = st
    /\ runs' = IF out # <<>> /\ st # under
               THEN [out EXCEPT ![Len(out)].clean = FALSE] ELSE out
    /\ app_name' = EndedName(f)
    /\ keep' = f.keepWas /\ taken' = f.takenWas
    /\ answers' = AnswersLeft(f, ok)
    /\ user' = IF Len(runs) = 1
               THEN [p \in Parts |-> IF KeptWith(p) \in said THEN m[p] ELSE user[p]] ELSE user
    /\ said' = IF Len(runs) = 1 THEN {} ELSE said
    /\ UNCHANGED <<kept, broken>>

Finish == Main /\ AppEnd(TRUE)
Fail == Running /\ Inner.page = "main" /\ AppEnd(FALSE)
Break == ~Idle /\ broken /\ AppEnd(FALSE)

-----------------------------------------------------------------------------
(* Power is lost: what an app had written stands (restore_settings).       *)

Crash ==
    /\ mem' = store /\ user' = store
    /\ stack' = <<>> /\ runs' = <<>> /\ app_name' = "none" /\ keep' = {}
    /\ answers' = <<>> /\ taken' = 0 /\ broken' = FALSE /\ said' = {}
    /\ UNCHANGED <<store, kept>>

Session == UNCHANGED <<stack, app_name, keep, answers, taken, kept, broken, said>>
Quiet == UNCHANGED <<mem, store, user>>

SetStep ==
    /\ CfgSet \/ GrSetSlot \/ GrSetOn \/ GrSetWindow \/ GrSetFormat \/ PlotSet \/ PageChanges
    /\ UNCHANGED runs /\ Session

KeepStep == (\E k \in Kinds : NativeKeep(k))
            /\ Quiet /\ UNCHANGED <<stack, runs, app_name, answers, taken, kept, broken>>

StackStep == ((\E v \in Values : Enter(v)) \/ Drop)
             /\ Quiet /\ UNCHANGED <<runs, app_name, keep, answers, taken, kept, broken, said>>

StartStep == (\E a \in AppNames : Run(a) \/ Sample(a))
             /\ Quiet /\ UNCHANGED <<answers, kept, broken>>

ArgStep == NativeArg /\ Quiet /\ UNCHANGED <<stack, app_name, keep, answers, kept, broken, said>>

AnswerStep == (\E v \in Numbers : NativeAnswer(v))
              /\ Quiet /\ UNCHANGED <<stack, app_name, keep, taken, kept, broken, said>>

SaveStep == (\E v \in 0..1 : NativeSave(v))
            /\ Quiet /\ UNCHANGED <<stack, runs, app_name, keep, answers, taken, broken, said>>

PageStep == (NativePlot \/ NativeGrGraph \/ PageLeft)
            /\ UNCHANGED <<store, user>> /\ Session

PowerStep == (Power \/ Rearm)
             /\ Quiet /\ UNCHANGED <<stack, runs, app_name, keep, answers, taken, kept, said>>

EndStep == Finish \/ Fail \/ Break

Next == SetStep \/ KeepStep \/ StackStep \/ StartStep \/ ArgStep \/ AnswerStep \/ SaveStep
        \/ PageStep \/ PowerStep \/ EndStep \/ Crash

Spec == Init /\ [][Next]_vars

-----------------------------------------------------------------------------
(* With no app running, every setting is as the user left it, or as an app  *)
(* that said so at the outermost level left it: what an app run inside      *)
(* another keeps is not kept for the one outside (app_found_put_back).      *)
VisitorLeft == Idle => mem = user

(* With no app running, what the machine would start with next time is what *)
(* is in force.  STAT PLOT is left out: a page that saves while a program's *)
(* own scatter is up writes the scatter (save_settings, plot_and_wait).     *)
StoredIsInForce == Idle => \A p \in Parts \ {"plot"} : store[p] = mem[p]

(* An app ends with the stack it was called on as it was, or, when it gave  *)
(* answers, with exactly the numbers ui::arg gave it gone and the answers   *)
(* there instead; whatever apps ran inside it meanwhile (run_app).          *)
TakesWhatItRead ==
    [][EndStep /\ Len(runs) = 1 /\ Inner.clean =>
        \/ stack' = Inner.entry
        \/ /\ Inner.gave # <<>>
           /\ \E rest \in {SubSeq(Inner.entry, 1, k) : k \in 0..Len(Inner.entry)} :
                 Inner.entry = rest \o Reverse(Inner.read) /\ stack' = rest \o Inner.gave]_vars

(* What is waiting to be given is what the runs under way gave, outermost   *)
(* first: one that failed or was broken leaves nothing behind for the app   *)
(* outside it to give (run_app, native_answer).                             *)
AnswersAreTheirs == answers = FlattenSeq([i \in DOMAIN runs |-> runs[i].gave])

(* A value is written into an app's folder by that app alone (app_name,     *)
(* app_value_key).                                                          *)
OwnFolder == [][\A a \in AppNames : kept'[a] # kept[a] => ~Idle /\ Inner.name = a]_vars

(* An app takes from the stack what it read and writes where it may: the    *)
(* two above.                                                               *)
AppTakesItsOwn == TakesWhatItRead /\ OwnFolder

(* Not so: an app that saved what it keeps can do so again whenever it runs *)
(* its own words; once an app has run inside it, there is no folder.        *)
CanStillSave == Main => app_name = Inner.name

(* Not so: STAT PLOT is started with next time as it is now.                *)
PlotStored == Idle => store.plot = mem.plot
=============================================================================
