------------------------------- MODULE Graph -------------------------------
(***************************************************************************)
(* The graph and what it draws: the Y= slots and program words, the curves *)
(* plotted, the window they are drawn in and the one kept for Y=, the      *)
(* samples taken at the next repaint, trace, the free cursor, ZOOM, and    *)
(* CALC's questions and what it shades (shell.c).                          *)
(*                                                                         *)
(* Numbers are abstracted: a window is which stretch of x it shows, FIT    *)
(* and moves up or down leaving that as it is, a search finds its answer   *)
(* or does not, and a cursor brought off the plot moves the window         *)
(* somewhere.  MINIMUM and MAXIMUM ask and answer as ZERO does.  Menus are *)
(* the actions they lead to; Pages has the pages themselves.  Keys are     *)
(* drained before a repaint, so graph_refresh may come after any number of *)
(* them.                                                                   *)
(***************************************************************************)
EXTENDS Integers, Sequences, FiniteSets, SequencesExt, FiniteSetsExt

CONSTANTS
  SlotWords,   \* the slots in order, as the words they are declared as
  Programs,    \* program words that may be plotted by name
  Bodies,      \* what a slot or a program may hold
  Typed,       \* Typed[w]: the bodies this instance gives to word w
  ShapeOf,     \* ShapeOf[b]: what qdos_graph_body_shape makes of a body
  Broken,      \* bodies that do not declare
  Trig,        \* bodies whose value depends on the angle setting
  Empty,       \* the body of an empty slot
  Windows,     \* the stretches of x a window may show
  Standard,    \* the standard one
  Ranges,      \* the t and theta ranges
  StatPlots,   \* whether the STAT PLOT setting may be off, on or either
  MaxEdits     \* how many times a behaviour changes slots, programs or the angle

Shapes == {"none", "curve", "surface", "points"}

ASSUME GraphAssumption ==
  /\ SlotWords \in Seq(STRING) /\ Programs \cap Range(SlotWords) = {}
  /\ ShapeOf \in [Bodies -> Shapes] /\ Empty \in Bodies /\ ShapeOf[Empty] = "none"
  /\ Broken \subseteq Bodies /\ Trig \subseteq Bodies /\ Standard \in Windows
  /\ \A w \in Range(SlotWords) \cup Programs : Typed[w] \subseteq Bodies
  /\ StatPlots \subseteq BOOLEAN /\ MaxEdits \in Nat

VARIABLES
  page,        \* sh->mode
  under,       \* window_from
  graphReturn, \* graph_return
  slots,       \* slots: each word's body and whether GRAPH draws it
  prog,        \* the bodies of the program words
  angle,       \* qdos_math_degrees
  words,       \* graph_words and graph_shape, graph_count long
  gstate,      \* graph_state
  curve,       \* graph_curve, from 1
  calc,        \* calc, calc_step and calc_curves
  result,      \* shade_on, tangent_on and what they are drawn on
  view,        \* graph_view
  plotView,    \* plot_view, the window kept for Y=
  ranges,      \* ranges
  stale, pstale, fit, \* graph_stale, graph_points_stale, graph_fit_pending
  statplot,    \* graph_statplot: a stat plot is drawn too
  samples,     \* what graph_samples and graph_points were taken of
  store,       \* plot.window and plot.y1.. as last written
  edits,       \* changes made so far
  untold       \* a program or the angle changed since the curves were opened

setup == <<slots, prog, angle, edits>>
drawn == <<words, samples, graphReturn, statplot>>
window == <<plotView, ranges, store>>
graphVars == <<page, under, setup, drawn, gstate, curve, calc, result, view, window, stale, pstale, fit, untold>>

NoResult == [kind |-> "none", a |-> 0, b |-> 0, on |-> <<>>, since |-> FALSE]
(* Marks what was found as older than a program's change or a surface plotted *)
Since(r) == IF r = NoResult THEN r ELSE [r EXCEPT !.since = TRUE]
NoCalc == [kind |-> "VALUE", step |-> 0, c1 |-> 0, c2 |-> 0]
Slots == Range(SlotWords)

(* graph_run's word: a slot is the session's, a program is whatever it is now *)
Def(w) == IF w \in Slots THEN slots[w].body ELSE prog[w]
IsFunction(i) == i \in 1..Len(words) /\ words[i].shape = "curve"
Functions == {i \in 1..Len(words) : IsFunction(i)}
OnPoints == Len(words) > 0 /\ ~IsFunction(curve)

(* What a sampling pass of curve i would take now *)
SampleOf(i) ==
  [of |-> Def(words[i].word),
   along |-> IF IsFunction(i) THEN view ELSE ranges,
   angle |-> IF Def(words[i].word) \in Trig THEN angle ELSE "either"]

(* A word run as the shape it is plotted as leaves as many values as it must *)
Samplable(i) ==
  LET b == Def(words[i].word) IN b \notin Broken /\ ShapeOf[b] = words[i].shape

-----------------------------------------------------------------------------
(* Opening a graph *)

(* graph_open_many, and what its callers set afterwards *)
OpenMany(ws, v, toFit, ret, gs, withStat) ==
  /\ words' = ws
  /\ result' = IF ws = words /\ page # "GRAPH3" THEN result ELSE NoResult
  /\ view' = v /\ fit' = toFit
  /\ stale' = TRUE /\ pstale' = TRUE
  /\ gstate' = gs /\ curve' = 1
  /\ statplot' = withStat
  /\ graphReturn' = ret
  /\ page' = "GRAPH"
  /\ untold' = FALSE

(* graph3_open: the words plotted become this one, the rest of the graph is left *)
Graph3Open(w, ret) ==
  /\ words' = <<[word |-> w, shape |-> IF words = <<>> THEN "none" ELSE words[1].shape]>>
  /\ stale' = TRUE
  /\ graphReturn' = ret
  /\ page' = "GRAPH3"
  /\ result' = Since(result)
  /\ UNCHANGED <<under, setup, samples, statplot, gstate, curve, calc, view, window, pstale, fit, untold>>

(* `"f" graph`: any word, plotted as a curve in the standard window, fitted *)
WordGraph(w) ==
  /\ page = "CALC"
  /\ OpenMany(<<[word |-> w, shape |-> "curve"]>>, Standard, TRUE, "CALC", "PAN", FALSE)
  /\ UNCHANGED <<under, setup, samples, calc, window>>

WordGraph3(w) == page = "CALC" /\ Graph3Open(w, "CALC")

(* The slots GRAPH draws, in their order *)
SlotCurves ==
  LET draws(w) == slots[w].on /\ slots[w].body \notin Broken
                    /\ ShapeOf[slots[w].body] \in {"curve", "points"}
      on == {i \in DOMAIN SlotWords : draws(SlotWords[i])}
      nth(n) == SlotWords[CHOOSE i \in on : Cardinality({j \in on : j <= i}) = n]
  IN [n \in 1..Cardinality(on) |-> [word |-> nth(n), shape |-> ShapeOf[slots[nth(n)].body]]]

(* plot_graph's curves: in the window kept for Y=, back to the page they came from *)
PlotCurves(v, toFit, gs, ret) ==
  \E withStat \in StatPlots :
    /\ SlotCurves # <<>> \/ withStat
    /\ OpenMany(SlotCurves, v, toFit, ret, gs, withStat)

(* GRAPH on Y=: the selected slot alone if it is a surface *)
PlotGraph ==
  /\ page = "PLOT"
  /\ \E sel \in Slots :
       IF ShapeOf[slots[sel].body] = "surface" /\ slots[sel].body \notin Broken
       THEN Graph3Open(sel, "PLOT")
       ELSE PlotCurves(plotView, FALSE, "PAN", "PLOT") /\ UNCHANGED <<under, setup, samples, calc, window>>

(* GRAPH on the list editor, and gr::graph at the prompt or on a line *)
StatGraph ==
  /\ page = "STAT"
  /\ PlotCurves(plotView, FALSE, "PAN", "STAT") /\ UNCHANGED <<under, setup, samples, calc, window>>

GrGraph ==
  /\ page \in {"CALC", "LINE"}
  /\ PlotCurves(plotView, FALSE, "PAN", page) /\ UNCHANGED <<under, setup, samples, calc, window>>

(* WINDOW's GRAPH: the graph it came from, or the slots drawn afresh *)
PageGraph ==
  /\ page = "WINDOW"
  /\ IF under = "GRAPH"
     THEN page' = "GRAPH" /\ UNCHANGED <<drawn, result, view, fit, stale, pstale, gstate, curve, untold>>
     ELSE PlotCurves(plotView, FALSE, "PAN", "PLOT") /\ UNCHANGED samples
  /\ UNCHANGED <<under, setup, calc, window>>

(* graph_refresh, at the head of a repaint; leaving when opening found nothing at all *)
GraphRefresh ==
  /\ page = "GRAPH" /\ (stale \/ pstale)
  /\ samples' = [i \in DOMAIN words |->
       IF (IF IsFunction(i) THEN stale ELSE pstale) \/ i \notin DOMAIN samples
       THEN SampleOf(i) ELSE samples[i]]
  /\ stale' = FALSE /\ pstale' = FALSE /\ fit' = FALSE
  /\ \E some \in BOOLEAN :
       /\ some => \E i \in DOMAIN words : Samplable(i)
       /\ page' = IF fit /\ ~some /\ words # <<>> /\ ~statplot THEN graphReturn ELSE page
  /\ UNCHANGED <<under, setup, words, graphReturn, statplot, gstate, curve, calc, result, view, window, untold>>

Graph3Refresh ==
  /\ page = "GRAPH3" /\ stale
  /\ stale' = FALSE
  /\ LET b == Def(words[1].word)
     IN page' = IF b \notin Broken /\ ShapeOf[b] = "surface" THEN page ELSE graphReturn
  /\ UNCHANGED <<under, setup, drawn, gstate, curve, calc, result, view, window, pstale, fit, untold>>

-----------------------------------------------------------------------------
(* Moving about the graph *)

(* graph_moved, with the window it moved to *)
Moved(v) == view' = v /\ stale' = TRUE

(* trace_to and trace_step: the cursor on the plot, or the plot brought to it *)
TraceTo ==
  \/ UNCHANGED <<view, stale>>
  \/ \E w \in Windows : Moved(w)

(* curve_step: the next curve up or down that is accepted, from this one *)
CurveStep(from, dir, functionsOnly) ==
  LET n == Len(words)
      at(k) == ((from - 1 + dir * k) % n) + 1
      ok == {k \in 1..n : ~functionsOnly \/ IsFunction(at(k))}
  IN IF ok = {} THEN from ELSE at(Min(ok))

InGraph == page = "GRAPH"
Elsewhere == <<page, under, setup, drawn, window, pstale, untold>>

(* Mutant: the window kept for Y= is not written down *)
GraphEscUnsaved ==
  /\ InGraph /\ gstate = "PAN"
  /\ page' = graphReturn
  /\ plotView' = IF graphReturn # "CALC" THEN view ELSE plotView
  /\ UNCHANGED <<gstate, under, setup, drawn, curve, calc, result, view, ranges, store, stale, pstale, fit, untold>>

(* ESC: asking is backed out of, then trace or the cursor; then the graph is left, *)
(* and one opened from a page keeps its window for Y=                              *)
GraphEsc ==
  /\ InGraph
  /\ CASE gstate = "ASK" ->
            /\ gstate' = IF calc.kind = "BOX" THEN "PAN" ELSE "TRACE"
            /\ UNCHANGED <<page, window>>
       [] gstate \in {"TRACE", "FREE"} ->
            gstate' = "PAN" /\ UNCHANGED <<page, window>>
       [] gstate = "PAN" ->
            /\ page' = graphReturn
            /\ plotView' = IF graphReturn # "CALC" THEN view ELSE plotView
            /\ store' = IF graphReturn # "CALC"
                        THEN [store EXCEPT !.view = view, !.ranges = ranges] ELSE store
            /\ UNCHANGED <<ranges, gstate>>
  /\ UNCHANGED <<under, setup, drawn, curve, calc, result, view, stale, pstale, fit, untold>>

Graph3Esc ==
  /\ page = "GRAPH3" /\ page' = graphReturn
  /\ UNCHANGED <<under, setup, drawn, gstate, curve, calc, result, view, window, stale, pstale, fit, untold>>

(* TRACE, which toggles *)
TraceKey ==
  /\ InGraph /\ gstate # "ASK" /\ words # <<>>
  /\ gstate' = IF gstate = "TRACE" THEN "PAN" ELSE "TRACE"
  /\ UNCHANGED <<Elsewhere, curve, calc, result, view, stale, fit>>

(* Left, right, or a number typed while tracing *)
TraceMove ==
  /\ InGraph /\ gstate = "TRACE"
  /\ IF OnPoints THEN UNCHANGED <<view, stale>> ELSE TraceTo
  /\ UNCHANGED <<Elsewhere, gstate, curve, calc, result, fit>>

TraceCurve ==
  /\ InGraph /\ gstate = "TRACE" /\ Len(words) > 1
  /\ \E dir \in {-1, 1} : curve' = CurveStep(curve, dir, FALSE)
  /\ UNCHANGED <<Elsewhere, gstate, calc, result, view, stale, fit>>

(* free_move: the first arrow puts the cursor there, past an edge it pans *)
FreeMove ==
  /\ InGraph
  /\ gstate \in {"PAN", "FREE"} \/ (gstate = "TRACE" /\ Len(words) <= 1)
  /\ gstate' = "FREE"
  /\ \/ UNCHANGED <<view, stale>>
     \/ \E w \in Windows : Moved(w)
  /\ UNCHANGED <<Elsewhere, curve, calc, result, fit>>

(* + and -, about the cursor *)
PlusMinus ==
  /\ InGraph /\ gstate # "ASK"
  /\ \E v \in Windows : Moved(v)
  /\ UNCHANGED <<Elsewhere, gstate, curve, calc, result, fit>>

-----------------------------------------------------------------------------
(* ZOOM *)

Zooms == {"BOX", "FIT", "PRESET"}

(* calc_start of a zoom box: only the window will move, so what was found stays *)
BoxStart ==
  /\ calc' = [calc EXCEPT !.kind = "BOX", !.step = 0]
  /\ gstate' = "ASK"

(* graph_zoom on the graph: keys FIT and STD, and the menu *)
GraphZoom(kind) ==
  /\ InGraph
  /\ CASE kind = "BOX" -> BoxStart /\ UNCHANGED <<view, stale, fit>>
       [] kind = "FIT" ->
            fit' = (fit \/ stale \/ pstale) /\ Moved(view) /\ UNCHANGED <<gstate, calc>>
       [] kind = "PRESET" -> (\E v \in Windows : Moved(v)) /\ UNCHANGED <<gstate, calc, fit>>
  /\ UNCHANGED <<Elsewhere, curve, result>>

(* ZOOM from Y= or the list editor: the slots graphed first, then zoomed *)
ZoomFromPage(kind) ==
  /\ page \in {"PLOT", "STAT"}
  /\ CASE kind = "BOX" -> /\ PlotCurves(plotView, FALSE, "ASK", page)
                          /\ calc' = [calc EXCEPT !.kind = "BOX", !.step = 0]
       [] kind = "FIT" -> PlotCurves(plotView, TRUE, "PAN", page) /\ UNCHANGED calc
       [] kind = "PRESET" -> (\E v \in Windows : PlotCurves(v, FALSE, "PAN", page)) /\ UNCHANGED calc
  /\ UNCHANGED <<under, setup, samples, window>>

(* box_accept: the first corner, then another that is not on its lines *)
BoxAccept ==
  /\ InGraph /\ gstate = "ASK" /\ calc.kind = "BOX"
  /\ IF calc.step = 0
     THEN calc' = [calc EXCEPT !.step = 1] /\ UNCHANGED <<gstate, view, stale>>
     ELSE gstate' = "PAN" /\ (\E v \in Windows : Moved(v)) /\ UNCHANGED calc
  /\ UNCHANGED <<Elsewhere, curve, result, fit>>

-----------------------------------------------------------------------------
(* CALC *)

CalcKinds == {"VALUE", "ZERO", "INTERSECT", "DERIVATIVE", "TANGENT", "INTEGRAL", "AREA"}
TwoCurves == {"INTERSECT", "AREA"}
CalcSteps(kind) == IF kind \in TwoCurves THEN 4 ELSE IF kind \in {"DERIVATIVE", "TANGENT"} THEN 1 ELSE 2
Asking(kinds) == InGraph /\ gstate = "ASK" /\ calc.kind \in kinds
AskingForCurve == Asking(TwoCurves) /\ calc.step < 2

(* calc_start: what was found goes, whether or not the question can be asked; VALUE *)
(* has its x typed at once                                                          *)
CalcStart(kind) ==
  /\ InGraph
  /\ result' = NoResult
  /\ IF Functions = {} \/ (kind \in TwoCurves /\ Cardinality(Functions) < 2)
     THEN UNCHANGED <<curve, calc, gstate>>
     ELSE /\ curve' = IF IsFunction(curve) THEN curve ELSE CurveStep(curve, 1, TRUE)
          /\ calc' = [calc EXCEPT !.kind = kind, !.step = 0]
          /\ gstate' = IF kind = "VALUE" THEN "TRACE" ELSE "ASK"
  /\ IF kind = "VALUE" THEN TraceTo ELSE UNCHANGED <<view, stale>>
  /\ UNCHANGED <<Elsewhere, fit>>

(* Up and down on a question: another curve, a function every time *)
AskCurve ==
  /\ AskingForCurve \/ (Asking(CalcKinds \ TwoCurves) /\ calc.step = 0)
  /\ \E dir \in {-1, 1} : curve' = CurveStep(curve, dir, TRUE)
  /\ UNCHANGED <<Elsewhere, gstate, calc, result, view, stale, fit>>

(* ENTER on FIRST CURVE? and SECOND CURVE?, which must be another *)
PickFirst ==
  /\ AskingForCurve /\ calc.step = 0
  /\ calc' = [calc EXCEPT !.step = 1, !.c1 = curve]
  /\ curve' = CurveStep(curve, 1, TRUE)
  /\ UNCHANGED <<Elsewhere, gstate, result, view, stale, fit>>

PickSecond ==
  /\ AskingForCurve /\ calc.step = 1 /\ curve # calc.c1
  /\ calc' = [calc EXCEPT !.step = 2, !.c2 = curve]
  /\ curve' = IF calc.kind = "AREA" THEN calc.c1 ELSE curve
  /\ IF calc.kind = "AREA" THEN TraceTo ELSE UNCHANGED <<view, stale>>
  /\ UNCHANGED <<Elsewhere, gstate, result, fit>>

(* What calc_finish leaves drawn, on the curves as they are defined now *)
Found ==
  LET on(cs) == [i \in DOMAIN cs |-> Def(words[cs[i]].word)]
      drawnOn(kind, cs) == [kind |-> kind, a |-> cs[1], b |-> IF Len(cs) = 2 THEN cs[2] ELSE 0, on |-> on(cs), since |-> FALSE]
  IN CASE calc.kind = "INTEGRAL" -> drawnOn("shade", <<curve>>)
       [] calc.kind = "AREA" -> drawnOn("shade", <<calc.c1, calc.c2>>)
       [] calc.kind = "TANGENT" -> drawnOn("tangent", <<curve>>)
       [] OTHER -> result

(* calc_accept_x with calc_finish: a bound more, or the answer, if there is one *)
AcceptX ==
  /\ Asking(CalcKinds) /\ ~AskingForCurve
  /\ TraceTo
  /\ calc' = [calc EXCEPT !.step = @ + 1]
  /\ IF calc.step + 1 < CalcSteps(calc.kind)
     THEN UNCHANGED <<gstate, curve, result>>
     ELSE /\ gstate' = "TRACE"
          /\ \/ UNCHANGED <<curve, result>>
             \/ /\ curve' = IF calc.kind \in TwoCurves THEN calc.c1 ELSE curve
                /\ result' = Found
  /\ UNCHANGED <<Elsewhere, fit>>

(* MENU's free cursor *)
ToolFree ==
  /\ InGraph /\ gstate' = "FREE"
  /\ UNCHANGED <<Elsewhere, curve, calc, result, view, stale, fit>>

-----------------------------------------------------------------------------
(* Y= and WINDOW *)

SlotStored(w, s) == [store EXCEPT !.slots[w] = s]

(* Mutant: slot_declare without graph_clear_results *)
SlotSetKeeping(w, s) ==
  /\ slots' = [slots EXCEPT ![w] = s]
  /\ store' = SlotStored(w, s)
  /\ edits' = edits + 1
  /\ UNCHANGED <<page, under, prog, angle, drawn, gstate, curve, calc, result, view, plotView, ranges,
                 stale, pstale, fit, untold>>

(* slot_declare, which clears what was found, and slot_save *)
SlotSet(w, s) ==
  /\ slots' = [slots EXCEPT ![w] = s]
  /\ store' = SlotStored(w, s)
  /\ result' = NoResult
  /\ edits' = edits + 1
  /\ UNCHANGED <<page, under, prog, angle, drawn, gstate, curve, calc, view, plotView, ranges,
                 stale, pstale, fit, untold>>

(* slot_write: on when it gets a body it did not have, off when emptied *)
SlotWrite(w, b) ==
  /\ page = "PLOT" /\ edits < MaxEdits
  /\ SlotSet(w, [body |-> b, on |-> ShapeOf[b] # "none" /\ (ShapeOf[slots[w].body] = "none" \/ slots[w].on)])

(* TO Y on a regression: the first empty slot *)
ResultToSlot(b) ==
  /\ page = "STAT" /\ edits < MaxEdits
  /\ LET empty == {i \in DOMAIN SlotWords : ShapeOf[slots[SlotWords[i]].body] = "none"}
     IN /\ empty # {}
        /\ b \in Typed[SlotWords[Min(empty)]] /\ ShapeOf[b] = "curve"
        /\ SlotSet(SlotWords[Min(empty)], [body |-> b, on |-> b \notin Broken])

(* ON switches a slot without declaring it again *)
SlotToggle(w) ==
  /\ page = "PLOT" /\ ShapeOf[slots[w].body] # "none" /\ edits < MaxEdits
  /\ slots' = [slots EXCEPT ![w].on = ~@] /\ edits' = edits + 1
  /\ store' = SlotStored(w, slots'[w])
  /\ UNCHANGED <<page, under, prog, angle, drawn, gstate, curve, calc, result, view, plotView, ranges,
                 stale, pstale, fit, untold>>

WindowSaved == [store EXCEPT !.view = plotView', !.ranges = ranges']

(* STAT on Y='s menu, and the list editor's way back *)
StatOpen ==
  /\ page = "PLOT" /\ page' = "STAT"
  /\ UNCHANGED <<under, setup, drawn, gstate, curve, calc, result, view, window, stale, pstale, fit, untold>>

StatEsc ==
  /\ page = "STAT" /\ page' = "PLOT"
  /\ UNCHANGED <<under, setup, drawn, gstate, curve, calc, result, view, window, stale, pstale, fit, untold>>

(* MENU's WINDOW *)
WindowOpen ==
  /\ page \in {"GRAPH", "PLOT"}
  /\ under' = page /\ page' = "WINDOW"
  /\ UNCHANGED <<setup, drawn, gstate, curve, calc, result, view, window, stale, pstale, fit, untold>>

WindowEsc ==
  /\ page = "WINDOW" /\ page' = under
  /\ UNCHANGED <<under, setup, drawn, gstate, curve, calc, result, view, window, stale, pstale, fit, untold>>

(* window_set of an edge: of the graph's window, or of the one kept for Y= *)
WindowSetEdge ==
  /\ page = "WINDOW"
  /\ \E v \in Windows :
       IF under = "GRAPH"
       THEN Moved(v) /\ plotView' = IF graphReturn # "CALC" THEN v ELSE plotView
       ELSE plotView' = v /\ UNCHANGED <<view, stale>>
  /\ UNCHANGED ranges
  /\ store' = WindowSaved
  /\ UNCHANGED <<page, under, setup, drawn, gstate, curve, calc, result, pstale, fit, untold>>

(* Mutant: a range set without graph_points_stale *)
WindowSetRangeQuiet ==
  /\ page = "WINDOW"
  /\ ranges' \in Ranges
  /\ IF under = "GRAPH"
     THEN Moved(view) /\ plotView' = IF graphReturn # "CALC" THEN view ELSE plotView
     ELSE UNCHANGED <<view, stale, plotView>>
  /\ store' = WindowSaved
  /\ UNCHANGED <<page, under, setup, drawn, gstate, curve, calc, result, pstale, fit, untold>>

(* window_set of a t or theta range, the graph's window copied to Y='s as for an edge *)
WindowSetRange ==
  /\ page = "WINDOW"
  /\ ranges' \in Ranges /\ pstale' = TRUE
  /\ IF under = "GRAPH"
     THEN Moved(view) /\ plotView' = IF graphReturn # "CALC" THEN view ELSE plotView
     ELSE UNCHANGED <<view, stale, plotView>>
  /\ store' = WindowSaved
  /\ UNCHANGED <<page, under, setup, drawn, gstate, curve, calc, result, fit, untold>>

-----------------------------------------------------------------------------
(* The rest of the machine *)

(* The GRAPH key, which is Y= where a page has no GRAPH of its own; ESC from Y=; a line and back *)
GoTo(p) ==
  /\ \/ page \in {"CALC", "LINE", "GRAPH", "GRAPH3", "STAT"} /\ p = "PLOT"
     \/ page \in {"PLOT", "LINE"} /\ p = "CALC"
     \/ page = "CALC" /\ p = "LINE"
  /\ page' = p
  /\ UNCHANGED <<under, setup, drawn, gstate, curve, calc, result, view, window, stale, pstale, fit, untold>>

(* A program edited, or the angle set, and back to the page it was left from *)
ProgramChanged(w, b) ==
  /\ edits < MaxEdits /\ prog[w] # b
  /\ prog' = [prog EXCEPT ![w] = b] /\ edits' = edits + 1
  /\ untold' = TRUE /\ result' = Since(result)
  /\ UNCHANGED <<page, under, slots, angle, drawn, gstate, curve, calc, view, window, stale, pstale, fit>>

AngleChanged ==
  /\ edits < MaxEdits
  /\ angle' = (IF angle = "RAD" THEN "DEG" ELSE "RAD") /\ edits' = edits + 1
  /\ untold' = TRUE
  /\ UNCHANGED <<page, under, slots, prog, drawn, gstate, curve, calc, result, view, window, stale, pstale, fit>>

(* Off and on again: slots_restore and window_restore; the rest is as calloc left it *)
Restart ==
  /\ page' = "CALC" /\ under' = "CALC" /\ graphReturn' = "CALC"
  /\ slots' = store.slots /\ plotView' = store.view /\ ranges' = store.ranges
  /\ words' = <<>> /\ samples' = <<>> /\ statplot' = FALSE
  /\ gstate' = "PAN" /\ curve' = 1 /\ calc' = NoCalc /\ result' = NoResult
  /\ view' = Standard /\ stale' = FALSE /\ pstale' = FALSE /\ fit' = FALSE
  /\ untold' = FALSE
  /\ UNCHANGED <<prog, angle, store, edits>>

(* A machine switched on with any slots but surfaces, those with a body on, in the standard window *)
GraphInit ==
  /\ page = "CALC" /\ under = "CALC" /\ graphReturn = "CALC"
  /\ slots \in {s \in [Slots -> [body : Bodies, on : BOOLEAN]] :
                  \A w \in Slots : /\ s[w].body \in Typed[w] /\ ShapeOf[s[w].body] # "surface"
                                   /\ s[w].on = (ShapeOf[s[w].body] # "none")}
  /\ prog = [w \in Programs |-> CHOOSE b \in Typed[w] : ShapeOf[b] = "curve"]
  /\ angle = "RAD" /\ edits = 0 /\ untold = FALSE
  /\ words = <<>> /\ samples = <<>> /\ statplot = FALSE
  /\ gstate = "PAN" /\ curve = 1 /\ calc = NoCalc /\ result = NoResult
  /\ view = Standard /\ plotView = Standard
  /\ ranges = (CHOOSE r \in Ranges : TRUE)
  /\ store = [view |-> plotView, ranges |-> ranges, slots |-> slots]
  /\ stale = FALSE /\ pstale = FALSE /\ fit = FALSE

GraphNext ==
  \/ \E w \in Slots \cup Programs : WordGraph(w) \/ WordGraph3(w)
  \/ PlotGraph \/ StatGraph \/ GrGraph \/ PageGraph \/ GraphRefresh \/ Graph3Refresh
  \/ GraphEsc \/ Graph3Esc \/ TraceKey \/ TraceMove \/ TraceCurve \/ FreeMove \/ PlusMinus
  \/ \E k \in Zooms : GraphZoom(k) \/ ZoomFromPage(k)
  \/ BoxAccept
  \/ \E k \in CalcKinds : CalcStart(k)
  \/ AskCurve \/ PickFirst \/ PickSecond \/ AcceptX \/ ToolFree
  \/ \E w \in Slots : SlotToggle(w) \/ \E b \in Typed[w] : SlotWrite(w, b)
  \/ \E b \in Bodies : ResultToSlot(b)
  \/ WindowOpen \/ WindowEsc \/ WindowSetEdge \/ WindowSetRange
  \/ StatOpen \/ StatEsc \/ \E p \in {"CALC", "LINE", "PLOT"} : GoTo(p)
  \/ \E w \in Programs : \E b \in Typed[w] : ProgramChanged(w, b)
  \/ AngleChanged \/ Restart

GraphSpec == GraphInit /\ [][GraphNext]_graphVars

-----------------------------------------------------------------------------
(* Properties *)

(* What is on screen was sampled of the curves as they are: once the repaint has *)
(* nothing left to take, every curve's samples are of its body, window, ranges and *)
(* angle now.  A program or the angle changed since the curves were opened is the  *)
(* exception: nothing tells the repaint of it.                                     *)
SamplesCurrent ==
  page = "GRAPH" /\ ~stale /\ ~pstale /\ ~untold =>
    \A i \in DOMAIN words : samples[i] = SampleOf(i)

(* A question is asked of functions that are plotted: the curve it is on, and for  *)
(* two curves the first picked and then another.                                   *)
AsksOfFunctions ==
  Asking(CalcKinds) =>
    /\ IsFunction(curve)
    /\ calc.kind \in TwoCurves =>
         /\ calc.step >= 1 => IsFunction(calc.c1)
         /\ calc.step >= 2 => IsFunction(calc.c2) /\ calc.c1 # calc.c2

(* An area or a tangent on the graph is of the curves it was found on, still       *)
(* plotted and still the same bodies, as long as no program changed and no surface *)
(* has been plotted since.                                                         *)
ResultIsTheirs ==
  page = "GRAPH" /\ result # NoResult =>
    LET cs == IF result.b = 0 THEN <<result.a>> ELSE <<result.a, result.b>>
    IN \A i \in DOMAIN cs : cs[i] \in DOMAIN words /\ Def(words[cs[i]].word) = result.on[i]

ResultIsTheirsSoFar == ~result.since => ResultIsTheirs

(* The window, the ranges and the slots a restart gives back are those in use: every *)
(* change of them is written down by the key that makes it.                          *)
KeptIsStored ==
  store.view = plotView /\ store.ranges = ranges /\ store.slots = slots

(* CALC, while it asks and once it has answered, is of the curves it is about: the *)
(* two above.                                                                      *)
CalcIsOfItsCurves == AsksOfFunctions /\ ResultIsTheirsSoFar
=============================================================================
