-------------------------------- MODULE Pages --------------------------------
(***************************************************************************)
(* Which page the shell shows, and where each page goes back to.           *)
(*                                                                         *)
(* The shell keeps no stack of pages: each page has one field that says    *)
(* where ESC leads (list_from, about_from, page_from, edit_from, ...), set *)
(* when it opens.  A page opened a second time, over itself or over a page *)
(* it was opened from, overwrites the first answer.  Around that are the   *)
(* number typed on the input row, which takes every key while it is open,  *)
(* the flags by which a page asks before it destroys something, and the    *)
(* loop in which a program shows a page of its own and waits for it.       *)
(*                                                                         *)
(* What the pages show (rows, curves, text) is abstracted to the choices   *)
(* it offers; a word evaluated may do whatever a word can do to the page.  *)
(***************************************************************************)
EXTENDS Naturals, FiniteSets

Modes == {"calc", "line", "list", "edit", "about", "settings", "debug", "graph",
          "graph3", "plot", "plot_edit", "menu", "window", "table", "stat",
          "result", "output"}

\* The fields of qdos_shell that name the page to go back to.
Returns == {"list", "about", "page", "edit", "menu", "window", "table", "stat",
            "graph", "output"}

Menus == {"zoom", "calc", "graph_tools", "plot_tools", "format", "stat_calc",
          "stat_plot", "app", "custom"}

Fields == {"none", "window", "trace_x", "calc", "table_start", "table_step",
           "stat", "name_new", "name_from", "ask", "text"}

\* What one key asks and the next does: a flag per page that asks, and the
\* editor's pending sign.
Flags == {"delete", "drop", "clear", "minus"}

VARIABLES
    mode,    \* the page shown
    from,    \* for each of Returns, the page it goes back to
    menu,    \* which menu the menu page shows
    field,   \* what the number or name being typed is for
    all,     \* the list page is the catalog
    dirty,   \* the editor's text is not saved
    armed,   \* the flags that are up
    app,     \* a program is "none", "runs", shows a "page" or "asks" for a field
    home,    \* modal_home: the page a program's own page is left for
    rows     \* result_count: the result page has rows

vars == <<mode, from, menu, field, all, dirty, armed, app, home, rows>>

TypeOK ==
    /\ mode \in Modes
    /\ from \in [Returns -> Modes]
    /\ menu \in Menus
    /\ field \in Fields
    /\ all \in BOOLEAN
    /\ dirty \in BOOLEAN
    /\ armed \subseteq Flags
    /\ app \in {"none", "runs", "page", "asks"}
    /\ home \in Modes
    /\ rows \in BOOLEAN

\* qdos_shell_create: the structure is zeroed, and CALC is the first mode.
Init ==
    /\ mode = "calc" /\ from = [r \in Returns |-> "calc"]
    /\ menu = "zoom" /\ field = "none" /\ all = FALSE /\ dirty = FALSE
    /\ armed = {} /\ app = "none" /\ home = "calc" /\ rows = FALSE

-----------------------------------------------------------------------------
(* Keys reach a page when no field is open and no program is between pages. *)

ModalDone == \/ app = "page" /\ mode = home
             \/ app = "asks" /\ field = "none"

KeysRead == app # "runs" /\ ~ModalDone

On(m) == KeysRead /\ field = "none" /\ mode = m

\* modal_refuses: the keys that would lead from a program's page elsewhere.
Global == KeysRead /\ field = "none"
Free == Global /\ app = "none"

Back(r, m) == [from EXCEPT ![r] = m]
Stay == UNCHANGED <<menu, field, all, dirty, armed, app, home>>
Goes(m) == mode' = m /\ UNCHANGED from

-----------------------------------------------------------------------------
(* The keys every page has: APPS and CAT, PLOT, SET, LOG and INFO.          *)

ListOpen(every) ==
    /\ Free /\ mode # "list"
    /\ all' = every /\ from' = Back("list", mode) /\ mode' = "list"
    /\ UNCHANGED <<menu, field, dirty, armed, app, home>>

PlotOpen == Free /\ mode \notin {"plot", "window", "table", "stat"} /\ Goes("plot") /\ Stay

SettingsOpen ==
    /\ Free /\ mode # "settings"
    /\ from' = IF mode = "debug" THEN from ELSE Back("page", mode)
    /\ mode' = "settings" /\ Stay

\* Mutant: LOG from SET remembers SET.
DebugOpenOver == Free /\ mode # "debug" /\ from' = Back("page", mode) /\ mode' = "debug" /\ Stay

DebugOpen ==
    /\ Free /\ mode # "debug"
    /\ from' = IF mode = "settings" THEN from ELSE Back("page", mode)
    /\ mode' = "debug" /\ Stay

AboutOpen == Free /\ mode # "about" /\ from' = Back("about", mode) /\ mode' = "about" /\ Stay

GlobalKey == (\E every \in BOOLEAN : ListOpen(every)) \/ PlotOpen \/ SettingsOpen \/ DebugOpen \/ AboutOpen

-----------------------------------------------------------------------------
(* A word evaluated with page h on the screen.  It may leave the page as it *)
(* is, print more than a line (absorb_output opens OUTPUT over h), plot a   *)
(* word (graph and graph3 go back to CALC, gr::graph to h), open the editor *)
(* (native_edit), or be an app, whose pages are waited for.                 *)

EditOpen(h) == IF h = "edit" THEN from ELSE Back("edit", h)

Evaluated(h, d) ==
    /\ \/ mode' = h /\ dirty' = d /\ app' \in {"none", "runs"} /\ UNCHANGED from
       \/ mode' = "output" /\ from' = Back("output", h) /\ dirty' = d /\ UNCHANGED app
       \/ mode' \in {"graph", "graph3"} /\ from' \in {Back("graph", "calc"), Back("graph", h)}
          /\ dirty' = d /\ UNCHANGED app
       \/ mode' = "edit" /\ from' = EditOpen(h) /\ dirty' = FALSE /\ UNCHANGED app
    /\ UNCHANGED <<menu, field, all, home>>

CalcWord == On("calc") /\ app = "none" /\ Evaluated("calc", dirty) /\ UNCHANGED armed
EnterLine == On("calc") /\ Goes("line") /\ Stay
LeaveLine == On("line") /\ Goes("calc") /\ Stay

\* submit; a line opened by typing a word in the calculator is closed once run.
Submit == On("line") /\ app = "none"
          /\ \E h \in {"line", "calc"} : Evaluated(h, dirty) /\ UNCHANGED armed

-----------------------------------------------------------------------------
(* A program between its pages (plot_and_wait, native_gr_graph, native_menu, *)
(* native_pause, ask_number, native_input), and the loop it waits in.        *)

AppPlots ==
    /\ app = "runs"
    /\ mode' \in {"graph", "graph3"} /\ from' = Back("graph", mode)
    /\ home' = mode /\ app' = "page"
    /\ UNCHANGED <<menu, field, all, dirty, armed>>

AppMenu ==
    /\ app = "runs"
    /\ mode' = "menu" /\ menu' = "custom" /\ from' = Back("menu", mode)
    /\ home' = mode /\ app' = "page"
    /\ UNCHANGED <<field, all, dirty, armed>>

AppPause ==
    /\ app = "runs"
    /\ mode' = "output" /\ from' = Back("output", mode)
    /\ home' = mode /\ app' = "page"
    /\ UNCHANGED <<menu, field, all, dirty, armed>>

\* Asked over the calculator, whose page has the input row; `home' here is the
\* local the word keeps, modal_home being left alone.
AppAsks ==
    /\ app = "runs"
    /\ mode' = "calc" /\ home' = mode /\ app' = "asks" /\ field' \in {"ask", "text"}
    /\ UNCHANGED <<from, menu, all, dirty, armed>>

\* modal_run's loop test, and the tail of the word that called it.
ModalEnds ==
    /\ ModalDone
    /\ app' = "runs" /\ mode' = home /\ field' = IF app = "asks" THEN "none" ELSE field
    /\ UNCHANGED <<from, menu, all, dirty, armed, home>>

\* POWER held the loop up no longer: the word fails, and so does the app.
ModalBreaks ==
    /\ app \in {"page", "asks"}
    /\ app' = "none" /\ mode' = home /\ field' = IF app = "asks" THEN "none" ELSE field
    /\ UNCHANGED <<from, menu, all, dirty, armed, home>>

\* The app's word returns to whatever evaluated it; what it printed is shown.
AppEnds ==
    /\ app = "runs" /\ app' = "none"
    /\ \/ UNCHANGED <<mode, from>>
       \/ mode' = "output" /\ from' = Back("output", mode)
    /\ UNCHANGED <<menu, field, all, dirty, armed, home>>

AppStep == AppPlots \/ AppMenu \/ AppPause \/ AppAsks \/ ModalEnds \/ ModalBreaks \/ AppEnds

-----------------------------------------------------------------------------
(* The number or name on the input row.                                     *)

Typing == KeysRead /\ field # "none"
Close == field' = "none" /\ UNCHANGED <<mode, from, menu, all, dirty, armed, app, home>>

\* Refused text keeps the field open, and ENTER on an empty one of most kinds
\* closes it; a number accepted goes to field_commit.
FieldEnter == Typing /\ field # "name_new" /\ Close
FieldClear == Typing /\ Close

\* name_commit on NEW: the field closes and the editor opens on the name.
NameNew ==
    /\ Typing /\ field = "name_new"
    /\ field' = "none" /\ from' = EditOpen(mode) /\ mode' = "edit" /\ dirty' = FALSE
    /\ UNCHANGED <<menu, all, armed, app, home>>

FieldKey == FieldEnter \/ FieldClear \/ NameNew

FieldOpen(m, kinds) ==
    /\ On(m) /\ field' \in kinds
    /\ UNCHANGED <<mode, from, menu, all, dirty, armed, app, home>>

-----------------------------------------------------------------------------
(* APPS and CATALOG.                                                        *)

Disarm == armed' = armed \ {"delete"}
ListKey == On("list") /\ Disarm /\ UNCHANGED <<menu, dirty, home>>

ListTab == ListKey /\ all' = ~all /\ UNCHANGED <<mode, from, field, app>>

\* list_run: a line is gone back to, anything else becomes the calculator.
ListHome == IF from["list"] = "line" THEN "line" ELSE "calc"
ListRun == On("list") /\ ~all /\ Evaluated(ListHome, dirty) /\ Disarm

\* A catalog word acts at once from the calculator; elsewhere it is typed.
ListApply == On("list") /\ all /\ from["list"] = "calc" /\ Evaluated("calc", dirty) /\ Disarm
ListPick == ListKey /\ ~(all /\ from["list"] = "calc") /\ Goes("line") /\ UNCHANGED <<field, all, app>>

ListNew == ListKey /\ ~all /\ field' = "name_new" /\ UNCHANGED <<mode, from, all, app>>

ListMenu ==
    /\ On("list") /\ ~all /\ Disarm
    /\ menu' = "app" /\ from' = Back("menu", "list") /\ mode' = "menu"
    /\ UNCHANGED <<field, all, dirty, app, home>>

ListEdit ==
    /\ On("list") /\ ~all /\ Disarm
    /\ from' = EditOpen("list") /\ mode' = "edit" /\ dirty' = FALSE
    /\ UNCHANGED <<menu, field, all, app, home>>

\* list_drop on a program of the user's: the first press asks, the second does.
Drops == armed' = IF "delete" \in armed THEN armed \ {"delete"} ELSE armed \cup {"delete"}
ListDel == On("list") /\ ~all /\ Drops /\ UNCHANGED <<mode, from, menu, field, all, dirty, app, home>>

ListLeave == ListKey /\ Goes(from["list"]) /\ UNCHANGED <<field, all, app>>

ListPage ==
    \/ ListTab \/ ListApply \/ ListPick \/ ListNew \/ ListMenu \/ ListDel \/ ListLeave
    \/ ListRun \/ ListEdit

-----------------------------------------------------------------------------
(* The editor.                                                              *)

EditKey == On("edit") /\ UNCHANGED <<menu, all, home>>
NoFlags == armed \ {"drop", "minus"}

\* Any key that changes the text, the minus key leaving a sign pending.
EditType ==
    /\ EditKey /\ dirty' = TRUE
    /\ armed' \in {NoFlags, NoFlags \cup {"minus"}}
    /\ UNCHANGED <<mode, from, field, app>>

\* edit_save when it succeeds, and any key that changes nothing.
EditSave == EditKey /\ dirty' \in {dirty, FALSE} /\ armed' = NoFlags /\ UNCHANGED <<mode, from, field, app>>

\* edit_run saves what needs it, and then runs the word with the editor open.
EditRun == On("edit") /\ app = "none" /\ Evaluated("edit", FALSE) /\ armed' = NoFlags

EditEsc ==
    /\ EditKey /\ UNCHANGED <<field, dirty, app>>
    /\ IF dirty /\ "drop" \notin armed
       THEN armed' = NoFlags \cup {"drop"} /\ UNCHANGED <<mode, from>>
       ELSE armed' = NoFlags /\ Goes(from["edit"])

EditPage == EditType \/ EditSave \/ EditRun \/ EditEsc

-----------------------------------------------------------------------------
(* SETTINGS, LOG, INFO and OUTPUT have one way out each.                    *)

SettingsLeave == On("settings") /\ Goes(from["page"]) /\ Stay
DebugLeave == On("debug") /\ Goes(from["page"]) /\ Stay
AboutLeave == On("about") /\ Goes(from["about"]) /\ Stay
OutputLeave == On("output") /\ Goes(from["output"]) /\ Stay

InfoPage == SettingsLeave \/ DebugLeave \/ AboutLeave \/ OutputLeave

-----------------------------------------------------------------------------
(* The pages that draw.                                                     *)

\* plot_graph and its callers: from STAT it goes back there, and from anywhere
\* else to Y=; with no curve on, the page stays as it was.
PlotGraph(m, surfaces) ==
    /\ mode' \in {"graph"} \cup surfaces
    /\ from' = Back("graph", IF m = "stat" THEN "stat" ELSE "plot")

MenuOpen(m, id) == menu' = id /\ from' = Back("menu", m) /\ mode' = "menu"
                   /\ UNCHANGED <<field, all, dirty, armed, app, home>>

\* page_graph and menu_to_graph: the graph under the page, or the slots afresh.
ToGraph(under) == IF under = "graph" THEN Goes("graph")
                  ELSE PlotGraph(under, {}) \/ Goes(under)

\* GRAPH on the pages that have it as their own; the loop refuses it on Y=.
PlotKeyGraph == On("plot") /\ app = "none" /\ PlotGraph("plot", {"graph3"}) /\ Stay
WindowGraph == On("window") /\ ToGraph(from["window"]) /\ Stay
TableGraph == On("table") /\ ToGraph(from["table"]) /\ Stay
StatGraph == On("stat") /\ PlotGraph("stat", {}) /\ Stay

PlotEditOpen == On("plot") /\ Goes("plot_edit") /\ Stay
PlotMenu == On("plot") /\ MenuOpen("plot", "plot_tools")
PlotLeave == On("plot") /\ Goes("calc") /\ Stay
PlotEditLeave == On("plot_edit") /\ Goes("plot") /\ Stay
\* A slot is typed with the line's keys, and MODE among them leaves the line.
PlotEditMode == On("plot_edit") /\ Goes("calc") /\ Stay

GraphMenu == On("graph") /\ \E id \in {"zoom", "calc", "graph_tools"} : MenuOpen("graph", id)
GraphLeave == On("graph") /\ Goes(from["graph"]) /\ Stay
Graph3Leave == On("graph3") /\ Goes(from["graph"]) /\ Stay
GraphField == FieldOpen("graph", {"trace_x", "calc"})

WindowField == FieldOpen("window", {"window"})
WindowLeave == On("window") /\ Goes(from["window"]) /\ Stay
TableField == FieldOpen("table", {"table_start", "table_step"})
TableLeave == On("table") /\ Goes(from["table"]) /\ Stay

StatKey == On("stat") /\ UNCHANGED <<menu, all, dirty, app, home>>
StatField == StatKey /\ field' = "stat" /\ armed' = armed \ {"clear"} /\ UNCHANGED <<mode, from>>
StatClear ==
    /\ StatKey /\ UNCHANGED <<mode, from, field>>
    /\ armed' = IF "clear" \in armed THEN armed \ {"clear"} ELSE armed \cup {"clear"}
StatMenu ==
    /\ On("stat") /\ armed' = armed \ {"clear"}
    /\ menu' \in {"stat_calc", "stat_plot"} /\ from' = Back("menu", "stat") /\ mode' = "menu"
    /\ UNCHANGED <<field, all, dirty, app, home>>
StatLeave == StatKey /\ armed' = armed \ {"clear"} /\ Goes(from["stat"]) /\ UNCHANGED field
ResultLeave == On("result") /\ Goes("stat") /\ Stay

DrawPage ==
    \/ PlotKeyGraph \/ WindowGraph \/ TableGraph \/ StatGraph
    \/ PlotEditOpen \/ PlotMenu \/ PlotLeave \/ PlotEditLeave \/ PlotEditMode
    \/ GraphMenu \/ GraphLeave \/ Graph3Leave \/ GraphField
    \/ WindowField \/ WindowLeave \/ TableField \/ TableLeave
    \/ StatField \/ StatClear \/ StatMenu \/ StatLeave \/ ResultLeave

-----------------------------------------------------------------------------
(* The menu page.  Nested menus go back where the first was opened from.    *)

Picks(id) == On("menu") /\ menu = id
MenuStay == UNCHANGED <<field, all, dirty, armed, app, home>>

MenuZoom == Picks("zoom") /\ ToGraph(from["menu"]) /\ UNCHANGED menu /\ MenuStay

\* calc_start; VALUE asks for x on the input row.
MenuCalc == Picks("calc") /\ Goes("graph") /\ field' \in {"none", "calc"}
            /\ UNCHANGED <<menu, all, dirty, armed, app, home>>

MenuTools ==
    /\ menu \in {"graph_tools", "plot_tools"} /\ On("menu") /\ MenuStay
    /\ \/ mode' = "window" /\ from' = Back("window", from["menu"]) /\ UNCHANGED menu
       \/ mode' = "table" /\ from' = Back("table", from["menu"]) /\ UNCHANGED menu
       \/ menu' \in {"format", "stat_plot"} /\ UNCHANGED <<mode, from>>
       \/ menu = "graph_tools" /\ Goes("graph") /\ UNCHANGED menu
       \/ menu = "plot_tools" /\ menu' = "zoom" /\ UNCHANGED <<mode, from>>
       \/ menu = "plot_tools" /\ mode' = "stat" /\ from' = Back("stat", from["menu"]) /\ UNCHANGED menu

\* Mutant: the rows are emptied before anything is known to be wrong, with the page shown already.
MenuStatCalcEarly ==
    Picks("stat_calc") /\ mode' = "result" /\ rows' \in BOOLEAN /\ UNCHANGED <<from, menu>> /\ MenuStay

\* stat_calc: the old rows go first; new ones and their page, or the reason why not, on the lists.
MenuStatCalc ==
    /\ Picks("stat_calc") /\ rows' \in BOOLEAN /\ mode' = (IF rows' THEN "result" ELSE "stat")
    /\ UNCHANGED <<from, menu>> /\ MenuStay
MenuStatPlot == Picks("stat_plot") /\ ToGraph(from["menu"]) /\ UNCHANGED menu /\ MenuStay
MenuCustom == Picks("custom") /\ Goes(from["menu"]) /\ UNCHANGED menu /\ MenuStay

\* app_act, with the mode already LIST: digits get here without disarming.
MenuAppRun == Picks("app") /\ ~all /\ Evaluated(ListHome, dirty) /\ UNCHANGED armed
MenuAppEdit ==
    /\ Picks("app") /\ ~all
    /\ from' = EditOpen("list") /\ mode' = "edit" /\ dirty' = FALSE
    /\ UNCHANGED <<menu, field, all, armed, app, home>>
\* RENAME and COPY ask for a name; INFO, and whatever cannot be done, do not.
MenuAppName == Picks("app") /\ Goes("list") /\ field' \in {"name_from", "none"}
               /\ UNCHANGED <<menu, all, dirty, armed, app, home>>
MenuAppDelete ==
    /\ Picks("app") /\ ~all /\ Drops
    /\ mode' = IF "delete" \in armed THEN "list" ELSE "menu"
    /\ UNCHANGED <<from, menu, field, all, dirty, app, home>>

MenuMove == On("menu") /\ "delete" \in armed /\ Disarm
            /\ UNCHANGED <<mode, from, menu, field, all, dirty, app, home>>
MenuLeave == On("menu") /\ Disarm /\ Goes(from["menu"]) /\ UNCHANGED <<menu, field, all, dirty, app, home>>

MenuPage ==
    \/ MenuZoom \/ MenuCalc \/ MenuTools \/ MenuStatPlot \/ MenuCustom
    \/ MenuAppRun \/ MenuAppEdit \/ MenuAppName \/ MenuAppDelete \/ MenuMove \/ MenuLeave

-----------------------------------------------------------------------------
Next ==
    \/ MenuStatCalc
    \/ /\ \/ GlobalKey \/ CalcWord \/ EnterLine \/ LeaveLine \/ Submit \/ AppStep
          \/ FieldKey \/ ListPage \/ EditPage \/ InfoPage \/ DrawPage \/ MenuPage
       /\ UNCHANGED rows

Spec == Init /\ [][Next]_vars

-----------------------------------------------------------------------------
(* Where ESC leads, page by page, and pressed n times from where we are.    *)

EscFrom ==
    [m \in Modes |->
        CASE m \in {"calc", "line", "plot"} -> "calc"
          [] m \in {"settings", "debug"} -> from["page"]
          [] m \in {"graph", "graph3"} -> from["graph"]
          [] m = "plot_edit" -> "plot"
          [] m = "result" -> "stat"
          [] OTHER -> from[m]]

Esc(S) == S \cup {EscFrom[m] : m \in S}
AfterFrom(m) == LET twice(S) == Esc(Esc(S))
                    often(S) == twice(twice(twice(S)))
                IN often(often(often({m})))
After == AfterFrom(mode)

Drawing == {"graph", "graph3", "plot", "plot_edit", "window", "table", "stat", "result"}

(* No page is its own way back: whatever was opened over whatever, ESC on a  *)
(* page other than the calculator shows another page (handle_mode_key and    *)
(* the pages' own CLEAR).                                                    *)
EscMoves == mode # "calc" => EscFrom[mode] # mode

(* A page a program opened can be left: from every page the user can reach   *)
(* inside modal_run, ESC alone leads to the page the loop waits for, so the  *)
(* word that opened it gets to return.                                       *)
ModalLeads == app = "page" => home \in After

(* The pages that draw lead out of themselves: however GRAPH, WINDOW, TABLE, *)
(* STAT and their menus were reached from one another, ESC does not go round *)
(* among them.                                                               *)
DrawingLeadsOut == mode \in Drawing => ~(After \subseteq Drawing \cup {"menu"})

(* The result page is never shown without rows, however it is come back to:  *)
(* its arrows go round them by a remainder (handle_result_key).              *)
ResultHasRows == mode = "result" => rows

(* A field is typed over the page it was opened on, and a program's over the *)
(* calculator: no field is left open over a page that knows nothing of it.   *)
FieldOnItsPage ==
    field # "none" =>
        mode = CASE field = "window" -> "window"
                 [] field \in {"trace_x", "calc"} -> "graph"
                 [] field \in {"table_start", "table_step"} -> "table"
                 [] field = "stat" -> "stat"
                 [] field \in {"name_new", "name_from"} -> "list"
                 [] OTHER -> "calc"

(* ESC backs out of anything: pressed often enough it reaches the calculator *)
(* from every page.  It does not: a page opened over one that it was itself  *)
(* opened from goes round.                                                   *)
EscLeadsHome == app = "none" => "calc" \in After

(* Unsaved text is given up only by saving it or after ESC has asked: no     *)
(* step opens the editor on something else over it.                          *)
EditsKept == [][dirty /\ ~dirty' => mode = "edit" /\ field = "none"]_vars

(* What was asked about is what is done: the flag by which a page asks once  *)
(* is down whenever that page is not the one on the screen.                  *)
AskedHere ==
    /\ "delete" \in armed => mode \in {"list", "menu"}
    /\ "drop" \in armed => mode = "edit"
    /\ "clear" \in armed => mode = "stat"

(* The three above: ESC leads somewhere else, out of the pages that draw,   *)
(* and to the page that a program which opened one waits for.               *)
EscLeads == EscMoves /\ DrawingLeadsOut /\ ModalLeads
=============================================================================
