------------------------------- MODULE Editor -------------------------------
(***************************************************************************)
(* The program editor: a text buffer with one step back, the keys that     *)
(* type into it, and its way to the card.                                  *)
(*                                                                         *)
(* A key may type several characters (a word with a space either side), a  *)
(* run of typing is one step of UNDO however many keys it took, and a      *)
(* digit after the minus key takes back what that key typed.  The text is  *)
(* a sequence of cells, a character or an unbroken part of a word each;    *)
(* the word `minus' has two cells and so takes three backspaces with its   *)
(* space.  The comment mark is one cell, and escapes in strings are left   *)
(* out.                                                                    *)
(***************************************************************************)
EXTENDS TextCells

CONSTANTS
    PROGRAM_MAX,   \* QDOS_PROGRAM_MAX, in cells: a text is shorter than this
    EDIT_ROWS,     \* rows the editor's pane has
    Sources,       \* the texts a program may have on the card
    Chars,         \* the characters that are typed
    MaxKeys        \* bound: keys pressed

NoText == <<"no text">>
MinusWord == <<"mi", "nus">>
Template == <<"fn", "{", NL, TAB, NL, "}">>

ASSUME EditorAssumption ==
    /\ PROGRAM_MAX \in Nat \ {0} /\ EDIT_ROWS \in Nat \ {0} /\ MaxKeys \in Nat
    /\ \A s \in Sources : s \in Seq(STRING) /\ Len(s) < PROGRAM_MAX
    /\ NoText \notin Sources /\ Len(Template) < PROGRAM_MAX /\ Chars \subseteq STRING

VARIABLES
    ed,        \* the buffer: text, cursor, dirty, and the step back
    top,       \* ed_top: the first line shown
    minus,     \* edit_minus: a digit next makes a sign of the minus
    armed,     \* drop_armed: ESC was pressed once on unsaved text
    page,      \* "edit", or "away" on a page over it or after it
    card,      \* the program's text on the card, or NoText
    opened,    \* ghost: the text as it was opened or last saved
    before,    \* ghost: text and cursor before the minus key just pressed
    base,      \* ghost: text and cursor shown before the present run of edits
    run,       \* ghost: what the keys of the run do
    clean,     \* ghost: every sign took back its own minus and nothing else
    keys       \* keys pressed

editorVars == <<ed, top, minus, armed, page, card, opened, before, base, run, clean, keys>>

-----------------------------------------------------------------------------
(* The buffer, editor.c.                                                    *)

LineStart(t, at) == Max({0} \cup {i \in 1..at : t[i] = NL})
LineEnd(t, at) == Min({Len(t)} \cup {i - 1 : i \in {j \in at + 1..Len(t) : t[j] = NL}})
Lines(t) == 1 + Cardinality({i \in 1..Len(t) : t[i] = NL})
LineOf(t, at) == Cardinality({i \in 1..at : t[i] = NL})

Here(e) == <<e.text, e.cursor>>

Checkpoint(e, op) ==
    IF op = e.op THEN e ELSE [e EXCEPT !.undo = Here(e), !.can = TRUE, !.op = op]

\* Cells put one after another; those the buffer has no room for are dropped.
Put(e, cells) ==
    LET fit == Min({Len(cells), PROGRAM_MAX - 1 - Len(e.text)})
    IN  IF fit = 0 THEN e
        ELSE [e EXCEPT !.text = SubSeq(@, 1, e.cursor) \o SubSeq(cells, 1, fit)
                                    \o SubSeq(@, e.cursor + 1, Len(@)),
                       !.cursor = @ + fit, !.dirty = TRUE]

DeleteBack(e) == [e EXCEPT !.text = RemoveAt(@, e.cursor), !.cursor = @ - 1, !.dirty = TRUE]

Open(source) ==
    [text |-> IF source = NoText THEN Template ELSE source,
     cursor |-> IF source = NoText THEN Len(Template) - 2 ELSE 0,
     dirty |-> FALSE, undo |-> <<<<>>, 0>>, can |-> FALSE, op |-> "none"]

\* A closing brace on a blank line takes one level of indent back.
Insert(e, c) ==
    LET k == Checkpoint(e, "insert")
        outdents == /\ c = "}" /\ k.cursor > 0 /\ k.text[k.cursor] = TAB
                    /\ \A i \in LineStart(k.text, k.cursor) + 1..k.cursor : Blank(k.text[i])
    IN  Put(IF outdents THEN DeleteBack(k) ELSE k, <<c>>)

\* Insert for each cell of a word: no word has a brace in it.
InsertAll(e, cells) == Put(Checkpoint(e, "insert"), cells)

Backspace(e) == IF e.cursor = 0 THEN e ELSE DeleteBack(Checkpoint(e, "delete"))

\* The indent of this line, and a level more after an opening brace.
Newline(e) ==
    LET start  == LineStart(e.text, e.cursor)
        line   == SubSeq(e.text, start + 1, e.cursor)
        solid  == {i \in DOMAIN line : ~Blank(line[i])}
        indent == SubSeq(line, 1, IF solid = {} THEN Len(line) ELSE Min(solid) - 1)
        opens  == solid # {} /\ line[Max(solid)] = "{"
    IN  Put(Checkpoint([e EXCEPT !.op = "none"], "insert"),
            <<NL>> \o indent \o (IF opens THEN <<TAB>> ELSE <<>>))

\* Mutant: what UNDO puts on the screen counts as saved.
UndoUntouched(e) ==
    IF ~e.can THEN e
    ELSE [e EXCEPT !.text = e.undo[1], !.cursor = e.undo[2], !.undo = Here(e), !.op = "none"]

Undo(e) ==
    IF ~e.can THEN e
    ELSE [e EXCEPT !.text = e.undo[1], !.cursor = e.undo[2], !.undo = Here(e),
                   !.op = "none", !.dirty = TRUE]

\* The first cell of a line that is not blank.
Goto(e, line) ==
    LET starts == {i \in 0..Len(e.text) : LineStart(e.text, i) = i /\ LineOf(e.text, i) = line}
        from   == IF starts = {} THEN Len(e.text) ELSE Min(starts)
    IN  [e EXCEPT !.cursor = Min({Len(e.text)} \cup
                       {i \in from..Len(e.text) - 1 : ~Blank(e.text[i + 1])}),
                  !.op = "none"]

\* The cursor in a line of its own, at the column it had where that fits.
AtColumn(from, to, col) == from + Min({col, to - from})

Moved(e, dx, dy) ==
    LET t     == e.text
        start == LineStart(t, e.cursor)
        end   == LineEnd(t, e.cursor)
        col   == e.cursor - start
    IN  CASE dx < 0 -> IF e.cursor > 0 THEN e.cursor - 1 ELSE e.cursor
          [] dx > 0 -> IF e.cursor < Len(t) THEN e.cursor + 1 ELSE e.cursor
          [] dy < 0 -> IF start = 0 THEN e.cursor
                       ELSE AtColumn(LineStart(t, start - 1), start - 1, col)
          [] OTHER  -> IF end >= Len(t) THEN e.cursor
                       ELSE AtColumn(end + 1, LineEnd(t, end + 1), col)

Move(e, dx, dy) == [e EXCEPT !.cursor = Moved(e, dx, dy), !.op = "none"]

-----------------------------------------------------------------------------
(* The keys, shell.c.                                                       *)

\* edit_scroll_into_view
ScrollIntoView(e) ==
    LET line == LineOf(e.text, e.cursor)
    IN  top' = IF line < top THEN line
               ELSE IF line >= top + EDIT_ROWS THEN line - (EDIT_ROWS - 1) ELSE top

CellBefore(e) == IF e.cursor > 0 THEN e.text[e.cursor] ELSE NL
SpaceAfter(e) == e.cursor < Len(e.text) /\ e.text[e.cursor + 1] = " "
StartsToken(e) == CellBefore(e) \in {" ", NL, TAB}

\* edit_insert_word: a space either side but never two, one that is there being
\* stepped over, which ends the run of typing.
InsertWord(e, word) ==
    LET typed == InsertAll(e, (IF StartsToken(e) THEN <<>> ELSE <<" ">>) \o word)
    IN  IF SpaceAfter(typed) THEN Move(typed, 1, 0) ELSE Insert(typed, " ")

\* What a key does to the ghosts: it goes on with a run of its kind or begins one.
RunOf(kind, e) ==
    /\ base' = IF run = kind THEN base ELSE Here(ed)
    /\ run' = IF e.op = "none" THEN "none" ELSE kind

Key == page = "edit" /\ keys < MaxKeys /\ keys' = keys + 1
\* Every key but ESC disarms it; every key ends the wait for a sign.
Plain == minus' = FALSE /\ armed' = FALSE
NotASign == Key /\ Plain
Kept == UNCHANGED <<page, card, opened>>
Shows(e) == ed' = e /\ ScrollIntoView(e)

TypeChar(c) ==
    /\ NotASign /\ ~(minus /\ c \in Digits)
    /\ Shows(Insert(ed, c)) /\ RunOf("insert", ed') /\ Kept /\ UNCHANGED <<before, clean>>

\* A key on the keypad that types a word, and the operators typed on a keyboard
\* or in a string or a comment, which are themselves.
TypeWord(word) ==
    /\ NotASign
    /\ Shows(InsertWord(ed, word)) /\ RunOf("insert", ed') /\ Kept /\ UNCHANGED <<before, clean>>

TypeOperator(symbol) ==
    /\ NotASign
    /\ Shows(Insert(ed, symbol)) /\ RunOf("insert", ed') /\ Kept /\ UNCHANGED <<before, clean>>

\* edit_operator for the minus key.
MinusKey ==
    /\ Key /\ armed' = FALSE
    /\ ~Literal(ed.text, ed.cursor)
    /\ Shows(InsertWord(ed, MinusWord))
    /\ minus' = (StartsToken(ed) /\ ~SpaceAfter(ed))
    /\ before' = Here(ed) /\ RunOf("insert", ed') /\ Kept /\ UNCHANGED clean

LiteralMinus == Literal(ed.text, ed.cursor) /\ TypeOperator("-")

\* edit_minus_fixup: the sign and its digit for what the minus key typed.
MinusTakenBack(e) == Backspace(Backspace(Backspace(e)))
Signed(e, c) == InsertAll(MinusTakenBack(e), <<"-", c>>)

Signs(c) ==
    /\ Key /\ Plain /\ minus
    /\ Shows(Signed(ed, c))
    /\ base' = before /\ run' = "insert"
    /\ clean' = (clean /\ Here(MinusTakenBack(ed)) = before)
    /\ Kept /\ UNCHANGED before

Enter ==
    /\ NotASign
    /\ Shows(Newline(ed)) /\ base' = Here(ed) /\ run' = "insert"
    /\ Kept /\ UNCHANGED <<before, clean>>

Erase ==
    /\ NotASign
    /\ Shows(Backspace(ed))
    /\ IF ed.cursor = 0 THEN UNCHANGED <<base, run>> ELSE RunOf("delete", ed')
    /\ Kept /\ UNCHANGED <<before, clean>>

Moves(dx, dy) ==
    /\ NotASign
    /\ Shows(Move(ed, dx, dy)) /\ run' = "none"
    /\ Kept /\ UNCHANGED <<before, base, clean>>

UndoKey ==
    /\ NotASign
    /\ Shows(Undo(ed))
    /\ IF ed.can THEN base' = Here(ed) /\ run' = "none" ELSE UNCHANGED <<base, run>>
    /\ Kept /\ UNCHANGED <<before, clean>>

\* check_program: the text compiles or not, and the lint may point at a line.
Check ==
    /\ NotASign
    /\ \/ Shows(ed) /\ UNCHANGED run
       \/ \E line \in 0..Lines(ed.text) - 1 : Shows(Goto(ed, line)) /\ run' = "none"
    /\ Kept /\ UNCHANGED <<before, base, clean>>

-----------------------------------------------------------------------------
(* The card, and the way in and out.                                        *)

\* edit_save; it is refused when the text does not evaluate, is empty, or does
\* not go on the card.
Saves(done) ==
    /\ done => ed.text # <<>>
    /\ ed' = IF done THEN [ed EXCEPT !.dirty = FALSE] ELSE ed
    /\ card' = IF done THEN ed.text ELSE card
    /\ opened' = IF done THEN ed.text ELSE opened

Save ==
    /\ NotASign
    /\ \E done \in BOOLEAN : Saves(done)
    /\ ScrollIntoView(ed) /\ UNCHANGED <<page, before, base, run, clean>>

\* edit_open, which resets neither edit_minus nor drop_armed.
Opened(source) ==
    /\ ed' = Open(source) /\ opened' = Open(source).text
    /\ page' = "edit"
    /\ top' = LET line == LineOf(Open(source).text, Open(source).cursor)
              IN  IF line >= EDIT_ROWS THEN line - (EDIT_ROWS - 1) ELSE 0
    /\ base' = Here(Open(source)) /\ run' = "none" /\ clean' = clean

\* edit_run: what needs it is saved first, and the word may leave the page or
\* open the editor on another program (native_edit).
NeedsSave == ed.dirty \/ card = NoText

Run ==
    /\ NotASign
    /\ \/ /\ NeedsSave /\ Saves(FALSE) /\ ScrollIntoView(ed)
          /\ UNCHANGED <<page, base, run, clean>>
       \/ /\ IF NeedsSave THEN Saves(TRUE) ELSE UNCHANGED <<ed, card, opened>>
          /\ page' \in {"edit", "away"}
          /\ IF page' = "edit" THEN ScrollIntoView(ed) ELSE UNCHANGED top
          /\ UNCHANGED <<base, run, clean>>
       \/ /\ NeedsSave => ed.text # <<>>
          /\ \E source \in Sources : Opened(source) /\ card' = source
    /\ UNCHANGED before

Esc ==
    /\ Key /\ minus' = FALSE
    /\ IF ed.dirty /\ ~armed
       THEN armed' = TRUE /\ ScrollIntoView(ed) /\ UNCHANGED page
       ELSE armed' = FALSE /\ page' = "away" /\ UNCHANGED top
    /\ UNCHANGED <<ed, card, opened, before, base, run, clean>>

\* APPS and the other pages every page has: the editor sees no key of it.
PageOver ==
    /\ Key /\ page' = "away"
    /\ UNCHANGED <<ed, top, minus, armed, card, opened, before, base, run, clean>>

\* Back to the text as it was left, or on to a program, new or on the card.
Return ==
    /\ page = "away" /\ page' = "edit" /\ keys < MaxKeys /\ keys' = keys + 1
    /\ UNCHANGED <<ed, top, minus, armed, card, opened, before, base, run, clean>>

Edit ==
    /\ page = "away" /\ keys < MaxKeys /\ keys' = keys + 1
    /\ \E source \in Sources \cup {NoText} : Opened(source) /\ card' = source
    /\ UNCHANGED <<minus, armed, before>>

EditorInit ==
    /\ card \in Sources /\ ed = Open(card) /\ top = 0 /\ page = "edit"
    /\ minus = FALSE /\ armed = FALSE
    /\ opened = card /\ before = Here(ed) /\ base = Here(ed) /\ run = "none"
    /\ clean = TRUE /\ keys = 0

EditorNext ==
    \/ \E c \in Chars : TypeChar(c) \/ (c \in Digits /\ Signs(c))
    \/ TypeWord(<<"word">>) \/ MinusKey \/ LiteralMinus
    \/ Enter \/ Erase \/ UndoKey \/ Check
    \/ \E d \in {-1, 1} : Moves(d, 0) \/ Moves(0, d)
    \/ Save \/ Run \/ Esc \/ PageOver \/ Return \/ Edit

EditorSpec == EditorInit /\ [][EditorNext]_editorVars

-----------------------------------------------------------------------------
(* Properties.                                                              *)

\* UNDO goes back to the text and the cursor that were on the screen before the
\* present run of typing or of deleting (editor.h), whatever number of characters
\* and of keys the run was made of, and the sign of a number with it.
UndoIsBeforeTheRun == ed.can /\ clean => ed.undo = base

\* Text that counts as untouched is the text that was opened or saved, so ESC
\* never throws away an edit it has not asked about, UNDO after SAVE included.
UntouchedIsKept == ~ed.dirty => ed.text = opened

\* The cursor is in the pane, after every key and every program opened.
CursorInView ==
    page = "edit" =>
        /\ ed.cursor \in 0..Len(ed.text)
        /\ LineOf(ed.text, ed.cursor) \in top..top + EDIT_ROWS - 1

\* A digit after the minus key makes a sign of what that key typed, and takes
\* nothing else of the text (edit_minus: "the editor's last key typed minus").
SignTakesItsMinus == clean

\* What the editor keeps for its user: the three above, after every key.
EditorKeeps == UndoIsBeforeTheRun /\ UntouchedIsKept /\ CursorInView
=============================================================================
