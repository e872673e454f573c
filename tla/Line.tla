-------------------------------- MODULE Line --------------------------------
(***************************************************************************)
(* The line of Quadrate: what the keys type into it, what ENTER makes of   *)
(* it, the lines entered before, and the completion of a word.             *)
(*                                                                         *)
(* The keypad's operators type words, each with a space either side, and   *)
(* a minus followed by a digit, a second minus or `>' is taken back and    *)
(* typed as a sign.  The line also edits a Y= body, where the operators    *)
(* are their symbols and UP and DOWN are not the history.  What evaluating *)
(* a line does to the stack is in Calculator, which pages may open over it *)
(* in Pages.  Cells are as in Editor; escapes in strings are left out.     *)
(***************************************************************************)
EXTENDS TextCells

CONSTANTS
    INPUT_MAX,     \* in cells: a line is shorter than this
    HISTORY_MAX,   \* lines kept
    LISTING,       \* matches that fit the listing on the input row
    Typeable,      \* the characters that are typed
    Vocabulary,    \* the words qd_interp_visit_words visits, in its order
    MaxPressed        \* bound: keys pressed

ASSUME LineAssumption ==
    /\ INPUT_MAX \in Nat \ {0} /\ HISTORY_MAX \in Nat \ {0} /\ LISTING \in Nat \ {0}
    /\ MaxPressed \in Nat
    /\ Typeable \subseteq STRING /\ Vocabulary \in Seq(Seq(STRING))

VARIABLES
    line,      \* input and input_cursor
    sign,      \* line_minus: the last key typed a minus that may be a sign
    past,      \* history
    at,        \* history_at
    mode,      \* "calc", "line" or "plot_edit"
    once,      \* line_once: closed again when it has run
    entered,   \* ghost: the lines that were evaluated, in order
    minused,   \* ghost: the line before the minus key just pressed
    pressed    \* keys pressed

lineVars == <<line, sign, past, at, mode, once, entered, minused, pressed>>

Empty == [text |-> <<>>, cursor |-> 0]
Letters == {"s", "i", "n", "e", "mi", "nus"}

-----------------------------------------------------------------------------
(* The buffer.                                                              *)

\* input_append: all of a text or none of it.
Append_(l, cells) ==
    IF Len(l.text) + Len(cells) >= INPUT_MAX THEN l
    ELSE [text |-> SubSeq(l.text, 1, l.cursor) \o cells \o SubSeq(l.text, l.cursor + 1, Len(l.text)),
          cursor |-> l.cursor + Len(cells)]

Erased(l) == IF l.cursor = 0 THEN l
             ELSE [text |-> RemoveAt(l.text, l.cursor), cursor |-> l.cursor - 1]

Before(l) == IF l.cursor > 0 THEN l.text[l.cursor] ELSE " "
After(l) == IF l.cursor < Len(l.text) THEN l.text[l.cursor + 1] ELSE "end"
InLiteral(l) == Literal(l.text, l.cursor)

\* input_word: a space either side but never two.
Word(l, word) ==
    LET a == IF Before(l) \in {" ", NL} THEN l ELSE Append_(l, <<" ">>)
        b == Append_(a, word)
    IN  IF After(b) \in {" ", NL} THEN [b EXCEPT !.cursor = @ + 1] ELSE Append_(b, <<" ">>)

AfterExponent(l) == l.cursor >= 2 /\ l.text[l.cursor] = "e" /\ l.text[l.cursor - 1] \in Digits

\* op_text: a Y= body has the symbol.
MinusText == IF mode = "plot_edit" THEN <<"-">> ELSE <<"mi", "nus">>

-----------------------------------------------------------------------------
(* Completion, complete.c.                                                  *)

WordCell(c) == c \in Letters \cup Digits

\* The word at the end of the line; a run that starts with a digit is a number.
PrefixOf(t) ==
    LET from == Max({0} \cup {i \in DOMAIN t : ~WordCell(t[i])})
        word == SubSeq(t, from + 1, Len(t))
    IN  IF word # <<>> /\ word[1] \in Digits THEN <<>> ELSE word

\* narrow_common
Shared(a, b) ==
    LET same == {i \in 0..Min({Len(a), Len(b)}) : SubSeq(a, 1, i) = SubSeq(b, 1, i)}
    IN  SubSeq(a, 1, Max(same))

NoMatches == [matches |-> 0, common |-> <<>>, listing |-> {}]

\* consider: a name already listed is the same word; the listing may be cut.
Consider(out, name) ==
    IF name \in out.listing THEN out
    ELSE [matches |-> out.matches + 1,
          common |-> IF out.matches = 0 THEN name ELSE Shared(out.common, name),
          listing |-> IF Cardinality(out.listing) < LISTING THEN out.listing \cup {name}
                      ELSE out.listing]

Complete(prefix) ==
    LET found[i \in 0..Len(Vocabulary)] ==
            IF i = 0 THEN NoMatches
            ELSE IF IsPrefix(prefix, Vocabulary[i]) THEN Consider(found[i - 1], Vocabulary[i])
            ELSE found[i - 1]
    IN  found[Len(Vocabulary)]

\* complete_word: the rest of what every match shares, at the cursor.
CompleteWord(l) ==
    LET prefix == PrefixOf(l.text)
        done   == Complete(prefix)
        longer == IF Len(done.common) > Len(prefix)
                  THEN Append_(l, SubSeq(done.common, Len(prefix) + 1, Len(done.common))) ELSE l
    IN  IF prefix = <<>> \/ done.matches = 0 THEN l
        ELSE IF done.matches = 1 THEN Append_(longer, <<" ">>)
        ELSE longer

-----------------------------------------------------------------------------
(* The history.                                                             *)

\* Mutant: a line entered again is kept again.
HistoryAddAgain(lines, text) == Append(IF Len(lines) = HISTORY_MAX THEN Tail(lines) ELSE lines, text)

\* history_add
HistoryAdd(lines, text) ==
    IF lines # <<>> /\ Last(lines) = text THEN lines
    ELSE Append(IF Len(lines) = HISTORY_MAX THEN Tail(lines) ELSE lines, text)

Recalled(i) == IF i > Len(past) THEN Empty ELSE [text |-> past[i], cursor |-> Len(past[i])]

-----------------------------------------------------------------------------
(* The keys, handle_line_key.  `at' is 1-based: past the newest is Len + 1. *)

LineKey == mode # "calc" /\ pressed < MaxPressed /\ pressed' = pressed + 1
NoHistory == at' = Len(past) + 1 /\ UNCHANGED <<past, entered>>
LineNotASign == LineKey /\ sign' = FALSE /\ UNCHANGED minused
Types(l) == LineNotASign /\ NoHistory /\ line' = l /\ UNCHANGED <<mode, once>>

\* line_minus_fixup applies: the minus the key typed is there before the cursor.
Meant == sign /\ LET n == Len(MinusText) + 1
                 IN  /\ line.cursor >= n
                     /\ SubSeq(line.text, line.cursor - n + 1, line.cursor) = MinusText \o <<" ">>

\* n backspaces, where there are n cells to take back.
Without(l, n) == [text |-> SubSeq(l.text, 1, l.cursor - n) \o SubSeq(l.text, l.cursor + 1, Len(l.text)),
                  cursor |-> l.cursor - n]

\* Mutant: one cell of the minus is left behind.
TakenBackShort(l) == Without(l, Len(MinusText))

TakenBack(l) == Without(l, Len(MinusText) + 1)

Fixup(cells) ==
    /\ LineKey /\ Meant
    /\ line' = Append_(Append_(TakenBack(line), <<"-">>), cells)
    /\ sign' = FALSE /\ UNCHANGED <<past, at, mode, once, entered, minused>>

\* A digit, a second minus key, or `>' right after the minus key.
Sign == \/ \E d \in Digits \cap Typeable : Fixup(<<d>>)
        \/ Fixup(<<"-", " ">>) \/ Fixup(<<">", " ">>)

\* A space where the keys have already left one would only be a second.
LineChar(c) ==
    /\ ~(Meant /\ c \in Digits \cup {">"})
    /\ Types(IF c = " " /\ Before(line) = " " /\ line.cursor > 0 /\ ~InLiteral(line)
             THEN line ELSE Append_(line, <<c>>))

LineWord(word) == Types(Word(line, word))

LineMinus ==
    /\ LineKey /\ ~Meant /\ NoHistory /\ UNCHANGED <<mode, once>>
    /\ IF InLiteral(line) \/ AfterExponent(line)
       THEN line' = Append_(line, <<"-">>) /\ sign' = FALSE /\ UNCHANGED minused
       ELSE /\ line' = Word(line, MinusText)
            /\ sign' = (Before(line) \in {" ", NL, "("})
            /\ minused' = line

Tab == Types(CompleteWord(line))
LineBackspace == Types(Erased(line))
LineMoves(d) == LET to == line.cursor + d
            IN  Types(IF to \in 0..Len(line.text) THEN [line EXCEPT !.cursor = to] ELSE line)

\* UP and DOWN; what was being typed is not kept.
HistoryStep(d) ==
    /\ LineNotASign /\ mode = "line"
    /\ at + d \in 1..Len(past) + 1
    /\ at' = at + d /\ line' = Recalled(at')
    /\ UNCHANGED <<past, mode, once, entered>>

-----------------------------------------------------------------------------
(* ENTER.                                                                   *)

\* input_is_complete: brackets closed, those in a string not counted; an open
\* string, and a bracket in a comment, count as text.
Quoted(t, i) == Cardinality({j \in 1..i : t[j] = "quote"}) % 2 = 1
Depth(t, c) == Cardinality({i \in DOMAIN t : t[i] = c /\ ~Quoted(t, i)})
IsComplete(t) == Depth(t, "(") <= Depth(t, ")")

\* infix_hint: numbers with an operator between them, spaced or not, are not
\* evaluated but answered with the RPN for them.
Tokens(t) ==
    LET starts == {i \in DOMAIN t : t[i] # " " /\ (i = 1 \/ t[i - 1] = " ")}
        endOf(i) == Min({Len(t)} \cup {j - 1 : j \in {k \in i + 1..Len(t) : t[k] = " "}})
    IN  [n \in 1..Cardinality(starts) |->
            LET i == CHOOSE s \in starts : Cardinality({r \in starts : r <= s}) = n
            IN  SubSeq(t, i, endOf(i))]

InfixNumber(w) == /\ \A i \in DOMAIN w : w[i] \in Digits \/ (w[i] = "-" /\ i = 1)
                  /\ \E i \in DOMAIN w : w[i] \in Digits
InfixOperator(w) == w \in {<<"-">>, <<"mi", "nus">>}

InfixHint(t) ==
    LET ws == Tokens(t)
        alternates == /\ Len(ws) >= 3 /\ Len(ws) % 2 = 1
                      /\ \A i \in DOMAIN ws : IF i % 2 = 1 THEN InfixNumber(ws[i])
                                              ELSE InfixOperator(ws[i])
        \* The first operator that is not a sign splits a token in two numbers.
        ops == {i \in 2..Len(ws[1]) - 1 : ws[1][i] = "-"}
    IN  \/ alternates
        \/ /\ Len(ws) = 1 /\ ops # {}
           /\ InfixNumber(SubSeq(ws[1], 1, Min(ops) - 1))
           /\ InfixNumber(SubSeq(ws[1], Min(ops) + 1, Len(ws[1])))

Closed == mode' = "calc" /\ once' = FALSE

\* submit: a line that fails, or is refused, stays to be corrected; one that ran,
\* or whose word took the screen over, is cleared.
LineEnter ==
    /\ LineNotASign /\ mode = "line"
    /\ CASE ~IsComplete(line.text) ->
              line' = Append_(line, <<NL>>) /\ NoHistory /\ UNCHANGED <<mode, once>>
         [] IsComplete(line.text) /\ (line.text = <<>> \/ InfixHint(line.text)) ->
              UNCHANGED <<line, past, entered>> /\ at' = Len(past) + 1
              /\ IF once /\ line.text = <<>> THEN Closed ELSE UNCHANGED <<mode, once>>
         [] OTHER ->
              /\ past' = HistoryAdd(past, line.text) /\ at' = Len(past') + 1
              /\ entered' = Append(entered, line.text)
              /\ \/ line' = line /\ UNCHANGED <<mode, once>>
                 \/ line' = Empty /\ IF once THEN Closed ELSE UNCHANGED <<mode, once>>

\* CLEAR empties the line first and leaves the mode second; MODE leaves at once.
Leave == line' = Empty /\ Closed
Clear == LineNotASign /\ NoHistory /\ mode = "line"
         /\ IF line.text # <<>> THEN line' = Empty /\ UNCHANGED <<mode, once>> ELSE Leave
ModeKey == LineNotASign /\ NoHistory /\ Leave

\* From the calculator: MODE or `:', a word typed straight in, or a Y= slot.
LineOpen ==
    /\ mode = "calc" /\ pressed < MaxPressed /\ pressed' = pressed + 1
    /\ \/ mode' = "line" /\ once' = FALSE /\ line' = Empty /\ UNCHANGED <<sign, at>>
       \/ \E c \in Typeable \ (Digits \cup {" "}) :
             mode' = "line" /\ once' = TRUE /\ line' = Append_(Empty, <<c>>)
             /\ sign' = FALSE /\ at' = Len(past) + 1
       \/ mode' = "plot_edit" /\ line' = Empty /\ UNCHANGED <<sign, at, once>>
    /\ UNCHANGED <<past, entered, minused>>

LineInit ==
    /\ line = Empty /\ sign = FALSE /\ past = <<>> /\ at = 1 /\ mode = "calc" /\ once = FALSE
    /\ entered = <<>> /\ minused = Empty /\ pressed = 0

LineNext ==
    \/ LineOpen \/ Sign \/ LineMinus \/ LineWord(<<"s", "i">>) \/ Tab \/ LineBackspace
    \/ \E c \in Typeable : LineChar(c)
    \/ \E d \in {-1, 1} : LineMoves(d) \/ HistoryStep(d)
    \/ LineEnter \/ Clear \/ ModeKey

LineSpec == LineInit /\ [][LineNext]_lineVars

-----------------------------------------------------------------------------
(* Properties.                                                              *)

\* The lines UP recalls are the last ones evaluated, newest first, a line
\* entered again at once being kept once.
Distinct(lines) == AtPlaces(lines, {i \in DOMAIN lines : i = 1 \/ lines[i] # lines[i - 1]})
HistoryIsWhatWasEntered ==
    /\ at \in 1..Len(past) + 1
    /\ LET all == Distinct(entered)
           from == Max({0, Len(all) - HISTORY_MAX})
       IN  past = SubSeq(all, from + 1, Len(all))

\* TAB at the end of the line types what all the words that begin so share, and
\* a space when there is one such word, however often it was declared.
Matching(prefix) == {w \in Range(Vocabulary) : IsPrefix(prefix, w)}
CommonOf(words) == CHOOSE c \in UNION {{SubSeq(w, 1, n) : n \in 0..Len(w)} : w \in words} :
    /\ \A w \in words : IsPrefix(c, w)
    /\ \A w \in words : \A n \in Len(c) + 1..Len(w) : \E v \in words : ~IsPrefix(SubSeq(w, 1, n), v)
TabTypesWhatIsShared ==
    LET t == line.text
        prefix == PrefixOf(t)
        words == Matching(prefix)
        whole == SubSeq(t, 1, Len(t) - Len(prefix)) \o CommonOf(words)
                 \o (IF Cardinality(words) = 1 THEN <<" ">> ELSE <<>>)
    IN  line.cursor = Len(t) /\ prefix # <<>> /\ words # {} /\ Len(whole) < INPUT_MAX
            => CompleteWord(line).text = whole

\* A minus key and what makes a sign of it put the sign where the minus key was
\* pressed, and take no other part of the line with them but a blank.
Solid(t) == AtPlaces(t, {i \in DOMAIN t : t[i] # " "})
SignKeepsTheRest ==
    [][\A d \in Digits \cap Typeable :
          Fixup(<<d>>) /\ Len(minused.text) + 6 < INPUT_MAX
             => Solid(line'.text) = Solid(SubSeq(minused.text, 1, minused.cursor)) \o <<"-", d>>
                     \o Solid(SubSeq(minused.text, minused.cursor + 1, Len(minused.text)))]_lineVars

\* What the line offers is what was entered and what is declared: UP's lines and
\* TAB's words, the two above.
LineOffers == HistoryIsWhatWasEntered /\ TabTypesWhatIsShared
=============================================================================
