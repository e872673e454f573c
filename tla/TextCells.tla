------------------------------ MODULE TextCells ------------------------------
(***************************************************************************)
(* What the editor and the input line know of a text.  A cell is a         *)
(* character or an unbroken part of a word.                                *)
(***************************************************************************)
EXTENDS Integers, Sequences, FiniteSets, SequencesExt, FiniteSetsExt

NL == "nl"
TAB == "tab"
Digits == {"5", "4"}
Blank(c) == c \in {" ", TAB}

\* text_is_literal: in a string, or in a comment up to the end of its line.
Literal(t, at) ==
    LET state[i \in 0..at] ==
            IF i = 0 THEN "code"
            ELSE CASE state[i - 1] = "comment" -> IF t[i] = NL THEN "code" ELSE "comment"
                   [] state[i - 1] = "string"  -> IF t[i] = "quote" THEN "code" ELSE "string"
                   [] t[i] = "quote"           -> "string"
                   [] t[i] = "//"              -> "comment"
                   [] OTHER                    -> "code"
    IN  state[at] # "code"

\* The members of a sequence at some of its places, in their order.
AtPlaces(s, places) ==
    [n \in 1..Cardinality(places) |->
        s[Max({i \in places : Cardinality({j \in places : j < i}) < n})]]
=============================================================================
