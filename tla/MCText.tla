------------------------------- MODULE MCText -------------------------------
(* What is typed on the machine: a formula (Infix), a program (Editor), a     *)
(* line (Line), the words they all come down to (Words), the keyboard the     *)
(* keys come from (Keyboard); and how what they leave is shown (Display) and  *)
(* a program's text copied (SourceText).  They share no state, so that a      *)
(* behaviour is one of them: `tool' says which, and the others stay as they   *)
(* began.                                                                     *)
EXTENDS Infix, Editor, Line, Words, Keyboard, Display, SourceText

VARIABLE tool

textVars == <<infixVars, editorVars, lineVars, wordsVars, keyboardVars, displayVars, source, tool>>

MCAlphabets == {
    {"2", "x", "-", "*", "^", "plus"},
    {"x", "(", ")", "-", "^", "sin"},
    {"x", "max", "(", ")", ","},
    {"2", "x", "sq", "pow", "sin", "-", "!"},
    {"x", "y", "t", "+", "dup", ","}}
MCMaxBody(a) == IF "max" \in a THEN 6 ELSE IF "^" \in a /\ "(" \in a THEN 5 ELSE 4

MCSources == {<<"{", NL, "5", " ", "}">>, <<"quote", " ", TAB, NL, TAB, "x", NL>>}
MCChars == {"5", "}", "quote"}

MCTypeable == {"5", "e", " ", "(", ")", "quote"}
MCVocabulary == <<<<"e", "s", "i">>, <<"s", "i", "n">>, <<"e", "s", "n">>, <<"s", "i", "n">>>>

MCPowers == -6..3
MCArrays == {<<>>, <<1>>, <<2, 3>>, <<1, 1, 1>>, <<3, 3, 3, 3>>, <<1, 3, 3, 3, 3, 3>>}

MCSourceChars == {"a", "b", ":", "/", "*", "quote", "\\", "nl"}
MCName == <<"a">>
MCOther == <<"b", "b">>

MCCodes == {"seven", "four", "kp7", "a"}

\* Integers of four bits, floats of two significant bits and decimals of three:
\* as with 64, 53 and 113, a product of integers outgrows a decimal and an
\* integer a float.
MCMantissa == [flt |-> 4, dec |-> 8]
MCExponent == [flt |-> 7, dec |-> 9]

\* -8, -3, 2 and 7; a half and the least number; 24 and 12, and a float's and a
\* decimal's largest number; a name; 1+i where it can be typed.
MCLiterals(d) ==
    {Whole(-8), Whole(-3), Whole(2), Whole(7), Str, Cpx(Unit, Unit)} \cup
    IF d THEN {Fin("dec", -1), Fin("dec", 3 * 2^7), Fin("dec", Largest("dec")), Fin("flt", Unit \div 2)}
         ELSE {Fin("flt", -1), Fin("flt", 3 * 2^6), Fin("flt", Largest("flt")), Fin("flt", Unit \div 2)}

\* Of two numbers one is a literal; beside a complex number, and
\* in one, only small numbers.
Small ==
    LET size(x) == IF x.t = "cpx" THEN Max({Mag(x.re), Mag(x.im)}) ELSE IF x.t = "str" THEN 0 ELSE Mag(x.v)
        simple(x) == x \in Literals(decimal)
    IN /\ Len(vals) = 2 => simple(vals[1]) \/ simple(vals[2])
       /\ (\E k \in DOMAIN vals : vals[k].t = "cpx") => \A k \in DOMAIN vals : size(vals[k]) <= Unit

TextInit ==
    /\ InfixInit /\ EditorInit /\ LineInit /\ WordsInit /\ KeyboardInit /\ DisplayInit /\ SourceInit
    /\ tool \in {"formula", "program", "line", "words", "keyboard", "display", "source"}
    /\ tool # "formula" => letters = {"x", "max", "(", ")", ","}
    /\ "(" \in letters => ~spaced
    /\ tool # "program" => Len(card) = 5
    /\ tool # "words" => decimal
    /\ tool # "keyboard" => layout = "us"
    /\ tool # "display" => value = [t |-> "arr", items |-> <<>>] /\ room = 5

\* What the tools other than one leave alone.
Others(t) ==
    /\ t # "formula" => UNCHANGED infixVars
    /\ t # "program" => UNCHANGED editorVars
    /\ t # "line" => UNCHANGED lineVars
    /\ t # "words" => UNCHANGED wordsVars
    /\ t # "keyboard" => UNCHANGED keyboardVars
    /\ t # "display" => UNCHANGED displayVars
    /\ t # "source" => UNCHANGED source

TextNext ==
    /\ UNCHANGED tool /\ Others(tool)
    /\ \/ tool = "formula" /\ InfixNext
       \/ tool = "program" /\ EditorNext
       \/ tool = "line" /\ LineNext
       \/ tool = "words" /\ WordsNext
       \/ tool = "keyboard" /\ KeyboardNext
       \/ tool = "display" /\ DisplayNext
       \/ tool = "source" /\ SourceNext

TextSpec == TextInit /\ [][TextNext]_textVars
=============================================================================
