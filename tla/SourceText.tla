----------------------------- MODULE SourceText ------------------------------
(***************************************************************************)
(* The text of a program copied under another name: qdos_source_rename.    *)
(* The name is changed where it is the word, and left alone in a comment,  *)
(* in a string, inside a longer word and in another module's scope.        *)
(* A text is a sequence of characters; Name and Other are its words.       *)
(***************************************************************************)
EXTENDS Integers, Sequences, FiniteSetsExt, SequencesExt

CONSTANTS
    SourceChars,     \* characters a text is made of
    WordChars,       \* the ones words are made of
    Name, Other,     \* the program's name and the one it is to have
    SourceCap,       \* the buffer the new text goes to
    MaxSource        \* bound on the text's length

ASSUME SourceAssumption ==
    /\ WordChars \subseteq SourceChars /\ Name \in Seq(WordChars) /\ Other \in Seq(WordChars)
    /\ Len(Name) = 1 /\ SourceCap \in Nat /\ MaxSource \in Nat

VARIABLE source

TooLong == <<"too long">>

\* What is at a place in a text, "" past its end.
Char(s, p) == IF p \in DOMAIN s THEN s[p] ELSE ""
Pair(s, p) == <<Char(s, p), Char(s, p + 1)>>
First(S, s) == IF S = {} THEN Len(s) + 1 ELSE Min(S)

\* Mutant: a backslash in a string keeps nothing from ending it.
StringEndPlain(s, p) == First({q + 1 : q \in {r \in (p + 1)..Len(s) : s[r] = "quote"}}, s)

\* Where the string opened at p ends; an escaped character is passed over.
StringEnd(s, p) ==
    LET from[q \in (p + 1)..(Len(s) + 1)] ==
            CASE q > Len(s) -> q
              [] s[q] = "quote" -> q + 1
              [] s[q] = "\\" /\ q < Len(s) -> from[q + 2]
              [] OTHER -> from[q + 1]
    IN  from[p + 1]

\* Where the run of one kind that starts at p ends.
RunEnd(s, p) ==
    CASE Pair(s, p) = <<"/", "/">> -> First({q \in p..Len(s) : s[q] = "nl"}, s)
      [] Pair(s, p) = <<"/", "*">> -> First({q + 2 : q \in {r \in (p + 2)..Len(s) : Pair(s, r) = <<"*", "/">>}}, s)
      [] s[p] = "quote"            -> StringEnd(s, p)
      [] s[p] \in WordChars        -> First({q \in p..Len(s) : s[q] \notin WordChars}, s)
      [] OTHER                     -> p + 1

\* Another module's scope, or a name inside one, is not this word.
IsScoped(s, p, q) == Pair(s, p - 2) = <<":", ":">> \/ Pair(s, q) = <<":", ":">>

SourceRename(s) ==
    LET out[p \in 1..(Len(s) + 1)] ==
            IF p > Len(s) THEN <<>>
            ELSE LET q == RunEnd(s, p)
                     run == SubSeq(s, p, q - 1)
                 IN  (IF run = Name /\ ~IsScoped(s, p, q) THEN Other ELSE run) \o out[q]
    IN  IF Len(out[1]) >= SourceCap THEN TooLong ELSE out[1]

SourceInit == source = <<>>

\* The text is whatever was written.
SourceNext == Len(source) < MaxSource /\ \E c \in SourceChars : source' = Append(source, c)

-----------------------------------------------------------------------------
\* What each character of a text is in: the language's own reading of it, one
\* character after the other.
Reading(s) ==
    LET in[i \in 0..Len(s)] ==
            IF i = 0 THEN "code"
            ELSE CASE in[i - 1] = "line"   -> IF s[i] = "nl" THEN "code" ELSE "line"
                   [] in[i - 1] = "open"   -> "block"
                   [] in[i - 1] = "block"  -> IF Pair(s, i) = <<"*", "/">> THEN "close" ELSE "block"
                   [] in[i - 1] = "close"  -> "code"
                   [] in[i - 1] = "escape" -> "string"
                   [] in[i - 1] = "string" -> IF s[i] = "quote" THEN "code" ELSE IF s[i] = "\\" THEN "escape" ELSE "string"
                   [] s[i] = "quote"       -> "string"
                   [] Pair(s, i) = <<"/", "/">> -> "line"
                   [] Pair(s, i) = <<"/", "*">> -> "open"
                   [] OTHER                -> "code"
    IN  in

(* A copy differs from the program in its name and in nothing else: the name *)
(* goes exactly where it stands as a word of its own, in code and unscoped,  *)
(* whatever comments and strings it stands between, and a text that no       *)
(* longer fits is refused rather than cut (qdos_source_rename).              *)
CopyRenamed ==
    LET in == Reading(source)
        word(i) == Char(source, i) \in WordChars
        named(i) == /\ in[i - 1] = "code" /\ source[i] = Name[1] /\ ~word(i - 1) /\ ~word(i + 1)
                    /\ ~IsScoped(source, i, i + 1)
        meant == FlattenSeq([i \in DOMAIN source |-> IF named(i) THEN Other ELSE <<source[i]>>])
    IN  SourceRename(source) = IF Len(meant) < SourceCap THEN meant ELSE TooLong
=============================================================================
