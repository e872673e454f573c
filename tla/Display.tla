------------------------------- MODULE Display -------------------------------
(***************************************************************************)
(* A value in the columns its row has, as SETTINGS says to show it:        *)
(* format_value and what it calls.                                         *)
(*                                                                         *)
(* A number is a coefficient and a power of ten.  What is drawn is kept as *)
(* its digits read as one number, how many of them follow the point, and   *)
(* the exponent if it has one; its width is counted from those.  Numbers   *)
(* are ones a double holds exactly; the rounding is to even.               *)
(***************************************************************************)
EXTENDS Integers, Sequences, FiniteSetsExt, SequencesExt

CONSTANTS
    Coefficients, Powers, \* of the numbers shown
    Rooms,                \* columns a row can have
    Arrays,               \* arrays shown: the width of each element
    DECIMALS_MAX,
    SCI_PLACES,           \* places AUTO asks for in SCI (14) and ENG (12)
    ENG_PLACES,
    E_PLACES,             \* places of %e, first (9)
    DECIMAL_PLAIN_MAX,
    D128_DIGITS,          \* digits of a decimal, past which it has no quantum
    G_DIGITS,             \* digits up to which the interpreter writes a float out
    TEXT_MAX              \* QD_INTERP_VALUE_TEXT_MAX

DECIMALS_AUTO == -1

\* The shortest a number of any size can be, and an element, fit their places.
ASSUME DisplayAssumption ==
    /\ Coefficients \subseteq Nat /\ Powers \subseteq Int
    /\ \A r \in Rooms : r >= 5 /\ \A a \in Arrays : \A k \in DOMAIN a : r + a[k] + 3 < TEXT_MAX
    /\ DECIMALS_MAX < D128_DIGITS

VARIABLES
    value,     \* the value shown
    room,      \* columns it has
    notation,  \* "normal", "sci" or "eng"
    decimals   \* DECIMALS_AUTO, or how many to show

displayVars == <<value, room, notation, decimals>>

-----------------------------------------------------------------------------
(* Numbers.                                                                *)

Size(n) == CHOOSE k \in 1..10 : n < 10^k /\ (k = 1 \/ n >= 10^(k - 1))

\* How many digits come before the point, and the power of the first of them.
Point(x) == Size(x.c) + x.e
Leading(x) == IF x.c = 0 THEN 0 ELSE Point(x) - 1

\* qd_d128_quantize and printf's %.*f: the coefficient of x at the power e.
Coefficient(x, e) ==
    IF x.e >= e THEN x.c * 10^(x.e - e)
    ELSE LET unit == 10^(e - x.e)
             q == x.c \div unit
             r == x.c % unit
         IN  IF 2 * r > unit \/ (2 * r = unit /\ q % 2 = 1) THEN q + 1 ELSE q

\* qd_d128_reduce
Reduced(x) ==
    IF x.c = 0 THEN [x EXCEPT !.e = 0]
    ELSE LET k == Max({j \in 0..9 : x.c % 10^j = 0}) IN [x EXCEPT !.c = x.c \div 10^k, !.e = x.e + k]

-----------------------------------------------------------------------------
(* What is drawn.                                                          *)

Drawn(neg, c, places, sci, exp) == [neg |-> neg, c |-> c, places |-> places, sci |-> sci, exp |-> exp]

Columns10(n) == IF n < 0 THEN 1 + Size(-n) ELSE Size(n)

Width(d) ==
    (IF d.neg THEN 1 ELSE 0) + Max({Size(d.c), d.places + 1}) + (IF d.places > 0 THEN 1 ELSE 0)
    + (IF d.sci THEN 1 + Columns10(d.exp) ELSE 0)

FitsRow(d) == Width(d) <= room

\* Trailing zeros go from the places, and the point with the last of them.
Stripped(d) ==
    LET k == Max({j \in 0..d.places : d.c % 10^j = 0})
    IN  [d EXCEPT !.c = d.c \div 10^k, !.places = d.places - k]

\* Mutant: what rounding makes of 9.996 is left as it is.
FormatExponentUncarried(x, eng) ==
    LET auto == decimals = DECIMALS_AUTO
        shown == IF auto THEN (IF eng THEN ENG_PLACES ELSE SCI_PLACES) ELSE decimals
        exp == IF eng THEN (Leading(x) \div 3) * 3 ELSE Leading(x)
        d == Drawn(x.neg, Coefficient([x EXCEPT !.e = @ - exp], -shown), shown, TRUE, exp)
    IN  IF auto THEN Stripped(d) ELSE d

\* 9.996 to two places is 1.00 of the next power up.
FormatExponent(x, eng) ==
    LET auto == decimals = DECIMALS_AUTO
        step == IF eng THEN 3 ELSE 1
        shown == IF auto THEN (IF eng THEN ENG_PLACES ELSE SCI_PLACES) ELSE decimals
        first == (Leading(x) \div step) * step
        carries == Coefficient([x EXCEPT !.e = @ - first], -shown) >= 10^(shown + step)
        exp == IF carries THEN first + step ELSE first
        d == Drawn(x.neg, Coefficient([x EXCEPT !.e = @ - exp], -shown), shown, TRUE, exp)
    IN  IF auto THEN Stripped(d) ELSE d

\* decimal_plain: the fraction padded out to the places asked for.
DecimalPlain(x, places) ==
    LET frac == Max({places, IF x.c = 0 THEN 0 ELSE -x.e, 0})
    IN  Drawn(x.neg, IF x.c = 0 THEN 0 ELSE x.c * 10^(x.e + frac), frac, FALSE, 0)

DecimalScientific(x) == Drawn(x.neg, x.c, Size(x.c) - 1, TRUE, Point(x) - 1)

\* printf's %.*e
FormatE(x, places) ==
    LET c == Coefficient(x, Leading(x) - places)
    IN  IF c >= 10^(places + 1) THEN Drawn(x.neg, c \div 10, places, TRUE, Leading(x) + 1)
                                ELSE Drawn(x.neg, c, places, TRUE, Leading(x))

\* The first of a list of attempts that fits, or the last.
FirstFit(attempts) ==
    LET fit == {k \in DOMAIN attempts : FitsRow(attempts[k])}
    IN  IF fit = {} THEN Last(attempts) ELSE attempts[Min(fit)]

\* decimal_round to every number of digits from all of them down, plain before
\* scientific.
DecimalAttempts(q) ==
    LET d == Reduced(q)
        rounded(n) == LET e == Point(d) - n IN Reduced([q EXCEPT !.c = Coefficient(q, e), !.e = e])
        both(n) ==
            LET r == rounded(n) IN
            IF Point(r) > -4 /\ Point(r) <= DECIMAL_PLAIN_MAX
            THEN <<DecimalPlain(r, 0), DecimalScientific(r)>> ELSE <<DecimalScientific(r)>>
    IN  FlattenSeq([k \in 1..Size(d.c) |-> both(Size(d.c) + 1 - k)])

FormatDecimal(q) ==
    LET c == Coefficient(q, -decimals)
        asked == IF notation # "normal" THEN <<FormatExponent(q, notation = "eng")>>
                 ELSE IF decimals # DECIMALS_AUTO /\ Size(c) <= D128_DIGITS
                 THEN <<DecimalPlain([q EXCEPT !.c = c, !.e = -decimals], decimals)>> ELSE <<>>
    IN  FirstFit(asked \o DecimalAttempts(q))

\* qd_interp_peek's text of a number.
InterpText(x) ==
    LET r == Reduced(x) IN
    IF x.t = "int" \/ Leading(x) \in -4..(G_DIGITS - 1) THEN DecimalPlain(r, 0) ELSE DecimalScientific(r)

FormatValue(x) ==
    IF x.t = "dec" THEN FormatDecimal(x)
    ELSE FirstFit(<<IF notation # "normal" THEN FormatExponent(x, notation = "eng")
                    ELSE IF decimals = DECIMALS_AUTO THEN InterpText(x)
                    ELSE Drawn(x.neg, Coefficient(x, -decimals), decimals, FALSE, 0)>>
                  \o [k \in 1..E_PLACES + 1 |-> FormatE(x, E_PLACES + 1 - k)])

\* format_array: the elements written out, as far as the buffer goes, or where
\* the row is too short what shape it is.
FormatArray(items) ==
    LET used(k) == FoldLeft(LAMBDA n, i : n + items[i] + (IF i > 1 THEN 1 ELSE 0), 1, [i \in 1..k |-> i])
        written == Max({k \in 0..Len(items) : \A i \in 1..k : used(i) + 2 <= TEXT_MAX})
    IN  IF used(written) + 1 > room THEN [shape |-> TRUE, said |-> Len(items)]
                                    ELSE [shape |-> FALSE, said |-> written]

-----------------------------------------------------------------------------
(* SETTINGS changes how, and the value stays.                              *)

Numbers10 ==
    {[t |-> t, neg |-> neg, c |-> c, e |-> e] :
     t \in {"int", "flt", "dec"}, neg \in BOOLEAN, c \in Coefficients, e \in Powers}

DisplayInit ==
    /\ value \in {x \in Numbers10 : (x.t = "int" => x.e = 0) /\ (x.c = 0 => ~x.neg)}
                 \cup {[t |-> "arr", items |-> a] : a \in Arrays}
    /\ room \in Rooms /\ notation = "normal" /\ decimals = DECIMALS_AUTO

\* setting_step
StepNotation ==
    /\ notation' \in CASE notation = "normal" -> {"sci", "eng"}
                       [] notation = "sci"    -> {"eng", "normal"}
                       [] OTHER               -> {"normal", "sci"}
    /\ UNCHANGED <<value, room, decimals>>

StepDecimals ==
    /\ \/ decimals' = IF decimals >= DECIMALS_MAX THEN DECIMALS_AUTO ELSE decimals + 1
       \/ decimals' = IF decimals <= DECIMALS_AUTO THEN DECIMALS_MAX ELSE decimals - 1
    /\ UNCHANGED <<value, room, notation>>

\* FIX 4 is typed, not stepped to.
TypeDecimals == decimals' \in 0..DECIMALS_MAX /\ UNCHANGED <<value, room, notation>>

\* handle_settings_key on the two rows that change how a number is shown; the keys
\* that move between rows and leave the page show nothing else.
HandleSettingsKey == StepNotation \/ StepDecimals \/ TypeDecimals

DisplayNext == HandleSettingsKey

-----------------------------------------------------------------------------
\* Half the last place drawn, or less, is what x and d differ by.
Near(x, d) ==
    LET last == d.exp - d.places
        low == Min({last, x.e})
        diff == x.c * 10^(x.e - low) - d.c * 10^(last - low)
    IN  2 * (IF diff < 0 THEN -diff ELSE diff) <= 10^(last - low)

(* What is drawn can be read back: no digit of it is wrong by more than the  *)
(* rounding of the last one, in every notation, at every number of decimals  *)
(* and in every row; an exponent's mantissa has its one digit, or ENG's one  *)
(* to three; nothing runs off the row; and an array is drawn whole or as its *)
(* shape (format_value, format_decimal, format_exponent, format_array).      *)
ShownRight ==
    IF value.t = "arr" THEN FormatArray(value.items).said = Len(value.items)
    ELSE LET d == FormatValue(value)
             eng == d = FormatExponent(value, TRUE) /\ notation = "eng"
         IN  /\ FitsRow(d) /\ d.neg = value.neg /\ Near(value, d)
             /\ d.sci /\ d.c # 0 => Size(d.c) - d.places \in 1..(IF eng THEN 3 ELSE 1)
             /\ eng => d.exp % 3 = 0
=============================================================================
