-------------------------------- MODULE Words --------------------------------
(***************************************************************************)
(* The arithmetic words: an integer of fixed width stays one while the      *)
(* answer fits, anything else goes on in the machine's float or, with       *)
(* decimal on (as the shell has it; the word tests also run with it off),   *)
(* in decimal128, and a negative root may leave the reals.  From the keypad *)
(* a result with no finite value is refused and the arguments put back.     *)
(*                                                                         *)
(* A real number is a whole count of 1/Unit.  A float or a decimal is a     *)
(* significand times a power of two (the base makes no difference here),    *)
(* every result being rounded to the nearest; past the largest it has no    *)
(* finite value.  As in the program every float is a decimal and every      *)
(* integer a decimal, but not every integer a float.                        *)
(* ln, exp and the other transcendental words differ only in the library    *)
(* function behind them and are left out; exp2 stands for a word with no    *)
(* decimal counterpart.                                                     *)
(***************************************************************************)
EXTENDS Integers, Sequences, SequencesExt, FiniteSetsExt

CONSTANTS
    Unit,       \* counts to 1
    IntMax,     \* integers run from -IntMax - 1 to IntMax
    Mantissa,   \* a float's and a decimal's significands are below these
    Exponent,   \* ... and their exponents at most these
    FacWhole,   \* the largest factorial that fits an integer (20)
    FacFloat,   \* ... a float (170)
    FacDecimal, \* ... the decimal fac (1000)
    Quarter,    \* a right angle, in counts
    CpxRatio,   \* a part this many times smaller than the other is rounding
    MaxDepth    \* bound on the stack

IntMin == -IntMax - 1

ASSUME WordsAssumption ==
    /\ \A c \in {Mantissa, Exponent} : DOMAIN c = {"flt", "dec"} /\ c["flt"] <= c["dec"]
    /\ IntMax < Mantissa["dec"] /\ IntMax + 1 <= 2^Exponent["dec"]

VARIABLES
    vals,    \* the stack, the top last
    decimal, \* g_decimal
    cpxMode  \* g_mode: "real" or "rect"

wordsVars == <<vals, decimal, cpxMode>>

(***************************************************************************)
(* Numbers                                                                  *)
(***************************************************************************)
Whole(n) == [t |-> "int", fin |-> TRUE, v |-> n * Unit]
Fin(t, v) == [t |-> t, fin |-> TRUE, v |-> v]
Non(t) == [t |-> t, fin |-> FALSE, v |-> 0]
Cpx(re, im) == [t |-> "cpx", re |-> re, im |-> im]
Str == [t |-> "str"]

IsReal(x) == x.t \in {"int", "flt", "dec"}
Mag(n) == IF n < 0 THEN -n ELSE n
Largest(t) == (Mantissa[t] - 1) * 2^Exponent[t]
Fits(v) == v % Unit = 0 /\ v >= IntMin * Unit /\ v <= IntMax * Unit

\* The number of format t nearest to n / d, with the least exponent that holds it.
Rounded(t, n, d) ==
    LET p == Mag(n)
        q == Mag(d)
        e == CHOOSE k \in 0..Exponent[t] : p < Mantissa[t] * 2^k * q /\ (k = 0 \/ p >= Mantissa[t] * 2^(k - 1) * q)
        r == ((2 * p + q * 2^e) \div (2 * q * 2^e)) * 2^e
    IN IF p > Largest(t) * q THEN Non(t) ELSE Fin(t, IF (n < 0) = (d < 0) THEN r ELSE -r)

As(t, x) == IF x.fin THEN Rounded(t, x.v, 1) ELSE Non(t)

\* C's remainder: the sign of the dividend.
Rem(a, b) == IF a < 0 THEN -(Mag(a) % Mag(b)) ELSE a % Mag(b)

\* A library function on a number of format t: the outcomes there can be.
\* Over an infinity a quotient is 0 and a remainder the dividend.
Op(t, w, a, b) ==
    IF a.fin /\ b.fin
    THEN CASE w = "plus" -> {Rounded(t, a.v + b.v, 1)}
           [] w = "minus" -> {Rounded(t, a.v - b.v, 1)}
           [] w = "multiply" -> {Rounded(t, a.v * b.v, Unit)}
           [] w = "divide" -> {Rounded(t, a.v * Unit, b.v)}
           [] w = "fmod" -> {Fin(t, Rem(a.v, b.v))}
    ELSE {Non(t)} \cup (IF ~a.fin THEN {} ELSE IF w = "divide" THEN {Fin(t, 0)} ELSE IF w = "fmod" THEN {a} ELSE {})

\* Exact at the whole squares, and between them the next one below.
Root(t, a) == Rounded(t, CHOOSE g \in 0..Largest(t) : g * g <= a.v * Unit /\ (g + 1) * (g + 1) > a.v * Unit, 1)
Exp2(t, a) == IF ~a.fin THEN Non(t)
              ELSE LET n == a.v \div Unit
                   IN IF n > 16 THEN Non(t) ELSE IF n < -16 THEN Fin(t, 0)
                      ELSE IF n >= 0 THEN Rounded(t, Unit * 2^n, 1) ELSE Rounded(t, Unit, 2^(-n))

FacOf[n \in Nat] == IF n = 0 THEN 1 ELSE n * FacOf[n - 1]

(***************************************************************************)
(* A word's answer: what is wrong, or the number it leaves                  *)
(***************************************************************************)
Ok(x) == {[why |-> "", x |-> x]}
Err(why) == {[why |-> why, x |-> Str]}
Each(S) == {[why |-> "", x |-> x] : x \in S}

\* A right angle's sine and cosine by the quarter turn, 0 to 3.
Sine == <<0, 1, 0, -1>>
TurnOf(v) == (Rem(v \div Quarter, 4) + 4) % 4
SineAt(w, q) == IF w = "sin" THEN Sine[q + 1] ELSE Sine[((q + 1) % 4) + 1]

\* trig_in and q_trig: a whole quarter turn is exact.
Trig(t, w, a) ==
    IF a.fin /\ a.v % Quarter = 0
    THEN LET q == TurnOf(a.v)
         IN IF w = "tan" THEN IF q % 2 = 1 THEN Err("UNDEFINED") ELSE Ok(Fin(t, 0))
            ELSE Ok(Fin(t, SineAt(w, q) * Unit))
    ELSE Ok(IF a.fin THEN Fin(t, Unit \div 2) ELSE Non(t))

\* min and max keep the value they picked, of the type it had.
Picked(w, top, second, less) == IF (w = "max") = less THEN top ELSE second
Pick(w, top, second, t) ==
    LET a == As(t, second) b == As(t, top)
    IN IF a.fin /\ b.fin THEN Ok(Picked(w, top, second, a.v < b.v)) ELSE Each({top, second})

(***************************************************************************)
(* The words in floats.  a is the deeper argument; a word of one has only a *)
(***************************************************************************)
WholeArith(w, m, n) ==
    CASE w = "plus" -> m + n [] w = "minus" -> m - n [] w = "multiply" -> (m * n) \div Unit

WholeAnswer(w, m) == CASE w = "sq" -> (m * m) \div Unit [] w = "cb" -> (m * m * m) \div (Unit * Unit) [] w = "abs" -> Mag(m)

\* Too big to stay whole goes on as a float.
WholeUnary(w, a) ==
    LET f == As("flt", a)
        times(S) == UNION {Op("flt", "multiply", x, f) : x \in S}
    IN IF a.t = "int" /\ Fits(WholeAnswer(w, a.v)) THEN Ok([a EXCEPT !.v = WholeAnswer(w, a.v)])
       ELSE IF a.t = "dec" THEN Err("NEEDS A NUMBER")
       ELSE IF w = "abs" THEN Ok([f EXCEPT !.v = Mag(f.v)])
       ELSE Each(IF w = "sq" THEN times({f}) ELSE times(times({f})))

Float1(w, a) ==
    LET f == As("flt", a)
    IN CASE w \in {"sq", "cb", "abs"} -> WholeUnary(w, a)
         [] w = "inv" -> IF f.fin /\ f.v = 0 THEN Err("CANNOT DIVIDE BY 0") ELSE Each(Op("flt", "divide", Fin("flt", Unit), f))
         [] w = "sqrt" -> IF ~f.fin THEN Ok(f) ELSE IF f.v < 0 THEN Err("NEEDS 0 OR MORE") ELSE Ok(Root("flt", f))
         [] w = "fac" ->
              IF ~f.fin \/ f.v < 0 \/ f.v % Unit # 0 \/ f.v > FacFloat * Unit THEN Err("WHOLE, 0 TO 170")
              ELSE LET n == f.v \div Unit
                   IN Ok(IF n <= FacWhole THEN Whole(FacOf[n]) ELSE Rounded("flt", FacOf[n] * Unit, 1))
         [] w \in {"sin", "cos", "tan"} -> Trig("flt", w, f)
         [] w = "exp2" -> Ok(Exp2("flt", f))

ModFloat(a, b) ==
    UNION {IF ~r.fin \/ ~b.fin \/ r.v = 0 \/ (r.v < 0) = (b.v < 0) THEN {r}
           ELSE {IF s = b THEN Fin("flt", 0) ELSE s : s \in Op("flt", "plus", r, b)} : r \in Op("flt", "fmod", a, b)}

Float2(w, a, b) ==
    LET f == As("flt", a)
        g == As("flt", b)
        whole == a.t = "int" /\ b.t = "int"
        zero == g.fin /\ g.v = 0
    IN CASE w \in {"plus", "minus", "multiply"} ->
              IF whole /\ Fits(WholeArith(w, a.v, b.v)) THEN Ok([a EXCEPT !.v = WholeArith(w, a.v, b.v)])
              ELSE Each(Op("flt", w, f, g))
         [] w = "divide" ->
              IF zero THEN Err("ZERO DIVISOR")
              ELSE IF whole /\ ~(a = Whole(IntMin) /\ b = Whole(-1)) /\ Rem(a.v, b.v) = 0 THEN Ok(Whole(a.v \div b.v))
              ELSE Each(Op("flt", w, f, g))
         [] w = "modulo" ->
              IF zero THEN Err("ZERO DIVISOR")
              ELSE IF whole THEN LET r == IF b = Whole(-1) THEN 0 ELSE Rem(a.v, b.v)
                                 IN Ok([a EXCEPT !.v = IF r # 0 /\ (r < 0) # (b.v < 0) THEN r + b.v ELSE r])
              ELSE Each(ModFloat(f, g))
         [] w \in {"min", "max"} -> Pick(w, b, a, "flt")

(***************************************************************************)
(* The words in decimal                                                     *)
(***************************************************************************)
ModDecimal(a, b) ==
    UNION {IF ~r.fin \/ ~b.fin \/ r.v = 0 \/ (r.v < 0) = (b.v < 0) THEN {r}
           ELSE Op("dec", "plus", r, b) : r \in Op("dec", "fmod", a, b)}

NoCounterpart == {"exp2"}
Decimal1(w, a) ==
    LET x == As("dec", a)
        times(S) == UNION {Op("dec", "multiply", y, x) : y \in S}
    IN CASE w = "sq" -> Each(times({x}))
         [] w = "cb" -> Each(times(times({x})))
         [] w = "abs" -> Ok([x EXCEPT !.v = Mag(x.v)])
         [] w = "inv" -> IF x.fin /\ x.v = 0 THEN Err("CANNOT DIVIDE BY 0") ELSE Each(Op("dec", "divide", Fin("dec", Unit), x))
         [] w = "sqrt" -> IF ~x.fin THEN Ok(x) ELSE IF x.v < 0 THEN Err("NEEDS 0 OR MORE") ELSE Ok(Root("dec", x))
         [] w = "fac" ->
              IF ~x.fin \/ x.v % Unit # 0 \/ x.v < 0 \/ x.v > FacDecimal * Unit THEN Err("WHOLE, 0 TO 1000")
              ELSE Ok(Rounded("dec", FacOf[x.v \div Unit] * Unit, 1))
         [] w \in {"sin", "cos", "tan"} -> Trig("dec", w, x)

Decimal2(w, a, b) ==
    LET x == As("dec", a)
        y == As("dec", b)
    IN CASE w \in {"min", "max"} -> Pick(w, b, a, "dec")
         [] w \in {"divide", "modulo"} ->
              IF y.fin /\ y.v = 0 THEN Err("ZERO DIVISOR")
              ELSE Each(IF w = "divide" THEN Op("dec", w, x, y) ELSE ModDecimal(x, y))
         [] w \in {"plus", "minus", "multiply"} -> Each(Op("dec", w, x, y))

KeepsIntegers == {"sq", "cb", "abs", "min", "max", "divide", "modulo", "plus", "minus", "multiply", "fac"}

WholeToIntegerUnchecked(x) ==
    IF x.t = "dec" /\ x.fin /\ x.v % Unit = 0
    THEN Whole((((x.v \div Unit) - IntMin) % (2 * (IntMax + 1))) + IntMin) ELSE x
WholeToInteger(x) == IF x.t = "dec" /\ x.fin /\ Fits(x.v) THEN [x EXCEPT !.t = "int"] ELSE x

(***************************************************************************)
(* Complex numbers: two floats, a real number wherever one part is nought   *)
(***************************************************************************)
RealOut(v) == Fin(IF decimal THEN "dec" ELSE "flt", v)
CpxPushed(re, im) ==
    LET i == IF Mag(im) * CpxRatio <= Mag(re) THEN 0 ELSE im
        r == IF Mag(re) * CpxRatio <= Mag(i) THEN 0 ELSE re
    IN IF i = 0 THEN RealOut(r) ELSE Cpx(r, i)

\* answer: two parts, each n over d, refused unless both are finite.
CpxAnswer(n, m, d) ==
    LET re == Rounded("flt", n, d) im == Rounded("flt", m, d)
    IN IF re.fin /\ im.fin THEN Ok(CpxPushed(re.v, im.v)) ELSE Err("OVERFLOW")

AsCpx(x) == IF x.t = "cpx" THEN x ELSE Cpx(As("flt", x).v, 0)
Escapes(w, a) == cpxMode # "real" /\ w = "sqrt" /\ a.fin /\ a.v < 0

CpxMag(z) ==
    LET n == z.re * z.re + z.im * z.im
    IN IF n > Largest("flt") * Largest("flt") THEN Non("flt") ELSE Root("flt", [v |-> n \div Unit])

Cpx1(w, z) ==
    CASE w = "sq" -> CpxAnswer(z.re * z.re - z.im * z.im, 2 * z.re * z.im, Unit)
      [] w = "inv" -> CpxAnswer(z.re * Unit * Unit, -z.im * Unit * Unit, z.re * z.re + z.im * z.im)
      [] w = "abs" -> Ok(IF CpxMag(z).fin THEN RealOut(CpxMag(z).v) ELSE Non(RealOut(0).t))
      [] w = "sqrt" ->
           LET half(n) == Root("flt", [v |-> IF n < 0 THEN 0 ELSE n \div 2]).v
               m == CpxMag(z)
           IN IF ~m.fin THEN Err("OVERFLOW")
              ELSE CpxAnswer(half(m.v + z.re), (IF z.im < 0 THEN -1 ELSE 1) * half(m.v - z.re), 1)
      [] OTHER -> Err("NOT FOR COMPLEX")

Cpx2(w, a, b) ==
    CASE w = "plus" -> CpxAnswer(a.re + b.re, a.im + b.im, 1)
      [] w = "minus" -> CpxAnswer(a.re - b.re, a.im - b.im, 1)
      [] w = "multiply" -> CpxAnswer(a.re * b.re - a.im * b.im, a.re * b.im + a.im * b.re, Unit)
      [] w = "divide" ->
           IF b.re = 0 /\ b.im = 0 THEN Err("ZERO DIVISOR")
           ELSE CpxAnswer((a.re * b.re + a.im * b.im) * Unit, (a.im * b.re - a.re * b.im) * Unit, b.re * b.re + b.im * b.im)
      [] OTHER -> Err("NOT FOR COMPLEX")

(***************************************************************************)
(* guarded: every word goes through here                                    *)
(***************************************************************************)
OneNumber == {"sq", "cb", "abs", "inv", "sqrt", "fac", "sin", "cos", "tan", "exp2"}
Binary == {"plus", "minus", "multiply", "divide", "modulo", "min", "max"}
WordNames == OneNumber \cup Binary \cup {"percent", "pi"}
Arity(w) == IF w \in OneNumber THEN 1 ELSE IF w \in Binary THEN 2 ELSE 0
Args(w, s) == SubSeq(s, Len(s) - Arity(w) + 1, Len(s))
Below(n, s) == SubSeq(s, 1, Len(s) - n)

\* qdos_cpx_apply answers when an argument is complex, or leaves the reals.
CpxApplies(w, s) ==
    /\ Arity(w) >= 1 /\ Len(s) >= Arity(w)
    /\ LET args == Args(w, s)
       IN /\ \A k \in DOMAIN args : IsReal(args[k]) \/ args[k].t = "cpx"
          /\ (\E k \in DOMAIN args : args[k].t = "cpx") \/ Escapes(w, args[1])
CpxApply(w, s) ==
    LET args == Args(w, s)
    IN IF \E k \in DOMAIN args : args[k].t # "cpx" /\ ~As("flt", args[k]).fin THEN Err("OVERFLOW")
       ELSE IF Arity(w) = 1 THEN Cpx1(w, AsCpx(args[1]))
       ELSE Cpx2(w, AsCpx(args[1]), AsCpx(args[2]))

\* qdos_decimal_call: the arguments as floats, and floats that are left as decimals.
ThroughDecimal(answers) ==
    {IF r.why = "" /\ r.x.t = "flt" THEN [r EXCEPT !.x.t = "dec"] ELSE r : r \in answers}

\* Arguments that are no numbers: the word fails in floats, one that pops first
\* having popped, and the numbers among the arguments come back through a float.
Unnumbered(w, s) ==
    LET n == IF Arity(w) > Len(s) THEN Len(s) ELSE Arity(w)
        back(x) == IF decimal /\ x.t \in {"dec", "flt"} THEN [As("flt", x) EXCEPT !.t = "dec"] ELSE x
        args == [k \in 1..n |-> back(s[Len(s) - n + k])]
    IN Below(n, s) \o IF w \in {"sq", "cb", "abs"} /\ n = 1 THEN <<>> ELSE args

Numbers(w, s) == Len(s) >= Arity(w) /\ \A k \in 1..Arity(w) : IsReal(Args(w, s)[k])
Calculated(w, args) ==
    LET whole == \A k \in DOMAIN args : args[k].t = "int"
        kept(r) == IF r.why = "" /\ (whole \/ w = "fac") /\ w \in KeepsIntegers THEN [r EXCEPT !.x = WholeToInteger(@)] ELSE r
        floats == [k \in DOMAIN args |-> IF args[k].t = "dec" THEN As("flt", args[k]) ELSE args[k]]
    IN IF w = "pi" THEN Ok(RealOut(3 * Unit))
       ELSE IF ~decimal THEN IF Arity(w) = 1 THEN Float1(w, args[1]) ELSE Float2(w, args[1], args[2])
       ELSE IF w \in NoCounterpart THEN ThroughDecimal(Float1(w, floats[1]))
       ELSE {kept(r) : r \in IF Arity(w) = 1 THEN Decimal1(w, args[1]) ELSE Decimal2(w, args[1], args[2])}

\* percent: y stays, x becomes x percent of it; 100 is Unit here.
PercentOf(t, y, x) == UNION {Op(t, "divide", r, Fin(t, Unit)) : r \in Op(t, "multiply", y, x)}
Percent(s, keypad) ==
    LET t == IF decimal THEN "dec" ELSE "flt"
        x == As(t, Last(s)) y == As(t, s[Len(s) - 1])
    IN IF Len(s) < 2 \/ ~IsReal(Last(s)) \/ ~IsReal(s[Len(s) - 1]) THEN {[why |-> "NEEDS 2 NUMBERS", left |-> s]}
       ELSE {IF keypad /\ ~r.fin THEN [why |-> "OVERFLOW", left |-> IF decimal THEN Front(s) ELSE s]
             ELSE [why |-> "", left |-> Append(Front(s), r)] : r \in PercentOf(t, y, x)}

\* The stack a word leaves and what it says: why is "" when all is well.
Refused(w, s, r) == Below(Arity(w), s) \o Args(w, s)
Guarded(w, keypad, s) ==
    IF CpxApplies(w, s)
    THEN {[why |-> r.why, left |-> IF r.why = "" THEN Append(Below(Arity(w), s), r.x) ELSE s] : r \in CpxApply(w, s)}
    ELSE IF w = "percent" THEN Percent(s, keypad)
    ELSE IF ~Numbers(w, s) THEN {[why |-> "NEEDS A NUMBER", left |-> Unnumbered(w, s)]}
    ELSE {IF r.why # "" THEN [why |-> r.why, left |-> s]
          ELSE IF keypad /\ ~r.x.fin THEN [why |-> "OVERFLOW", left |-> Refused(w, s, r)]
          ELSE [why |-> "", left |-> Append(Below(Arity(w), s), r.x)] : r \in Calculated(w, Args(w, s))}

(***************************************************************************)
(* The stack                                                                *)
(***************************************************************************)
CONSTANT Literals(_)    \* what is typed, given whether decimal is on

WordsInit == vals = <<>> /\ decimal \in BOOLEAN /\ cpxMode = "real"

Typed == \E x \in Literals(decimal) : Len(vals) < MaxDepth /\ vals' = Append(vals, x) /\ UNCHANGED <<decimal, cpxMode>>

\* A word from a key or a program.  After a failure the shell puts the stack back.
Apply(w, keypad) ==
    \E r \in Guarded(w, keypad, vals) :
        /\ Len(r.left) <= MaxDepth
        /\ vals' = IF r.why = "" THEN r.left ELSE vals
        /\ UNCHANGED <<decimal, cpxMode>>

\* COMPLEX in the settings.
SetComplex == cpxMode' = (IF cpxMode = "real" THEN "rect" ELSE "real") /\ UNCHANGED <<vals, decimal>>

Drop == vals # <<>> /\ vals' = Front(vals) /\ UNCHANGED <<decimal, cpxMode>>

WordsNext == Typed \/ SetComplex \/ Drop \/ \E w \in WordNames, keypad \in BOOLEAN : Apply(w, keypad)

WordsSpec == WordsInit /\ [][WordsNext]_wordsVars

(***************************************************************************)
(* Properties                                                               *)
(***************************************************************************)
\* What a word's answer is in whole numbers, when there is one.
WholeOf(w, m, n) ==
    {q \in IntMin..IntMax :
        CASE w = "plus" -> q = m + n [] w = "minus" -> q = m - n [] w = "multiply" -> q = m * n
          [] w = "divide" -> n # 0 /\ q * n = m
          [] w = "modulo" -> n # 0 /\ (m - q) % Mag(n) = 0 /\ Mag(q) < Mag(n) /\ (q = 0 \/ (q < 0) = (n < 0))
          [] w = "min" -> q = Min({m, n}) [] w = "max" -> q = Max({m, n})
          [] w = "sq" -> q = n * n [] w = "cb" -> q = n * n * n [] w = "abs" -> q = Mag(n)
          [] w = "fac" -> n >= 0 /\ n <= FacDecimal /\ q = FacOf[n]}

\* Given integers, a word that keeps them answers with an integer exactly when
\* the true answer is one that fits, and then with that one: no answer wraps,
\* and none that was rounded passes for whole.  (In floats min and max compare
\* integers as floats, and pick the wrong one of two that round alike.)
WholeStaysWhole ==
    \A w \in {x \in KeepsIntegers : x \in {"min", "max"} => decimal} : Len(vals) >= Arity(w) /\ (\A k \in 1..Arity(w) : Args(w, vals)[k].t = "int") =>
        LET n == Last(vals).v \div Unit
            m == IF Arity(w) = 2 THEN vals[Len(vals) - 1].v \div Unit ELSE 0
            whole == WholeOf(w, m, n)
        IN \A r \in Guarded(w, FALSE, vals) : r.why = "" =>
              IF whole = {} THEN Last(r.left).t # "int" ELSE \E q \in whole : Last(r.left) = Whole(q)

\* From the keypad no word leaves a number without a finite value, and one that
\* is refused leaves its arguments as they were.  Not so of percent in decimal,
\* which loses x, nor of the size of a complex number, which nothing checks.
Finite(x) == x.t \in {"cpx", "str"} \/ x.fin
KeysGiveBack ==
    \A w \in WordNames : \A r \in Guarded(w, TRUE, vals) :
        /\ r.why = "" /\ ~(w = "abs" /\ Last(vals).t = "cpx") => Finite(Last(r.left))
        /\ r.why = "OVERFLOW" /\ ~(w = "percent" /\ decimal) => r.left = vals

\* modulo has the sign of the divisor and, in floats, is less than it.
ModuloIsTheDivisors ==
    Numbers("modulo", vals) => \A r \in Guarded("modulo", TRUE, vals) : r.why = "" =>
        LET x == Last(r.left)
            b == IF decimal \/ x.t = "int" THEN Last(vals) ELSE As("flt", Last(vals))
        IN b.fin => /\ x.v = 0 \/ (x.v < 0) = (b.v < 0)
                    /\ Mag(x.v) < Mag(b.v) \/ (decimal /\ x.v = b.v)
\* Not so in decimal, where a remainder lost in the rounding is the divisor itself.
ModuloBelow ==
    Numbers("modulo", vals) => \A r \in Guarded("modulo", TRUE, vals) : r.why = "" /\ Last(vals).fin => Mag(Last(r.left).v) < Mag(Last(vals).v)

\* A complex number on the stack is one: both parts count, and with COMPLEX off
\* none comes of real arguments.
ComplexIsComplex ==
    /\ \A k \in DOMAIN vals : vals[k].t = "cpx" => vals[k].im # 0 /\ Mag(vals[k].im) * CpxRatio > Mag(vals[k].re)
    /\ cpxMode = "real" /\ (\A k \in DOMAIN vals : vals[k].t # "cpx") =>
          \A w \in WordNames : \A r \in Guarded(w, FALSE, vals) : r.why = "" => Last(r.left).t # "cpx"

\* The arithmetic words at the edges of the numbers' ranges: the four above.
WordsRight == WholeStaysWhole /\ KeysGiveBack /\ ModuloIsTheDivisors /\ ComplexIsComplex
=============================================================================
