-------------------------------- MODULE Infix --------------------------------
(***************************************************************************)
(* The body of a Y= slot, written in RPN or as a formula: how many values   *)
(* it leaves as RPN, the recursive descent that writes a formula out as     *)
(* RPN, and slot_declare, which tells the two apart by that count.          *)
(*                                                                         *)
(* A body is a sequence of lexemes, typed with a space between any two or   *)
(* with none but where two would run together.  One number, and one name of *)
(* each kind of effect, stand for the rest; the wording of errors is left   *)
(* out.                                                                     *)
(***************************************************************************)
EXTENDS Integers, Sequences, SequencesExt

CONSTANTS
    Alphabets,        \* the sets of lexemes bodies are typed from
    MaxBody(_),       \* bound on a body's length, by what it is typed from
    INFIX_DEPTH_MAX,  \* brackets and signs within one another
    PLOT_RPN_MAX      \* words of room for what is written out

VARIABLES
    body,    \* the body typed
    spaced,  \* spaces between all its lexemes
    letters  \* the lexemes it is typed from

infixVars == <<body, spaced, letters>>

(***************************************************************************)
(* Lexemes                                                                  *)
(***************************************************************************)
Numeral == {"2"}
Effects == [x |-> <<0, 1>>, y |-> <<0, 1>>, t |-> <<0, 1>>, theta |-> <<0, 1>>, sin |-> <<1, 1>>, sq |-> <<1, 1>>,
            neg |-> <<1, 1>>, fac |-> <<1, 1>>, plus |-> <<2, 1>>, minus |-> <<2, 1>>, pow |-> <<2, 1>>,
            divide |-> <<2, 1>>, max |-> <<2, 1>>, dup |-> <<1, 2>>]
\* + - * and / are words of two values as well.
Symbols == {"+", "-", "*", "/"}
Known(w) == w \in DOMAIN Effects \cup Symbols
Takes(w) == IF w \in Symbols THEN 2 ELSE Effects[w][1]
Leaves(w) == IF w \in Symbols THEN 1 ELSE Effects[w][2]

Marks == Symbols \cup {"^", "(", ")", ",", "!"}
IsName(w) == w \notin Numeral \cup Marks
WordOperator == [plus |-> "+", minus |-> "-", multiply |-> "*", divide |-> "/", pow |-> "^"]

(***************************************************************************)
(* qdos_rpn_results: how many values a body leaves as RPN                   *)
(***************************************************************************)
NOT == -1
UNKNOWN == -2

\* The runs of lexemes with no space between them.
Splits(b, k) ==
    \/ spaced
    \/ IsName(b[k]) /\ b[k + 1] \notin Marks
    \/ b[k] \in Numeral /\ b[k + 1] \in Numeral
Runs(b) ==
    LET ends == {k \in 1..Len(b) : k = Len(b) \/ Splits(b, k)}
        begins == {1} \cup {k + 1 : k \in ends \ {Len(b)}}
    IN IF b = <<>> THEN <<>>
       ELSE LET starts == SetToSortSeq(begins, <)
            IN [i \in 1..Len(starts) |-> SubSeq(b, starts[i], IF i = Len(starts) THEN Len(b) ELSE starts[i + 1] - 1)]

RunIsNumber(r) == r \in {<<n>> : n \in Numeral} \cup {<<"-", n>> : n \in Numeral}

\* The depth after one more run, or NOT or UNKNOWN for good.
RunEffect(depth, r) ==
    IF depth < 0 THEN depth
    ELSE IF RunIsNumber(r) THEN depth + 1
    ELSE IF Len(r) = 1 /\ Known(r[1])
         THEN IF depth < Takes(r[1]) THEN NOT ELSE depth + Leaves(r[1]) - Takes(r[1])
    ELSE IF Len(r) = 1 /\ IsName(r[1]) THEN UNKNOWN
    ELSE IF r = <<"-", "-">> THEN UNKNOWN
    ELSE IF \E k \in DOMAIN r : r[k] \in Marks \ {"!"} THEN NOT
    ELSE IF r[1] \in Numeral THEN NOT
    ELSE UNKNOWN
RpnResults(b) == FoldLeft(RunEffect, 0, Runs(b))

(***************************************************************************)
(* The formula, read by recursive descent and written out as it is read.    *)
(* A parser is where it has got to, what it has written and how deep it is. *)
(***************************************************************************)
At(ps, k) == IF ps.at + k <= Len(ps.in) THEN ps.in[ps.at + k] ELSE "end"
\* pow(x, 2) is a call; x pow 2 is the operator.
Operator(ps) ==
    LET w == At(ps, 0)
    IN IF w \in Marks THEN w
       ELSE IF w \in DOMAIN WordOperator /\ At(ps, 1) # "(" THEN WordOperator[w] ELSE "none"
IsOp(ps, op) == Operator(ps) = op
NameHere(ps) == At(ps, 0) # "end" /\ IsName(At(ps, 0)) /\ Operator(ps) = "none"
NumberHere(ps) == At(ps, 0) \in Numeral
StartsValue(ps) == NumberHere(ps) \/ NameHere(ps) \/ IsOp(ps, "(")
IsPostfix(ps) == IsOp(ps, "!") \/ (NameHere(ps) /\ At(ps, 1) # "(" /\ At(ps, 0) \in {"sq"})

Advance(ps) == [ps EXCEPT !.at = @ + 1]
Fail(ps) == [ps EXCEPT !.ok = FALSE]
Emit(ps, w) == IF Len(ps.out) >= PLOT_RPN_MAX THEN Fail(ps) ELSE [ps EXCEPT !.out = Append(@, w)]
Deeper(ps) == [ps EXCEPT !.depth = @ + 1]
Shallower(ps) == [ps EXCEPT !.depth = @ - 1]

RECURSIVE SumRest(_), ProductRest(_), PostfixRest(_), Arguments(_)

\* The level of the grammar that is called from another.
RECURSIVE Inner(_, _)

\* The value after a name's bracket, and those after each comma.
Arguments(ps) ==
    LET one == Inner("sum", ps) IN IF one.ok /\ IsOp(one, ",") THEN Arguments(Advance(one)) ELSE one

Call(ps) ==
    LET name == At(ps, 0)
        after == Advance(ps)
    IN IF IsOp(after, "(")
       THEN LET inside == Advance(after)
                args == IF IsOp(inside, ")") THEN inside ELSE Arguments(inside)
            IN IF ~args.ok THEN args ELSE IF ~IsOp(args, ")") THEN Fail(args) ELSE Emit(Advance(args), name)
       ELSE IF Known(name) /\ Takes(name) > 0
       THEN IF Takes(name) # 1 \/ Leaves(name) # 1 \/ ~StartsValue(after) THEN Fail(after)
            ELSE LET arg == Inner("unary", after) IN IF arg.ok THEN Emit(arg, name) ELSE arg
       ELSE Emit(after, name)

Primary(ps) ==
    IF NumberHere(ps) THEN Emit(Advance(ps), At(ps, 0))
    ELSE IF NameHere(ps) THEN Call(ps)
    ELSE IF ~IsOp(ps, "(") THEN Fail(ps)
    ELSE IF ps.depth + 1 > INFIX_DEPTH_MAX THEN Fail(ps)
    ELSE LET in == Inner("sum", Advance(Deeper(ps)))
         IN IF ~in.ok THEN in ELSE IF ~IsOp(in, ")") THEN Fail(in) ELSE Advance(Shallower(in))

PostfixRest(ps) ==
    IF ps.ok /\ IsPostfix(ps) THEN PostfixRest(Emit(Advance(ps), IF IsOp(ps, "!") THEN "fac" ELSE At(ps, 0))) ELSE ps
Postfix(ps) == PostfixRest(Inner("primary", ps))

PowerOfOne(ps) ==
    LET base == Inner("postfix", ps)
    IN IF ~base.ok \/ ~IsOp(base, "^") THEN base
       ELSE LET exponent == Inner("postfix", Advance(base)) IN IF exponent.ok THEN Emit(exponent, "pow") ELSE exponent
\* ^ to the right, and over a sign.
Power(ps) ==
    LET base == Inner("postfix", ps)
    IN IF ~base.ok \/ ~IsOp(base, "^") THEN base
       ELSE LET exponent == Inner("unary", Advance(base)) IN IF exponent.ok THEN Emit(exponent, "pow") ELSE exponent

Unary(ps) ==
    IF ps.depth + 1 > INFIX_DEPTH_MAX THEN Fail(ps)
    ELSE LET in == Deeper(ps)
             signed == Inner("unary", Advance(in))
         IN Shallower(IF IsOp(ps, "-") THEN IF signed.ok THEN Emit(signed, "neg") ELSE signed
                      ELSE IF IsOp(ps, "+") THEN signed ELSE Inner("power", in))

ProductRest(ps) ==
    IF ~ps.ok THEN ps
    ELSE IF IsOp(ps, "*") \/ IsOp(ps, "/")
    THEN LET right == Inner("unary", Advance(ps))
         IN IF right.ok THEN ProductRest(Emit(right, IF IsOp(ps, "*") THEN "*" ELSE "divide")) ELSE right
    ELSE IF NameHere(ps) \/ IsOp(ps, "(")
    THEN LET right == Inner("power", ps) IN IF right.ok THEN ProductRest(Emit(right, "*")) ELSE right
    ELSE ps
Product(ps) == ProductRest(Inner("unary", ps))

SumRest(ps) ==
    IF ps.ok /\ (IsOp(ps, "+") \/ IsOp(ps, "-"))
    THEN LET right == Inner("product", Advance(ps)) IN IF right.ok THEN SumRest(Emit(right, Operator(ps))) ELSE right
    ELSE ps
Sum(ps) == SumRest(Inner("product", ps))

Inner(level, ps) ==
    CASE level = "sum"     -> Sum(ps)
      [] level = "product" -> Product(ps)
      [] level = "unary"   -> Unary(ps)
      [] level = "power"   -> Power(ps)
      [] level = "postfix" -> Postfix(ps)
      [] OTHER             -> Primary(ps)

RECURSIVE Values(_, _)
Values(ps, n) ==
    LET one == Inner("sum", ps)
    IN IF one.ok /\ IsOp(one, ",") THEN Values(Advance(one), n + 1) ELSE [ps |-> one, results |-> n]

InfixToRpn(b) ==
    LET read == Values([in |-> b, at |-> 1, out |-> <<>>, depth |-> 0, ok |-> TRUE], 1)
    IN [ok |-> read.ps.ok /\ At(read.ps, 0) = "end", rpn |-> read.ps.out, results |-> read.results]

(***************************************************************************)
(* slot_declare                                                             *)
(***************************************************************************)
\* The shape of a body by the words standing alone in it.
BodyShape(words) ==
    IF \E k \in DOMAIN words : words[k] = <<"y">> THEN "surface"
    ELSE IF \E k \in DOMAIN words : words[k] = <<"t">> THEN "param"
    ELSE IF \E k \in DOMAIN words : words[k] = <<"theta">> THEN "polar"
    ELSE IF words # <<>> THEN "curve" ELSE "none"
SlotLeaves(shape) == IF shape = "param" THEN 2 ELSE 1
Words(rpn) == [k \in 1..Len(rpn) |-> <<rpn[k]>>]

Heads(runs) == [k \in DOMAIN runs |-> Last(runs[k])]

NoBody(shape, broken) == [shape |-> shape, broken |-> broken, run |-> <<>>, as |-> "none"]

\* What the translation of a body leaves is measured against its own shape.
AsFormula(formula, shape) ==
    IF ~formula.ok THEN NoBody(shape, TRUE)
    ELSE LET again == BodyShape(Words(formula.rpn))
         IN [shape |-> again, broken |-> formula.results # SlotLeaves(again), run |-> formula.rpn, as |-> "formula"]

SlotDeclare(b) ==
    LET shape == BodyShape(Runs(b))
    IN IF shape = "none" THEN NoBody(shape, FALSE)
       ELSE IF RpnResults(b) \in {UNKNOWN, SlotLeaves(shape)}
            THEN [shape |-> shape, broken |-> FALSE, run |-> Heads(Runs(b)), as |-> "rpn"]
       ELSE AsFormula(InfixToRpn(b), shape)

(***************************************************************************)
(* Typing a body in the Y= editor                                           *)
(***************************************************************************)
InfixInit == body = <<>> /\ spaced \in BOOLEAN /\ letters \in Alphabets
TypeLexeme == \E w \in letters : Len(body) < MaxBody(letters) /\ body' = Append(body, w) /\ UNCHANGED <<spaced, letters>>
EraseLexeme == body # <<>> /\ body' = Front(body) /\ UNCHANGED <<spaced, letters>>
InfixNext == TypeLexeme \/ EraseLexeme
InfixSpec == InfixInit /\ [][InfixNext]_infixVars

(***************************************************************************)
(* What a formula means: its readings by the grammar infix.h gives, as      *)
(* trees, found by trying every way to split it                             *)
(***************************************************************************)
Op2At(w, k) == k > 1 /\ k < Len(w) /\ w[k] \in Marks \cup DOMAIN WordOperator /\ ~(w[k] \in DOMAIN WordOperator /\ w[k + 1] = "(")
OpOf(m) == IF m \in DOMAIN WordOperator THEN WordOperator[m] ELSE m
Named(m) == IF m = "/" THEN "divide" ELSE IF m = "^" THEN "pow" ELSE m
Left(w, k) == SubSeq(w, 1, k - 1)
Right(w, k) == SubSeq(w, k + 1, Len(w))
Function(w) == IsName(w) /\ Known(w) /\ Takes(w) = 1 /\ Leaves(w) = 1
Value0(w) == IsName(w) /\ (Known(w) => Takes(w) = 0)

\* Where two values may stand side by side: sq after a value applies to it,
\* and a name before a bracket is given what is in it.
Beside(w, j) ==
    /\ IsName(w[j + 1]) \/ w[j + 1] = "("
    /\ ~(IsName(w[j]) /\ w[j + 1] = "(")
    /\ w[j + 1] = "sq" => j + 2 <= Len(w) /\ w[j + 2] = "("

\* The readings of w at one level of the grammar.
RECURSIVE Trees(_, _), ArgsT(_)

Joined(w, ops, left, right) ==
    UNION {{<<Named(OpOf(w[k])), l, r>> : l \in Trees(left, Left(w, k)), r \in Trees(right, Right(w, k))} :
             k \in {j \in 1..Len(w) : Op2At(w, j) /\ OpOf(w[j]) \in ops}}
SumT(w) == Trees("product", w) \cup Joined(w, {"+", "-"}, "sum", "product")
ProductT(w) ==
    Trees("unary", w) \cup Joined(w, {"*", "/"}, "product", "unary")
    \cup UNION {{<<"*", l, r>> : l \in Trees("product", SubSeq(w, 1, k)), r \in Trees("power", SubSeq(w, k + 1, Len(w)))} :
                 k \in {j \in 1..Len(w) - 1 : Beside(w, j)}}
UnaryT(w) ==
    Trees("power", w) \cup (IF OpOf(w[1]) = "-" THEN {<<"neg", x>> : x \in Trees("unary", Tail(w))}
                            ELSE IF OpOf(w[1]) = "+" THEN Trees("unary", Tail(w)) ELSE {})
PowerT(w) == Trees("postfix", w) \cup Joined(w, {"^"}, "postfix", "unary")
PostT(w) ==
    Trees("primary", w) \cup
    IF Last(w) \in {"sq", "!"} THEN {<<IF Last(w) = "!" THEN "fac" ELSE "sq", x>> : x \in Trees("postfix", Front(w))} ELSE {}
\* The arguments of a call, as sequences of trees.
ArgsT(w) == {<<x>> : x \in Trees("sum", w)} \cup
    UNION {{<<x>> \o rest : x \in Trees("sum", Left(w, k)), rest \in ArgsT(Right(w, k))} : k \in {j \in 1..Len(w) : w[j] = ","}}
PrimaryT(w) ==
    CASE Len(w) = 1 -> IF w[1] \in Numeral \/ Value0(w[1]) THEN {w} ELSE {}
      [] Len(w) > 1 /\ w[1] = "(" /\ Last(w) = ")" -> Trees("sum", SubSeq(w, 2, Len(w) - 1))
      [] Len(w) > 1 /\ IsName(w[1]) /\ w[2] = "(" ->
           IF Last(w) # ")" THEN {}
           ELSE {<<w[1]>> \o args : args \in {a \in ArgsT(SubSeq(w, 3, Len(w) - 1)) : Known(w[1]) /\ Len(a) = Takes(w[1]) /\ Leaves(w[1]) = 1}}
      [] Len(w) > 1 /\ Function(w[1]) /\ w[2] # "(" ->
           IF w[2] \in Numeral \/ (IsName(w[2]) /\ w[2] \notin DOMAIN WordOperator) THEN {<<w[1], x>> : x \in Trees("unary", Tail(w))} ELSE {}
      [] OTHER -> {}
Trees(level, w) ==
    IF w = <<>> THEN {}
    ELSE CASE level = "sum"     -> SumT(w)
           [] level = "product" -> ProductT(w)
           [] level = "unary"   -> UnaryT(w)
           [] level = "power"   -> PowerT(w)
           [] level = "postfix" -> PostT(w)
           [] OTHER             -> PrimaryT(w)
Readings(w) == ArgsT(w)

\* What the written words leave, as trees; running short leaves "short" behind.
Step(st, w) ==
    LET n == IF Known(w) THEN Takes(w) ELSE 0
    IN IF Len(st) < n THEN <<<<"short">>>>
       ELSE IF w = "dup" THEN Append(st, Last(st))
       ELSE Append(SubSeq(st, 1, Len(st) - n), <<w>> \o SubSeq(st, Len(st) - n + 1, Len(st)))
Left2Run(rpn) == FoldLeft(Step, <<>>, rpn)

(***************************************************************************)
(* Properties                                                               *)
(***************************************************************************)
Means(f, left, readings) ==
    readings # {} /\ Len(f.rpn) < PLOT_RPN_MAX => f.ok /\ left \in readings /\ f.results = Len(left)

\* A formula that can be read is written out, and running what was written
\* works out one of its readings: precedence, associativity, signs, products
\* with no sign and calls are as infix.h says.
FormulaMeansWhatItSays ==
    LET f == InfixToRpn(body) IN Means(f, Left2Run(f.rpn), Readings(body))

CallsFit(w) ==
    \A k \in 1..Len(w) - 1 : IsName(w[k]) /\ w[k + 1] = "(" =>
        Known(w[k]) /\ Takes(w[k]) = 1 /\ "," \notin ToSet(w) /\ (k + 2 > Len(w) \/ w[k + 2] # ")")
HasItsShape(slot) ==
    ~slot.broken /\ slot.as # "none" =>
        LET left == Left2Run(slot.run) IN Len(left) = SlotLeaves(slot.shape) /\ left[1] # <<"short">>

\* Whichever way a body was taken, a slot that is not broken leaves as many
\* values as its shape has coordinates.  Not so where a name is given
\* arguments it does not take: max(x) is not refused.
SlotLeavesItsShape == RpnResults(body) # UNKNOWN /\ CallsFit(body) => HasItsShape(SlotDeclare(body))

\* Not so: a variable before a bracket is called, not multiplied.
VariablesMultiply ==
    LET f == InfixToRpn(body)
    IN f.ok /\ (\A k \in DOMAIN body : IsName(body[k]) => Known(body[k]) /\ Takes(body[k]) = 0) => Len(Left2Run(f.rpn)) = f.results

\* A formula, and the slot it is put in, do what they say: the two above.
FormulasRight == FormulaMeansWhatItSays /\ SlotLeavesItsShape
=============================================================================
