------------------------------ MODULE AppsProofs ------------------------------
(***************************************************************************)
(* What Apps keeps for any apps, numbers, stack and answers, and however   *)
(* deep apps run inside one another.                                       *)
(***************************************************************************)
EXTENDS Apps, NaturalsInduction, WellFoundedInduction, SequenceTheorems, TLAPS

\* A set of naturals that is not empty has a least member.
LEMMA LeastNat ==
    ASSUME NEW T \in SUBSET Nat, T # {}
    PROVE  \E x \in T : \A y \in T : x <= y
<1> DEFINE R == OpToRel(<, Nat)
<1>1. IsWellFoundedOn(R, Nat)
  BY NatLessThanWellFounded
<1>2. PICK x \in T : \A y \in T : ~(<<y, x>> \in R)
  <2> HIDE DEF R
  <2> QED BY <1>1, WFMin
<1>3. \A y \in T : <<y, x>> \in R <=> y < x
  BY DEF OpToRel
<1>4. \A y \in T : ~(y < x)
  <2> HIDE DEF R
  <2> QED BY <1>2, <1>3, Zenon
<1> QED BY <1>4

LEMMA Ones ==
    ASSUME NEW n \in Nat
    PROVE  /\ n # 0 => 1 \in 1..n /\ n \in 1..n
           /\ n # 0 /\ n # 1 => n > 1 /\ 2 \in 1..n /\ 1 < n /\ n - 1 \in Nat \ {0}
           /\ \A k \in 1..n : k # n => k < n /\ k + 1 \in 1..n /\ k \in 1..(n - 1)
           /\ n - 1 = 1 => n = 2
           /\ n > 1 => n # 1 /\ n # 0
  OBVIOUS

LEMMA Prefix ==
    ASSUME NEW S, NEW s \in Seq(S), NEW m \in 0..Len(s)
    PROVE  /\ SubSeq(s, 1, m) \in Seq(S) /\ Len(SubSeq(s, 1, m)) = m
           /\ \A i \in 1..m : SubSeq(s, 1, m)[i] = s[i]
<1>1. 1 \in Int /\ m \in Int /\ \A i \in 1..m : s[i] \in S
  OBVIOUS
<1>2. /\ SubSeq(s, 1, m) \in Seq(S) /\ Len(SubSeq(s, 1, m)) = IF 1 <= m THEN m - 1 + 1 ELSE 0
      /\ \A i \in 1..(m - 1 + 1) : SubSeq(s, 1, m)[i] = s[1 + i - 1]
  BY <1>1, SubSeqProperties
<1> QED BY <1>2

-----------------------------------------------------------------------------
(* Sequences put end to end.                                               *)

\* f has what the first sequences of ss come to, for every number of them.
Joins(f, ss) == f = [i \in 1..Len(ss) |-> IF i = 1 THEN ss[i] ELSE f[i - 1] \o ss[i]]

LEMMA FlattenDef ==
    ASSUME NEW ss, Len(ss) # 0
    PROVE  FlattenSeq(ss) = (CHOOSE f : Joins(f, ss))[Len(ss)]
  BY Zenon DEF FlattenSeq, Joins

SameStart(ss, tt, n) ==
    /\ Len(ss) \in Nat /\ Len(tt) \in Nat /\ n \in Nat /\ n <= Len(ss) /\ n <= Len(tt)
    /\ \A i \in 1..n : ss[i] = tt[i]

\* There is one such f, and its values are sequences.
LEMMA JoinsUnique ==
    ASSUME NEW ss, NEW tt, NEW n, SameStart(ss, tt, n),
           NEW f, Joins(f, ss), NEW g, Joins(g, tt)
    PROVE  \A i \in 1..n : f[i] = g[i]
<1> USE DEF SameStart
<1> DEFINE T == {i \in 1..n : f[i] # g[i]}
<1> SUFFICES ASSUME T # {} PROVE FALSE
  OBVIOUS
<1>1. T \in SUBSET Nat
  OBVIOUS
<1>2. PICK i \in T : \A j \in T : i <= j
  BY <1>1, LeastNat
<1>3. i \in 1..n /\ f[i] # g[i] /\ i \in 1..Len(ss) /\ i \in 1..Len(tt) /\ ss[i] = tt[i]
  BY <1>2
<1>4. /\ f[i] = IF i = 1 THEN ss[i] ELSE f[i - 1] \o ss[i]
      /\ g[i] = IF i = 1 THEN tt[i] ELSE g[i - 1] \o tt[i]
  BY <1>3 DEF Joins
<1>5. i # 1
  BY <1>3, <1>4
<1>6. i - 1 \in 1..n /\ i - 1 \notin T
  BY <1>2, <1>3, <1>5
<1>7. f[i - 1] = g[i - 1]
  BY <1>6
<1> QED BY <1>3, <1>4, <1>5, <1>7

LEMMA JoinsExists ==
    ASSUME NEW S, NEW ss \in Seq(Seq(S))
    PROVE  \E f \in [1..Len(ss) -> Seq(S)] : Joins(f, ss)
<1> DEFINE P(n) == \E f \in [1..n -> Seq(S)] :
                       f = [i \in 1..n |-> IF i = 1 THEN ss[i] ELSE f[i - 1] \o ss[i]]
           T == {n \in 0..Len(ss) : ~P(n)}
<1>1. Len(ss) \in Nat /\ \A i \in 1..Len(ss) : ss[i] \in Seq(S)
  OBVIOUS
<1>2. T = {}
  <2> SUFFICES ASSUME T # {} PROVE FALSE
    OBVIOUS
  <2>1. T \in SUBSET Nat
    <3> HIDE DEF P
    <3> QED BY <1>1
  <2>2. PICK n \in T : \A j \in T : n <= j
    <3> HIDE DEF T
    <3> QED BY <2>1, LeastNat
  <2>3. n \in 0..Len(ss) /\ ~P(n)
    BY <2>2
  <2>4. CASE n = 0
    <3> DEFINE e == [i \in 1..0 |-> <<>>]
    <3>1. e \in [1..0 -> Seq(S)] /\ e = [i \in 1..0 |-> IF i = 1 THEN ss[i] ELSE e[i - 1] \o ss[i]]
      OBVIOUS
    <3> HIDE DEF e
    <3> QED BY <2>3, <2>4, <3>1
  <2>5. CASE n # 0
    <3>1. n - 1 \in 0..Len(ss) /\ n - 1 < n /\ n \in 1..Len(ss) /\ n \in Nat
      BY <1>1, <2>3, <2>5
    <3>2. n - 1 \notin T
      <4> HIDE DEF T
      <4> QED BY <2>1, <2>2, <3>1
    <3>3. P(n - 1)
      BY <3>1, <3>2
    <3>4. PICK f \in [1..(n - 1) -> Seq(S)] :
              f = [i \in 1..(n - 1) |-> IF i = 1 THEN ss[i] ELSE f[i - 1] \o ss[i]]
      BY <3>3
    <3> DEFINE last == IF n = 1 THEN ss[n] ELSE f[n - 1] \o ss[n]
               g == [i \in 1..n |-> IF i = n THEN last ELSE f[i]]
               h(i) == IF i = 1 THEN ss[i] ELSE g[i - 1] \o ss[i]
    <3>5. last \in Seq(S)
      <4>1. CASE n = 1
        BY <1>1, <3>1, <4>1
      <4>2. CASE n # 1
        <5>1. n - 1 \in 1..(n - 1)
          BY <3>1, <4>2
        <5>2. f[n - 1] \in Seq(S) /\ ss[n] \in Seq(S)
          BY <1>1, <3>1, <5>1
        <5> QED BY <4>2, <5>2, ConcatProperties
      <4> QED BY <4>1, <4>2
    <3>6. g \in [1..n -> Seq(S)]
      <4> HIDE DEF last
      <4> QED BY <3>1, <3>5
    <3>7. \A i \in 1..n : g[i] = h(i)
      <4> SUFFICES ASSUME NEW i \in 1..n PROVE g[i] = h(i)
        OBVIOUS
      <4>1. CASE i = n
        <5>1. g[i] = last
          BY <4>1
        <5>2. i # 1 => g[i - 1] = f[n - 1]
          BY <3>1, <4>1
        <5> QED BY <4>1, <5>1, <5>2
      <4>2. CASE i # n
        <5>1. i \in 1..(n - 1) /\ g[i] = f[i]
          BY <3>1, <4>2
        <5>2. f[i] = IF i = 1 THEN ss[i] ELSE f[i - 1] \o ss[i]
          BY <3>4, <5>1
        <5>3. i # 1 => g[i - 1] = f[i - 1]
          BY <3>1, <4>2
        <5> QED BY <5>1, <5>2, <5>3
      <4> QED BY <4>1, <4>2
    <3>8. g = [i \in 1..n |-> IF i = 1 THEN ss[i] ELSE g[i - 1] \o ss[i]]
      <4> HIDE DEF g
      <4> QED BY <3>6, <3>7
    <3> HIDE DEF g
    <3> QED BY <2>3, <3>6, <3>8
  <2> QED BY <2>4, <2>5
<1>3. P(Len(ss))
  <2> HIDE DEF P
  <2>1. Len(ss) \in 0..Len(ss)
    BY <1>1
  <2> QED BY <1>2, <2>1
<1> QED BY <1>3 DEF Joins

\* What sequences come to, with one more after them.
LEMMA FlattenAppend ==
    ASSUME NEW S, NEW ss \in Seq(Seq(S)), NEW x \in Seq(S)
    PROVE  /\ FlattenSeq(<<>>) = <<>>
           /\ FlattenSeq(ss) \in Seq(S)
           /\ FlattenSeq(Append(ss, x)) = FlattenSeq(ss) \o x
<1> DEFINE tt == Append(ss, x)
           n == Len(ss)
<1>1. /\ tt \in Seq(Seq(S)) /\ Len(tt) = n + 1 /\ n \in Nat /\ tt[n + 1] = x
      /\ \A i \in 1..n : ss[i] = tt[i]
  OBVIOUS
<1>2. FlattenSeq(<<>>) = <<>>
  BY DEF FlattenSeq
<1> HIDE DEF tt
<1>3. PICK g \in [1..Len(tt) -> Seq(S)] : Joins(g, tt)
  BY <1>1, JoinsExists
<1>4. FlattenSeq(tt) = g[n + 1]
  <2> DEFINE c == CHOOSE f : Joins(f, tt)
  <2>1. Joins(c, tt)
    BY <1>3, Zenon
  <2>2. FlattenSeq(tt) = c[Len(tt)]
    BY <1>1, FlattenDef
  <2> HIDE DEF c
  <2>3. \A i \in 1..Len(tt) : c[i] = g[i]
    <3>1. SameStart(tt, tt, Len(tt))
      BY <1>1 DEF SameStart
    <3> QED BY <1>3, <2>1, <3>1, JoinsUnique
  <2> QED BY <1>1, <2>2, <2>3
<1>5. g[n + 1] = IF n + 1 = 1 THEN tt[n + 1] ELSE g[n + 1 - 1] \o tt[n + 1]
  <2>1. \A i \in 1..Len(tt) : g[i] = IF i = 1 THEN tt[i] ELSE g[i - 1] \o tt[i]
    BY <1>3, Zenon DEF Joins
  <2> DEFINE m == n + 1
  <2>2. m \in 1..Len(tt)
    BY <1>1
  <2>3. g[m] = IF m = 1 THEN tt[m] ELSE g[m - 1] \o tt[m]
    <3> HIDE DEF m
    <3> QED BY <2>1, <2>2, Zenon
  <2> QED BY <2>3
<1>6. CASE n = 0
  <2>1. ss = <<>>
    BY <1>6, EmptySeq
  <2>2. g[n + 1] = x
    BY <1>1, <1>5, <1>6
  <2>3. <<>> \o x = x
    BY ConcatEmptySeq
  <2> QED BY <1>2, <1>4, <2>1, <2>2, <2>3, EmptySeq DEF tt
<1>7. CASE n # 0
  <2> DEFINE c == CHOOSE f : Joins(f, ss)
  <2>1. PICK h \in [1..n -> Seq(S)] : Joins(h, ss)
    BY JoinsExists
  <2>2. Joins(c, ss)
    BY <2>1, Zenon
  <2>3. FlattenSeq(ss) = c[n]
    BY <1>7, FlattenDef
  <2> HIDE DEF c
  <2>4. \A i \in 1..n : c[i] = g[i]
    <3>1. SameStart(ss, tt, n)
      BY <1>1 DEF SameStart
    <3> HIDE DEF n
    <3> QED BY <1>3, <2>2, <3>1, JoinsUnique
  <2>5. n \in 1..n /\ n \in 1..Len(tt) /\ n + 1 - 1 = n /\ n + 1 # 1
    BY <1>1, <1>7
  <2>6. FlattenSeq(ss) = g[n] /\ g[n] \in Seq(S)
    BY <1>3, <2>3, <2>4, <2>5
  <2>7. g[n + 1] = g[n] \o x
    BY <1>1, <1>5, <2>5
  <2> QED BY <1>2, <1>4, <2>6, <2>7 DEF tt
<1> QED BY <1>6, <1>7

-----------------------------------------------------------------------------
(* The invariant.                                                          *)

Frames ==
    [name : AppNames, found : Settings, keepWas : SUBSET Kinds, takenWas : Nat, answersWas : Nat,
     page : {"main", "graph"}, plotWas : 0..2, sampled : BOOLEAN, before : Nat,
     entry : Seq(Values), read : Seq(Numbers), gave : Seq(Numbers), clean : BOOLEAN]

TypeInv ==
    /\ mem \in Settings /\ store \in Settings /\ user \in Settings
    /\ stack \in Seq(Values) /\ runs \in Seq(Frames) /\ keep \in SUBSET Kinds
    /\ answers \in Seq(Numbers) /\ taken \in Nat /\ kept \in [AppNames -> 0..1]
    /\ said \in SUBSET Kinds

\* What is in force is on the card all the time, but for STAT PLOT.
StoredInv == \A p \in Parts \ {"plot"} : store[p] = mem[p]

\* What the outermost app will put back is the user's, and what it will keep is
\* what it said; one inside another is inside a page of it.
OuterInv ==
    /\ runs = <<>> => mem = user
    /\ runs # <<>> =>
         /\ \A p \in Parts \ {"plot"} : runs[1].found[p] = user[p]
         /\ ~runs[1].sampled
         /\ runs[1].page = "graph" => runs[1].plotWas = user["plot"]
         /\ Len(runs) = 1 => keep = said
         /\ Len(runs) = 1 /\ runs[1].page = "main" => mem["plot"] = user["plot"]
    /\ Len(runs) > 1 => runs[2].keepWas = said
    /\ \A k \in 1..Len(runs) : k < Len(runs) => runs[k].page = "graph"

\* The folder written to is the innermost app's, if there is any.
NameInv == app_name # "none" => runs # <<>> /\ Inner.name = app_name

\* Where each app began in what has been given, and what it has given.
Gave == [k \in 1..Len(runs) |-> runs[k].gave]
AnswersInv ==
    /\ answers = FlattenSeq(Gave)
    /\ \A k \in 1..Len(runs) :
         /\ FlattenSeq(SubSeq(Gave, 1, k - 1)) = SubSeq(answers, 1, runs[k].answersWas)
         /\ runs[k].answersWas <= Len(answers)
         /\ \A j \in 1..k : runs[j].answersWas <= runs[k].answersWas

\* The stack an app is on is the one it was called on, unless one inside it has
\* left something there; what it has read is the top of it.
ReadOff(f) ==
    /\ Len(f.read) <= Len(f.entry)
    /\ \A j \in 1..Len(f.read) : f.read[j] = f.entry[Len(f.entry) - j + 1]
StackInv ==
    /\ \A k \in 1..Len(runs) : runs[k].clean =>
         /\ ReadOff(runs[k])
         /\ k = Len(runs) => stack = runs[k].entry /\ taken = Len(runs[k].read)
         /\ k < Len(runs) =>
              /\ SubSeq(runs[k + 1].entry, 1, runs[k + 1].before) = runs[k].entry
              /\ runs[k + 1].takenWas = Len(runs[k].read)

IInv == TypeInv /\ StoredInv /\ OuterInv /\ NameInv /\ AnswersInv /\ StackInv

LEMMA Innermost ==
    ASSUME TypeInv, ~Idle
    PROVE  /\ Len(runs) \in Nat \ {0} /\ Inner = runs[Len(runs)] /\ Inner \in Frames
           /\ Len(runs) \in 1..Len(runs)
  BY DEF TypeInv, Idle, Inner, Last

-----------------------------------------------------------------------------
(* The settings.                                                           *)

LEMMA SettingsAre ==
    ASSUME NEW m
    PROVE  m \in Settings <=> m \in [Parts -> 0..2] /\ \A p \in Parts : m[p] \in Setting(p)
  BY Zenon DEF Settings

LEMMA SettingRange ==
    ASSUME NEW p
    PROVE  Setting(p) \subseteq 0..2
  BY DEF Setting

\* A setting changed is in force and on the card.
LEMMA Changed ==
    ASSUME TypeInv, StoredInv, NEW p \in Parts, NEW v \in Setting(p), Change(p, v)
    PROVE  /\ mem' \in Settings /\ store' \in Settings /\ user' \in Settings
           /\ StoredInv'
           /\ Idle /\ mem = user => mem' = user'
           /\ ~Idle => user' = user
           /\ p # "plot" => mem'["plot"] = mem["plot"]
<1>1. /\ mem \in [Parts -> 0..2] /\ store \in [Parts -> 0..2] /\ user \in [Parts -> 0..2]
      /\ \A q \in Parts : mem[q] \in Setting(q) /\ store[q] \in Setting(q) /\ user[q] \in Setting(q)
  BY SettingsAre DEF TypeInv
<1>2. v \in 0..2
  BY SettingRange
<1>3. /\ mem' = [mem EXCEPT ![p] = v]
      /\ store' = Saved(p, mem')
      /\ user' = IF Idle THEN [user EXCEPT ![p] = v] ELSE user
  BY DEF Change
<1>4. mem' \in [Parts -> 0..2] /\ \A q \in Parts : mem'[q] = IF q = p THEN v ELSE mem[q]
  BY <1>1, <1>2, <1>3
<1>5. /\ store' \in [Parts -> 0..2]
      /\ \A q \in Parts : store'[q] = store[q] \/ store'[q] = mem'[q]
  BY <1>1, <1>3, <1>4 DEF Saved, save_settings
<1>6. /\ user' \in [Parts -> 0..2]
      /\ \A q \in Parts : user'[q] = IF Idle /\ q = p THEN v ELSE user[q]
  BY <1>1, <1>2, <1>3
<1>7. mem' \in Settings /\ store' \in Settings /\ user' \in Settings
  BY <1>1, <1>4, <1>5, <1>6, SettingsAre
<1>8. StoredInv'
  <2> SUFFICES ASSUME NEW q \in Parts, q # "plot" PROVE store'[q] = mem'[q]
    BY DEF StoredInv
  <2>1. store[q] = mem[q]
    BY DEF StoredInv
  <2>2. CASE p \in {"slot", "win"}
    BY <1>1, <1>3, <1>4, <2>1, <2>2 DEF Saved
  <2>3. CASE p \notin {"slot", "win"}
    <3>1. store' = [r \in Parts |-> IF r \in {"cfg", "fmt", "plot"} THEN mem'[r] ELSE store[r]]
      BY <1>3, <2>3 DEF Saved, save_settings
    <3> QED BY <1>1, <1>4, <2>1, <2>3, <3>1 DEF Parts
  <2> QED BY <2>2, <2>3
<1>9. Idle /\ mem = user => mem' = user'
  BY <1>3
<1>10. p # "plot" => mem'["plot"] = mem["plot"]
  BY <1>4 DEF Parts
<1> QED BY <1>3, <1>7, <1>8, <1>9, <1>10

\* Every step that sets something is a change of one setting, STAT PLOT only with
\* no app running or from an app's page.
LEMMA SetsOne ==
    ASSUME SetStep
    PROVE  \E p \in Parts : \E v \in Setting(p) :
              Change(p, v) /\ (p = "plot" => Idle \/ Inner.page = "graph")
<1>1. ASSUME NEW p \in Parts, NEW v \in Setting(p), Change(p, v), p = "plot" => Idle \/ Inner.page = "graph"
      PROVE  \E q \in Parts : \E w \in Setting(q) :
                Change(q, w) /\ (q = "plot" => Idle \/ Inner.page = "graph")
  BY <1>1
<1>2. CASE CfgSet
  BY <1>1, <1>2, Zenon DEF CfgSet, Parts
<1>3. CASE GrSetSlot
  BY <1>1, <1>3 DEF GrSetSlot, Parts, Setting
<1>4. CASE GrSetOn
  BY <1>1, <1>4 DEF GrSetOn, Parts, Setting
<1>5. CASE GrSetWindow
  BY <1>1, <1>5, Zenon DEF GrSetWindow, Parts
<1>6. CASE GrSetFormat
  BY <1>1, <1>6, Zenon DEF GrSetFormat, Parts
<1>7. CASE PlotSet
  BY <1>1, <1>7 DEF PlotSet, Parts, Setting
<1>8. CASE PageChanges
  BY <1>1, <1>8 DEF PageChanges, Parts
<1> QED BY <1>2, <1>3, <1>4, <1>5, <1>6, <1>7, <1>8 DEF SetStep

-----------------------------------------------------------------------------
(* What a step does to the runs.                                           *)

LEMMA FieldWritten ==
    ASSUME NEW r \in Frames, NEW q \in Seq(Numbers)
    PROVE  [r EXCEPT !.read = q] \in Frames /\ [r EXCEPT !.gave = q] \in Frames
  BY DEF Frames

\* A step of the innermost app that writes one field of its run, or a page's two.
LEMMA Written ==
    ASSUME TypeInv, ~Idle, NEW g \in Frames,
           runs' = [runs EXCEPT ![Len(runs)] = g]
    PROVE  /\ runs' \in Seq(Frames) /\ Len(runs') = Len(runs)
           /\ runs'[Len(runs)] = g
           /\ \A k \in 1..Len(runs) : k < Len(runs) => runs'[k] = runs[k]
  BY Innermost DEF TypeInv

LEMMA ArgShape ==
    ASSUME TypeInv, ArgStep
    PROVE  /\ ~Idle /\ taken < Len(stack) /\ taken' = taken + 1
           /\ stack[Len(stack) - taken] \in Numbers
           /\ [Inner EXCEPT !.read = Append(Inner.read, stack[Len(stack) - taken])] \in Frames
           /\ runs' = [runs EXCEPT ![Len(runs)] =
                          [Inner EXCEPT !.read = Append(Inner.read, stack[Len(stack) - taken])]]
<1>1. ~Idle /\ taken < Len(stack) /\ taken' = taken + 1 /\ stack[Len(stack) - taken] \in Numbers
  BY DEF ArgStep, NativeArg, Main, Running
<1>2. [Inner EXCEPT !.read = Append(Inner.read, stack[Len(stack) - taken])] \in Frames
  <2>1. Inner \in Frames /\ Inner.read \in Seq(Numbers)
    BY <1>1, Innermost DEF Frames
  <2>2. Append(Inner.read, stack[Len(stack) - taken]) \in Seq(Numbers)
    BY <1>1, <2>1, AppendProperties
  <2> QED BY <2>1, <2>2, FieldWritten
<1>3. runs' = [runs EXCEPT ![Len(runs)] =
                  [Inner EXCEPT !.read = Append(Inner.read, stack[Len(stack) - taken])]]
  BY <1>1, Innermost DEF ArgStep, NativeArg, InnerGets, Inner, Last
<1> QED BY <1>1, <1>2, <1>3

LEMMA AnswerShape ==
    ASSUME TypeInv, AnswerStep
    PROVE  \E v \in Numbers :
           /\ ~Idle /\ answers' = Append(answers, v)
           /\ [Inner EXCEPT !.gave = Append(Inner.gave, v)] \in Frames
           /\ runs' = [runs EXCEPT ![Len(runs)] = [Inner EXCEPT !.gave = Append(Inner.gave, v)]]
<1>1. PICK v \in Numbers : NativeAnswer(v)
  BY DEF AnswerStep
<1>2. ~Idle /\ answers' = Append(answers, v)
  BY <1>1 DEF NativeAnswer, Main, Running
<1>3. [Inner EXCEPT !.gave = Append(Inner.gave, v)] \in Frames
  <2>1. Inner \in Frames /\ Inner.gave \in Seq(Numbers)
    BY <1>2, Innermost DEF Frames
  <2>2. Append(Inner.gave, v) \in Seq(Numbers)
    BY <2>1, AppendProperties
  <2> QED BY <2>1, <2>2, FieldWritten
<1>4. runs' = [runs EXCEPT ![Len(runs)] = [Inner EXCEPT !.gave = Append(Inner.gave, v)]]
  BY <1>1, <1>2, Innermost DEF NativeAnswer, InnerGets, Inner, Last
<1> QED BY <1>2, <1>3, <1>4

LEMMA OpenShape ==
    ASSUME TypeInv, NEW points \in BOOLEAN, PageOpen(points)
    PROVE  /\ ~Idle /\ Inner.page = "main"
           /\ [Inner EXCEPT !.page = "graph", !.plotWas = mem["plot"]] \in Frames
           /\ runs' = [runs EXCEPT ![Len(runs)] =
                          [Inner EXCEPT !.page = "graph", !.plotWas = mem["plot"]]]
           /\ mem' \in Settings /\ \A p \in Parts \ {"plot"} : mem'[p] = mem[p]
<1>1. ~Idle /\ Inner.page = "main"
  BY DEF PageOpen, Running
<1>2. mem \in [Parts -> 0..2] /\ \A p \in Parts : mem[p] \in Setting(p)
  BY SettingsAre DEF TypeInv
<1>3. "plot" \in Parts /\ 2 \in Setting("plot")
  BY DEF Parts, Setting
<1>4. [Inner EXCEPT !.page = "graph", !.plotWas = mem["plot"]] \in Frames
  BY <1>1, <1>2, <1>3, Innermost DEF Frames
<1>5. runs' = [runs EXCEPT ![Len(runs)] = [Inner EXCEPT !.page = "graph", !.plotWas = mem["plot"]]]
  BY <1>1, Innermost DEF PageOpen, Inner, Last
<1>6. mem' \in [Parts -> 0..2] /\ \A p \in Parts : mem'[p] = mem[p] \/ (p = "plot" /\ mem'[p] = 2)
  BY <1>2, <1>3 DEF PageOpen
<1>7. mem' \in Settings
  BY <1>2, <1>3, <1>6, SettingsAre
<1> QED BY <1>1, <1>4, <1>5, <1>6, <1>7

LEMMA LeftShape ==
    ASSUME TypeInv, PageLeft
    PROVE  /\ ~Idle /\ Inner.page = "graph"
           /\ [Inner EXCEPT !.page = "main"] \in Frames
           /\ runs' = [runs EXCEPT ![Len(runs)] = [Inner EXCEPT !.page = "main"]]
           /\ mem' \in Settings /\ \A p \in Parts \ {"plot"} : mem'[p] = mem[p]
           /\ mem'["plot"] = Inner.plotWas
<1>1. ~Idle /\ Inner.page = "graph"
  BY DEF PageLeft, Running
<1>2. mem \in [Parts -> 0..2] /\ \A p \in Parts : mem[p] \in Setting(p)
  BY SettingsAre DEF TypeInv
<1>3. Inner.plotWas \in 0..2
  BY <1>1, Innermost DEF Frames
<1>4. "plot" \in Parts /\ Inner.plotWas \in Setting("plot")
  BY <1>3 DEF Parts, Setting
<1>5. [Inner EXCEPT !.page = "main"] \in Frames
  BY <1>1, Innermost DEF Frames
<1>6. runs' = [runs EXCEPT ![Len(runs)] = [Inner EXCEPT !.page = "main"]]
  BY <1>1, Innermost DEF PageLeft, InnerGets, Inner, Last
<1>7. mem' \in [Parts -> 0..2] /\ \A p \in Parts : mem'[p] = IF p = "plot" THEN Inner.plotWas ELSE mem[p]
  BY <1>2, <1>3, <1>4 DEF PageLeft
<1>8. mem' \in Settings
  BY <1>2, <1>4, <1>7, SettingsAre
<1> QED BY <1>1, <1>4, <1>5, <1>6, <1>7, <1>8

\* What a run was begun with, which stays.
Begun(g, f) ==
    /\ g.name = f.name /\ g.found = f.found /\ g.keepWas = f.keepWas /\ g.takenWas = f.takenWas
    /\ g.answersWas = f.answersWas /\ g.sampled = f.sampled /\ g.before = f.before
    /\ g.entry = f.entry /\ g.clean = f.clean

LEMMA Touched ==
    ASSUME TypeInv, ArgStep \/ AnswerStep \/ PageStep
    PROVE  \E g \in Frames :
           /\ ~Idle /\ runs' = [runs EXCEPT ![Len(runs)] = g] /\ Begun(g, Inner)
           /\ \/ ArgStep /\ g.gave = Inner.gave
              \/ AnswerStep /\ g.read = Inner.read
              \/ PageStep /\ g.gave = Inner.gave /\ g.read = Inner.read
<1>1. CASE ArgStep
  <2> DEFINE g == [Inner EXCEPT !.read = Append(Inner.read, stack[Len(stack) - taken])]
  <2>1. ~Idle /\ g \in Frames /\ runs' = [runs EXCEPT ![Len(runs)] = g]
    BY <1>1, ArgShape
  <2>2. Begun(g, Inner) /\ g.gave = Inner.gave
    BY <2>1, Innermost DEF Frames, Begun
  <2> HIDE DEF g
  <2> QED BY <1>1, <2>1, <2>2
<1>2. CASE AnswerStep
  <2>1. PICK v \in Numbers :
          /\ ~Idle /\ [Inner EXCEPT !.gave = Append(Inner.gave, v)] \in Frames
          /\ runs' = [runs EXCEPT ![Len(runs)] = [Inner EXCEPT !.gave = Append(Inner.gave, v)]]
    BY <1>2, AnswerShape
  <2> DEFINE g == [Inner EXCEPT !.gave = Append(Inner.gave, v)]
  <2>2. Begun(g, Inner) /\ g.read = Inner.read
    BY <2>1, Innermost DEF Frames, Begun
  <2> HIDE DEF g
  <2> QED BY <1>2, <2>1, <2>2 DEF g
<1>3. CASE PageStep /\ \E points \in BOOLEAN : PageOpen(points)
  <2> DEFINE g == [Inner EXCEPT !.page = "graph", !.plotWas = mem["plot"]]
  <2>1. ~Idle /\ g \in Frames /\ runs' = [runs EXCEPT ![Len(runs)] = g]
    BY <1>3, OpenShape
  <2>2. Begun(g, Inner) /\ g.gave = Inner.gave /\ g.read = Inner.read
    BY <2>1, Innermost DEF Frames, Begun
  <2> HIDE DEF g
  <2> QED BY <1>3, <2>1, <2>2
<1>4. CASE PageStep /\ PageLeft
  <2> DEFINE g == [Inner EXCEPT !.page = "main"]
  <2>1. ~Idle /\ g \in Frames /\ runs' = [runs EXCEPT ![Len(runs)] = g]
    BY <1>4, LeftShape
  <2>2. Begun(g, Inner) /\ g.gave = Inner.gave /\ g.read = Inner.read
    BY <2>1, Innermost DEF Frames, Begun
  <2> HIDE DEF g
  <2> QED BY <1>4, <2>1, <2>2
<1> QED BY <1>1, <1>2, <1>3, <1>4 DEF PageStep, NativePlot, NativeGrGraph

\* The run an app starts with, on the stack st of which the first at are its caller's.
Started(a, st, at) ==
    [name |-> a, found |-> mem, keepWas |-> keep, takenWas |-> taken,
     answersWas |-> Len(answers), page |-> "main", plotWas |-> 0,
     sampled |-> ~Idle, before |-> at, entry |-> st, read |-> <<>>, gave |-> <<>>, clean |-> TRUE]

LEMMA StartShape ==
    ASSUME TypeInv, StartStep
    PROVE  \E a \in AppNames, st \in Seq(Values) :
           /\ Started(a, st, Len(stack)) \in Frames
           /\ runs' = Append(runs, Started(a, st, Len(stack)))
           /\ stack' = st /\ app_name' = a /\ keep' = {} /\ taken' = 0
           /\ said' = IF Idle THEN {} ELSE said
           /\ Idle => st = stack
           /\ ~Idle => Inner.page = "graph" /\ \E x \in Numbers : st = Append(stack, x)
<1>1. ASSUME NEW a \in AppNames, NEW st \in Seq(Values), AppStart(a, st, Len(stack))
      PROVE  /\ Started(a, st, Len(stack)) \in Frames
             /\ runs' = Append(runs, Started(a, st, Len(stack)))
             /\ stack' = st /\ app_name' = a /\ keep' = {} /\ taken' = 0
             /\ said' = IF Idle THEN {} ELSE said
  <2>1. runs' = Append(runs, Started(a, st, Len(stack)))
    BY <1>1, Zenon DEF AppStart, Started
  <2>2. /\ stack' = st /\ app_name' = a /\ keep' = {} /\ taken' = 0
        /\ said' = IF Idle THEN {} ELSE said
    BY <1>1 DEF AppStart
  <2>3. /\ mem \in Settings /\ keep \in SUBSET Kinds /\ taken \in Nat /\ Len(answers) \in Nat
        /\ Len(stack) \in Nat /\ <<>> \in Seq(Numbers) /\ 0 \in 0..2
    BY DEF TypeInv
  <2>4. Started(a, st, Len(stack)) \in Frames
    <3>1. (~Idle) \in BOOLEAN /\ TRUE \in BOOLEAN
      BY Zenon DEF Idle
    <3>2. "main" \in {"main", "graph"}
      OBVIOUS
    <3> QED BY <2>3, <3>1, <3>2, Zenon DEF Started, Frames
  <2> QED BY <2>1, <2>2, <2>4
<1>2. PICK a \in AppNames : Run(a) \/ Sample(a)
  BY DEF StartStep
<1>3. CASE Run(a)
  <2>1. Idle /\ AppStart(a, stack, Len(stack)) /\ stack \in Seq(Values)
    BY <1>3 DEF Run, TypeInv
  <2> QED BY <1>1, <2>1
<1>4. CASE Sample(a)
  <2>1. PICK x \in Numbers : AppStart(a, Append(stack, x), Len(stack))
    BY <1>4 DEF Sample
  <2>2. ~Idle /\ Inner.page = "graph"
    BY <1>4 DEF Sample
  <2>3. Append(stack, x) \in Seq(Values)
    BY DEF TypeInv, Values
  <2> DEFINE st == Append(stack, x)
  <2>4. /\ Started(a, st, Len(stack)) \in Frames
        /\ runs' = Append(runs, Started(a, st, Len(stack)))
        /\ stack' = st /\ app_name' = a /\ keep' = {} /\ taken' = 0
        /\ said' = IF Idle THEN {} ELSE said
    BY <1>1, <2>1, <2>3, Zenon
  <2>5. \E y \in Numbers : st = Append(stack, y)
    OBVIOUS
  <2> HIDE DEF st
  <2> QED BY <2>2, <2>3, <2>4, <2>5, Zenon DEF st
<1> QED BY <1>2, <1>3, <1>4

\* What is in force once the page of an app that ends has been left.
Left == IF Inner.page = "graph" THEN [mem EXCEPT !["plot"] = Inner.plotWas] ELSE mem

\* The stack an app that ends leaves.
StackLeft(ok) == Dropped(Inner, IF ok THEN Given(Inner.answersWas, stack) ELSE stack)

LEMMA LeftType ==
    ASSUME TypeInv, ~Idle
    PROVE  /\ Left \in [Parts -> 0..2] /\ \A p \in Parts : Left[p] \in Setting(p)
           /\ \A p \in Parts \ {"plot"} : Left[p] = mem[p]
           /\ Left["plot"] = IF Inner.page = "graph" THEN Inner.plotWas ELSE mem["plot"]
<1>1. mem \in [Parts -> 0..2] /\ \A p \in Parts : mem[p] \in Setting(p)
  BY SettingsAre DEF TypeInv
<1>2. Inner.plotWas \in 0..2
  BY Innermost DEF Frames
<1>3. "plot" \in Parts /\ Inner.plotWas \in Setting("plot")
  BY <1>2 DEF Parts, Setting
<1> QED BY <1>1, <1>2, <1>3 DEF Left

LEMMA StackLeftType ==
    ASSUME TypeInv, AnswersInv, ~Idle, NEW ok \in BOOLEAN
    PROVE  StackLeft(ok) \in Seq(Values)
<1>1. /\ Inner.answersWas \in Nat /\ Inner.before \in Nat /\ stack \in Seq(Values) /\ taken \in Nat
      /\ answers \in Seq(Numbers) /\ Inner.sampled \in BOOLEAN
  BY Innermost DEF Frames, TypeInv
<1>2. Given(Inner.answersWas, stack) \in Seq(Values)
  <2> DEFINE own == SubSeq(answers, Inner.answersWas + 1, Len(answers))
             m == IF taken > Len(stack) THEN 0 ELSE Len(stack) - taken
  <2>1. own \in Seq(Numbers)
    BY <1>1
  <2>2. own \in Seq(Values)
    <3> HIDE DEF own
    <3> QED BY <2>1 DEF Values
  <2>3. SubSeq(stack, 1, m) \in Seq(Values)
    BY <1>1
  <2>4. Given(Inner.answersWas, stack) = IF own = <<>> THEN stack ELSE SubSeq(stack, 1, m) \o own
    BY Zenon DEF Given
  <2> HIDE DEF own, m
  <2>5. SubSeq(stack, 1, m) \o own \in Seq(Values)
    BY <2>2, <2>3, ConcatProperties
  <2> QED BY <1>1, <2>4, <2>5
<1> DEFINE g == IF ok THEN Given(Inner.answersWas, stack) ELSE stack
<1>3. g \in Seq(Values)
  BY <1>1, <1>2
<1> HIDE DEF g
<1>4. StackLeft(ok) = IF Inner.sampled /\ Inner.before < Len(g) THEN SubSeq(g, 1, Inner.before) ELSE g
  BY Zenon DEF StackLeft, Dropped, g
<1>5. Inner.before < Len(g) => SubSeq(g, 1, Inner.before) \in Seq(Values)
  BY <1>1, <1>3
<1> QED BY <1>3, <1>4, <1>5

LEMMA EndShape ==
    ASSUME TypeInv, EndStep
    PROVE  \E ok \in BOOLEAN :
           /\ ~Idle
           /\ mem' = PutBack(Inner, Left) /\ store' = WrittenBack(Left, mem')
           /\ stack' = StackLeft(ok)
           /\ runs' = IF Front(runs) # <<>> /\ stack' # SubSeq(Inner.entry, 1, Inner.before)
                      THEN [Front(runs) EXCEPT ![Len(Front(runs))].clean = FALSE] ELSE Front(runs)
           /\ app_name' = "none" /\ keep' = Inner.keepWas /\ taken' = Inner.takenWas
           /\ answers' = SubSeq(answers, 1, Inner.answersWas)
           /\ user' = IF Len(runs) = 1
                      THEN [p \in Parts |-> IF KeptWith(p) \in said THEN Left[p] ELSE user[p]] ELSE user
           /\ said' = IF Len(runs) = 1 THEN {} ELSE said
           /\ kept' = kept
<1>1. PICK ok \in BOOLEAN : ~Idle /\ AppEnd(ok)
  <2>1. CASE Finish
    BY <2>1 DEF Finish, Main, Running
  <2>2. CASE Fail
    BY <2>2 DEF Fail, Running
  <2>3. CASE Break
    BY <2>3 DEF Break
  <2> QED BY <2>1, <2>2, <2>3 DEF EndStep
<1>2. WITNESS ok \in BOOLEAN
<1> QED BY <1>1, Zenon DEF AppEnd, Left, StackLeft, EndedName, AnswersLeft

\* The runs left are the ones outside it, all but whether they are clean.
Outer(g, f) ==
    /\ g.name = f.name /\ g.found = f.found /\ g.keepWas = f.keepWas /\ g.takenWas = f.takenWas
    /\ g.answersWas = f.answersWas /\ g.page = f.page /\ g.plotWas = f.plotWas /\ g.sampled = f.sampled
    /\ g.before = f.before /\ g.entry = f.entry /\ g.read = f.read /\ g.gave = f.gave

LEMMA EndRuns ==
    ASSUME TypeInv, EndStep
    PROVE  /\ ~Idle /\ runs' \in Seq(Frames) /\ Len(runs') = Len(runs) - 1
           /\ \A k \in 1..(Len(runs) - 1) :
                /\ Outer(runs'[k], runs[k])
                /\ k < Len(runs) - 1 => runs'[k] = runs[k]
                /\ runs'[k].clean => runs[k].clean
                /\ k = Len(runs) - 1 /\ runs'[k].clean =>
                     stack' = SubSeq(Inner.entry, 1, Inner.before)
<1> DEFINE out == Front(runs)
           n == Len(runs)
           same == stack' = SubSeq(Inner.entry, 1, Inner.before)
<1>1. ~Idle /\ runs' = IF out # <<>> /\ ~same THEN [out EXCEPT ![Len(out)].clean = FALSE] ELSE out
  BY EndShape
<1>2. n \in Nat \ {0} /\ runs \in Seq(Frames)
  BY <1>1, Innermost DEF TypeInv
<1>3. out \in Seq(Frames) /\ Len(out) = n - 1 /\ \A k \in 1..(n - 1) : out[k] = runs[k]
  <2>1. n - 1 \in 0..Len(runs)
    BY <1>2
  <2> QED BY <1>2, <2>1, Prefix DEF Front
<1>4. \A k \in 1..(n - 1) : runs[k] \in Frames
  BY <1>2
<1> HIDE DEF out, n, same
<1>5. CASE out # <<>> /\ ~same
  <2>1. n - 1 \in 1..(n - 1)
    BY <1>2, <1>3, <1>5, EmptySeq
  <2> DEFINE last == [out[n - 1] EXCEPT !.clean = FALSE]
  <2>2. runs' = [out EXCEPT ![n - 1] = last]
    BY <1>1, <1>3, <1>5
  <2>3. last \in Frames /\ Outer(last, runs[n - 1]) /\ ~last.clean
    BY <1>3, <1>4, <2>1 DEF Frames, Outer
  <2> HIDE DEF last
  <2>4. /\ runs' \in Seq(Frames) /\ Len(runs') = n - 1 /\ runs'[n - 1] = last
        /\ \A k \in 1..(n - 1) : k # n - 1 => runs'[k] = runs[k]
    BY <1>3, <2>1, <2>2, <2>3
  <2>5. \A k \in 1..(n - 1) : k # n - 1 => Outer(runs'[k], runs[k])
    BY <2>4 DEF Outer
  <2>6. /\ runs' \in Seq(Frames) /\ Len(runs') = n - 1
        /\ \A k \in 1..(n - 1) :
             /\ Outer(runs'[k], runs[k])
             /\ k < n - 1 => runs'[k] = runs[k]
             /\ runs'[k].clean => runs[k].clean
             /\ k = n - 1 /\ runs'[k].clean => same
    BY <1>2, <2>3, <2>4, <2>5
  <2> QED BY <1>1, <2>6 DEF n, same
<1>6. CASE ~(out # <<>> /\ ~same)
  <2>1. runs' = out
    BY <1>1, <1>6
  <2>2. \A k \in 1..(n - 1) : runs'[k] = runs[k] /\ Outer(runs'[k], runs[k])
    BY <1>3, <2>1 DEF Outer
  <2>3. n - 1 \in 1..(n - 1) => same
    BY <1>3, <1>6
  <2>4. /\ runs' \in Seq(Frames) /\ Len(runs') = n - 1
        /\ \A k \in 1..(n - 1) :
             /\ Outer(runs'[k], runs[k])
             /\ k < n - 1 => runs'[k] = runs[k]
             /\ runs'[k].clean => runs[k].clean
             /\ k = n - 1 /\ runs'[k].clean => same
    BY <1>3, <2>1, <2>2, <2>3
  <2> QED BY <1>1, <2>4 DEF n, same
<1> QED BY <1>5, <1>6

-----------------------------------------------------------------------------
(* Every step keeps the invariant: first the settings, in force and stored. *)

\* What an app that ends puts back, and that it is on the card.
LEMMA EndSettings ==
    ASSUME TypeInv, StoredInv, EndStep
    PROVE  /\ mem' \in Settings /\ store' \in Settings /\ user' \in Settings
           /\ StoredInv'
           /\ \A p \in Parts : mem'[p] = IF p # "plot" /\ KeptWith(p) \notin keep THEN Inner.found[p] ELSE Left[p]
<1>1. /\ ~Idle /\ mem' = PutBack(Inner, Left) /\ store' = WrittenBack(Left, mem')
      /\ user' = IF Len(runs) = 1
                 THEN [p \in Parts |-> IF KeptWith(p) \in said THEN Left[p] ELSE user[p]] ELSE user
  BY EndShape
<1>2. /\ store \in [Parts -> 0..2] /\ user \in [Parts -> 0..2]
      /\ \A q \in Parts : store[q] \in Setting(q) /\ user[q] \in Setting(q)
  BY SettingsAre DEF TypeInv
<1>3. Inner.found \in Settings
  BY <1>1, Innermost DEF Frames
<1>4. Inner.found \in [Parts -> 0..2] /\ \A q \in Parts : Inner.found[q] \in Setting(q)
  BY <1>3, SettingsAre
<1>5. /\ Left \in [Parts -> 0..2] /\ \A p \in Parts : Left[p] \in Setting(p)
      /\ \A p \in Parts \ {"plot"} : Left[p] = mem[p]
  BY <1>1, LeftType
<1>6. /\ mem' \in [Parts -> 0..2]
      /\ \A p \in Parts : mem'[p] = IF p # "plot" /\ KeptWith(p) \notin keep THEN Inner.found[p] ELSE Left[p]
  <2>1. mem' = [p \in Parts |-> IF p # "plot" /\ KeptWith(p) \notin keep THEN Inner.found[p] ELSE Left[p]]
    BY <1>1, Zenon DEF PutBack
  <2> QED BY <1>4, <1>5, <2>1
<1>7. /\ store' \in [Parts -> 0..2]
      /\ \A p \in Parts : store'[p] = mem'[p] \/ store'[p] = store[p]
      /\ \A p \in Parts \ {"plot"} : store'[p] = mem'[p] \/ (store'[p] = store[p] /\ Left[p] = mem'[p])
  <2>1. store' = [p \in Parts |->
                    IF p \in {"slot", "win"} THEN IF Left[p] # mem'[p] THEN mem'[p] ELSE store[p]
                    ELSE IF Left["cfg"] # mem'["cfg"] \/ Left["fmt"] # mem'["fmt"] THEN mem'[p] ELSE store[p]]
    BY <1>1, Zenon DEF WrittenBack
  <2>2. \A p \in Parts \ {"plot"} : p \in {"slot", "win", "cfg", "fmt"}
    BY DEF Parts
  <2> QED BY <1>2, <1>6, <2>1, <2>2
<1>8. /\ user' \in [Parts -> 0..2] /\ \A p \in Parts : user'[p] = user[p] \/ user'[p] = Left[p]
  BY <1>1, <1>2, <1>5
<1>9. mem' \in Settings /\ store' \in Settings /\ user' \in Settings
  <2>1. \A p \in Parts : mem'[p] \in Setting(p)
    BY <1>4, <1>5, <1>6
  <2>2. \A p \in Parts : store'[p] \in Setting(p)
    BY <1>2, <1>7, <2>1
  <2>3. \A p \in Parts : user'[p] \in Setting(p)
    BY <1>2, <1>5, <1>8
  <2> QED BY <1>6, <1>7, <1>8, <2>1, <2>2, <2>3, SettingsAre
<1>10. StoredInv'
  BY <1>5, <1>7 DEF StoredInv
<1> QED BY <1>6, <1>9, <1>10

LEMMA TypeStep ==
    ASSUME IInv, Next
    PROVE  TypeInv' /\ StoredInv'
<1> USE DEF IInv
<1>1. CASE SetStep
  <2>1. PICK p \in Parts : \E v \in Setting(p) : Change(p, v)
    BY <1>1, SetsOne
  <2>2. mem' \in Settings /\ store' \in Settings /\ user' \in Settings /\ StoredInv'
    BY <2>1, Changed
  <2> QED BY <1>1, <2>2 DEF SetStep, Session, TypeInv
<1>2. CASE KeepStep
  BY <1>2 DEF KeepStep, NativeKeep, Quiet, TypeInv, StoredInv
<1>3. CASE StackStep
  <2>1. stack' \in Seq(Values)
    <3>1. CASE \E v \in Values : Enter(v)
      BY <3>1 DEF Enter, TypeInv
    <3>2. CASE Drop
      <4>1. stack \in Seq(Values) /\ Len(stack) - 1 \in 0..Len(stack) /\ stack' = SubSeq(stack, 1, Len(stack) - 1)
        BY <3>2 DEF Drop, TypeInv, Front
      <4> QED BY <4>1, Prefix
    <3> QED BY <1>3, <3>1, <3>2 DEF StackStep
  <2> QED BY <1>3, <2>1 DEF StackStep, Quiet, TypeInv, StoredInv
<1>4. CASE StartStep
  <2>1. PICK a \in AppNames, st \in Seq(Values) :
           /\ Started(a, st, Len(stack)) \in Frames
           /\ runs' = Append(runs, Started(a, st, Len(stack)))
           /\ stack' = st /\ app_name' = a /\ keep' = {} /\ taken' = 0
           /\ said' = IF Idle THEN {} ELSE said
    BY <1>4, StartShape
  <2>2. runs' \in Seq(Frames)
    BY <2>1, AppendProperties DEF TypeInv
  <2> QED BY <1>4, <2>1, <2>2 DEF StartStep, Quiet, TypeInv, StoredInv
<1>5. CASE ArgStep
  <2>1. runs' \in Seq(Frames) /\ taken' = taken + 1
    BY <1>5, ArgShape, Written
  <2> QED BY <1>5, <2>1 DEF ArgStep, Quiet, TypeInv, StoredInv
<1>6. CASE AnswerStep
  <2>1. PICK v \in Numbers :
           /\ ~Idle /\ answers' = Append(answers, v)
           /\ [Inner EXCEPT !.gave = Append(Inner.gave, v)] \in Frames
           /\ runs' = [runs EXCEPT ![Len(runs)] = [Inner EXCEPT !.gave = Append(Inner.gave, v)]]
    BY <1>6, AnswerShape
  <2>2. runs' \in Seq(Frames)
    BY <2>1, Written
  <2>3. answers' \in Seq(Numbers)
    BY <2>1, AppendProperties DEF TypeInv
  <2> QED BY <1>6, <2>2, <2>3 DEF AnswerStep, Quiet, TypeInv, StoredInv
<1>7. CASE SaveStep
  <2>1. kept' \in [AppNames -> 0..1]
    BY <1>7 DEF SaveStep, NativeSave, TypeInv
  <2> QED BY <1>7, <2>1 DEF SaveStep, Quiet, TypeInv, StoredInv
<1>8. CASE PageStep
  <2>1. /\ runs' \in Seq(Frames) /\ mem' \in Settings
        /\ \A p \in Parts \ {"plot"} : mem'[p] = mem[p]
    <3>1. CASE \E points \in BOOLEAN : PageOpen(points)
      BY <3>1, OpenShape, Written
    <3>2. CASE PageLeft
      BY <3>2, LeftShape, Written
    <3> QED BY <1>8, <3>1, <3>2 DEF PageStep, NativePlot, NativeGrGraph
  <2> QED BY <1>8, <2>1 DEF PageStep, Session, TypeInv, StoredInv
<1>9. CASE PowerStep
  BY <1>9 DEF PowerStep, Quiet, TypeInv, StoredInv
<1>10. CASE EndStep
  <2>1. mem' \in Settings /\ store' \in Settings /\ user' \in Settings /\ StoredInv'
    BY <1>10, EndSettings
  <2>2. runs' \in Seq(Frames) /\ ~Idle
    BY <1>10, EndRuns
  <2>3. PICK ok \in BOOLEAN :
           /\ stack' = StackLeft(ok) /\ keep' = Inner.keepWas /\ taken' = Inner.takenWas
           /\ answers' = SubSeq(answers, 1, Inner.answersWas)
           /\ said' = IF Len(runs) = 1 THEN {} ELSE said
           /\ kept' = kept
    BY <1>10, EndShape
  <2>4. stack' \in Seq(Values)
    BY <2>2, <2>3, StackLeftType
  <2>5. Inner.keepWas \in SUBSET Kinds /\ Inner.takenWas \in Nat /\ Inner.answersWas \in Nat
    BY <2>2, Innermost DEF Frames
  <2>6. Inner.answersWas <= Len(answers)
    BY <2>2, Innermost DEF AnswersInv
  <2>7. answers' \in Seq(Numbers)
    <3>1. answers \in Seq(Numbers) /\ Inner.answersWas \in 0..Len(answers)
      BY <2>5, <2>6 DEF TypeInv
    <3> QED BY <2>3, <3>1, Prefix
  <2> QED BY <2>1, <2>2, <2>3, <2>4, <2>5, <2>7 DEF TypeInv
<1>11. CASE Crash
  BY <1>11 DEF Crash, TypeInv, StoredInv
<1> QED BY <1>1, <1>2, <1>3, <1>4, <1>5, <1>6, <1>7, <1>8, <1>9, <1>10, <1>11 DEF Next

-----------------------------------------------------------------------------
(* Then what the outermost app puts back, and whose folder is written.      *)

LEMMA OuterStep ==
    ASSUME IInv, Next
    PROVE  OuterInv'
<1> USE DEF IInv
<1>1. runs \in Seq(Frames) /\ Len(runs) \in Nat /\ (Idle <=> Len(runs) = 0)
  BY EmptySeq DEF TypeInv, Idle
<1>2. CASE SetStep
  <2>1. PICK p \in Parts : \E v \in Setting(p) :
           Change(p, v) /\ (p = "plot" => Idle \/ Inner.page = "graph")
    BY <1>2, SetsOne
  <2>2. /\ Idle /\ mem = user => mem' = user'
        /\ ~Idle => user' = user
        /\ p # "plot" => mem'["plot"] = mem["plot"]
    BY <2>1, Changed
  <2>3. runs' = runs /\ keep' = keep /\ said' = said
    BY <1>2 DEF SetStep, Session
  <2>4. CASE Idle
    BY <2>2, <2>3, <2>4 DEF OuterInv, Idle
  <2>5. CASE ~Idle
    <3>1. user' = user
      BY <2>2, <2>5
    <3>2. Len(runs) = 1 /\ runs[1].page = "main" => mem'["plot"] = mem["plot"]
      BY <2>1, <2>2, <2>5, Innermost
    <3> QED BY <2>3, <2>5, <3>1, <3>2 DEF OuterInv, Idle
  <2> QED BY <2>4, <2>5
<1>3. CASE KeepStep
  <2>1. PICK k \in Kinds : NativeKeep(k)
    BY <1>3 DEF KeepStep
  <2>2. mem' = mem /\ user' = user /\ runs' = runs
    BY <1>3 DEF KeepStep, Quiet
  <2> QED BY <1>1, <2>1, <2>2 DEF NativeKeep, OuterInv, Idle
<1>4. CASE StackStep \/ SaveStep \/ PowerStep
  <2>1. mem' = mem /\ user' = user /\ runs' = runs /\ keep' = keep /\ said' = said
    BY <1>4 DEF StackStep, SaveStep, PowerStep, Quiet
  <2> QED BY <2>1 DEF OuterInv
<1>5. CASE StartStep
  <2>1. PICK a \in AppNames, st \in Seq(Values) :
           /\ Started(a, st, Len(stack)) \in Frames
           /\ runs' = Append(runs, Started(a, st, Len(stack)))
           /\ keep' = {} /\ said' = IF Idle THEN {} ELSE said
           /\ ~Idle => Inner.page = "graph"
    BY <1>5, StartShape
  <2>2. mem' = mem /\ user' = user
    BY <1>5 DEF StartStep, Quiet
  <2> DEFINE f == Started(a, st, Len(stack))
  <2>3. f.found = mem /\ f.keepWas = keep /\ f.page = "main" /\ (f.sampled <=> ~Idle)
    BY Zenon DEF Started
  <2> HIDE DEF f
  <2>4. /\ Len(runs') = Len(runs) + 1 /\ runs'[Len(runs) + 1] = f
        /\ \A k \in 1..Len(runs) : runs'[k] = runs[k]
    BY <1>1, <2>1 DEF f
  <2>5. runs' # <<>>
    BY <1>1, <2>4
  <2>6. CASE Idle
    <3>1. Len(runs') = 1 /\ runs'[1] = f /\ said' = {} /\ mem = user /\ ~f.sampled
      BY <1>1, <2>1, <2>3, <2>4, <2>6 DEF OuterInv, Idle
    <3> QED BY <2>1, <2>2, <2>3, <2>5, <3>1 DEF OuterInv
  <2>7. CASE ~Idle
    <3>1. Len(runs) >= 1 /\ runs'[1] = runs[1] /\ said' = said /\ Len(runs') > 1
      BY <1>1, <2>1, <2>4, <2>7
    <3>2. runs'[2].keepWas = said
      <4>1. CASE Len(runs) = 1
        BY <1>1, <2>3, <2>4, <2>7, <4>1 DEF OuterInv, Idle
      <4>2. CASE Len(runs) # 1
        <5>1. 2 \in 1..Len(runs) /\ Len(runs) > 1
          BY <1>1, <2>7, <4>2, Ones
        <5> QED BY <2>4, <5>1 DEF OuterInv
      <4> QED BY <4>1, <4>2
    <3>3. \A k \in 1..Len(runs') : k < Len(runs') => runs'[k].page = "graph"
      <4> SUFFICES ASSUME NEW k \in 1..Len(runs), Len(runs') = Len(runs) + 1
                   PROVE  runs'[k].page = "graph"
        BY <1>1, <2>4
      <4>1. CASE k = Len(runs)
        BY <2>1, <2>4, <2>7, <4>1, Innermost
      <4>2. CASE k # Len(runs)
        BY <1>1, <2>4, <4>2 DEF OuterInv
      <4> QED BY <4>1, <4>2
    <3>4. /\ \A p \in Parts \ {"plot"} : runs[1].found[p] = user[p]
          /\ ~runs[1].sampled
          /\ runs[1].page = "graph" => runs[1].plotWas = user["plot"]
      BY <2>7 DEF OuterInv, Idle
    <3> QED BY <1>1, <2>2, <2>4, <2>5, <3>1, <3>2, <3>3, <3>4 DEF OuterInv
  <2> QED BY <2>6, <2>7
<1>6. CASE ArgStep \/ AnswerStep
  <2>1. PICK g \in Frames : ~Idle /\ runs' = [runs EXCEPT ![Len(runs)] = g] /\ Outer([g EXCEPT !.read = Inner.read, !.gave = Inner.gave], Inner)
    <3>1. CASE ArgStep
      <4> DEFINE g == [Inner EXCEPT !.read = Append(Inner.read, stack[Len(stack) - taken])]
      <4>1. ~Idle /\ g \in Frames /\ runs' = [runs EXCEPT ![Len(runs)] = g] /\ Inner \in Frames
        BY <3>1, ArgShape, Innermost
      <4>2. Outer([g EXCEPT !.read = Inner.read, !.gave = Inner.gave], Inner)
        BY <4>1 DEF Outer, Frames
      <4> HIDE DEF g
      <4> QED BY <4>1, <4>2
    <3>2. CASE AnswerStep
      <4>1. PICK v \in Numbers :
              /\ ~Idle /\ [Inner EXCEPT !.gave = Append(Inner.gave, v)] \in Frames
              /\ runs' = [runs EXCEPT ![Len(runs)] = [Inner EXCEPT !.gave = Append(Inner.gave, v)]]
        BY <3>2, AnswerShape
      <4> DEFINE g == [Inner EXCEPT !.gave = Append(Inner.gave, v)]
      <4>2. Outer([g EXCEPT !.read = Inner.read, !.gave = Inner.gave], Inner)
        BY <4>1, Innermost DEF Outer, Frames
      <4> HIDE DEF g
      <4> QED BY <4>1, <4>2 DEF g
    <3> QED BY <1>6, <3>1, <3>2
  <2>2. /\ g.found = Inner.found /\ g.keepWas = Inner.keepWas /\ g.page = Inner.page
        /\ g.plotWas = Inner.plotWas /\ g.sampled = Inner.sampled
    BY <2>1 DEF Outer, Frames
  <2>3. mem' = mem /\ user' = user /\ keep' = keep /\ said' = said
    BY <1>6 DEF ArgStep, AnswerStep, Quiet
  <2>4. /\ Len(runs') = Len(runs) /\ runs'[Len(runs)] = g /\ runs' # <<>>
        /\ \A k \in 1..Len(runs) : k < Len(runs) => runs'[k] = runs[k]
    BY <2>1, Written, Innermost
  <2>5. \A k \in 1..Len(runs) :
          /\ runs'[k].found = runs[k].found /\ runs'[k].keepWas = runs[k].keepWas
          /\ runs'[k].page = runs[k].page /\ runs'[k].plotWas = runs[k].plotWas
          /\ runs'[k].sampled = runs[k].sampled
    BY <1>1, <2>1, <2>2, <2>4, Innermost
  <2>6. Len(runs) \in Nat \ {0} /\ 1 \in 1..Len(runs)
    BY <2>1, Innermost
  <2>7. Len(runs) > 1 => 2 \in 1..Len(runs)
    BY <2>6
  <2>8. runs # <<>>
    BY <2>1 DEF Idle
  <2> QED BY <2>3, <2>4, <2>5, <2>6, <2>7, <2>8 DEF OuterInv
<1>7. CASE PageStep
  <2>1. user' = user /\ keep' = keep /\ said' = said
    BY <1>7 DEF PageStep, Session
  <2>2. PICK g \in Frames :
          /\ ~Idle /\ runs' = [runs EXCEPT ![Len(runs)] = g]
          /\ g.found = Inner.found /\ g.keepWas = Inner.keepWas /\ g.sampled = Inner.sampled
          /\ \/ Inner.page = "main" /\ g.page = "graph" /\ g.plotWas = mem["plot"]
             \/ Inner.page = "graph" /\ g.page = "main" /\ mem'["plot"] = Inner.plotWas
    <3>1. CASE \E points \in BOOLEAN : PageOpen(points)
      <4> DEFINE g == [Inner EXCEPT !.page = "graph", !.plotWas = mem["plot"]]
      <4>1. ~Idle /\ g \in Frames /\ runs' = [runs EXCEPT ![Len(runs)] = g] /\ Inner.page = "main"
        BY <3>1, OpenShape
      <4>2. /\ g.found = Inner.found /\ g.keepWas = Inner.keepWas /\ g.sampled = Inner.sampled
            /\ g.page = "graph" /\ g.plotWas = mem["plot"]
        BY <4>1, Innermost DEF Frames
      <4> HIDE DEF g
      <4> QED BY <4>1, <4>2
    <3>2. CASE PageLeft
      <4> DEFINE g == [Inner EXCEPT !.page = "main"]
      <4>1. /\ ~Idle /\ g \in Frames /\ runs' = [runs EXCEPT ![Len(runs)] = g] /\ Inner.page = "graph"
            /\ mem'["plot"] = Inner.plotWas
        BY <3>2, LeftShape
      <4>2. /\ g.found = Inner.found /\ g.keepWas = Inner.keepWas /\ g.sampled = Inner.sampled
            /\ g.page = "main"
        BY <4>1, Innermost DEF Frames
      <4> HIDE DEF g
      <4> QED BY <4>1, <4>2
    <3> QED BY <1>7, <3>1, <3>2 DEF PageStep, NativePlot, NativeGrGraph
  <2>3. /\ Len(runs') = Len(runs) /\ runs'[Len(runs)] = g /\ runs' # <<>> /\ runs # <<>>
        /\ \A k \in 1..Len(runs) : k < Len(runs) => runs'[k] = runs[k]
    BY <2>2, Written, Innermost DEF Idle
  <2>4. Len(runs) \in Nat \ {0} /\ Inner = runs[Len(runs)]
    BY <2>2, Innermost
  <2>5. CASE Len(runs) = 1
    <3>1. Inner = runs[1] /\ runs'[1] = g /\ Len(runs') = 1
      BY <2>3, <2>4, <2>5
    <3>2. ~g.sampled
      <4>1. ~Inner.sampled
        BY <2>3, <3>1, Zenon DEF OuterInv
      <4> QED BY <2>2, <4>1, Zenon
    <3>3. /\ \A p \in Parts \ {"plot"} : g.found[p] = user[p]
          /\ keep = said
          /\ Inner.page = "main" => mem["plot"] = user["plot"]
          /\ Inner.page = "graph" => Inner.plotWas = user["plot"]
      BY <2>2, <2>3, <2>5, <3>1 DEF OuterInv
    <3>4. /\ g.page = "graph" => g.plotWas = user["plot"]
          /\ g.page = "main" => mem'["plot"] = user["plot"]
      BY <2>2, <3>3
    <3>5. \A k \in 1..Len(runs') : ~(k < Len(runs')) /\ ~(Len(runs') > 1)
      BY <3>1
    <3>6. ~(Len(runs') > 1)
      BY <3>1
    <3> QED BY <2>1, <2>3, <3>1, <3>2, <3>3, <3>4, <3>5, <3>6 DEF OuterInv
  <2>6. CASE Len(runs) # 1
    <3>1. 2 \in 1..Len(runs) /\ 1 \in 1..Len(runs) /\ 1 < Len(runs) /\ Len(runs) > 1
      BY <2>4, <2>6, Ones
    <3>2. runs'[1] = runs[1] /\ \A k \in 1..Len(runs) : k < Len(runs) => runs'[k].page = "graph"
      BY <2>3, <3>1 DEF OuterInv
    <3>3. runs'[2].keepWas = runs[2].keepWas
      <4>1. CASE Len(runs) = 2
        BY <2>2, <2>3, <2>4, <4>1
      <4>2. CASE Len(runs) # 2
        <5>1. 2 < Len(runs)
          BY <2>4, <3>1, <4>2
        <5> QED BY <2>3, <3>1, <5>1
      <4> QED BY <4>1, <4>2
    <3>4. /\ \A p \in Parts \ {"plot"} : runs'[1].found[p] = user'[p]
          /\ ~runs'[1].sampled
          /\ runs'[1].page = "graph" => runs'[1].plotWas = user'["plot"]
      BY <2>1, <2>3, <3>2, Zenon DEF OuterInv
    <3>5. runs'[2].keepWas = said'
      BY <2>1, <3>1, <3>3 DEF OuterInv
    <3> QED BY <2>3, <2>6, <3>2, <3>4, <3>5 DEF OuterInv
  <2> QED BY <2>4, <2>5, <2>6
<1>8. CASE EndStep
  <2>1. PICK ok \in BOOLEAN :
           /\ ~Idle /\ keep' = Inner.keepWas
           /\ user' = IF Len(runs) = 1
                      THEN [p \in Parts |-> IF KeptWith(p) \in said THEN Left[p] ELSE user[p]] ELSE user
           /\ said' = IF Len(runs) = 1 THEN {} ELSE said
    BY <1>8, EndShape
  <2>2. /\ Len(runs') = Len(runs) - 1 /\ runs' \in Seq(Frames)
        /\ \A k \in 1..(Len(runs) - 1) : Outer(runs'[k], runs[k])
    BY <1>8, EndRuns
  <2>3. Len(runs) \in Nat \ {0} /\ Inner = runs[Len(runs)] /\ runs # <<>>
    BY <2>1, Innermost DEF Idle
  <2>4. CASE Len(runs) = 1
    <3>1. runs' = <<>>
      BY <2>2, <2>4, EmptySeq
    <3>2. mem' \in [Parts -> 0..2] /\ user' \in [Parts -> 0..2] /\ user \in [Parts -> 0..2]
      BY <1>8, EndSettings, SettingsAre DEF TypeInv
    <3>3. ASSUME NEW p \in Parts PROVE mem'[p] = user'[p]
      <4>1. mem'[p] = IF p # "plot" /\ KeptWith(p) \notin keep THEN Inner.found[p] ELSE Left[p]
        BY <1>8, EndSettings
      <4>2. user'[p] = IF KeptWith(p) \in said THEN Left[p] ELSE user[p]
        BY <2>1, <2>4
      <4>3. CASE p = "plot"
        <5>1. KeptWith(p) \notin said
          BY <4>3 DEF KeptWith, TypeInv, Kinds
        <5>2. Inner.page \in {"main", "graph"}
          BY <2>1, Innermost DEF Frames
        <5>3. Left["plot"] = user["plot"]
          BY <2>1, <2>3, <2>4, <5>2, LeftType DEF OuterInv
        <5> QED BY <4>1, <4>2, <4>3, <5>1, <5>3
      <4>4. CASE p # "plot"
        <5>1. keep = said /\ Inner.found[p] = user[p]
          BY <2>3, <2>4, <4>4 DEF OuterInv
        <5> QED BY <4>1, <4>2, <4>4, <5>1
      <4> QED BY <4>3, <4>4
    <3>4. mem' = user'
      BY <3>2, <3>3
    <3> QED BY <3>1, <3>4 DEF OuterInv
  <2>5. CASE Len(runs) # 1
    <3>1. Len(runs) > 1 /\ 1 \in 1..(Len(runs) - 1) /\ Len(runs) \in Nat
      BY <2>3, <2>5
    <3>2. runs' # <<>> /\ user' = user /\ said' = said
      BY <2>1, <2>2, <2>5, <3>1
    <3>3. \A k \in 1..(Len(runs) - 1) :
            /\ runs'[k].found = runs[k].found /\ runs'[k].keepWas = runs[k].keepWas
            /\ runs'[k].page = runs[k].page /\ runs'[k].plotWas = runs[k].plotWas
            /\ runs'[k].sampled = runs[k].sampled
      BY <2>2 DEF Outer
    <3>4. Len(runs') = 1 => keep' = said
      <4> SUFFICES ASSUME Len(runs') = 1 PROVE keep' = said
        OBVIOUS
      <4>1. Len(runs) = 2
        BY <2>2, <3>1, Ones
      <4>2. Len(runs) > 1
        BY <4>1
      <4> QED BY <2>1, <2>3, <4>1, <4>2 DEF OuterInv
    <3>5. Len(runs') > 1 => runs'[2].keepWas = said
      <4> SUFFICES ASSUME Len(runs') > 1 PROVE runs'[2].keepWas = said
        OBVIOUS
      <4>1. 2 \in 1..(Len(runs) - 1)
        BY <2>2, <3>1
      <4> QED BY <3>1, <3>3, <4>1 DEF OuterInv
    <3>6. \A k \in 1..Len(runs') : runs'[k].page = "graph"
      BY <2>2, <3>1, <3>3 DEF OuterInv
    <3>7. runs'[1].page = "graph"
      BY <2>2, <3>1, <3>6
    <3>8. /\ \A p \in Parts \ {"plot"} : runs'[1].found[p] = user[p]
          /\ ~runs'[1].sampled
          /\ runs'[1].plotWas = user["plot"]
      BY <2>3, <3>1, <3>3, <3>7 DEF OuterInv
    <3> QED BY <3>2, <3>4, <3>5, <3>6, <3>7, <3>8 DEF OuterInv
  <2> QED BY <2>4, <2>5
<1>9. CASE Crash
  BY <1>9 DEF Crash, OuterInv
<1> QED BY <1>2, <1>3, <1>4, <1>5, <1>6, <1>7, <1>8, <1>9 DEF Next

LEMMA NameStep ==
    ASSUME IInv, Next
    PROVE  NameInv'
<1> USE DEF IInv
<1>1. CASE SetStep \/ KeepStep \/ StackStep \/ SaveStep \/ PowerStep
  <2>1. runs' = runs /\ app_name' = app_name
    BY <1>1 DEF SetStep, KeepStep, StackStep, SaveStep, PowerStep, Session
  <2> QED BY <2>1 DEF NameInv, Inner
<1>2. CASE StartStep
  <2>1. PICK a \in AppNames, st \in Seq(Values) :
           /\ Started(a, st, Len(stack)) \in Frames
           /\ runs' = Append(runs, Started(a, st, Len(stack)))
           /\ app_name' = a
    BY <1>2, StartShape
  <2> DEFINE f == Started(a, st, Len(stack))
  <2>2. f.name = a
    BY Zenon DEF Started
  <2> HIDE DEF f
  <2>3. runs' # <<>> /\ runs'[Len(runs')] = f
    BY <2>1 DEF TypeInv, f
  <2> QED BY <2>1, <2>2, <2>3 DEF NameInv, Inner, Last
<1>3. CASE ArgStep \/ AnswerStep \/ PageStep
  <2>1. PICK g \in Frames : ~Idle /\ runs' = [runs EXCEPT ![Len(runs)] = g] /\ g.name = Inner.name
    BY <1>3, Touched DEF Begun
  <2>2. Len(runs') = Len(runs) /\ runs'[Len(runs)] = g /\ runs' # <<>>
    BY <2>1, Written, Innermost
  <2>3. app_name' = app_name
    BY <1>3 DEF ArgStep, AnswerStep, PageStep, Session
  <2> QED BY <2>1, <2>2, <2>3 DEF NameInv, Inner, Last
<1>4. CASE EndStep
  <2>1. app_name' = "none"
    BY <1>4, EndShape
  <2> QED BY <2>1 DEF NameInv
<1>5. CASE Crash
  BY <1>5 DEF Crash, NameInv
<1> QED BY <1>1, <1>2, <1>3, <1>4, <1>5 DEF Next

-----------------------------------------------------------------------------
(* Then what has been given.                                               *)

LEMMA IsSeq ==
    ASSUME NEW S, NEW n \in Nat, NEW f \in [1..n -> S]
    PROVE  f \in Seq(S) /\ Len(f) = n
  OBVIOUS

LEMMA GaveType ==
    ASSUME NEW rs \in Seq(Frames)
    PROVE  /\ [k \in 1..Len(rs) |-> rs[k].gave] \in Seq(Seq(Numbers))
           /\ Len([k \in 1..Len(rs) |-> rs[k].gave]) = Len(rs)
           /\ Len(rs) \in Nat
           /\ \A k \in 1..Len(rs) : rs[k].answersWas \in Nat
<1>1. Len(rs) \in Nat /\ \A k \in 1..Len(rs) : rs[k] \in Frames
  OBVIOUS
<1>2. \A k \in 1..Len(rs) : rs[k].gave \in Seq(Numbers) /\ rs[k].answersWas \in Nat
  BY <1>1 DEF Frames
<1> DEFINE g == [k \in 1..Len(rs) |-> rs[k].gave]
<1>3. g \in [1..Len(rs) -> Seq(Numbers)]
  BY <1>2
<1> HIDE DEF g
<1>4. g \in Seq(Seq(Numbers)) /\ Len(g) = Len(rs)
  BY <1>1, <1>3, IsSeq
<1> QED BY <1>1, <1>2, <1>4 DEF g

\* A sequence is what comes before its last member and that.
LEMMA LastApart ==
    ASSUME NEW S, NEW s \in Seq(S), Len(s) # 0
    PROVE  /\ SubSeq(s, 1, Len(s) - 1) \in Seq(S) /\ s[Len(s)] \in S
           /\ s = Append(SubSeq(s, 1, Len(s) - 1), s[Len(s)])
<1>1. Len(s) \in Nat /\ Len(s) - 1 \in 0..Len(s) /\ s[Len(s)] \in S
  OBVIOUS
<1> DEFINE t == SubSeq(s, 1, Len(s) - 1)
<1>2. t \in Seq(S) /\ Len(t) = Len(s) - 1 /\ \A i \in 1..(Len(s) - 1) : t[i] = s[i]
  BY <1>1, Prefix
<1> HIDE DEF t
<1>3. /\ Append(t, s[Len(s)]) \in Seq(S) /\ Len(Append(t, s[Len(s)])) = Len(s)
      /\ \A i \in 1..Len(s) : Append(t, s[Len(s)])[i] = s[i]
  BY <1>1, <1>2, AppendProperties
<1> QED BY <1>1, <1>2, <1>3, SeqEqual DEF t

\* The front of a sequence is not touched by what is put after it.
LEMMA PrefixSame ==
    ASSUME NEW S, NEW s \in Seq(S), NEW t \in Seq(S), NEW m \in 0..Len(s), m <= Len(t),
           \A i \in 1..m : s[i] = t[i]
    PROVE  SubSeq(s, 1, m) = SubSeq(t, 1, m)
<1>1. m \in 0..Len(t)
  OBVIOUS
<1> QED BY <1>1, Prefix, SeqEqual

LEMMA AppendConcat ==
    ASSUME NEW S, NEW s \in Seq(S), NEW t \in Seq(S), NEW v \in S
    PROVE  s \o Append(t, v) = Append(s \o t, v)
<1>1. /\ Append(t, v) = t \o <<v>> /\ s \o t \in Seq(S)
  BY AppendIsConcat, ConcatProperties
<1>2. Append(s \o t, v) = (s \o t) \o <<v>> /\ <<v>> \in Seq(S)
  BY <1>1, AppendIsConcat
<1> QED BY <1>1, <1>2, ConcatAssociative

LEMMA AnswersSame ==
    ASSUME AnswersInv, answers' = answers, Len(runs') = Len(runs),
           \A k \in 1..Len(runs) : runs'[k].gave = runs[k].gave /\ runs'[k].answersWas = runs[k].answersWas
    PROVE  AnswersInv'
<1>1. Gave' = Gave
  BY DEF Gave
<1> QED BY <1>1 DEF AnswersInv

LEMMA AnswersStep ==
    ASSUME IInv, Next
    PROVE  AnswersInv'
<1> USE DEF IInv
<1> DEFINE n == Len(runs)
<1>1. TypeInv'
  BY TypeStep
<1>2. /\ Gave \in Seq(Seq(Numbers)) /\ Len(Gave) = n /\ n \in Nat
      /\ \A k \in 1..n : Gave[k] = runs[k].gave /\ runs[k].answersWas \in Nat
  BY GaveType DEF TypeInv, Gave
<1>3. /\ Gave' \in Seq(Seq(Numbers)) /\ Len(Gave') = Len(runs') /\ Len(runs') \in Nat
      /\ \A k \in 1..Len(runs') : Gave'[k] = runs'[k].gave /\ runs'[k].answersWas \in Nat
  BY <1>1, GaveType DEF TypeInv, Gave
<1>4. answers \in Seq(Numbers) /\ answers' \in Seq(Numbers) /\ Len(answers) \in Nat
  BY <1>1 DEF TypeInv
<1>5. CASE SetStep \/ KeepStep \/ StackStep \/ SaveStep \/ PowerStep
  <2>1. runs' = runs /\ answers' = answers
    BY <1>5 DEF SetStep, KeepStep, StackStep, SaveStep, PowerStep, Session
  <2> QED BY <2>1, AnswersSame
<1>6. CASE StartStep
  <2>1. PICK a \in AppNames, st \in Seq(Values) :
           runs' = Append(runs, Started(a, st, Len(stack)))
    BY <1>6, StartShape
  <2> DEFINE f == Started(a, st, Len(stack))
  <2>2. f.gave = <<>> /\ f.answersWas = Len(answers)
    BY Zenon DEF Started
  <2> HIDE DEF f
  <2>3. Len(runs') = n + 1 /\ runs'[n + 1] = f /\ \A k \in 1..n : runs'[k] = runs[k]
    BY <2>1 DEF TypeInv, f
  <2>4. answers' = answers
    BY <1>6 DEF StartStep
  <2>5. Gave' = Append(Gave, <<>>) /\ <<>> \in Seq(Numbers)
    <3>1. Append(Gave, <<>>) \in Seq(Seq(Numbers)) /\ Len(Append(Gave, <<>>)) = n + 1
      BY <1>2
    <3>2. \A k \in 1..(n + 1) : Gave'[k] = Append(Gave, <<>>)[k]
      <4>1. \A k \in 1..(n + 1) : k \in 1..n \/ k = n + 1
        BY <1>2
      <4>2. \A k \in 1..n : k \in 1..(n + 1) /\ Append(Gave, <<>>)[k] = Gave[k]
        BY <1>2
      <4>3. n + 1 \in 1..(n + 1) /\ Append(Gave, <<>>)[n + 1] = <<>>
        BY <1>2
      <4> HIDE DEF n
      <4> QED BY <1>2, <1>3, <2>2, <2>3, <4>1, <4>2, <4>3
    <3> QED BY <1>3, <2>3, <3>1, <3>2, SeqEqual
  <2>6. FlattenSeq(Gave') = answers
    BY <1>2, <1>4, <2>5, FlattenAppend, ConcatEmptySeq DEF AnswersInv
  <2>7. ASSUME NEW k \in 1..(n + 1)
        PROVE  /\ FlattenSeq(SubSeq(Gave', 1, k - 1)) = SubSeq(answers, 1, runs'[k].answersWas)
               /\ runs'[k].answersWas <= Len(answers)
               /\ \A j \in 1..k : runs'[j].answersWas <= runs'[k].answersWas
    <3>1. k - 1 \in 0..Len(Gave) /\ k - 1 <= Len(Gave')
      BY <1>2, <1>3, <2>3
    <3>2. \A i \in 1..(k - 1) : Gave[i] = Gave'[i]
      <4>1. \A i \in 1..(k - 1) : i \in 1..n /\ i \in 1..(n + 1)
        BY <1>2
      <4> HIDE DEF n
      <4> QED BY <1>2, <1>3, <2>3, <4>1
    <3>3. SubSeq(Gave', 1, k - 1) = SubSeq(Gave, 1, k - 1)
      BY <1>2, <1>3, <3>1, <3>2, PrefixSame
    <3>4. CASE k = n + 1
      <4>1. SubSeq(Gave, 1, k - 1) = Gave /\ SubSeq(answers, 1, Len(answers)) = answers
        BY <1>2, <1>4, <3>4, SubSeqFull
      <4>2. \A j \in 1..n : runs[j].answersWas <= Len(answers)
        BY DEF AnswersInv
      <4>3. runs'[k].answersWas = Len(answers)
        BY <2>2, <2>3, <3>4
      <4>4. FlattenSeq(SubSeq(Gave', 1, k - 1)) = answers
        BY <3>3, <4>1 DEF AnswersInv
      <4>5. \A j \in 1..k : runs'[j].answersWas <= Len(answers)
        <5>1. \A j \in 1..k : j \in 1..n \/ j = n + 1
          BY <1>2, <3>4
        <5>2. Len(answers) <= Len(answers)
          BY <1>4
        <5> HIDE DEF n
        <5> QED BY <2>2, <2>3, <4>2, <5>1, <5>2
      <4>6. runs'[k].answersWas <= Len(answers)
        BY <1>4, <4>3
      <4> QED BY <4>1, <4>3, <4>4, <4>5, <4>6
    <3>5. CASE k # n + 1
      <4>1. k \in 1..n /\ \A j \in 1..k : j \in 1..n
        BY <1>2, <3>5
      <4> QED BY <2>3, <3>3, <4>1 DEF AnswersInv
    <3> QED BY <3>4, <3>5
  <2> QED BY <2>3, <2>4, <2>6, <2>7 DEF AnswersInv
<1>7. CASE (ArgStep \/ PageStep) /\ ~AnswerStep
  <2>1. PICK g \in Frames :
          /\ ~Idle /\ runs' = [runs EXCEPT ![Len(runs)] = g]
          /\ g.gave = Inner.gave /\ g.answersWas = Inner.answersWas
    BY <1>7, Touched DEF Begun
  <2>2. /\ Len(runs') = n /\ runs'[n] = g /\ Inner = runs[n]
        /\ \A k \in 1..n : k < n => runs'[k] = runs[k]
    BY <2>1, Written, Innermost
  <2>3. answers' = answers
    BY <1>7 DEF ArgStep, PageStep, Session
  <2>4. \A k \in 1..n : runs'[k].gave = runs[k].gave /\ runs'[k].answersWas = runs[k].answersWas
    <3>1. \A k \in 1..n : k = n \/ k < n
      BY <1>2
    <3> QED BY <2>1, <2>2, <3>1
  <2> QED BY <2>2, <2>3, <2>4, AnswersSame
<1>8. CASE AnswerStep
  <2>1. PICK v \in Numbers :
           /\ ~Idle /\ answers' = Append(answers, v)
           /\ [Inner EXCEPT !.gave = Append(Inner.gave, v)] \in Frames
           /\ runs' = [runs EXCEPT ![Len(runs)] = [Inner EXCEPT !.gave = Append(Inner.gave, v)]]
    BY <1>8, AnswerShape
  <2> DEFINE g == [Inner EXCEPT !.gave = Append(Inner.gave, v)]
  <2>2. g.gave = Append(Inner.gave, v) /\ g.answersWas = Inner.answersWas
    BY <2>1, Innermost DEF Frames
  <2> HIDE DEF g
  <2>3. /\ Len(runs') = n /\ runs'[n] = g /\ Inner = runs[n] /\ n \in Nat \ {0} /\ n \in 1..n
        /\ \A k \in 1..n : k < n => runs'[k] = runs[k]
    BY <2>1, Written, Innermost DEF g
  <2>4. \A k \in 1..n : k = n \/ k < n
    BY <1>2
  <2>5. \A k \in 1..n : runs'[k].answersWas = runs[k].answersWas
    <3> HIDE DEF n
    <3> QED BY <2>2, <2>3, <2>4
  <2>6. n - 1 \in 0..n
    BY <2>3
  <2> DEFINE F == SubSeq(Gave, 1, n - 1)
             x == Gave[n]
  <2>7. F \in Seq(Seq(Numbers)) /\ x \in Seq(Numbers) /\ Gave = Append(F, x)
    BY <1>2, <2>3, LastApart
  <2>8. SubSeq(Gave', 1, n - 1) = F /\ Gave'[n] = Append(x, v) /\ Append(x, v) \in Seq(Numbers)
    <3>1. \A i \in 1..(n - 1) : i \in 1..n /\ i < n
      BY <2>3
    <3>2. \A i \in 1..(n - 1) : Gave'[i] = Gave[i]
      <4> HIDE DEF n
      <4> QED BY <1>2, <1>3, <2>3, <3>1
    <3>3. n - 1 \in 0..Len(Gave') /\ n - 1 <= Len(Gave)
      BY <1>2, <1>3, <2>3
    <3>4. SubSeq(Gave', 1, n - 1) = F
      <4> HIDE DEF n
      <4> QED BY <1>2, <1>3, <3>2, <3>3, PrefixSame
    <3>5. Gave'[n] = Append(x, v)
      <4> HIDE DEF n
      <4> QED BY <1>2, <1>3, <2>2, <2>3
    <3> QED BY <2>7, <3>4, <3>5, AppendProperties
  <2>9. Gave' = Append(F, Append(x, v))
    <3>1. Len(Gave') = n /\ Len(Gave') # 0
      BY <1>3, <2>3
    <3>2. Gave' = Append(SubSeq(Gave', 1, Len(Gave') - 1), Gave'[Len(Gave')])
      BY <1>3, <3>1, LastApart
    <3> QED BY <2>8, <3>1, <3>2
  <2> HIDE DEF F, x
  <2>10. FlattenSeq(F) \in Seq(Numbers) /\ FlattenSeq(Gave) = FlattenSeq(F) \o x
    BY <2>7, FlattenAppend
  <2>11. FlattenSeq(Gave') = FlattenSeq(F) \o Append(x, v)
    BY <2>7, <2>8, <2>9, FlattenAppend
  <2>12. FlattenSeq(F) \o Append(x, v) = Append(FlattenSeq(F) \o x, v)
    BY <2>7, <2>10, AppendConcat
  <2>13. FlattenSeq(Gave') = answers'
    BY <2>1, <2>10, <2>11, <2>12 DEF AnswersInv
  <2>14. Len(answers') = Len(answers) + 1 /\ \A i \in 1..Len(answers) : answers'[i] = answers[i]
    BY <1>4, <2>1, AppendProperties
  <2>15. ASSUME NEW k \in 1..n
         PROVE  /\ FlattenSeq(SubSeq(Gave', 1, k - 1)) = SubSeq(answers', 1, runs'[k].answersWas)
                /\ runs'[k].answersWas <= Len(answers')
                /\ \A j \in 1..k : runs'[j].answersWas <= runs'[k].answersWas
    <3>1. /\ FlattenSeq(SubSeq(Gave, 1, k - 1)) = SubSeq(answers, 1, runs[k].answersWas)
          /\ runs[k].answersWas <= Len(answers)
          /\ \A j \in 1..k : runs[j].answersWas <= runs[k].answersWas
      BY DEF AnswersInv
    <3>2. runs[k].answersWas \in Nat
      BY <1>2
    <3>3. SubSeq(Gave', 1, k - 1) = SubSeq(Gave, 1, k - 1)
      <4>1. k - 1 \in 0..Len(Gave') /\ k - 1 <= Len(Gave)
        BY <1>2, <1>3, <2>3
      <4>2. \A i \in 1..(k - 1) : i \in 1..n /\ i < n
        BY <2>3
      <4>3. \A i \in 1..(k - 1) : Gave'[i] = Gave[i]
        <5> HIDE DEF n
        <5> QED BY <1>2, <1>3, <2>3, <4>2
      <4> QED BY <1>2, <1>3, <4>1, <4>3, PrefixSame
    <3>4. SubSeq(answers', 1, runs[k].answersWas) = SubSeq(answers, 1, runs[k].answersWas)
      <4> DEFINE m == runs[k].answersWas
      <4>1. m \in 0..Len(answers') /\ m <= Len(answers) /\ \A i \in 1..m : i \in 1..Len(answers)
        BY <1>4, <2>14, <3>1, <3>2
      <4> HIDE DEF m
      <4>2. SubSeq(answers', 1, m) = SubSeq(answers, 1, m)
        BY <1>4, <2>14, <4>1, PrefixSame
      <4> QED BY <4>2 DEF m
    <3>5. runs[k].answersWas <= Len(answers')
      BY <1>4, <2>14, <3>1, <3>2
    <3>6. \A j \in 1..k : j \in 1..n
      BY <2>3
    <3> QED BY <2>5, <3>1, <3>3, <3>4, <3>5, <3>6
  <2> QED BY <2>3, <2>13, <2>15 DEF AnswersInv
<1>9. CASE EndStep
  <2>1. ~Idle /\ answers' = SubSeq(answers, 1, Inner.answersWas)
    BY <1>9, EndShape
  <2>2. /\ Len(runs') = n - 1
        /\ \A k \in 1..(n - 1) : runs'[k].gave = runs[k].gave /\ runs'[k].answersWas = runs[k].answersWas
    BY <1>9, EndRuns DEF Outer
  <2>3. n \in Nat \ {0} /\ n \in 1..n /\ Inner = runs[n] /\ n - 1 \in 0..n
    BY <2>1, Innermost
  <2> DEFINE w == runs[n].answersWas
  <2>4. w \in Nat /\ w <= Len(answers) /\ FlattenSeq(SubSeq(Gave, 1, n - 1)) = SubSeq(answers, 1, w)
    BY <1>2, <2>3 DEF AnswersInv
  <2>5. Gave' = SubSeq(Gave, 1, n - 1)
    <3>1. /\ SubSeq(Gave, 1, n - 1) \in Seq(Seq(Numbers)) /\ Len(SubSeq(Gave, 1, n - 1)) = n - 1
          /\ \A i \in 1..(n - 1) : SubSeq(Gave, 1, n - 1)[i] = Gave[i]
      BY <1>2, <2>3, Prefix
    <3>2. \A i \in 1..(n - 1) : i \in 1..n
      BY <2>3
    <3>3. \A i \in 1..(n - 1) : Gave'[i] = SubSeq(Gave, 1, n - 1)[i]
      <4> HIDE DEF n
      <4> QED BY <1>2, <1>3, <2>2, <3>1, <3>2
    <3> QED BY <1>3, <2>2, <3>1, <3>3, SeqEqual
  <2>6. /\ answers' = SubSeq(answers, 1, w) /\ Len(answers') = w
        /\ \A i \in 1..w : answers'[i] = answers[i]
    <3>1. w \in 0..Len(answers)
      BY <1>4, <2>4
    <3> HIDE DEF w
    <3>2. answers' = SubSeq(answers, 1, w)
      BY <2>1, <2>3 DEF w
    <3> QED BY <1>4, <3>1, <3>2, Prefix
  <2>7. FlattenSeq(Gave') = answers'
    BY <2>4, <2>5, <2>6
  <2>8. ASSUME NEW k \in 1..(n - 1)
        PROVE  /\ FlattenSeq(SubSeq(Gave', 1, k - 1)) = SubSeq(answers', 1, runs'[k].answersWas)
               /\ runs'[k].answersWas <= Len(answers')
               /\ \A j \in 1..k : runs'[j].answersWas <= runs'[k].answersWas
    <3>1. k \in 1..n /\ k - 1 \in 0..Len(Gave) /\ k - 1 <= Len(Gave') /\ \A j \in 1..k : j \in 1..(n - 1)
      BY <1>2, <1>3, <2>2, <2>3
    <3>2. /\ FlattenSeq(SubSeq(Gave, 1, k - 1)) = SubSeq(answers, 1, runs[k].answersWas)
          /\ \A j \in 1..k : runs[j].answersWas <= runs[k].answersWas
      BY <3>1 DEF AnswersInv
    <3>3. runs[k].answersWas \in Nat /\ runs[k].answersWas <= w
      BY <1>2, <2>3, <3>1 DEF AnswersInv
    <3>4. SubSeq(Gave', 1, k - 1) = SubSeq(Gave, 1, k - 1)
      <4>1. \A i \in 1..(k - 1) : i \in 1..(n - 1) /\ i \in 1..n
        BY <2>3
      <4>2. \A i \in 1..(k - 1) : Gave[i] = Gave'[i]
        <5> HIDE DEF n
        <5> QED BY <1>2, <1>3, <2>2, <4>1
      <4> QED BY <1>2, <1>3, <3>1, <4>2, PrefixSame
    <3> DEFINE m == runs[k].answersWas
    <3>5. SubSeq(answers', 1, m) = SubSeq(answers, 1, m)
      <4>1. m \in 0..Len(answers') /\ m <= Len(answers) /\ \A i \in 1..m : i \in 1..w
        BY <1>4, <2>4, <2>6, <3>3
      <4> HIDE DEF m, w
      <4> QED BY <1>4, <2>6, <4>1, PrefixSame
    <3> QED BY <2>2, <2>6, <3>1, <3>2, <3>3, <3>4, <3>5
  <2> QED BY <2>2, <2>7, <2>8 DEF AnswersInv
<1>10. CASE Crash
  <2>1. runs' = <<>> /\ answers' = <<>>
    BY <1>10 DEF Crash
  <2>2. Gave' = <<>>
    BY <1>3, <2>1, EmptySeq
  <2>3. FlattenSeq(<<>>) = <<>>
    BY DEF FlattenSeq
  <2> QED BY <2>1, <2>2, <2>3 DEF AnswersInv
<1> QED BY <1>5, <1>6, <1>7, <1>8, <1>9, <1>10 DEF Next

-----------------------------------------------------------------------------
(* And what the runs took off the stack.                                    *)

LEMMA StackSame ==
    ASSUME StackInv, stack' = stack, taken' = taken, Len(runs') = Len(runs), Len(runs) \in Nat,
           \A k \in 1..Len(runs) :
             /\ runs'[k].clean = runs[k].clean /\ runs'[k].entry = runs[k].entry /\ runs'[k].read = runs[k].read
             /\ runs'[k].before = runs[k].before /\ runs'[k].takenWas = runs[k].takenWas
    PROVE  StackInv'
<1> SUFFICES ASSUME NEW k \in 1..Len(runs), runs'[k].clean
             PROVE  /\ ReadOff(runs'[k])
                    /\ k = Len(runs) => stack = runs'[k].entry /\ taken = Len(runs'[k].read)
                    /\ k < Len(runs) =>
                         /\ SubSeq(runs'[k + 1].entry, 1, runs'[k + 1].before) = runs'[k].entry
                         /\ runs'[k + 1].takenWas = Len(runs'[k].read)
  BY DEF StackInv
<1>1. runs[k].clean
  BY Zenon
<1>2. k < Len(runs) => k + 1 \in 1..Len(runs)
  OBVIOUS
<1>3. /\ ReadOff(runs[k])
      /\ k = Len(runs) => stack = runs[k].entry /\ taken = Len(runs[k].read)
      /\ k < Len(runs) =>
           /\ SubSeq(runs[k + 1].entry, 1, runs[k + 1].before) = runs[k].entry
           /\ runs[k + 1].takenWas = Len(runs[k].read)
  BY <1>1 DEF StackInv
<1>4. runs'[k].entry = runs[k].entry /\ runs'[k].read = runs[k].read
  OBVIOUS
<1>5. k < Len(runs) => /\ runs'[k + 1].entry = runs[k + 1].entry /\ runs'[k + 1].before = runs[k + 1].before
                      /\ runs'[k + 1].takenWas = runs[k + 1].takenWas
  BY <1>2, Zenon
<1>6. ReadOff(runs'[k])
  BY <1>3, <1>4 DEF ReadOff
<1> QED BY <1>3, <1>4, <1>5, <1>6

LEMMA StackStays ==
    ASSUME IInv, Next
    PROVE  StackInv'
<1> USE DEF IInv
<1> DEFINE n == Len(runs)
<1>1. runs \in Seq(Frames) /\ n \in Nat /\ \A k \in 1..n : runs[k] \in Frames
  BY DEF TypeInv
<1>2. CASE SetStep \/ KeepStep \/ SaveStep \/ PowerStep
  <2>1. runs' = runs /\ stack' = stack /\ taken' = taken
    BY <1>2 DEF SetStep, KeepStep, SaveStep, PowerStep, Session
  <2> QED BY <1>1, <2>1, StackSame
<1>3. CASE StackStep
  <2>1. runs' = <<>>
    BY <1>3 DEF StackStep, Enter, Drop, Idle
  <2> QED BY <2>1 DEF StackInv
<1>4. CASE StartStep
  <2>1. PICK a \in AppNames, st \in Seq(Values) :
           /\ runs' = Append(runs, Started(a, st, Len(stack)))
           /\ stack' = st /\ taken' = 0
           /\ ~Idle => \E x \in Numbers : st = Append(stack, x)
    BY <1>4, StartShape
  <2> DEFINE f == Started(a, st, Len(stack))
  <2>2. f.entry = st /\ f.read = <<>> /\ f.before = Len(stack) /\ f.takenWas = taken /\ f.clean
    BY Zenon DEF Started
  <2> HIDE DEF f
  <2>3. Len(runs') = n + 1 /\ runs'[n + 1] = f /\ \A k \in 1..n : runs'[k] = runs[k]
    BY <1>1, <2>1 DEF f
  <2> SUFFICES ASSUME NEW k \in 1..(n + 1), runs'[k].clean
               PROVE  /\ ReadOff(runs'[k])
                      /\ k = n + 1 => stack' = runs'[k].entry /\ taken' = Len(runs'[k].read)
                      /\ k < n + 1 =>
                           /\ SubSeq(runs'[k + 1].entry, 1, runs'[k + 1].before) = runs'[k].entry
                           /\ runs'[k + 1].takenWas = Len(runs'[k].read)
    BY <2>3 DEF StackInv
  <2>4. CASE k = n + 1
    <3>1. runs'[k] = f
      BY <2>3, <2>4
    <3>2. ReadOff(f)
      BY <2>2 DEF ReadOff
    <3>3. ~(k < n + 1)
      BY <1>1, <2>4
    <3> QED BY <2>1, <2>2, <3>1, <3>2, <3>3
  <2>5. CASE k = n /\ k \in 1..n
    <3>1. runs'[k] = runs[k] /\ runs'[k + 1] = f /\ k # n + 1
      BY <1>1, <2>3, <2>5
    <3>2. runs[k].clean
      BY <3>1
    <3>3. ReadOff(runs[k]) /\ stack = runs[k].entry /\ taken = Len(runs[k].read)
      BY <2>5, <3>2 DEF StackInv
    <3>4. ~Idle
      BY <2>5 DEF Idle
    <3>5. PICK x \in Numbers : st = Append(stack, x)
      BY <2>1, <3>4
    <3>6. SubSeq(st, 1, Len(stack)) = stack
      <4>1. stack \in Seq(Values) /\ st \in Seq(Values) /\ Len(st) = Len(stack) + 1 /\ Len(stack) \in Nat
        BY <3>5 DEF TypeInv
      <4>2. Len(stack) \in 0..Len(stack) /\ Len(stack) <= Len(st) /\ \A i \in 1..Len(stack) : stack[i] = st[i]
        BY <3>5, <4>1
      <4>3. SubSeq(stack, 1, Len(stack)) = SubSeq(st, 1, Len(stack))
        BY <4>1, <4>2, PrefixSame
      <4> QED BY <4>1, <4>3, SubSeqFull
    <3> QED BY <2>2, <3>1, <3>3, <3>6
  <2>6. CASE k \in 1..n /\ k # n
    <3>1. k + 1 \in 1..n /\ k # n + 1 /\ k < n
      BY <1>1, <2>6
    <3>2. runs'[k] = runs[k] /\ runs'[k + 1] = runs[k + 1]
      BY <2>3, <2>6, <3>1
    <3>3. runs[k].clean
      BY <3>2
    <3> QED BY <2>6, <3>1, <3>2, <3>3 DEF StackInv
  <2>7. k \in 1..n \/ k = n + 1
    BY <1>1
  <2> QED BY <2>4, <2>5, <2>6, <2>7
<1>5. CASE (AnswerStep \/ PageStep) /\ ~ArgStep
  <2>1. PICK g \in Frames :
          /\ ~Idle /\ runs' = [runs EXCEPT ![Len(runs)] = g]
          /\ g.read = Inner.read /\ Begun(g, Inner)
    BY <1>5, Touched
  <2>2. /\ Len(runs') = n /\ runs'[n] = g /\ Inner = runs[n]
        /\ \A k \in 1..n : k < n => runs'[k] = runs[k]
    BY <2>1, Written, Innermost
  <2>3. stack' = stack /\ taken' = taken
    BY <1>5 DEF AnswerStep, PageStep, Session
  <2>4. \A k \in 1..n :
             /\ runs'[k].clean = runs[k].clean /\ runs'[k].entry = runs[k].entry /\ runs'[k].read = runs[k].read
             /\ runs'[k].before = runs[k].before /\ runs'[k].takenWas = runs[k].takenWas
    <3>1. \A k \in 1..n : k = n \/ k < n
      BY <1>1
    <3> QED BY <2>1, <2>2, <3>1 DEF Begun
  <2> QED BY <1>1, <2>2, <2>3, <2>4, StackSame
<1>6. CASE ArgStep
  <2> DEFINE v == stack[Len(stack) - taken]
             g == [Inner EXCEPT !.read = Append(Inner.read, v)]
  <2>1. /\ ~Idle /\ taken < Len(stack) /\ taken' = taken + 1 /\ g \in Frames
        /\ runs' = [runs EXCEPT ![Len(runs)] = g]
    BY <1>6, ArgShape
  <2>2. g.read = Append(Inner.read, v) /\ Begun(g, Inner)
    BY <2>1, Innermost DEF Frames, Begun
  <2> HIDE DEF g
  <2>3. /\ Len(runs') = n /\ runs'[n] = g /\ Inner = runs[n] /\ n \in 1..n
        /\ \A k \in 1..n : k < n => runs'[k] = runs[k]
    BY <2>1, Written, Innermost
  <2>4. stack' = stack
    BY <1>6 DEF ArgStep
  <2> SUFFICES ASSUME NEW k \in 1..n, runs'[k].clean
               PROVE  /\ ReadOff(runs'[k])
                      /\ k = n => stack = runs'[k].entry /\ taken' = Len(runs'[k].read)
                      /\ k < n =>
                           /\ SubSeq(runs'[k + 1].entry, 1, runs'[k + 1].before) = runs'[k].entry
                           /\ runs'[k + 1].takenWas = Len(runs'[k].read)
    BY <2>3, <2>4 DEF StackInv
  <2>5. CASE k = n
    <3>1. runs'[k] = g /\ g.entry = runs[n].entry /\ runs[n].clean
      <4>1. g.clean = runs[n].clean /\ g.entry = runs[n].entry
        BY <2>2, <2>3 DEF Begun
      <4>2. runs'[k] = g
        BY <2>3, <2>5
      <4> QED BY <4>1, <4>2, Zenon
    <3>2. ReadOff(runs[n]) /\ stack = runs[n].entry /\ taken = Len(runs[n].read)
      BY <2>3, <3>1 DEF StackInv
    <3> DEFINE r == runs[n].read
    <3>3. r \in Seq(Numbers) /\ v \in Numbers /\ g.read = Append(r, v)
      BY <1>1, <1>6, <2>2, <2>3, ArgShape DEF Frames
    <3> HIDE DEF r, v
    <3>4. /\ Len(g.read) = Len(r) + 1 /\ Len(r) \in Nat
          /\ \A i \in 1..Len(r) : g.read[i] = r[i]
          /\ g.read[Len(r) + 1] = v
      BY <3>3, AppendProperties
    <3>5. Len(stack) \in Nat /\ taken \in Nat /\ Len(r) = taken /\ taken' = Len(g.read)
      BY <2>1, <3>2, <3>4 DEF TypeInv, r
    <3>6. ReadOff(g)
      <4>1. Len(g.read) <= Len(stack)
        BY <2>1, <3>4, <3>5
      <4>2. ASSUME NEW j \in 1..Len(g.read) PROVE g.read[j] = stack[Len(stack) - j + 1]
        <5>1. CASE j = Len(r) + 1
          <6>1. Len(stack) - j + 1 = Len(stack) - taken
            BY <3>5, <5>1
          <6> QED BY <3>4, <5>1, <6>1 DEF v
        <5>2. CASE j # Len(r) + 1
          <6>1. j \in 1..Len(r)
            BY <3>4, <5>2
          <6>2. r[j] = stack[Len(stack) - j + 1]
            BY <3>2, <6>1 DEF ReadOff, r
          <6> QED BY <3>4, <6>1, <6>2
        <5> QED BY <5>1, <5>2
      <4>3. g.entry = stack
        BY <3>1, <3>2
      <4> QED BY <4>1, <4>2, <4>3 DEF ReadOff
    <3>7. ~(k < n)
      BY <1>1, <2>5
    <3> QED BY <3>1, <3>2, <3>5, <3>6, <3>7
  <2>6. CASE k # n
    <3>1. k < n /\ k + 1 \in 1..n
      BY <1>1, <2>6
    <3>2. runs'[k] = runs[k]
      BY <2>3, <3>1
    <3>3. runs[k].clean
      BY <3>2
    <3>4. runs'[k + 1].entry = runs[k + 1].entry /\ runs'[k + 1].before = runs[k + 1].before
          /\ runs'[k + 1].takenWas = runs[k + 1].takenWas
      <4>1. k + 1 = n \/ k + 1 < n
        BY <1>1, <3>1
      <4> QED BY <2>2, <2>3, <3>1, <4>1 DEF Begun
    <3> QED BY <2>6, <3>1, <3>2, <3>3, <3>4 DEF StackInv
  <2> QED BY <2>5, <2>6
<1>7. CASE EndStep
  <2>1. taken' = Inner.takenWas /\ ~Idle
    BY <1>7, EndShape
  <2>2. /\ Len(runs') = n - 1
        /\ \A k \in 1..(n - 1) :
             /\ Outer(runs'[k], runs[k])
             /\ runs'[k].clean => runs[k].clean
             /\ k = n - 1 /\ runs'[k].clean => stack' = SubSeq(Inner.entry, 1, Inner.before)
    BY <1>7, EndRuns
  <2>3. n \in Nat \ {0} /\ Inner = runs[n]
    BY <2>1, Innermost
  <2> SUFFICES ASSUME NEW k \in 1..(n - 1), runs'[k].clean
               PROVE  /\ ReadOff(runs'[k])
                      /\ k = n - 1 => stack' = runs'[k].entry /\ taken' = Len(runs'[k].read)
                      /\ k < n - 1 =>
                           /\ SubSeq(runs'[k + 1].entry, 1, runs'[k + 1].before) = runs'[k].entry
                           /\ runs'[k + 1].takenWas = Len(runs'[k].read)
    BY <2>2 DEF StackInv
  <2>4. k \in 1..n /\ k < n /\ k # n /\ (k = n - 1 => k + 1 = n) /\ (k < n - 1 => k + 1 \in 1..(n - 1))
    BY <2>3
  <2>5. runs[k].clean /\ Outer(runs'[k], runs[k])
    BY <2>2
  <2>6. /\ ReadOff(runs[k])
        /\ SubSeq(runs[k + 1].entry, 1, runs[k + 1].before) = runs[k].entry
        /\ runs[k + 1].takenWas = Len(runs[k].read)
    BY <2>4, <2>5 DEF StackInv
  <2>7. ReadOff(runs'[k])
    BY <2>5, <2>6 DEF ReadOff, Outer
  <2>8. CASE k = n - 1
    <3>1. ~(k < n - 1) /\ k + 1 = n
      BY <2>3, <2>8
    <3>2. stack' = SubSeq(Inner.entry, 1, Inner.before)
      BY <2>2, <2>8
    <3> QED BY <2>1, <2>3, <2>5, <2>6, <2>7, <3>1, <3>2 DEF Outer
  <2>9. CASE k # n - 1
    <3>1. k < n - 1 /\ k + 1 \in 1..(n - 1)
      BY <2>3, <2>9
    <3>2. Outer(runs'[k + 1], runs[k + 1])
      BY <2>2, <3>1
    <3> QED BY <2>5, <2>6, <2>7, <2>9, <3>2 DEF Outer
  <2> QED BY <2>8, <2>9
<1>8. CASE Crash
  BY <1>8 DEF Crash, StackInv
<1> QED BY <1>2, <1>3, <1>4, <1>5, <1>6, <1>7, <1>8 DEF Next

-----------------------------------------------------------------------------
(* The theorems.                                                           *)

LEMMA Stutters ==
    ASSUME IInv, UNCHANGED vars
    PROVE  IInv'
<1>1. Gave' = Gave /\ Inner' = Inner
  BY DEF vars, Gave, Inner
<1> QED BY <1>1 DEF vars, IInv, TypeInv, StoredInv, OuterInv, NameInv, AnswersInv, StackInv

LEMMA Invariance == Spec => []IInv
<1>1. Init => IInv
  <2> SUFFICES ASSUME Init PROVE IInv
    OBVIOUS
  <2>1. runs = <<>> /\ answers = <<>> /\ mem = user /\ store = mem /\ app_name = "none"
    BY DEF Init
  <2>2. mem \in Settings
    <3>1. mem \in [Parts -> 0..2] /\ \A p \in Parts : mem[p] = 0
      BY DEF Init
    <3>2. \A p \in Parts : 0 \in Setting(p)
      BY DEF Setting
    <3> QED BY <3>1, <3>2, SettingsAre
  <2>3. TypeInv
    BY <2>1, <2>2 DEF Init, TypeInv
  <2>4. Gave = <<>> /\ FlattenSeq(<<>>) = <<>>
    <3>1. runs \in Seq(Frames) /\ Len(runs) = 0
      BY <2>1
    <3>2. Gave \in Seq(Seq(Numbers)) /\ Len(Gave) = 0
      BY <3>1, GaveType DEF Gave
    <3> QED BY <3>2, EmptySeq DEF FlattenSeq
  <2>5. AnswersInv
    BY <2>1, <2>4 DEF AnswersInv
  <2> QED BY <2>1, <2>3, <2>5 DEF IInv, StoredInv, OuterInv, NameInv, StackInv
<1>2. IInv /\ [Next]_vars => IInv'
  <2> SUFFICES ASSUME IInv, [Next]_vars PROVE IInv'
    OBVIOUS
  <2>1. CASE Next
    BY <2>1, TypeStep, OuterStep, NameStep, AnswersStep, StackStays DEF IInv
  <2>2. CASE UNCHANGED vars
    BY <2>2, Stutters
  <2> QED BY <2>1, <2>2
<1> QED BY <1>1, <1>2, PTL DEF Spec

\* With no app running every setting is the user's, or as an app he ran at the
\* prompt said to keep it, however many ran inside it (app_found_put_back).
THEOREM VisitorLeftCorrect == Spec => []VisitorLeft
<1>1. IInv => VisitorLeft
  BY DEF IInv, OuterInv, VisitorLeft, Idle
<1> QED BY <1>1, Invariance, PTL

\* With no app running what the machine starts with next is what is in force, but
\* for STAT PLOT (save_settings, slot_save, window_save, app_found_put_back).
THEOREM StoredIsInForceCorrect == Spec => []StoredIsInForce
<1>1. IInv => StoredIsInForce
  BY DEF IInv, StoredInv, StoredIsInForce
<1> QED BY <1>1, Invariance, PTL

\* What waits to be given is what the runs under way gave, outermost first
\* (run_app, native_answer).
THEOREM AnswersAreTheirsCorrect == Spec => []AnswersAreTheirs
<1>1. IInv => AnswersAreTheirs
  <2> SUFFICES ASSUME IInv PROVE AnswersAreTheirs
    OBVIOUS
  <2>1. DOMAIN runs = 1..Len(runs)
    BY DEF IInv, TypeInv
  <2> QED BY <2>1 DEF IInv, AnswersInv, AnswersAreTheirs, Gave
<1> QED BY <1>1, Invariance, PTL

\* What an app that ran alone gave is all that waits, and it is its own.
LEMMA OwnAnswers ==
    ASSUME IInv, Len(runs) = 1
    PROVE  SubSeq(answers, Inner.answersWas + 1, Len(answers)) = Inner.gave /\ Inner.gave \in Seq(Numbers)
<1> USE DEF IInv
<1>1. Inner = runs[1] /\ Inner \in Frames /\ Inner.gave \in Seq(Numbers) /\ Inner.answersWas \in Nat
  <2>1. ~Idle
    BY DEF Idle
  <2> QED BY <2>1, Innermost DEF Frames
<1>2. Gave \in Seq(Seq(Numbers)) /\ Len(Gave) = 1 /\ Gave[1] = Inner.gave
  <2>1. runs \in Seq(Frames) /\ 1 \in 1..Len(runs)
    BY DEF TypeInv
  <2> QED BY <1>1, <2>1, GaveType DEF Gave
<1>3. SubSeq(Gave, 1, 0) = <<>>
  BY SubSeqEmpty
<1>4. Gave = Append(<<>>, Inner.gave)
  <2>1. SubSeq(Gave, 1, Len(Gave) - 1) = <<>>
    BY <1>2, <1>3
  <2> QED BY <1>2, <2>1, LastApart
<1>5. FlattenSeq(<<>>) = <<>>
  BY DEF FlattenSeq
<1>6. FlattenSeq(Gave) = Inner.gave
  <2>1. <<>> \in Seq(Seq(Numbers)) /\ <<>> \o Inner.gave = Inner.gave
    BY <1>1, ConcatEmptySeq
  <2> QED BY <1>1, <1>4, <1>5, <2>1, FlattenAppend
<1>7. SubSeq(answers, 1, Inner.answersWas) = <<>> /\ Inner.answersWas <= Len(answers)
  <2>1. 1 \in 1..Len(runs) /\ 1 - 1 = 0
    OBVIOUS
  <2>2. /\ FlattenSeq(SubSeq(Gave, 1, 1 - 1)) = SubSeq(answers, 1, runs[1].answersWas)
        /\ runs[1].answersWas <= Len(answers)
    BY <2>1, Zenon DEF AnswersInv
  <2> QED BY <1>1, <1>3, <1>5, <2>1, <2>2
<1>8. Inner.answersWas = 0
  <2>1. answers \in Seq(Numbers) /\ Inner.answersWas \in 0..Len(answers)
    BY <1>1, <1>7 DEF TypeInv
  <2>2. Len(SubSeq(answers, 1, Inner.answersWas)) = Inner.answersWas
    BY <2>1, Prefix
  <2> QED BY <1>7, <2>2
<1>9. SubSeq(answers, 1, Len(answers)) = answers
  BY SubSeqFull DEF TypeInv
<1> QED BY <1>1, <1>6, <1>8, <1>9 DEF AnswersInv

\* An app run at the prompt takes off the stack what it read, and only for an answer.
LEMMA TakesRead ==
    ASSUME IInv, EndStep, Len(runs) = 1, Inner.clean
    PROVE  \/ stack' = Inner.entry
           \/ /\ Inner.gave # <<>>
              /\ \E rest \in {SubSeq(Inner.entry, 1, k) : k \in 0..Len(Inner.entry)} :
                    Inner.entry = rest \o Reverse(Inner.read) /\ stack' = rest \o Inner.gave
<1> USE DEF IInv
<1>1. PICK ok \in BOOLEAN : ~Idle /\ stack' = StackLeft(ok)
  BY EndShape
<1>2. Inner = runs[1] /\ Inner \in Frames
  BY <1>1, Innermost
<1>3. ~Inner.sampled
  BY <1>1, <1>2, Zenon DEF OuterInv, Idle
<1>4. stack' = IF ok THEN Given(Inner.answersWas, stack) ELSE stack
  BY <1>1, <1>3, Zenon DEF StackLeft, Dropped
<1>5. ReadOff(Inner) /\ stack = Inner.entry /\ taken = Len(Inner.read)
  <2>1. 1 \in 1..Len(runs)
    OBVIOUS
  <2> QED BY <1>2, <2>1 DEF StackInv
<1> DEFINE e == Inner.entry
           r == Inner.read
           m == Len(e) - Len(r)
           rest == SubSeq(e, 1, m)
<1>6. /\ e \in Seq(Values) /\ r \in Seq(Numbers) /\ Len(e) \in Nat /\ Len(r) \in Nat
      /\ Len(r) <= Len(e) /\ \A j \in 1..Len(r) : r[j] = e[Len(e) - j + 1]
  BY <1>2, <1>5 DEF Frames, ReadOff
<1> HIDE DEF e, r
<1>7. m \in 0..Len(e)
  BY <1>6
<1>8. rest \in Seq(Values) /\ Len(rest) = m /\ \A i \in 1..m : rest[i] = e[i]
  BY <1>6, <1>7, Prefix
<1>9. e = rest \o Reverse(r)
  <2>1. Reverse(r) \in [1..Len(r) -> Values] /\ \A i \in 1..Len(r) : Reverse(r)[i] = r[Len(r) - i + 1]
    BY <1>6 DEF Reverse, Values
  <2>2. Reverse(r) \in Seq(Values) /\ Len(Reverse(r)) = Len(r)
    BY <1>6, <2>1, IsSeq
  <2> DEFINE q == Reverse(r)
  <2> HIDE DEF q, rest
  <2>3. /\ rest \o q \in Seq(Values) /\ Len(rest \o q) = m + Len(r)
        /\ \A i \in 1..(m + Len(r)) : (rest \o q)[i] = IF i <= m THEN rest[i] ELSE q[i - m]
    <3>1. q \in Seq(Values) /\ Len(q) = Len(r)
      BY <2>2 DEF q
    <3>2. rest \in Seq(Values) /\ Len(rest) = m
      BY <1>8
    <3> HIDE DEF m
    <3>3. /\ rest \o q \in Seq(Values) /\ Len(rest \o q) = Len(rest) + Len(q)
          /\ \A i \in 1..(Len(rest) + Len(q)) :
                (rest \o q)[i] = IF i <= Len(rest) THEN rest[i] ELSE q[i - Len(rest)]
      BY <3>1, <3>2
    <3> QED BY <3>1, <3>2, <3>3
  <2>4. m + Len(r) = Len(e)
    BY <1>6
  <2>5. ASSUME NEW i \in 1..Len(e) PROVE (rest \o q)[i] = e[i]
    <3>1. CASE i <= m
      <4>1. i \in 1..m
        BY <1>7, <3>1
      <4> QED BY <1>8, <2>3, <2>4, <3>1, <4>1
    <3>2. CASE ~(i <= m)
      <4>1. /\ i - m \in 1..Len(r) /\ Len(r) - (i - m) + 1 \in 1..Len(r)
            /\ Len(e) - (Len(r) - (i - m) + 1) + 1 = i
        BY <1>6, <3>2
      <4> HIDE DEF m
      <4>2. q[i - m] = r[Len(r) - (i - m) + 1]
        BY <2>1, <4>1 DEF q
      <4>3. r[Len(r) - (i - m) + 1] = e[i]
        BY <1>6, <4>1
      <4> QED BY <2>3, <2>4, <3>2, <4>2, <4>3
    <3> QED BY <3>1, <3>2
  <2>6. e = rest \o q
    BY <1>6, <2>3, <2>4, <2>5, SeqEqual
  <2> QED BY <2>6 DEF q
<1>10. Given(Inner.answersWas, stack) = IF Inner.gave = <<>> THEN e ELSE rest \o Inner.gave
  <2>1. ~(Len(r) > Len(e))
    BY <1>6
  <2>2. SubSeq(answers, Inner.answersWas + 1, Len(answers)) = Inner.gave
    BY OwnAnswers
  <2>3. stack = e /\ taken = Len(r)
    BY <1>5 DEF e, r
  <2> QED BY <2>1, <2>2, <2>3, Zenon DEF Given
<1>11. rest \in {SubSeq(e, 1, k) : k \in 0..Len(e)}
  BY <1>7
<1> HIDE DEF rest, m
<1> QED BY <1>4, <1>5, <1>9, <1>10, <1>11 DEF e, r

LEMMA WritesItsOwn ==
    ASSUME IInv, Next, NEW a \in AppNames, kept'[a] # kept[a]
    PROVE  ~Idle /\ Inner.name = a
<1>1. CASE SaveStep
  <2>1. PICK v \in 0..1 : NativeSave(v)
    BY <1>1 DEF SaveStep
  <2>2. ~Idle /\ app_name # "none" /\ kept' = [kept EXCEPT ![app_name] = v]
    BY <2>1 DEF NativeSave, Main, Running
  <2>3. a = app_name
    BY <2>2 DEF IInv, TypeInv
  <2> QED BY <2>2, <2>3 DEF IInv, NameInv
<1>2. CASE ~SaveStep
  <2>1. kept' = kept
    <3>1. CASE EndStep
      BY <3>1, EndShape DEF IInv
    <3>2. CASE ~EndStep
      BY <1>2, <3>2 DEF Next, SetStep, Session, KeepStep, StackStep, StartStep, ArgStep,
                        AnswerStep, PageStep, PowerStep, Crash
    <3> QED BY <3>1, <3>2
  <2> QED BY <2>1
<1> QED BY <1>1, <1>2

\* An app leaves the stack it was called on, or has what it read gone and its
\* answers there, and writes in no folder but its own (run_app, app_value_key).
THEOREM AppTakesItsOwnCorrect == Spec => AppTakesItsOwn
<1>1. IInv /\ [Next]_vars =>
        [EndStep /\ Len(runs) = 1 /\ Inner.clean =>
          \/ stack' = Inner.entry
          \/ /\ Inner.gave # <<>>
             /\ \E rest \in {SubSeq(Inner.entry, 1, k) : k \in 0..Len(Inner.entry)} :
                   Inner.entry = rest \o Reverse(Inner.read) /\ stack' = rest \o Inner.gave]_vars
  BY TakesRead
<1>2. IInv /\ [Next]_vars =>
        [\A a \in AppNames : kept'[a] # kept[a] => ~Idle /\ Inner.name = a]_vars
  BY WritesItsOwn
<1>3. Spec => TakesWhatItRead
  BY <1>1, Invariance, PTL DEF Spec, TakesWhatItRead
<1>4. Spec => OwnFolder
  BY <1>2, Invariance, PTL DEF Spec, OwnFolder
<1> QED BY <1>3, <1>4 DEF AppTakesItsOwn
=============================================================================
