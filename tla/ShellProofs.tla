----------------------------- MODULE ShellProofs -----------------------------
(***************************************************************************)
(* What the shell keeps of its own: the stack under the keys (Calculator), *)
(* for any numbers, registers, depth of stack and depth of snapshot; and   *)
(* the graph (Graph), for any slots, programs, bodies and windows.         *)
(***************************************************************************)
EXTENDS Calculator, Graph, SequenceTheorems, FiniteSetTheorems, NaturalsInduction,
        WellFoundedInduction, TLAPS

-----------------------------------------------------------------------------
(* Calculator                                                               *)

Stacks == {s \in Seq(Values) : Len(s) <= STACK_MAX}
LevelSeqs == {s \in Seq(Held) : Len(s) <= REGISTER_MAX /\ Len(s) <= STACK_MAX}
Snaps == [levels : LevelSeqs, ready : BOOLEAN, exact : BOOLEAN]

-----------------------------------------------------------------------------
(* The operators *)

LEMMA Bounded ==
    ASSUME NEW S, NEW n \in Nat, NEW s \in Seq(S), Len(s) <= n
    PROVE  s \in BoundedSeq(S, n)
<1>1. Len(s) \in 0..n /\ s \in [1..Len(s) -> S]
  OBVIOUS
<1> QED BY <1>1 DEF BoundedSeq, SeqOf

LEMMA Part ==
    ASSUME NEW S, NEW s \in Seq(S), NEW a \in 1..(Len(s) + 1), NEW b \in 0..Len(s),
           a <= b + 1
    PROVE  /\ SubSeq(s, a, b) \in Seq(S) /\ Len(SubSeq(s, a, b)) = b - a + 1
           /\ \A i \in 1..(b - a + 1) : SubSeq(s, a, b)[i] = s[a + i - 1]
<1>1. a \in Int /\ b \in Int /\ \A i \in a..b : s[i] \in S
  OBVIOUS
<1>2. /\ SubSeq(s, a, b) \in Seq(S)
      /\ Len(SubSeq(s, a, b)) = IF a <= b THEN b - a + 1 ELSE 0
      /\ \A i \in 1..(b - a + 1) : SubSeq(s, a, b)[i] = s[a + i - 1]
  BY <1>1, SubSeqProperties
<1> QED BY <1>2

LEMMA Whole ==
    ASSUME NEW s \in Stacks
    PROVE  /\ TopOf(s, Depth(s)) \in Seq(Values) /\ Len(TopOf(s, Depth(s))) = Depth(s)
           /\ Depth(s) \in Nat /\ Depth(s) <= REGISTER_MAX /\ Depth(s) <= STACK_MAX
           /\ Len(s) <= REGISTER_MAX => TopOf(s, Depth(s)) = s
<1> DEFINE d == Depth(s)
           t == TopOf(s, d)
<1>1. d \in Nat /\ d <= REGISTER_MAX /\ d <= STACK_MAX /\ d <= Len(s)
      /\ (Len(s) <= REGISTER_MAX => d = Len(s)) /\ s \in Seq(Values) /\ Len(s) \in Nat
  BY CalculatorAssumption DEF Stacks, Depth
<1> HIDE DEF d
<1>2. /\ t \in Seq(Values) /\ Len(t) = d
      /\ \A i \in 1..d : t[i] = s[Len(s) - d + 1 + i - 1]
  <2>1. Len(s) - d + 1 \in 1..(Len(s) + 1) /\ Len(s) \in 0..Len(s)
        /\ Len(s) - d + 1 <= Len(s) + 1 /\ Len(s) - (Len(s) - d + 1) + 1 = d
    BY <1>1
  <2> QED BY <1>1, <2>1, Part DEF TopOf
<1>3. ASSUME Len(s) <= REGISTER_MAX PROVE t = s
  <2>1. d = Len(s) /\ \A i \in 1..d : t[i] = s[i]
    BY <1>1, <1>2, <1>3
  <2> QED BY <1>1, <1>2, <2>1, SeqEqual
<1> QED BY <1>1, <1>2, <1>3 DEF d

LEMMA KeptSeq ==
    ASSUME NEW s \in Seq(Values)
    PROVE  /\ KeptOf(s) \in Seq(Held) /\ Len(KeptOf(s)) = Len(s)
           /\ (\A i \in 1..Len(s) : s[i] # Array) => KeptOf(s) = s
<1>1. \A i \in 1..Len(s) : Kept(s[i]) \in Held
  BY DEF Kept, Values, Held
<1>2. KeptOf(s) \in [1..Len(s) -> Held] /\ Len(s) \in Nat
  BY <1>1 DEF KeptOf
<1>3. KeptOf(s) \in Seq(Held) /\ Len(KeptOf(s)) = Len(s)
  BY <1>2
<1>4. ASSUME \A i \in 1..Len(s) : s[i] # Array PROVE KeptOf(s) = s
  BY <1>4 DEF KeptOf, Kept
<1> QED BY <1>3, <1>4

\* A snapshot is of a stack: the whole of it when it is exact, and each level
\* of it, an array as its text, when the stack is not too deep.
LEMMA SnapshotOf ==
    ASSUME NEW s \in Stacks
    PROVE  /\ Snapshot(s) \in Snaps /\ Snapshot(s).ready
           /\ Snapshot(s).exact = Exact(s) /\ Exact(s) \in BOOLEAN
           /\ Exact(s) => Snapshot(s).levels = s
           /\ Len(s) <= REGISTER_MAX => Snapshot(s).levels = KeptOf(s)
<1> DEFINE t == TopOf(s, Depth(s))
           k == KeptOf(t)
<1>1. /\ t \in Seq(Values) /\ Len(t) = Depth(s)
      /\ Depth(s) <= REGISTER_MAX /\ Depth(s) <= STACK_MAX
      /\ Len(s) <= REGISTER_MAX => t = s
  BY Whole
<1> HIDE DEF t
<1>2. /\ k \in Seq(Held) /\ Len(k) = Len(t)
      /\ (\A i \in 1..Len(t) : t[i] # Array) => k = t
  BY <1>1, KeptSeq
<1>3. Exact(s) \in BOOLEAN
  BY DEF Exact
<1>4. k \in LevelSeqs
  BY <1>1, <1>2 DEF LevelSeqs
<1>5. Exact(s) => k = s
  BY <1>1, <1>2 DEF Exact
<1>6. Len(s) <= REGISTER_MAX => k = KeptOf(s)
  BY <1>1
<1>7. Snapshot(s) = [levels |-> k, ready |-> TRUE, exact |-> Exact(s)]
  BY DEF Snapshot, t
<1> HIDE DEF k
<1> QED BY <1>3, <1>4, <1>5, <1>6, <1>7 DEF Snaps

LEMMA NoSnap ==
    /\ NoSnapshot \in Snaps /\ ~NoSnapshot.ready
    /\ <<>> \in Stacks
<1>1. <<>> \in Seq(Held) /\ <<>> \in Seq(Values) /\ Len(<<>>) = 0
  OBVIOUS
<1> QED BY <1>1, CalculatorAssumption DEF NoSnapshot, Snaps, LevelSeqs, Stacks

LEMMA LevelsAreStack ==
    ASSUME NEW u \in Snaps
    PROVE  u.levels \in Stacks /\ u.ready \in BOOLEAN /\ u.exact \in BOOLEAN
  BY DEF Snaps, LevelSeqs, Stacks, Values

LEMMA Pushed ==
    ASSUME NEW s \in Stacks, NEW v \in Values
    PROVE  /\ Push(s, v) \in Stacks
           /\ ~Full(s) => Append(s, v) \in Stacks
<1>1. Append(s, v) \in Seq(Values) /\ Len(Append(s, v)) = Len(s) + 1 /\ Len(s) \in Nat
  BY DEF Stacks
<1>2. ~Full(s) => Len(s) + 1 <= STACK_MAX
  BY <1>1, CalculatorAssumption DEF Full
<1> QED BY <1>1, <1>2 DEF Push, Stacks

LEMMA Popped ==
    ASSUME NEW s \in Stacks
    PROVE  Pop(s) \in Stacks
<1>1. CASE s = <<>>
  BY <1>1 DEF Pop
<1>2. CASE s # <<>>
  <2>1. s \in Seq(Values) /\ Len(s) \in Nat \ {0} /\ Len(s) <= STACK_MAX
    BY <1>2 DEF Stacks
  <2>2. 1 \in 1..(Len(s) + 1) /\ Len(s) - 1 \in 0..Len(s) /\ 1 <= Len(s) - 1 + 1
    BY <2>1
  <2>3. Front(s) \in Seq(Values) /\ Len(Front(s)) = Len(s) - 1 - 1 + 1
    BY <2>1, <2>2, Part DEF Front
  <2> QED BY <1>2, <2>1, <2>3, CalculatorAssumption DEF Pop, Stacks
<1> QED BY <1>1, <1>2

LEMMA OutcomesAreStacks ==
    ASSUME NEW s \in Stacks, NEW t \in Outcomes(s)
    PROVE  t \in Stacks
<1>1. Pop(s) \in Stacks /\ <<>> \in Stacks
  BY Popped, NoSnap
<1>2. \A u \in {s, Pop(s)}, v \in Numbers \cup {Array} : Push(u, v) \in Stacks
  BY <1>1, Pushed DEF Values, Held
<1> QED BY <1>1, <1>2 DEF Outcomes

LEMMA LastIs ==
    ASSUME NEW s \in Stacks, s # <<>>
    PROVE  Last(s) \in Values /\ Len(s) \in 1..STACK_MAX
  BY CalculatorAssumption DEF Last, Stacks

LEMMA Removed ==
    ASSUME NEW s \in Stacks, NEW i \in 1..Len(s)
    PROVE  RemoveAt(s, i) \in Stacks
<1>1. s \in Seq(Values) /\ Len(s) \in Nat /\ Len(s) <= STACK_MAX
  BY DEF Stacks
<1>2. SubSeq(s, 1, i - 1) \in Seq(Values) /\ Len(SubSeq(s, 1, i - 1)) = i - 1 - 1 + 1
  <2>1. 1 \in 1..(Len(s) + 1) /\ i - 1 \in 0..Len(s) /\ 1 <= i - 1 + 1
    BY <1>1
  <2> QED BY <1>1, <2>1, Part
<1>3. SubSeq(s, i + 1, Len(s)) \in Seq(Values)
      /\ Len(SubSeq(s, i + 1, Len(s))) = Len(s) - (i + 1) + 1
  <2>1. i + 1 \in 1..(Len(s) + 1) /\ Len(s) \in 0..Len(s) /\ i + 1 <= Len(s) + 1
    BY <1>1
  <2> QED BY <1>1, <2>1, Part
<1>4. RemoveAt(s, i) \in Seq(Values)
      /\ Len(RemoveAt(s, i)) = Len(SubSeq(s, 1, i - 1)) + Len(SubSeq(s, i + 1, Len(s)))
  <2> DEFINE l == SubSeq(s, 1, i - 1)
             r == SubSeq(s, i + 1, Len(s))
  <2>1. l \in Seq(Values) /\ r \in Seq(Values) /\ RemoveAt(s, i) = l \o r
    BY <1>2, <1>3 DEF RemoveAt
  <2> HIDE DEF l, r
  <2>2. l \o r \in Seq(Values) /\ Len(l \o r) = Len(l) + Len(r)
    BY <2>1
  <2> QED BY <2>1, <2>2 DEF l, r
<1>5. Len(RemoveAt(s, i)) <= STACK_MAX
  <2>1. (i - 1 - 1 + 1) + (Len(s) - (i + 1) + 1) = Len(s) - 1
    BY <1>1
  <2>2. Len(RemoveAt(s, i)) = Len(s) - 1
    BY <1>2, <1>3, <1>4, <2>1
  <2> QED BY <1>1, <2>2, CalculatorAssumption
<1> QED BY <1>4, <1>5 DEF Stacks

-----------------------------------------------------------------------------
(* Types *)

CoreType ==
    /\ stack \in Stacks /\ undo \in Snaps /\ undoPrev \in Snaps
    /\ base \in Stacks /\ prior \in Stacks

KeyType ==
    /\ entry \in Numbers \cup {None, Sign, Huge}
    /\ wait \in {"idle", "storing", "recalling"}
    /\ sel \in 0..STACK_MAX
    /\ regs \in [Registers -> Held \cup {None}]

\* An evaluation is always begun from the calculator or from a line.
ModeType ==
    /\ mode \in {"calc", "line", "list", "page"}
    /\ from \in {"calc", "line"}
    /\ line \in BOOLEAN /\ once \in BOOLEAN /\ nested \in BOOLEAN /\ spoilt \in BOOLEAN
    /\ running \in {"no", "line", "run"}
    /\ running # "no" => mode \in {"calc", "line"}

TypeInv == CoreType /\ KeyType /\ ModeType

LEMMA TypeInvImplies == TypeInv => TypeOK
<1> SUFFICES ASSUME TypeInv PROVE TypeOK
  OBVIOUS
<1>1. stack \in BoundedSeq(Values, STACK_MAX)
  <2>1. stack \in Seq(Values) /\ Len(stack) <= STACK_MAX /\ STACK_MAX \in Nat
    BY CalculatorAssumption DEF TypeInv, CoreType, Stacks
  <2> QED BY <2>1, Bounded
<1>2. ASSUME NEW u \in Snaps PROVE u \in SnapshotType
  <2>1. u.levels \in Seq(Held) /\ Len(u.levels) <= REGISTER_MAX /\ REGISTER_MAX \in Nat
    BY CalculatorAssumption DEF Snaps, LevelSeqs
  <2>2. u.levels \in BoundedSeq(Held, REGISTER_MAX)
    BY <2>1, Bounded
  <2> HIDE DEF BoundedSeq
  <2>3. /\ u = [levels |-> u.levels, ready |-> u.ready, exact |-> u.exact]
        /\ u.ready \in BOOLEAN /\ u.exact \in BOOLEAN
    BY DEF Snaps
  <2> QED BY <2>2, <2>3 DEF SnapshotType
<1>3. undo \in SnapshotType /\ undoPrev \in SnapshotType
  BY <1>2 DEF TypeInv, CoreType
<1> QED BY <1>1, <1>3 DEF TypeOK, TypeInv, KeyType, ModeType

LEMMA CommitType ==
    ASSUME TypeInv
    PROVE  Committed \in Stacks /\ CommitUndo \in Snaps /\ CommitPrev \in Snaps
<1>1. stack \in Stacks /\ undo \in Snaps /\ undoPrev \in Snaps
  BY DEF TypeInv, CoreType
<1>2. Snapshot(stack) \in Snaps
  BY <1>1, SnapshotOf
<1>3. Pending /\ Commits => Append(stack, entry) \in Stacks
  BY <1>1, Pushed DEF Commits, Values, Held
<1> QED BY <1>1, <1>2, <1>3 DEF Committed, CommitUndo, CommitPrev

LEMMA PutBackType ==
    ASSUME NEW now \in Snaps, NEW earlier \in Snaps, NEW left \in Stacks,
           PutBack(now, earlier, left)
    PROVE  stack' \in Stacks /\ undo' \in Snaps /\ undoPrev' \in Snaps
  BY LevelsAreStack DEF PutBack

LEMMA EndedType ==
    ASSUME TypeInv, NEW how, NEW kind, NEW began \in Stacks, NEW stands \in BOOLEAN,
           Ended(how, kind, began, stands)
    PROVE  base' \in Stacks /\ prior' \in Stacks /\ nested' = FALSE /\ spoilt' \in BOOLEAN
  BY DEF Ended, TypeInv, CoreType, ModeType

LEMMA QuietType ==
    ASSUME TypeInv, Quiet
    PROVE  base' \in Stacks /\ prior' \in Stacks /\ nested' = FALSE /\ spoilt' \in BOOLEAN
  BY NoSnap DEF Quiet, TypeInv, CoreType, ModeType

LEMMA UndoSnapshotType ==
    ASSUME TypeInv, UndoSnapshot(stack)
    PROVE  undo' \in Snaps /\ undoPrev' \in Snaps
  BY SnapshotOf DEF UndoSnapshot, TypeInv, CoreType

\* What entry_commit leaves, refused or done
LEMMA CommitLeaves ==
    ASSUME TypeInv,
           \/ CommitRefused
           \/ /\ Commits /\ entry' = None
              /\ stack' = Committed /\ undo' = CommitUndo /\ undoPrev' = CommitPrev
              /\ IF Pending THEN Ended("ok", "key", stack, TRUE) ELSE Quiet
    PROVE  /\ CoreType' /\ nested' = FALSE /\ spoilt' \in BOOLEAN
           /\ entry' \in Numbers \cup {None, Sign, Huge}
<1>0. stack \in Stacks /\ undo \in Snaps /\ entry \in Numbers \cup {None, Sign, Huge}
  BY DEF TypeInv, CoreType, KeyType
<1>1. CASE CommitRefused
  <2>1. CASE entry = Huge
    <3>1. Quiet /\ UNCHANGED <<stack, undo, undoPrev, entry>>
      BY <1>1, <2>1 DEF CommitRefused, coreVars
    <3> QED BY <3>1, QuietType DEF TypeInv, CoreType, KeyType
  <2>2. CASE entry # Huge
    <3>1. /\ PutBack(Snapshot(stack), undo, stack) /\ entry' = entry
          /\ Ended("failed", "key", stack, ~Exact(stack))
      BY <1>1, <2>2 DEF CommitRefused
    <3>2. Snapshot(stack) \in Snaps /\ (~Exact(stack)) \in BOOLEAN
      BY <1>0, SnapshotOf
    <3>3. stack' \in Stacks /\ undo' \in Snaps /\ undoPrev' \in Snaps
      BY <1>0, <3>1, <3>2, PutBackType
    <3>4. base' \in Stacks /\ prior' \in Stacks /\ nested' = FALSE /\ spoilt' \in BOOLEAN
      BY <1>0, <3>1, <3>2, EndedType
    <3> QED BY <1>0, <3>1, <3>3, <3>4 DEF CoreType
  <2> QED BY <2>1, <2>2
<1>2. CASE /\ Commits /\ entry' = None
           /\ stack' = Committed /\ undo' = CommitUndo /\ undoPrev' = CommitPrev
           /\ IF Pending THEN Ended("ok", "key", stack, TRUE) ELSE Quiet
  <2>1. base' \in Stacks /\ prior' \in Stacks /\ nested' = FALSE /\ spoilt' \in BOOLEAN
    BY <1>0, <1>2, QuietType, EndedType
  <2> QED BY <1>2, <2>1, CommitType DEF CoreType
<1> QED BY <1>1, <1>2

-----------------------------------------------------------------------------
(* Steps *)

HistoryType == nested \in BOOLEAN /\ spoilt \in BOOLEAN

LEMMA StandsType ==
    ASSUME TypeInv, UndoSnapshot(stack), NEW how, NEW kind, NEW stands \in BOOLEAN,
           Ended(how, kind, stack, stands), stack' \in Stacks
    PROVE  CoreType' /\ HistoryType'
<1>1. stack \in Stacks
  BY DEF TypeInv, CoreType
<1>2. base' \in Stacks /\ prior' \in Stacks /\ nested' = FALSE /\ spoilt' \in BOOLEAN
  BY <1>1, EndedType
<1> QED BY <1>2, UndoSnapshotType DEF CoreType, HistoryType

LEMMA StillType ==
    ASSUME TypeInv, UNCHANGED coreVars, Quiet
    PROVE  CoreType' /\ HistoryType'
  BY QuietType DEF TypeInv, CoreType, HistoryType, coreVars

LEMMA CoreStep ==
    ASSUME TypeInv, Next
    PROVE  CoreType' /\ HistoryType'
<1>0. /\ stack \in Stacks /\ undo \in Snaps /\ undoPrev \in Snaps
      /\ base \in Stacks /\ prior \in Stacks /\ HistoryType
      /\ regs \in [Registers -> Held \cup {None}] /\ sel \in 0..STACK_MAX
  BY DEF TypeInv, CoreType, ModeType, KeyType, HistoryType
<1>q. CASE \/ TypeDigit \/ NegateEntry \/ EraseDigit \/ ClearEntry \/ RegisterCancelled
           \/ PickUp \/ PickDown \/ TypeLine \/ LeaveLine
           \/ ListOpen \/ PageOpen \/ Back
  <2>1. UNCHANGED coreVars /\ Quiet
    BY <1>q DEF TypeDigit, NegateEntry, EraseDigit, ClearEntry, RegisterCancelled,
                PickUp, PickDown, TypeLine, LeaveLine, ListOpen, PageOpen, Back
  <2> QED BY <2>1, StillType
<1>c. CASE \/ EnterNumber \/ \E w \in {"storing", "recalling"} : RegisterKey(w)
           \/ \E letter \in BOOLEAN : EnterLine(letter)
  <2>1. \/ CommitRefused
        \/ /\ Commits /\ entry' = None
           /\ stack' = Committed /\ undo' = CommitUndo /\ undoPrev' = CommitPrev
           /\ IF Pending THEN Ended("ok", "key", stack, TRUE) ELSE Quiet
    BY <1>c DEF EnterNumber, RegisterKey, EnterLine
  <2> QED BY <2>1, CommitLeaves DEF HistoryType
<1>1. CASE ApplyKeyWord
  <2>1. CASE CommitRefused
    BY <2>1, CommitLeaves DEF HistoryType
  <2>2. CASE ~CommitRefused
    <3>1. PICK s \in Outcomes(Committed) :
             \/ /\ stack' = s
                /\ undo' = Snapshot(Committed) /\ undoPrev' = CommitUndo
                /\ Ended("ok", "key", Committed, TRUE)
             \/ /\ PutBack(Snapshot(Committed), CommitUndo, s)
                /\ base' = Committed
                /\ prior' = IF ~Exact(Committed) THEN Committed
                            ELSE IF Pending THEN stack ELSE prior
                /\ spoilt' = IF Exact(Committed) /\ ~Pending THEN spoilt ELSE FALSE
                /\ nested' = FALSE
      BY <1>1, <2>2 DEF ApplyKeyWord
    <3>2. Committed \in Stacks /\ CommitUndo \in Snaps
      BY CommitType
    <3>3. s \in Stacks /\ Snapshot(Committed) \in Snaps
      BY <3>2, OutcomesAreStacks, SnapshotOf
    <3>4. CASE /\ stack' = s
               /\ undo' = Snapshot(Committed) /\ undoPrev' = CommitUndo
               /\ Ended("ok", "key", Committed, TRUE)
      <4>1. base' \in Stacks /\ prior' \in Stacks /\ nested' = FALSE /\ spoilt' \in BOOLEAN
        BY <3>2, <3>4, EndedType
      <4> QED BY <3>2, <3>3, <3>4, <4>1 DEF CoreType, HistoryType
    <3>5. CASE /\ PutBack(Snapshot(Committed), CommitUndo, s)
               /\ base' = Committed
               /\ prior' = IF ~Exact(Committed) THEN Committed
                           ELSE IF Pending THEN stack ELSE prior
               /\ spoilt' = IF Exact(Committed) /\ ~Pending THEN spoilt ELSE FALSE
               /\ nested' = FALSE
      <4>1. stack' \in Stacks /\ undo' \in Snaps /\ undoPrev' \in Snaps
        BY <3>2, <3>3, <3>5, PutBackType
      <4>2. prior' \in Stacks /\ spoilt' \in BOOLEAN
        BY <1>0, <3>2, <3>5 DEF HistoryType
      <4> QED BY <3>2, <3>5, <4>1, <4>2 DEF CoreType, HistoryType
    <3> QED BY <3>1, <3>4, <3>5
  <2> QED BY <2>1, <2>2
<1>2. CASE ClearStack
  <2>1. stack' = <<>> /\ UndoSnapshot(stack) /\ Ended("ok", "key", stack, TRUE)
    BY <1>2 DEF ClearStack
  <2> QED BY <2>1, NoSnap, StandsType
<1>3. CASE Undo
  <2>1. CASE undo.ready
    <3>1. /\ stack' = undo.levels /\ undo' = NoSnapshot /\ base' = <<>> /\ nested' = FALSE
          /\ undoPrev' = undoPrev /\ prior' = prior /\ spoilt' = spoilt
      BY <1>3, <2>1 DEF Undo
    <3> QED BY <1>0, <3>1, NoSnap, LevelsAreStack DEF CoreType, HistoryType
  <2>2. CASE ~undo.ready
    <3>1. UNCHANGED coreVars /\ Quiet
      BY <1>3, <2>2 DEF Undo
    <3> QED BY <3>1, StillType
  <2> QED BY <2>1, <2>2
<1>4. ASSUME NEW r \in Registers, StoreDigit(r) PROVE CoreType' /\ HistoryType'
  <2>1. CASE stack = <<>>
    <3>1. UNCHANGED coreVars /\ Quiet
      BY <1>4, <2>1 DEF StoreDigit
    <3> QED BY <3>1, StillType
  <2>2. CASE stack # <<>>
    <3>1. Last(stack) \in Values /\ Push(stack, Last(stack)) \in Stacks
      BY <1>0, <2>2, LastIs, Pushed
    <3>2. /\ UndoSnapshot(stack)
          /\ \/ stack' = stack /\ Ended("ok", "register", stack, TRUE)
             \/ stack' = stack /\ Ended("failed", "register", stack, FALSE)
             \/ stack' = Push(stack, Last(stack))
                /\ Ended("failed", "register", stack, FALSE)
      BY <1>4, <2>2 DEF StoreDigit
    <3>3. stack' \in Stacks
      BY <1>0, <3>1, <3>2
    <3> QED BY <3>2, <3>3, StandsType
  <2> QED BY <2>1, <2>2
<1>5. ASSUME NEW r \in Registers, RecallDigit(r) PROVE CoreType' /\ HistoryType'
  <2>1. /\ UndoSnapshot(stack)
        /\ \/ stack' = stack /\ Ended("failed", "register", stack, FALSE)
           \/ /\ ~Full(stack) /\ regs[r] # None /\ stack' = Append(stack, regs[r])
              /\ Ended("ok", "register", stack, TRUE)
    BY <1>5 DEF RecallDigit
  <2>2. regs[r] # None => regs[r] \in Values
    BY <1>0, <1>5 DEF Values
  <2>3. stack' \in Stacks
    BY <1>0, <2>1, <2>2, Pushed
  <2> QED BY <2>1, <2>3, StandsType
<1>6. CASE PickEnter
  <2>1. CASE sel > Len(stack) \/ stack[LevelAt(sel)] = Array
    <3>1. UNCHANGED coreVars /\ Quiet
      BY <1>6, <2>1 DEF PickEnter
    <3> QED BY <3>1, StillType
  <2>2. CASE ~(sel > Len(stack) \/ stack[LevelAt(sel)] = Array)
    <3>1. /\ UndoSnapshot(stack) /\ Ended("ok", "key", stack, TRUE) /\ sel > 0
          /\ stack' = Push(stack, stack[LevelAt(sel)])
      BY <1>6, <2>2 DEF PickEnter
    <3>2. LevelAt(sel) \in 1..Len(stack)
      BY <1>0, <2>2, <3>1, CalculatorAssumption DEF LevelAt, Stacks
    <3>3. stack[LevelAt(sel)] \in Values
      BY <1>0, <3>2 DEF Stacks
    <3>4. stack' \in Stacks
      BY <1>0, <3>1, <3>3, Pushed
    <3> QED BY <3>1, <3>4, StandsType
  <2> QED BY <2>1, <2>2
<1>7. CASE PickDrop
  <2>1. /\ UndoSnapshot(stack) /\ Ended("ok", "key", stack, TRUE)
        /\ sel > 0 /\ sel <= Len(stack)
        /\ stack' = RemoveAt(stack, LevelAt(sel))
    BY <1>7 DEF PickDrop
  <2>2. LevelAt(sel) \in 1..Len(stack)
    BY <1>0, <2>1, CalculatorAssumption DEF LevelAt, Stacks
  <2>3. stack' \in Stacks
    BY <1>0, <2>1, <2>2, Removed
  <2> QED BY <2>1, <2>3, StandsType
<1>8. CASE Submit
  <2>1. UndoSnapshot(stack) /\ base' = stack /\ nested' = FALSE
        /\ stack' = stack /\ prior' = prior /\ spoilt' = spoilt
    BY <1>8 DEF Submit
  <2> QED BY <1>0, <2>1, UndoSnapshotType DEF CoreType, HistoryType
<1>9. CASE ListRun
  <2> DEFINE commits == from = "calc" /\ Commits
             began == IF commits THEN Committed ELSE stack
  <2>1. /\ stack' = began /\ undo' = Snapshot(began)
        /\ undoPrev' = (IF from = "calc" THEN CommitUndo ELSE undo)
        /\ base' = began /\ nested' = FALSE /\ prior' = prior /\ spoilt' = spoilt
    BY <1>9 DEF ListRun
  <2>2. began \in Stacks /\ CommitUndo \in Snaps
    BY <1>0, CommitType
  <2> HIDE DEF began
  <2>3. Snapshot(began) \in Snaps
    BY <2>2, SnapshotOf
  <2> QED BY <1>0, <2>1, <2>2, <2>3 DEF CoreType, HistoryType
<1>10. ASSUME NEW v \in Numbers, GraphPush(v) PROVE CoreType' /\ HistoryType'
  <2>1. UndoSnapshot(stack) /\ Ended("ok", "page", stack, TRUE) /\ stack' = Push(stack, v)
    BY <1>10 DEF GraphPush
  <2>2. stack' \in Stacks
    BY <1>0, <1>10, <2>1, Pushed DEF Values, Held
  <2> QED BY <2>1, <2>2, StandsType
<1>11. ASSUME NEW v \in Numbers, NestedPush(v) PROVE CoreType' /\ HistoryType'
  <2>1. /\ UndoSnapshot(stack) /\ stack' = Push(stack, v) /\ nested' = TRUE
        /\ base' = base /\ prior' = prior /\ spoilt' = spoilt
    BY <1>11 DEF NestedPush
  <2>2. stack' \in Stacks
    BY <1>0, <1>11, <2>1, Pushed DEF Values, Held
  <2> QED BY <1>0, <2>1, <2>2, UndoSnapshotType DEF CoreType, HistoryType
<1>12. CASE EvalStep
  <2>1. /\ stack' \in Outcomes(stack) /\ undo' = undo /\ undoPrev' = undoPrev
        /\ base' = base /\ prior' = prior /\ spoilt' = spoilt /\ nested' = nested
    BY <1>12 DEF EvalStep, histVars
  <2> QED BY <1>0, <2>1, OutcomesAreStacks DEF CoreType, HistoryType
<1>13. CASE EvalOk \/ RunFails
  <2>1. /\ UNCHANGED coreVars
        /\ base' = base /\ prior' = base /\ spoilt' = nested /\ nested' = nested
    BY <1>13 DEF EvalOk, RunFails
  <2> QED BY <1>0, <2>1 DEF CoreType, HistoryType, coreVars
<1>14. CASE LineFails
  <2>1. /\ PutBack(undo, undoPrev, stack)
        /\ prior' = (IF undo.exact THEN prior ELSE base)
        /\ spoilt' = (IF undo.exact THEN spoilt \/ nested ELSE nested)
        /\ base' = base /\ nested' = nested
    BY <1>14 DEF LineFails
  <2>2. stack' \in Stacks /\ undo' \in Snaps /\ undoPrev' \in Snaps
    BY <1>0, <2>1, PutBackType
  <2> QED BY <1>0, <2>1, <2>2 DEF CoreType, HistoryType
<1>15. CASE ReloadCard
  <2> DEFINE trimmed(s) == IF Len(s) > Len(stack) THEN SubSeq(s, 1, Len(stack)) ELSE s
  <2>1. /\ base' = stack /\ nested' = FALSE /\ undo' = undo /\ undoPrev' = undoPrev
        /\ prior' = prior /\ spoilt' = spoilt
    BY <1>15 DEF ReloadCard
  <2>2. PICK s \in (IF CardRuns THEN Outcomes(stack) ELSE {Push(stack, v) : v \in Values}) :
             stack' = trimmed(s)
    BY <1>15 DEF ReloadCard
  <2>3. s \in Stacks
    BY <1>0, <2>2, OutcomesAreStacks, Pushed
  <2>4. ASSUME Len(s) > Len(stack) PROVE SubSeq(s, 1, Len(stack)) \in Stacks
    <3>1. /\ s \in Seq(Values) /\ 1 \in 1..(Len(s) + 1) /\ Len(stack) \in 0..Len(s)
          /\ 1 <= Len(stack) + 1 /\ Len(stack) - 1 + 1 <= STACK_MAX
      BY <1>0, <2>3, <2>4, CalculatorAssumption DEF Stacks
    <3> QED BY <3>1, Part DEF Stacks
  <2>5. stack' \in Stacks
    BY <2>2, <2>3, <2>4
  <2> QED BY <1>0, <2>1, <2>5 DEF CoreType, HistoryType
<1> QED BY <1>q, <1>c, <1>1, <1>2, <1>3, <1>4, <1>5, <1>6, <1>7, <1>8, <1>9, <1>10,
          <1>11, <1>12, <1>13, <1>14, <1>15 DEF Next

LEMMA KeyStep ==
    ASSUME TypeInv, Next
    PROVE  KeyType'
<1>0. KeyType /\ stack \in Stacks
  BY DEF TypeInv, CoreType
<1>1. CASE UNCHANGED keyVars
  BY <1>0, <1>1 DEF keyVars, KeyType
<1>e. ASSUME entry' \in {entry, None} \cup Numbers \cup {Huge, Sign},
             wait' \in {wait, "idle", "storing", "recalling"}, sel' \in {0, sel},
             regs' = regs
      PROVE  KeyType'
  BY <1>0, <1>e, CalculatorAssumption DEF KeyType
<1>2. CASE TypeDigit
  BY <1>0, <1>2, <1>e DEF TypeDigit, NoPick
<1>3. CASE NegateEntry
  BY <1>0, <1>3, <1>e DEF NegateEntry, NoPick
<1>4. CASE EraseDigit
  BY <1>0, <1>4, <1>e DEF EraseDigit
<1>5. CASE ClearEntry \/ ClearStack \/ Undo
  BY <1>0, <1>5, <1>e DEF ClearEntry, ClearStack, Undo, NoPick
<1>6. CASE EnterNumber \/ ApplyKeyWord
  BY <1>0, <1>6, <1>e DEF EnterNumber, ApplyKeyWord, CommitRefused, NoPick
<1>7. ASSUME NEW w \in {"storing", "recalling"}, RegisterKey(w) PROVE KeyType'
  BY <1>0, <1>7, <1>e DEF RegisterKey, CommitRefused, NoPick
<1>8. CASE RegisterCancelled
  BY <1>0, <1>8, <1>e DEF RegisterCancelled
<1>9. ASSUME NEW r \in Registers, StoreDigit(r) PROVE KeyType'
  <2>1. CASE regs' = regs
    BY <1>0, <1>9, <2>1, <1>e DEF StoreDigit, NoPick
  <2>2. CASE regs' # regs
    <3>1. /\ wait' = "idle" /\ sel' = 0 /\ entry' = entry
          /\ stack # <<>> /\ Last(stack) # Array
          /\ regs' = [regs EXCEPT ![r] = Last(stack)]
      BY <1>9, <2>2 DEF StoreDigit, NoPick
    <3>2. Last(stack) \in Held
      BY <1>0, <3>1, LastIs DEF Values
    <3> QED BY <1>0, <3>1, <3>2, CalculatorAssumption DEF KeyType
  <2> QED BY <2>1, <2>2
<1>10. ASSUME NEW r \in Registers, RecallDigit(r) PROVE KeyType'
  BY <1>0, <1>10, <1>e DEF RecallDigit, NoPick
<1>11. CASE PickUp \/ PickDown
  <2>1. entry' = entry /\ wait' = wait /\ regs' = regs
    BY <1>11 DEF PickUp, PickDown
  <2>2. sel' \in 0..STACK_MAX
    BY <1>0, <1>11, CalculatorAssumption DEF PickUp, PickDown, KeyType, Stacks
  <2> QED BY <1>0, <2>1, <2>2 DEF KeyType
<1>12. CASE PickEnter
  BY <1>0, <1>12, <1>e DEF PickEnter
<1>13. CASE PickDrop
  <2>1. entry' = entry /\ wait' = wait /\ regs' = regs
    BY <1>13 DEF PickDrop
  <2>2. sel' \in 0..STACK_MAX
    BY <1>0, <1>13, CalculatorAssumption DEF PickDrop, KeyType, Stacks
  <2> QED BY <1>0, <2>1, <2>2 DEF KeyType
<1>14. ASSUME NEW letter \in BOOLEAN, EnterLine(letter) PROVE KeyType'
  BY <1>0, <1>14, <1>e DEF EnterLine, CommitRefused, NoPick
<1>15. CASE TypeLine \/ LeaveLine \/ Submit \/ ListOpen \/ PageOpen \/ Back
  BY <1>0, <1>15, <1>e DEF TypeLine, LeaveLine, Submit, ListOpen, PageOpen, Back
<1>16. CASE ListRun
  BY <1>0, <1>16, <1>e DEF ListRun
<1>17. ASSUME NEW v \in Numbers, GraphPush(v) PROVE KeyType'
  BY <1>0, <1>17, <1>e DEF GraphPush
<1>18. ASSUME NEW v \in Numbers, NestedPush(v) PROVE KeyType'
  BY <1>1, <1>18 DEF NestedPush
<1>19. CASE EvalStep \/ EvalOk \/ LineFails \/ RunFails \/ ReloadCard
  BY <1>1, <1>19 DEF EvalStep, EvalOk, LineFails, RunFails, ReloadCard
<1> QED BY <1>2, <1>3, <1>4, <1>5, <1>6, <1>7, <1>8, <1>9, <1>10, <1>11, <1>12, <1>13,
          <1>14, <1>15, <1>16, <1>17, <1>18, <1>19 DEF Next

LEMMA ModeStep ==
    ASSUME TypeInv, Next
    PROVE  ModeType'
<1>0. ModeType /\ HistoryType'
  BY CoreStep DEF TypeInv
<1>1. ASSUME UNCHANGED modeVars PROVE ModeType'
  BY <1>0, <1>1 DEF ModeType, HistoryType, modeVars
<1>2. CASE \/ TypeDigit \/ NegateEntry \/ EraseDigit \/ ClearEntry \/ EnterNumber
           \/ ApplyKeyWord \/ ClearStack \/ Undo \/ RegisterCancelled
           \/ PickUp \/ PickDown \/ PickEnter \/ PickDrop \/ EvalStep \/ ReloadCard
  BY <1>1, <1>2 DEF TypeDigit, NegateEntry, EraseDigit, ClearEntry, EnterNumber,
                    ApplyKeyWord, ClearStack, Undo, RegisterCancelled,
                    PickUp, PickDown, PickEnter, PickDrop, EvalStep, ReloadCard
<1>3. CASE \/ \E w \in {"storing", "recalling"} : RegisterKey(w)
           \/ \E r \in Registers : StoreDigit(r) \/ RecallDigit(r)
           \/ \E v \in Numbers : GraphPush(v) \/ NestedPush(v)
  BY <1>1, <1>3 DEF RegisterKey, StoreDigit, RecallDigit, GraphPush, NestedPush
<1>4. ASSUME NEW letter \in BOOLEAN, EnterLine(letter) PROVE ModeType'
  <2>1. /\ mode' = "line" /\ once' = letter /\ line' = letter
        /\ from' = from /\ running' = running /\ running = "no"
    BY <1>4 DEF EnterLine, InCalc, Idle
  <2> QED BY <1>0, <1>4, <2>1 DEF ModeType, HistoryType
<1>5. CASE TypeLine \/ LeaveLine \/ Submit
  BY <1>0, <1>5 DEF TypeLine, LeaveLine, Submit, InLine, Idle, ModeType, HistoryType
<1>6. CASE ListOpen \/ PageOpen \/ Back \/ ListRun
  BY <1>0, <1>6 DEF ListOpen, PageOpen, Back, ListRun, Idle, ModeType, HistoryType
<1>7. CASE EvalOk
  BY <1>0, <1>7 DEF EvalOk, Shows, Idle, ModeType, HistoryType
<1>8. CASE LineFails \/ RunFails
  BY <1>0, <1>8 DEF LineFails, RunFails, Shows, ModeType, HistoryType
<1> QED BY <1>2, <1>3, <1>4, <1>5, <1>6, <1>7, <1>8 DEF Next

LEMMA TypeInvariant == Spec => []TypeInv
<1>1. ASSUME Init PROVE TypeInv
  <2>1. CoreType
    BY <1>1, NoSnap DEF Init, CoreType
  <2>2. 0 \in 0..STACK_MAX /\ [r \in Registers |-> None] \in [Registers -> Held \cup {None}]
    BY CalculatorAssumption
  <2>3. KeyType
    BY <1>1, <2>2 DEF Init, KeyType
  <2>4. ModeType
    BY <1>1 DEF Init, ModeType
  <2> QED BY <2>1, <2>3, <2>4 DEF TypeInv
<1>2. TypeInv /\ [Next]_vars => TypeInv'
  <2> SUFFICES ASSUME TypeInv, [Next]_vars PROVE TypeInv'
    OBVIOUS
  <2>1. CASE Next
    BY <2>1, CoreStep, KeyStep, ModeStep DEF TypeInv
  <2>2. CASE UNCHANGED vars
    BY <2>2 DEF TypeInv, CoreType, KeyType, ModeType, vars, coreVars, keyVars, modeVars,
                histVars
  <2> QED BY <2>1, <2>2
<1> QED BY <1>1, <1>2, PTL DEF Spec

\* Whatever is typed, picked, stored or run, in the calculator, on a line or on
\* a page, the stack is no deeper than the interpreter allows, a snapshot no
\* deeper than QDOS_REGISTER_MAX and free of arrays, and the level picked out
\* one the interpreter can have (handle_calc_key, undo_snapshot, stack_select_key).
THEOREM TypeCorrect == Spec => []TypeOK
  BY TypeInvariant, TypeInvImplies, PTL

-----------------------------------------------------------------------------
(* What UNDO takes back *)

\* While an evaluation runs nothing has ended, and RUN is known from a line.
RunInv ==
    /\ running # "no" => outcome = "none"
    /\ running = "run" => by = "run"

\* The snapshot is of the stack before the last step that stands, between keys;
\* of the stack the evaluation began with, during one; and the one put by for
\* a line that fails is of the step before the line.
SnapInv ==
    /\ running = "no" /\ undo.ready /\ ~spoilt => undo = Snapshot(prior)
    /\ running # "no" /\ ~nested => undo = Snapshot(base)
    /\ running = "line" /\ ~nested /\ undoPrev.ready /\ ~spoilt
         => undoPrev = Snapshot(prior)

\* What UNDO has just given back
BackInv ==
    outcome = "undone" /\ ~spoilt /\ Len(prior) <= REGISTER_MAX => stack = KeptOf(prior)

UndoInv == RunInv /\ SnapInv /\ BackInv /\ FailurePutBack

\* The ways a key may end: nothing evaluated, or
LEMMA EndsQuietly ==
    ASSUME UndoInv, running = "no", running' = "no", UNCHANGED <<undo, prior, spoilt>>,
           outcome' \in {"none", "reloaded"}
    PROVE  UndoInv'
  BY DEF UndoInv, RunInv, SnapInv, BackInv, FailurePutBack

\* a step that stands, or
LEMMA EndsStanding ==
    ASSUME running' = "no", prior' = base', undo' = Snapshot(base'),
           outcome' = "ok" \/ (outcome' = "failed" /\ ~Exact(base'))
    PROVE  UndoInv'
  BY DEF UndoInv, RunInv, SnapInv, BackInv, FailurePutBack

\* a failure that is put back, or
LEMMA EndsPutBack ==
    ASSUME running' = "no", outcome' = "failed", stack' = base',
           undo'.ready /\ ~spoilt' => undo' = Snapshot(prior')
    PROVE  UndoInv'
  BY DEF UndoInv, RunInv, SnapInv, BackInv, FailurePutBack

\* a register key that fails.
LEMMA EndsSpoilt ==
    ASSUME running' = "no", outcome' = "failed", by' = "register", spoilt'
    PROVE  UndoInv'
  BY DEF UndoInv, RunInv, SnapInv, BackInv, FailurePutBack

LEMMA StillEnds ==
    ASSUME UndoInv, running = "no", running' = "no", UNCHANGED coreVars, Quiet
    PROVE  UndoInv'
  BY EndsQuietly DEF coreVars, Quiet

LEMMA SnapshotEnds ==
    ASSUME running' = "no", UndoSnapshot(stack), NEW kind, Ended("ok", kind, stack, TRUE)
    PROVE  UndoInv'
<1>1. prior' = stack /\ base' = stack /\ outcome' = "ok" /\ undo' = Snapshot(stack)
  BY DEF UndoSnapshot, Ended
<1> QED BY <1>1, EndsStanding

LEMMA CommitEnds ==
    ASSUME TypeInv, UndoInv, running = "no", running' = "no",
           \/ CommitRefused
           \/ /\ Commits /\ entry' = None
              /\ stack' = Committed /\ undo' = CommitUndo /\ undoPrev' = CommitPrev
              /\ IF Pending THEN Ended("ok", "key", stack, TRUE) ELSE Quiet
    PROVE  UndoInv'
<1>0. /\ stack \in Stacks /\ Snapshot(stack).ready /\ Snapshot(stack).exact = Exact(stack)
      /\ Exact(stack) => Snapshot(stack).levels = stack
  BY SnapshotOf DEF TypeInv, CoreType
<1>1. CASE CommitRefused
  <2>1. CASE entry = Huge
    <3>1. UNCHANGED coreVars /\ Quiet
      BY <1>1, <2>1 DEF CommitRefused
    <3> QED BY <3>1, StillEnds
  <2>2. CASE entry # Huge /\ Exact(stack)
    <3>1. /\ PutBack(Snapshot(stack), undo, stack)
          /\ Ended("failed", "key", stack, FALSE)
      BY <1>1, <2>2 DEF CommitRefused
    <3>2. /\ stack' = stack /\ undo' = undo /\ base' = stack /\ outcome' = "failed"
          /\ prior' = prior /\ spoilt' = spoilt
      BY <1>0, <2>2, <3>1 DEF PutBack, Ended
    <3>3. undo'.ready /\ ~spoilt' => undo' = Snapshot(prior')
      BY <3>2 DEF UndoInv, SnapInv
    <3> QED BY <3>2, <3>3, EndsPutBack
  <2>3. CASE entry # Huge /\ ~Exact(stack)
    <3>1. /\ PutBack(Snapshot(stack), undo, stack)
          /\ Ended("failed", "key", stack, TRUE)
      BY <1>1, <2>3 DEF CommitRefused
    <3>2. /\ undo' = Snapshot(stack) /\ base' = stack /\ outcome' = "failed"
          /\ prior' = stack
      BY <1>0, <2>3, <3>1 DEF PutBack, Ended
    <3> QED BY <2>3, <3>2, EndsStanding
  <2> QED BY <2>1, <2>2, <2>3
<1>2. CASE /\ Commits /\ stack' = Committed /\ undo' = CommitUndo
           /\ IF Pending THEN Ended("ok", "key", stack, TRUE) ELSE Quiet
  <2>1. CASE Pending
    <3>1. /\ undo' = Snapshot(stack) /\ base' = stack /\ outcome' = "ok" /\ prior' = stack
      BY <1>2, <2>1 DEF CommitUndo, Ended
    <3> QED BY <3>1, EndsStanding
  <2>2. CASE ~Pending
    <3>1. undo' = undo /\ Quiet
      BY <1>2, <2>2 DEF CommitUndo
    <3> QED BY <3>1, EndsQuietly DEF Quiet
  <2> QED BY <2>1, <2>2
<1> QED BY <1>1, <1>2

LEMMA WordEnds ==
    ASSUME TypeInv, UndoInv, ApplyKeyWord
    PROVE  UndoInv'
<1>0. running = "no" /\ running' = "no"
  BY DEF ApplyKeyWord, InCalc, Idle, modeVars
<1>1. CASE CommitRefused
  BY <1>0, <1>1, CommitEnds
<1>2. CASE ~CommitRefused
  <2>1. Commits /\ \E s \in Outcomes(Committed) :
           \/ /\ stack' = s
              /\ undo' = Snapshot(Committed) /\ undoPrev' = CommitUndo
              /\ Ended("ok", "key", Committed, TRUE)
           \/ /\ PutBack(Snapshot(Committed), CommitUndo, s)
              /\ outcome' = "failed" /\ base' = Committed
              /\ prior' = IF ~Exact(Committed) THEN Committed
                          ELSE IF Pending THEN stack ELSE prior
              /\ spoilt' = IF Exact(Committed) /\ ~Pending THEN spoilt ELSE FALSE
    BY <1>2 DEF ApplyKeyWord
  <2>2. PICK s \in Outcomes(Committed) :
           \/ /\ stack' = s
              /\ undo' = Snapshot(Committed) /\ undoPrev' = CommitUndo
              /\ Ended("ok", "key", Committed, TRUE)
           \/ /\ PutBack(Snapshot(Committed), CommitUndo, s)
              /\ outcome' = "failed" /\ base' = Committed
              /\ prior' = IF ~Exact(Committed) THEN Committed
                          ELSE IF Pending THEN stack ELSE prior
              /\ spoilt' = IF Exact(Committed) /\ ~Pending THEN spoilt ELSE FALSE
    BY <2>1
  <2>3. /\ Snapshot(Committed).ready /\ Snapshot(Committed).exact = Exact(Committed)
        /\ Exact(Committed) => Snapshot(Committed).levels = Committed
    BY CommitType, SnapshotOf
  <2>4. CASE /\ undo' = Snapshot(Committed)
             /\ Ended("ok", "key", Committed, TRUE)
    <3>1. base' = Committed /\ prior' = Committed /\ outcome' = "ok"
      BY <2>4 DEF Ended
    <3> QED BY <1>0, <2>4, <3>1, EndsStanding
  <2>5. CASE /\ PutBack(Snapshot(Committed), CommitUndo, s)
             /\ outcome' = "failed" /\ base' = Committed
             /\ prior' = IF ~Exact(Committed) THEN Committed
                         ELSE IF Pending THEN stack ELSE prior
             /\ spoilt' = IF Exact(Committed) /\ ~Pending THEN spoilt ELSE FALSE
    <3>1. CASE ~Exact(Committed)
      <4>1. undo' = Snapshot(Committed) /\ prior' = Committed
        BY <2>3, <2>5, <3>1 DEF PutBack
      <4> QED BY <1>0, <2>5, <3>1, <4>1, EndsStanding
    <3>2. CASE Exact(Committed)
      <4>1. stack' = Committed /\ undo' = CommitUndo
        BY <2>3, <2>5, <3>2 DEF PutBack
      <4>2. undo'.ready /\ ~spoilt' => undo' = Snapshot(prior')
        <5>1. CASE Pending
          BY <2>1, <2>5, <3>2, <4>1, <5>1 DEF CommitUndo
        <5>2. CASE ~Pending
          BY <1>0, <2>5, <3>2, <4>1, <5>2 DEF CommitUndo, UndoInv, SnapInv
        <5> QED BY <5>1, <5>2
      <4> QED BY <1>0, <2>5, <4>1, <4>2, EndsPutBack
    <3> QED BY <3>1, <3>2
  <2> QED BY <2>2, <2>4, <2>5
<1> QED BY <1>1, <1>2

LEMMA LineFailsEnds ==
    ASSUME TypeInv, UndoInv, LineFails
    PROVE  UndoInv'
<1>1. /\ running = "line" /\ running' = "no" /\ PutBack(undo, undoPrev, stack)
      /\ outcome' = "failed" /\ base' = base /\ nested' = nested
      /\ prior' = (IF undo.exact THEN prior ELSE base)
      /\ spoilt' = (IF undo.exact THEN spoilt \/ nested ELSE nested)
  BY DEF LineFails
<1>2. base \in Stacks /\ nested \in BOOLEAN /\ spoilt \in BOOLEAN
  BY DEF TypeInv, CoreType, ModeType
<1>3. CASE nested
  <2>1. nested' /\ spoilt'
    BY <1>1, <1>3
  <2> QED BY <1>1, <2>1 DEF UndoInv, RunInv, SnapInv, BackInv, FailurePutBack
<1>4. CASE ~nested
  <2>1. /\ undo = Snapshot(base) /\ undo.ready /\ undo.exact = Exact(base)
        /\ Exact(base) => undo.levels = base
    BY <1>1, <1>2, <1>4, SnapshotOf DEF UndoInv, SnapInv
  <2>2. CASE Exact(base)
    <3>1. stack' = base /\ undo' = undoPrev /\ prior' = prior /\ (spoilt' <=> spoilt)
      BY <1>1, <1>2, <1>4, <2>1, <2>2 DEF PutBack
    <3>2. undo'.ready /\ ~spoilt' => undo' = Snapshot(prior')
      BY <1>1, <1>4, <3>1 DEF UndoInv, SnapInv
    <3> QED BY <1>1, <3>1, <3>2, EndsPutBack
  <2>3. CASE ~Exact(base)
    <3>1. undo' = Snapshot(base) /\ prior' = base
      BY <1>1, <2>1, <2>3 DEF PutBack
    <3> QED BY <1>1, <2>3, <3>1, EndsStanding
  <2> QED BY <2>2, <2>3
<1> QED BY <1>3, <1>4

LEMMA UndoStep ==
    ASSUME TypeInv, UndoInv, Next
    PROVE  UndoInv'
<1>0. /\ stack \in Stacks /\ undo \in Snaps /\ prior \in Stacks
      /\ nested \in BOOLEAN /\ spoilt \in BOOLEAN
      /\ running \in {"no", "line", "run"}
  BY DEF TypeInv, CoreType, ModeType
<1>q. CASE \/ TypeDigit \/ NegateEntry \/ EraseDigit \/ ClearEntry \/ RegisterCancelled
           \/ PickUp \/ PickDown \/ TypeLine \/ LeaveLine
           \/ ListOpen \/ PageOpen \/ Back
  <2>1. UNCHANGED coreVars /\ Quiet /\ running = "no" /\ running' = "no"
    BY <1>q DEF TypeDigit, NegateEntry, EraseDigit, ClearEntry, RegisterCancelled,
                PickUp, PickDown, TypeLine, LeaveLine, ListOpen, PageOpen, Back,
                InCalc, InLine, Idle, modeVars
  <2> QED BY <2>1, StillEnds
<1>c. CASE \/ EnterNumber \/ \E w \in {"storing", "recalling"} : RegisterKey(w)
           \/ \E letter \in BOOLEAN : EnterLine(letter)
  <2>1. /\ running = "no" /\ running' = "no"
        /\ \/ CommitRefused
           \/ /\ Commits /\ entry' = None
              /\ stack' = Committed /\ undo' = CommitUndo /\ undoPrev' = CommitPrev
              /\ IF Pending THEN Ended("ok", "key", stack, TRUE) ELSE Quiet
    BY <1>c DEF EnterNumber, RegisterKey, EnterLine, InCalc, Idle, modeVars
  <2> QED BY <2>1, CommitEnds
<1>1. CASE ApplyKeyWord
  BY <1>1, WordEnds
<1>2. CASE ClearStack \/ PickDrop \/ \E v \in Numbers : GraphPush(v)
  <2>1. running' = "no" /\ UndoSnapshot(stack) /\ \E kind : Ended("ok", kind, stack, TRUE)
    BY <1>2 DEF ClearStack, PickDrop, GraphPush, InCalc, Idle, modeVars
  <2> QED BY <2>1, SnapshotEnds
<1>3. CASE Undo
  <2>0. running = "no" /\ running' = "no"
    BY <1>3 DEF Undo, Idle, modeVars
  <2>1. CASE undo.ready
    <3>1. /\ stack' = undo.levels /\ undo' = NoSnapshot /\ outcome' = "undone"
          /\ prior' = prior /\ spoilt' = spoilt
      BY <1>3, <2>1 DEF Undo
    <3>2. ~undo'.ready
      BY <3>1, NoSnap
    <3>3. ~spoilt /\ Len(prior) <= REGISTER_MAX => stack' = KeptOf(prior)
      BY <1>0, <2>0, <2>1, <3>1, SnapshotOf DEF UndoInv, SnapInv
    <3> QED BY <2>0, <3>1, <3>2, <3>3
            DEF UndoInv, RunInv, SnapInv, BackInv, FailurePutBack
  <2>2. CASE ~undo.ready
    <3>1. UNCHANGED coreVars /\ Quiet
      BY <1>3, <2>2 DEF Undo
    <3> QED BY <2>0, <3>1, StillEnds
  <2> QED BY <2>1, <2>2
<1>4. ASSUME NEW r \in Registers, StoreDigit(r) \/ RecallDigit(r) PROVE UndoInv'
  <2>1. /\ running = "no" /\ running' = "no"
        /\ \/ UNCHANGED coreVars /\ Quiet
           \/ UndoSnapshot(stack) /\ Ended("ok", "register", stack, TRUE)
           \/ Ended("failed", "register", stack, FALSE)
    BY <1>4 DEF StoreDigit, RecallDigit, Idle, modeVars
  <2>2. CASE UNCHANGED coreVars /\ Quiet
    BY <2>1, <2>2, StillEnds
  <2>3. CASE UndoSnapshot(stack) /\ Ended("ok", "register", stack, TRUE)
    BY <2>1, <2>3, SnapshotEnds
  <2>4. CASE Ended("failed", "register", stack, FALSE)
    <3>1. outcome' = "failed" /\ by' = "register" /\ spoilt'
      BY <2>4 DEF Ended
    <3> QED BY <2>1, <3>1, EndsSpoilt
  <2> QED BY <2>1, <2>2, <2>3, <2>4
<1>5. CASE PickEnter
  <2>1. /\ running = "no" /\ running' = "no"
        /\ \/ UNCHANGED coreVars /\ Quiet
           \/ UndoSnapshot(stack) /\ Ended("ok", "key", stack, TRUE)
    BY <1>5 DEF PickEnter, InCalc, Idle, modeVars
  <2> QED BY <2>1, StillEnds, SnapshotEnds
<1>6. CASE Submit
  <2>1. /\ running = "no" /\ running' = "line" /\ outcome' = "none" /\ base' = stack
        /\ undo' = Snapshot(stack) /\ undoPrev' = undo /\ prior' = prior
        /\ spoilt' = spoilt
    BY <1>6 DEF Submit, InLine, Idle, UndoSnapshot
  <2> QED BY <2>1 DEF UndoInv, RunInv, SnapInv, BackInv, FailurePutBack
<1>7. CASE ListRun
  <2>1. /\ running' = "run" /\ by' = "run" /\ outcome' = "none" /\ undo' = Snapshot(base')
    BY <1>7 DEF ListRun
  <2> QED BY <2>1 DEF UndoInv, RunInv, SnapInv, BackInv, FailurePutBack
<1>8. ASSUME NEW v \in Numbers, NestedPush(v) PROVE UndoInv'
  <2>1. /\ running # "no" /\ running' = running /\ nested'
        /\ outcome' = outcome /\ by' = by
    BY <1>8 DEF NestedPush, Idle, modeVars
  <2> QED BY <2>1 DEF UndoInv, RunInv, SnapInv, BackInv, FailurePutBack
<1>9. CASE EvalStep
  <2>1. /\ running # "no" /\ UNCHANGED <<undo, undoPrev, running>>
        /\ UNCHANGED <<outcome, by, base, prior, nested, spoilt>>
    BY <1>9 DEF EvalStep, Idle, modeVars, histVars
  <2> QED BY <2>1 DEF UndoInv, RunInv, SnapInv, BackInv, FailurePutBack
<1>10. CASE EvalOk \/ RunFails
  <2>1. /\ running # "no" /\ running' = "no" /\ undo' = undo
        /\ outcome' = "ok" \/ (outcome' = "failed" /\ running = "run")
        /\ by' = by /\ base' = base /\ nested' = nested
        /\ prior' = base /\ spoilt' = nested
    BY <1>10 DEF EvalOk, RunFails, Idle, coreVars
  <2>2. outcome' = "failed" => by' = "run"
    BY <2>1 DEF UndoInv, RunInv
  <2>3. ~spoilt' => undo' = Snapshot(prior')
    BY <1>0, <2>1 DEF UndoInv, SnapInv
  <2> QED BY <2>1, <2>2, <2>3 DEF UndoInv, RunInv, SnapInv, BackInv, FailurePutBack
<1>11. CASE LineFails
  BY <1>11, LineFailsEnds
<1>12. CASE ReloadCard
  <2>1. /\ running = "no" /\ running' = "no" /\ outcome' = "reloaded"
        /\ UNCHANGED <<undo, prior, spoilt>>
    BY <1>12 DEF ReloadCard, Idle, modeVars
  <2> QED BY <2>1, EndsQuietly
<1> QED BY <1>q, <1>c, <1>1, <1>2, <1>3, <1>4, <1>5, <1>6, <1>7, <1>8, <1>9, <1>10,
          <1>11, <1>12 DEF Next

LEMMA UndoInvariant == Spec => [](TypeInv /\ UndoInv)
<1>1. Init => UndoInv
  <2> SUFFICES ASSUME Init PROVE UndoInv
    OBVIOUS
  <2>1. /\ running = "no" /\ outcome = "none" /\ ~undo.ready
    BY NoSnap DEF Init
  <2> QED BY <2>1 DEF UndoInv, RunInv, SnapInv, BackInv, FailurePutBack
<1>2. TypeInv /\ UndoInv /\ [Next]_vars => UndoInv'
  <2> SUFFICES ASSUME TypeInv, UndoInv, [Next]_vars PROVE UndoInv'
    OBVIOUS
  <2>1. CASE Next
    BY <2>1, UndoStep
  <2>2. CASE UNCHANGED vars
    BY <2>2 DEF UndoInv, RunInv, SnapInv, BackInv, FailurePutBack, vars, coreVars,
                keyVars, modeVars, histVars
  <2> QED BY <2>1, <2>2
<1> QED BY <1>1, <1>2, TypeInvariant, PTL DEF Spec

\* Between keys a snapshot that is the whole stack is the stack before the last
\* step that stands, through any run of keys that failed and were put back
\* (undo_failed), and UNDO gives that stack back, an array as its text, unless
\* it was too deep for the snapshot (undo_restore).
THEOREM UndoIsPriorCorrect == Spec => []UndoIsPrior
<1>1. TypeInv /\ UndoInv => UndoIsPrior
  <2> SUFFICES ASSUME TypeInv, UndoInv PROVE UndoIsPrior
    OBVIOUS
  <2>1. ASSUME running = "no", undo.ready, undo.exact, ~spoilt PROVE undo.levels = prior
    <3>1. undo = Snapshot(prior) /\ prior \in Stacks
      BY <2>1 DEF UndoInv, SnapInv, TypeInv, CoreType
    <3> QED BY <2>1, <3>1, SnapshotOf
  <2> QED BY <2>1 DEF UndoIsPrior, UndoInv, BackInv
<1> QED BY <1>1, UndoInvariant, PTL

\* A key or a line that fails part-way leaves the stack it began with, whatever
\* the word had done to it by then, where the snapshot was the whole of it and
\* no page inside the evaluation took another (undo_failed, submit).
THEOREM FailurePutBackCorrect == Spec => []FailurePutBack
<1>1. UndoInv => FailurePutBack
  BY DEF UndoInv
<1> QED BY <1>1, UndoInvariant, PTL

-----------------------------------------------------------------------------
(* Graph: the kinds of step                                                 *)

IsSeq(s) == Len(s) \in Nat /\ DOMAIN s = 1..Len(s)

\* The graph is on the screen, or under WINDOW.
GraphOn == page = "GRAPH" \/ (page = "WINDOW" /\ under = "GRAPH")

Homes == {"CALC", "LINE", "PLOT", "STAT"}

GraphType ==
    /\ IsSeq(words)
    /\ curve \in Nat \ {0} /\ (GraphOn /\ words # <<>> => curve \in 1..Len(words))
    /\ calc.step \in Nat /\ calc = [kind |-> calc.kind, step |-> calc.step, c1 |-> calc.c1, c2 |-> calc.c2]
    /\ graphReturn \in Homes
    /\ page \in Homes \cup {"GRAPH", "GRAPH3", "WINDOW"} /\ under \in {"CALC", "PLOT", "GRAPH"}
    /\ gstate \in {"PAN", "TRACE", "FREE", "ASK"}

\* A set of curves is opened, afresh or the same again.
Opened ==
    /\ page' = "GRAPH" /\ UNCHANGED <<under, setup, samples, window>>
    /\ IsSeq(words')
    /\ result' = (IF words' = words /\ page # "GRAPH3" THEN result ELSE NoResult)
    /\ stale' = TRUE /\ pstale' = TRUE /\ untold' = FALSE
    /\ curve' = 1
    /\ \/ gstate' = "PAN" /\ calc' = calc
       \/ gstate' = "ASK" /\ calc' = [calc EXCEPT !.kind = "BOX", !.step = 0]
    /\ graphReturn' \in Homes

\* A surface takes the place of the curves.
Surfaced ==
    /\ page' = "GRAPH3" /\ UNCHANGED <<under, setup, window, gstate, calc, curve>>
    /\ IsSeq(words') /\ result' = Since(result)
    /\ graphReturn' \in Homes

\* From page to page, with the graph as it was if it is come back to.
Walked ==
    /\ UNCHANGED <<setup, words, samples, graphReturn, calc, curve, result, view, ranges, pstale, untold>>
    /\ gstate' \in {gstate, "PAN", "TRACE"}
    /\ GraphOn' => GraphOn /\ stale' = stale
    /\ page' \in Homes \cup {"GRAPH", "GRAPH3", "WINDOW"} /\ under' \in {"CALC", "PLOT", "GRAPH"}

\* A key of the graph's own: what it is drawn of is left alone, and its window is
\* only moved with the samples to be taken again.
OnIt ==
    /\ page = "GRAPH" /\ UNCHANGED Elsewhere
    /\ (view' = view /\ stale' = stale) \/ stale'

\* Of those, the ones that ask nothing of a function.
Unasked ==
    /\ gstate' # "ASK" \/ (gstate' = gstate /\ UNCHANGED <<curve, calc>>) \/ calc'.kind = "BOX"
    /\ gstate' \in {"PAN", "TRACE", "FREE", "ASK"}
    /\ curve' = curve \/ curve' \in 1..Len(words)
    /\ calc' = calc \/ (calc'.step \in Nat /\
         calc' = [kind |-> calc'.kind, step |-> calc'.step, c1 |-> calc'.c1, c2 |-> calc'.c2])

-----------------------------------------------------------------------------
(* Each action is of its kind                                               *)

LEMMA CurvesAreSeq == IsSeq(SlotCurves)
<1> DEFINE draws(w) == slots[w].on /\ slots[w].body \notin Broken
                         /\ ShapeOf[slots[w].body] \in {"curve", "points"}
           on == {i \in DOMAIN SlotWords : draws(SlotWords[i])}
           nth(n) == SlotWords[CHOOSE i \in on : Cardinality({j \in on : j <= i}) = n]
           one(n) == [word |-> nth(n), shape |-> ShapeOf[slots[nth(n)].body]]
<1>1. IsFiniteSet(DOMAIN SlotWords)
  <2>1. SlotWords \in Seq(STRING)
    BY GraphAssumption
  <2>2. DOMAIN SlotWords = 1..Len(SlotWords) /\ Len(SlotWords) \in Nat
    BY <2>1
  <2> QED BY <2>2, FS_Interval
<1>2. Cardinality(on) \in Nat
  BY <1>1, FS_Subset, FS_CardinalityType
<1>3. SlotCurves = [n \in 1..Cardinality(on) |-> one(n)]
  BY DEF SlotCurves
<1> HIDE DEF on, one
<1> QED BY <1>2, <1>3 DEF IsSeq

LEMMA PlotCurvesOpens ==
    ASSUME NEW v, NEW toFit, NEW gs, NEW ret \in Homes, PlotCurves(v, toFit, gs, ret),
           UNCHANGED <<under, setup, samples, window>>,
           \/ gs = "PAN" /\ calc' = calc
           \/ gs = "ASK" /\ calc' = [calc EXCEPT !.kind = "BOX", !.step = 0]
    PROVE  Opened
  BY CurvesAreSeq DEF PlotCurves, OpenMany, Opened

LEMMA WordGraphOpens ==
    ASSUME NEW w, WordGraph(w)
    PROVE  Opened
  BY DEF WordGraph, OpenMany, Opened, IsSeq, Homes

LEMMA Graph3Surfaces ==
    ASSUME NEW w, NEW ret \in Homes, Graph3Open(w, ret)
    PROVE  Surfaced
  BY DEF Graph3Open, Surfaced, IsSeq, Homes

LEMMA Opens ==
    ASSUME GraphType, \/ PlotGraph \/ StatGraph \/ GrGraph
                      \/ \E k \in Zooms : ZoomFromPage(k)
                      \/ \E w : WordGraph(w) \/ WordGraph3(w)
                      \/ PageGraph
    PROVE  Opened \/ Surfaced \/ (Walked /\ UNCHANGED window)
<1>1. CASE PlotGraph
  <2>1. \/ \E w \in Slots : Graph3Open(w, "PLOT")
        \/ /\ PlotCurves(plotView, FALSE, "PAN", "PLOT")
           /\ UNCHANGED <<under, setup, samples, calc, window>>
    BY <1>1 DEF PlotGraph
  <2> QED BY <2>1, Graph3Surfaces, PlotCurvesOpens DEF Homes
<1>2. CASE StatGraph \/ GrGraph
  BY <1>2, PlotCurvesOpens DEF StatGraph, GrGraph, Homes
<1>3. ASSUME NEW k \in Zooms, ZoomFromPage(k) PROVE Opened
  <2>1. page \in Homes /\ UNCHANGED <<under, setup, samples, window>>
    BY <1>3 DEF ZoomFromPage, Homes
  <2>2. \/ /\ PlotCurves(plotView, FALSE, "ASK", page)
           /\ calc' = [calc EXCEPT !.kind = "BOX", !.step = 0]
        \/ PlotCurves(plotView, TRUE, "PAN", page) /\ UNCHANGED calc
        \/ \E v \in Windows : PlotCurves(v, FALSE, "PAN", page) /\ UNCHANGED calc
    BY <1>3 DEF ZoomFromPage, Zooms
  <2> QED BY <2>1, <2>2, PlotCurvesOpens
<1>4. ASSUME NEW w, WordGraph(w) \/ WordGraph3(w) PROVE Opened \/ Surfaced
  BY <1>4, WordGraphOpens, Graph3Surfaces DEF WordGraph3, Homes
<1>5. CASE PageGraph
  <2>1. CASE under = "GRAPH"
    BY <1>5, <2>1 DEF PageGraph, Walked, GraphOn, drawn, window, GraphType
  <2>2. CASE under # "GRAPH"
    BY <1>5, <2>2, PlotCurvesOpens DEF PageGraph, Homes
  <2> QED BY <2>1, <2>2
<1> QED BY <1>1, <1>2, <1>3, <1>4, <1>5

LEMMA Walks ==
    ASSUME GraphType,
           \/ Graph3Esc \/ StatOpen \/ StatEsc \/ WindowOpen \/ WindowEsc \/ GraphEsc
           \/ Graph3Refresh \/ \E p \in {"CALC", "LINE", "PLOT"} : GoTo(p)
           \/ UNCHANGED graphVars
    PROVE  Walked
<1>1. CASE Graph3Esc
  BY <1>1 DEF Graph3Esc, Walked, GraphType, GraphOn, Homes, drawn, window
<1>2. CASE StatOpen \/ StatEsc
  BY <1>2 DEF StatOpen, StatEsc, Walked, GraphType, GraphOn, Homes, drawn, window
<1>3. CASE WindowOpen \/ WindowEsc
  BY <1>3 DEF WindowOpen, WindowEsc, Walked, GraphType, GraphOn, Homes, drawn, window
<1>4. CASE GraphEsc
  BY <1>4 DEF GraphEsc, Walked, GraphType, GraphOn, InGraph, Homes, drawn, window
<1>5. CASE Graph3Refresh
  BY <1>5 DEF Graph3Refresh, Walked, GraphType, GraphOn, Homes, drawn, window
<1>6. ASSUME NEW p \in {"CALC", "LINE", "PLOT"}, GoTo(p) PROVE Walked
  BY <1>6 DEF GoTo, Walked, GraphType, GraphOn, Homes, drawn, window
<1>7. CASE UNCHANGED graphVars
  BY <1>7 DEF graphVars, Walked, GraphType, GraphOn, Homes, drawn, window
<1> QED BY <1>1, <1>2, <1>3, <1>4, <1>5, <1>6, <1>7

LEMMA MovedOnIt ==
    ASSUME NEW v, Moved(v)
    PROVE  stale'
  BY DEF Moved


-----------------------------------------------------------------------------
(* Graph: the curve stepped to                                              *)

\* A set of naturals that is not empty has a least member, and Min is it.
LEMMA LeastNat ==
    ASSUME NEW T \in SUBSET Nat, T # {}
    PROVE  Min(T) \in T
<1> DEFINE R == OpToRel(<, Nat)
<1>1. IsWellFoundedOn(R, Nat)
  BY NatLessThanWellFounded
<1>2. PICK x \in T : \A y \in T : ~(<<y, x>> \in R)
  <2> HIDE DEF R
  <2> QED BY <1>1, WFMin
<1>3. \A y \in T : <<y, x>> \in R <=> y < x
  BY DEF OpToRel
<1>4. \A y \in T : ~(y < x)
  <2> HIDE DEF R
  <2> QED BY <1>2, <1>3, Zenon
<1>5. \A y \in T : x <= y
  BY <1>4
<1> QED BY <1>5 DEF Min

\* A step past either end comes round to the other.
LEMMA Round ==
    ASSUME NEW n \in Nat \ {0}, NEW x \in Int
    PROVE  /\ x % n \in 0..n-1
           /\ x \in 0..n-1 => x % n = x
           /\ x \in n..2*n-1 => x % n = x - n
           /\ x \in -n..-1 => x % n = x + n
  OBVIOUS

\* Every curve is reached by some step c0 any other, either way.
LEMMA Reached ==
    ASSUME NEW n \in Nat \ {0}, NEW c0 \in 1..n, NEW to \in 1..n, NEW dir \in {-1, 1}
    PROVE  \E k \in 1..n : ((c0 - 1 + dir * k) % n) + 1 = to
<1>1. CASE dir = 1
  <2> DEFINE k == IF to > c0 THEN to - c0 ELSE to - c0 + n
             x == c0 - 1 + dir * k
  <2>1. k \in 1..n /\ x \in Int /\ (x = to - 1 \/ x = to - 1 + n)
    BY <1>1
  <2>2. \/ x \in 0..n-1 /\ x = to - 1
        \/ x \in n..2*n-1 /\ x - n = to - 1
    BY <2>1
  <2>3. x % n = to - 1
    <3> HIDE DEF x, k
    <3>1. x % n = x \/ x \notin 0..n-1
      BY <2>1, Round
    <3>2. x % n = x - n \/ x \notin n..2*n-1
      BY <2>1, Round
    <3> QED BY <2>1, <2>2, <3>1, <3>2
  <2>4. (x % n) + 1 = to
    BY <2>3
  <2> QED BY <2>1, <2>4
<1>2. CASE dir = -1
  <2> DEFINE k == IF c0 > to THEN c0 - to ELSE c0 - to + n
             x == c0 - 1 + dir * k
  <2>1. k \in 1..n /\ x \in Int /\ (x = to - 1 \/ x = to - 1 - n)
    BY <1>2
  <2>2. \/ x \in 0..n-1 /\ x = to - 1
        \/ x \in -n..-1 /\ x + n = to - 1
    BY <2>1
  <2>3. x % n = to - 1
    <3> HIDE DEF x, k
    <3>1. x % n = x \/ x \notin 0..n-1
      BY <2>1, Round
    <3>2. x % n = x + n \/ x \notin -n..-1
      BY <2>1, Round
    <3> QED BY <2>1, <2>2, <3>1, <3>2
  <2>4. (x % n) + 1 = to
    BY <2>3
  <2> QED BY <2>1, <2>4
<1> QED BY <1>1, <1>2

\* A curve stepped to is one of those plotted, and a function if only those will do.
LEMMA CurveStepped ==
    ASSUME IsSeq(words), NEW c0 \in 1..Len(words), NEW dir \in {-1, 1}, NEW only \in BOOLEAN
    PROVE  /\ CurveStep(c0, dir, only) \in 1..Len(words)
           /\ only /\ Functions # {} => IsFunction(CurveStep(c0, dir, only))
<1> DEFINE n == Len(words)
           at(k) == ((c0 - 1 + dir * k) % n) + 1
           ok == {k \in 1..n : ~only \/ IsFunction(at(k))}
<1>1. n \in Nat \ {0}
  BY DEF IsSeq
<1>2. \A k \in 1..n : at(k) \in 1..n
  <2> TAKE k \in 1..n
  <2>1. c0 - 1 + dir * k \in Int
    <3>1. c0 \in Int /\ k \in Int /\ (dir = 1 \/ dir = -1)
      BY <1>1
    <3> HIDE DEF n, at, ok
    <3> QED BY <3>1
  <2>2. (c0 - 1 + dir * k) % n \in 0..n-1
    <3> DEFINE x == c0 - 1 + dir * k
    <3>1. x \in Int
      BY <2>1
    <3>2. x % n \in 0..n-1
      <4> HIDE DEF x, n
      <4> QED BY <1>1, <3>1, Round
    <3> QED BY <3>2
  <2> QED BY <1>1, <2>2
<1>3. CurveStep(c0, dir, only) = IF ok = {} THEN c0 ELSE at(Min(ok))
  BY DEF CurveStep
<1>4. ok \in SUBSET Nat /\ ok \subseteq 1..n
  BY <1>1
<1>5. ok # {} => Min(ok) \in ok
  <2> HIDE DEF ok
  <2> QED BY <1>4, LeastNat
<1>6. Functions # {} => ok # {}
  <2> SUFFICES ASSUME NEW f \in Functions PROVE ok # {}
    OBVIOUS
  <2>1. f \in 1..n /\ IsFunction(f)
    <3> HIDE DEF ok, at
    <3> QED BY DEF Functions
  <2>2. \E k \in 1..n : at(k) = f
    <3>1. c0 \in 1..n
      OBVIOUS
    <3> HIDE DEF n, ok
    <3>2. \E k \in 1..n : ((c0 - 1 + dir * k) % n) + 1 = f
      <4> HIDE DEF at
      <4>1. \A d \in {-1, 1} : \E k \in 1..n : ((c0 - 1 + d * k) % n) + 1 = f
        BY <1>1, <2>1, <3>1, Reached, Zenon
      <4> QED BY <4>1, Zenon
    <3> QED BY <3>2
  <2> QED BY <2>1, <2>2
<1>7. ok # {} => at(Min(ok)) \in 1..n /\ (only => IsFunction(at(Min(ok))))
  <2> HIDE DEF at
  <2> QED BY <1>2, <1>5
<1> HIDE DEF ok, at
<1> QED BY <1>3, <1>6, <1>7

-----------------------------------------------------------------------------
(* Graph: the graph's own keys                                              *)

LEMMA KeysOnIt ==
    ASSUME GraphType,
           \/ TraceKey \/ TraceMove \/ TraceCurve \/ FreeMove \/ PlusMinus \/ BoxAccept
           \/ ToolFree \/ \E k \in Zooms : GraphZoom(k)
    PROVE  OnIt /\ Unasked /\ UNCHANGED result
<1>0. /\ gstate \in {"PAN", "TRACE", "FREE", "ASK"}
      /\ calc = [kind |-> calc.kind, step |-> calc.step, c1 |-> calc.c1, c2 |-> calc.c2]
      /\ IsSeq(words) /\ (page = "GRAPH" /\ words # <<>> => curve \in 1..Len(words))
  BY DEF GraphType, GraphOn
<1>1. CASE TraceKey \/ ToolFree
  BY <1>1 DEF TraceKey, ToolFree, InGraph, OnIt, Unasked
<1>2. CASE TraceCurve
  <2>1. /\ InGraph /\ gstate = "TRACE" /\ words # <<>>
        /\ UNCHANGED <<Elsewhere, gstate, calc, result, view, stale>>
    BY <1>0, <1>2 DEF TraceCurve, IsSeq
  <2>2. PICK dir \in {-1, 1} : curve' = CurveStep(curve, dir, FALSE)
    BY <1>2 DEF TraceCurve
  <2>3. curve' \in 1..Len(words)
    BY <1>0, <2>1, <2>2, CurveStepped DEF InGraph
  <2> QED BY <2>1, <2>3 DEF InGraph, OnIt, Unasked
<1>3. CASE TraceMove \/ FreeMove \/ PlusMinus
  BY <1>0, <1>3, MovedOnIt DEF TraceMove, FreeMove, PlusMinus, TraceTo, InGraph, OnIt, Unasked
<1>4. CASE BoxAccept
  <2>1. /\ calc.kind = "BOX" /\ InGraph /\ UNCHANGED <<Elsewhere, curve, result>>
        /\ \/ UNCHANGED <<gstate, view, stale>>
           \/ gstate' = "PAN" /\ stale'
    BY <1>4, MovedOnIt DEF BoxAccept
  <2>2. calc' = calc \/ calc' = [kind |-> "BOX", step |-> 1, c1 |-> calc.c1, c2 |-> calc.c2]
    BY <1>0, <1>4, <2>1 DEF BoxAccept
  <2>3. calc'.kind = "BOX"
    BY <2>1, <2>2
  <2> QED BY <1>0, <2>1, <2>2, <2>3 DEF InGraph, OnIt, Unasked
<1>5. ASSUME NEW k \in Zooms, GraphZoom(k) PROVE OnIt /\ Unasked /\ UNCHANGED result
  <2>1. \/ BoxStart /\ UNCHANGED <<view, stale>>
        \/ stale' /\ UNCHANGED <<gstate, calc>>
    BY <1>5, MovedOnIt DEF GraphZoom, Zooms
  <2>2. BoxStart => gstate' = "ASK" /\ calc' = [kind |-> "BOX", step |-> 0, c1 |-> calc.c1, c2 |-> calc.c2]
    BY <1>0 DEF BoxStart
  <2>3. InGraph /\ UNCHANGED <<Elsewhere, curve, result>>
    BY <1>5 DEF GraphZoom
  <2>4. CASE BoxStart /\ UNCHANGED <<view, stale>>
    BY <2>2, <2>3, <2>4 DEF InGraph, OnIt, Unasked
  <2>5. CASE stale' /\ UNCHANGED <<gstate, calc>>
    BY <1>0, <2>3, <2>5 DEF InGraph, OnIt, Unasked
  <2> QED BY <2>1, <2>4, <2>5
<1> QED BY <1>1, <1>2, <1>3, <1>4, <1>5

LEMMA AsksOnIt ==
    ASSUME \/ AskCurve \/ PickFirst \/ PickSecond \/ AcceptX \/ \E k \in CalcKinds : CalcStart(k)
    PROVE  OnIt
  BY MovedOnIt DEF AskCurve, PickFirst, PickSecond, AcceptX, CalcStart, TraceTo, AskingForCurve,
                   Asking, InGraph, OnIt

-----------------------------------------------------------------------------
(* Graph: what holds throughout                                             *)

SlotBodies == [body : Bodies, on : BOOLEAN]

AllKept ==
    /\ slots \in [Slots -> SlotBodies]
    /\ store = [view |-> plotView, ranges |-> ranges, slots |-> slots]

\* A curve that is not to be sampled again has been sampled as it is.
Sampled ==
    GraphOn /\ ~untold =>
      \A i \in DOMAIN words :
        ~(IF IsFunction(i) THEN stale ELSE pstale) => i \in DOMAIN samples /\ samples[i] = SampleOf(i)

\* The question is of functions, wherever the graph waits with it.
OfFunctions ==
    /\ IsFunction(curve)
    /\ calc.kind \in TwoCurves =>
         /\ calc.step >= 1 => IsFunction(calc.c1)
         /\ calc.step >= 2 => IsFunction(calc.c2) /\ calc.c1 # calc.c2

Asked == GraphOn /\ gstate = "ASK" /\ calc.kind \in CalcKinds => OfFunctions

\* What was found is of the curves opened, on whatever page.
OnTheirs(r) ==
    LET cs == IF r.b = 0 THEN <<r.a>> ELSE <<r.a, r.b>>
    IN \A i \in DOMAIN cs : cs[i] \in DOMAIN words /\ Def(words[cs[i]].word) = r.on[i]

Stands ==
    /\ result = [kind |-> result.kind, a |-> result.a, b |-> result.b, on |-> result.on,
                 since |-> result.since]
    /\ result.since \in BOOLEAN
    /\ result # NoResult /\ ~result.since => OnTheirs(result)

\* A slot declared again or switched, on a page that has slots.
SlotEdited ==
    /\ page \in {"PLOT", "STAT"}
    /\ UNCHANGED <<page, under, prog, angle, drawn, gstate, curve, calc, view, plotView, ranges>>
    /\ \E w \in Slots, s \in SlotBodies :
         /\ slots' = [slots EXCEPT ![w] = s] /\ store' = SlotStored(w, s)
         /\ result' = NoResult \/ (UNCHANGED result /\ s.body = slots[w].body)

\* A window or a range typed in: what is drawn in it is to be sampled again.
WindowTyped ==
    /\ page = "WINDOW"
    /\ UNCHANGED <<page, under, setup, drawn, gstate, curve, calc, result, untold>>
    /\ under = "GRAPH" => stale' = TRUE /\ (pstale' = TRUE \/ UNCHANGED <<pstale, ranges>>)
    /\ store' = WindowSaved

\* Every step is of one of these kinds.
AskStep == AskCurve \/ PickFirst \/ PickSecond \/ AcceptX \/ \E k \in CalcKinds : CalcStart(k)

GraphStep ==
    \/ Opened \/ Surfaced
    \/ Walked /\ (UNCHANGED window \/ GraphEsc)
    \/ OnIt /\ Unasked /\ UNCHANGED result
    \/ AskStep
    \/ SlotEdited \/ WindowTyped \/ GraphRefresh
    \/ \E w \in Programs : \E b : ProgramChanged(w, b)
    \/ AngleChanged \/ Restart

GraphInv == GraphType /\ AllKept /\ Sampled /\ Asked /\ Stands

LEMMA WindowsTyped ==
    ASSUME WindowSetEdge \/ WindowSetRange
    PROVE  WindowTyped
<1>1. CASE WindowSetEdge
  BY <1>1 DEF WindowSetEdge, WindowTyped, Moved, WindowSaved
<1>2. CASE WindowSetRange
  BY <1>2 DEF WindowSetRange, WindowTyped, Moved, WindowSaved
<1> QED BY <1>1, <1>2

LEMMA SlotsEdited ==
    ASSUME AllKept,
           \/ \E w \in Slots : SlotToggle(w) \/ \E b \in Typed[w] : SlotWrite(w, b)
           \/ \E b \in Bodies : ResultToSlot(b)
    PROVE  SlotEdited
<1>1. \A w \in Slots : slots[w] \in SlotBodies /\ Typed[w] \subseteq Bodies
  BY GraphAssumption DEF AllKept, Slots
<1>2. ASSUME NEW w \in Slots, NEW s \in SlotBodies, SlotSet(w, s), page \in {"PLOT", "STAT"}
      PROVE  SlotEdited
  BY <1>2 DEF SlotSet, SlotEdited
<1>3. ASSUME NEW w \in Slots, SlotToggle(w) PROVE SlotEdited
  <2>1. slots[w] = [body |-> slots[w].body, on |-> slots[w].on] /\ slots[w].body \in Bodies
    BY <1>1 DEF SlotBodies
  <2> DEFINE s == [body |-> slots[w].body, on |-> ~slots[w].on]
  <2>2. [slots[w] EXCEPT !.on = ~@] = s /\ s \in SlotBodies /\ s.body = slots[w].body
    BY <2>1 DEF SlotBodies
  <2>3. slots' = [slots EXCEPT ![w] = s] /\ slots'[w] = s
    BY <1>3, <2>2 DEF SlotToggle, AllKept
  <2> QED BY <1>3, <2>2, <2>3 DEF SlotToggle, SlotEdited
<1>4. ASSUME NEW w \in Slots, NEW b \in Typed[w], SlotWrite(w, b) PROVE SlotEdited
  <2> DEFINE s == [body |-> b, on |-> ShapeOf[b] # "none" /\ (ShapeOf[slots[w].body] = "none" \/ slots[w].on)]
  <2>1. s \in SlotBodies
    BY <1>1 DEF SlotBodies
  <2>2. SlotSet(w, s) /\ page = "PLOT"
    BY <1>4 DEF SlotWrite
  <2> HIDE DEF s
  <2> QED BY <1>2, <2>1, <2>2
<1>5. ASSUME NEW b \in Bodies, ResultToSlot(b) PROVE SlotEdited
  <2> DEFINE empty == {i \in DOMAIN SlotWords : ShapeOf[slots[SlotWords[i]].body] = "none"}
             w == SlotWords[Min(empty)]
             s == [body |-> b, on |-> b \notin Broken]
  <2>1. empty # {} /\ SlotSet(w, s) /\ page = "STAT"
    BY <1>5 DEF ResultToSlot
  <2>2. DOMAIN SlotWords = 1..Len(SlotWords)
    <3>1. SlotWords \in Seq(STRING)
      BY GraphAssumption
    <3> QED BY <3>1
  <2>3. empty \subseteq DOMAIN SlotWords /\ empty \in SUBSET Nat
    BY <2>2
  <2>4. Min(empty) \in DOMAIN SlotWords
    <3> HIDE DEF empty
    <3> QED BY <2>1, <2>3, LeastNat
  <2>5. w \in Slots
    BY <2>4 DEF Slots, Range
  <2>6. s \in SlotBodies
    BY DEF SlotBodies
  <2> HIDE DEF w, s
  <2> QED BY <1>2, <2>1, <2>5, <2>6
<1> QED BY <1>3, <1>4, <1>5

LEMMA GraphStepKinds ==
    ASSUME GraphInv, [GraphNext]_graphVars
    PROVE  GraphStep
<1>1. CASE \/ Graph3Esc \/ StatOpen \/ StatEsc \/ WindowOpen \/ WindowEsc
           \/ Graph3Refresh \/ \E p \in {"CALC", "LINE", "PLOT"} : GoTo(p)
           \/ UNCHANGED graphVars
  <2>1. Walked
    BY <1>1, Walks DEF GraphInv
  <2>2. UNCHANGED window
    BY <1>1 DEF Graph3Esc, StatOpen, StatEsc, WindowOpen, WindowEsc, Graph3Refresh, GoTo, graphVars
  <2> QED BY <2>1, <2>2 DEF GraphStep
<1>2. CASE GraphEsc
  BY <1>2, Walks DEF GraphInv, GraphStep
<1>3. CASE \/ TraceKey \/ TraceMove \/ TraceCurve \/ FreeMove \/ PlusMinus \/ BoxAccept
           \/ ToolFree \/ \E k \in Zooms : GraphZoom(k)
  BY <1>3, KeysOnIt DEF GraphInv, GraphStep
<1>4. CASE \/ PlotGraph \/ StatGraph \/ GrGraph \/ \E k \in Zooms : ZoomFromPage(k)
           \/ \E w \in Slots \cup Programs : WordGraph(w) \/ WordGraph3(w)
           \/ PageGraph
  BY <1>4, Opens DEF GraphInv, GraphStep
<1>5. CASE \/ \E w \in Slots : SlotToggle(w) \/ \E b \in Typed[w] : SlotWrite(w, b)
           \/ \E b \in Bodies : ResultToSlot(b)
  BY <1>5, SlotsEdited DEF GraphInv, GraphStep
<1>6. CASE WindowSetEdge \/ WindowSetRange
  BY <1>6, WindowsTyped DEF GraphStep
<1>7. CASE GraphNext
  BY <1>1, <1>2, <1>3, <1>4, <1>5, <1>6, <1>7, Zenon DEF GraphNext, GraphStep, AskStep
<1> QED BY <1>1, <1>7

-----------------------------------------------------------------------------
(* Graph: every step keeps it                                               *)

LEMMA GraphInitInv ==
    ASSUME GraphInit
    PROVE  GraphInv
<1>1. words = <<>> /\ page = "CALC" /\ under = "CALC" /\ graphReturn = "CALC" /\ gstate = "PAN" /\ curve = 1
      /\ calc = NoCalc /\ result = NoResult
  BY DEF GraphInit
<1>2. GraphType
  BY <1>1 DEF GraphType, IsSeq, Homes, NoCalc
<1>3. AllKept
  BY DEF GraphInit, AllKept, SlotBodies
<1>4. Sampled /\ Asked /\ Stands
  BY <1>1 DEF Sampled, Asked, Stands, GraphOn, NoResult
<1> QED BY <1>2, <1>3, <1>4 DEF GraphInv

LEMMA KeptStep ==
    ASSUME GraphInv, GraphStep
    PROVE  AllKept'
<1>0. AllKept
  BY DEF GraphInv
<1>1. CASE UNCHANGED <<slots, window>>
  BY <1>0, <1>1 DEF AllKept, window
<1>2. CASE Opened \/ Surfaced
  BY <1>1, <1>2 DEF Opened, Surfaced, setup
<1>3. CASE Walked /\ UNCHANGED window
  BY <1>1, <1>3 DEF Walked, setup
<1>4. CASE GraphEsc
  <2>0. gstate \in {"PAN", "TRACE", "FREE", "ASK"}
    BY DEF GraphInv, GraphType
  <2>1. UNCHANGED <<slots, ranges>>
    BY <1>4, <2>0 DEF GraphEsc, setup, window
  <2>2. \/ UNCHANGED window
        \/ plotView' = view /\ store' = [store EXCEPT !.view = view, !.ranges = ranges]
        \/ UNCHANGED <<plotView, store>>
    BY <1>4, <2>0 DEF GraphEsc
  <2> QED BY <1>0, <1>1, <2>1, <2>2 DEF AllKept, window
<1>5. CASE OnIt
  <2>1. UNCHANGED Elsewhere
    BY <1>5 DEF OnIt
  <2> QED BY <1>1, <2>1 DEF Elsewhere, setup
<1>6. CASE SlotEdited
  BY <1>0, <1>6 DEF SlotEdited, AllKept, SlotStored
<1>7. CASE WindowTyped
  BY <1>0, <1>7 DEF WindowTyped, AllKept, WindowSaved, setup
<1>8. CASE GraphRefresh \/ AngleChanged \/ \E w \in Programs : \E b : ProgramChanged(w, b)
  BY <1>1, <1>8 DEF GraphRefresh, AngleChanged, ProgramChanged, setup
<1>9. CASE Restart
  BY <1>0, <1>9 DEF Restart, AllKept
<1>10. AskStep => OnIt
  BY AsksOnIt DEF AskStep
<1> QED BY <1>2, <1>3, <1>4, <1>5, <1>6, <1>7, <1>8, <1>9, <1>10 DEF GraphStep

\* A sample is of the same thing as long as the curves, the bodies, the window, the
\* ranges and the angle are.
LEMMA SameSample ==
    ASSUME UNCHANGED <<words, slots, prog, view, ranges, angle>>
    PROVE  \A i : SampleOf(i)' = SampleOf(i) /\ IsFunction(i)' = IsFunction(i)
  BY DEF SampleOf, Def, IsFunction

LEMMA SampledStep ==
    ASSUME GraphInv, GraphStep
    PROVE  Sampled'
<1>0. Sampled /\ page \in Homes \cup {"GRAPH", "GRAPH3", "WINDOW"} /\ graphReturn \in Homes
  BY DEF GraphInv, GraphType
<1>1. CASE Opened
  BY <1>1 DEF Opened, Sampled
<1>2. CASE Surfaced \/ SlotEdited \/ Restart
  BY <1>2 DEF Surfaced, SlotEdited, Restart, Sampled, GraphOn
<1>3. CASE AngleChanged \/ \E w \in Programs : \E b : ProgramChanged(w, b)
  BY <1>3 DEF ProgramChanged, AngleChanged, Sampled
<1>4. CASE Walked
  <2>1. UNCHANGED <<words, slots, prog, view, ranges, angle, pstale, untold, samples>>
    BY <1>4 DEF Walked, setup
  <2>2. GraphOn' => GraphOn /\ stale' = stale
    BY <1>4 DEF Walked
  <2> QED BY <1>0, <2>1, <2>2, SameSample DEF Sampled
<1>5. CASE OnIt
  <2>1. UNCHANGED <<page, under, words, slots, prog, ranges, angle, pstale, untold, samples>>
    BY <1>5 DEF OnIt, Elsewhere, setup, drawn, window
  <2>2. CASE UNCHANGED <<view, stale>>
    BY <1>0, <2>1, <2>2, SameSample DEF Sampled, GraphOn
  <2>3. CASE stale'
    <3>1. GraphOn' = GraphOn /\ \A i : IsFunction(i)' = IsFunction(i)
      BY <2>1 DEF GraphOn, IsFunction
    <3>2. \A i : ~IsFunction(i) => SampleOf(i)' = SampleOf(i)
      BY <2>1, <3>1 DEF SampleOf, Def
    <3> QED BY <1>0, <2>1, <2>3, <3>1, <3>2 DEF Sampled
  <2> QED BY <1>5, <2>2, <2>3 DEF OnIt
<1>6. CASE WindowTyped
  <2>1. UNCHANGED <<page, under, words, slots, prog, angle, untold, samples>>
    BY <1>6 DEF WindowTyped, setup, drawn
  <2>2. GraphOn' = GraphOn /\ (GraphOn => under = "GRAPH") /\ \A i : IsFunction(i)' = IsFunction(i)
    BY <1>6, <2>1 DEF GraphOn, IsFunction, WindowTyped
  <2>3. CASE GraphOn
    <3>1. stale' = TRUE /\ (pstale' = TRUE \/ UNCHANGED <<pstale, ranges>>)
      BY <1>6, <2>2, <2>3 DEF WindowTyped
    <3>2. UNCHANGED ranges => \A i : ~IsFunction(i) => SampleOf(i)' = SampleOf(i)
      BY <2>1, <2>2 DEF SampleOf, Def
    <3> QED BY <1>0, <2>1, <2>2, <2>3, <3>1, <3>2 DEF Sampled
  <2> QED BY <2>2, <2>3 DEF Sampled
<1>7. CASE GraphRefresh
  <2>1. UNCHANGED <<words, slots, prog, view, ranges, angle, untold>> /\ page = "GRAPH"
    BY <1>7 DEF GraphRefresh, setup, window
  <2>2. samples' = [i \in DOMAIN words |->
           IF (IF IsFunction(i) THEN stale ELSE pstale) \/ i \notin DOMAIN samples
           THEN SampleOf(i) ELSE samples[i]]
    BY <1>7 DEF GraphRefresh
  <2>3. untold \/ \A i \in DOMAIN words : samples'[i] = SampleOf(i)
    BY <1>0, <2>1, <2>2 DEF Sampled, GraphOn
  <2> QED BY <2>1, <2>2, <2>3, SameSample DEF Sampled
<1>8. AskStep => OnIt
  BY AsksOnIt DEF AskStep
<1> QED BY <1>1, <1>2, <1>3, <1>4, <1>5, <1>6, <1>7, <1>8 DEF GraphStep

\* The keys that ask leave a function to be asked of, and pick two that differ.
LEMMA Questions ==
    ASSUME GraphInv, AskStep
    PROVE  /\ curve' \in Nat \ {0} /\ (words # <<>> => curve' \in 1..Len(words))
           /\ calc' = [kind |-> calc'.kind, step |-> calc'.step, c1 |-> calc'.c1, c2 |-> calc'.c2]
           /\ calc'.step \in Nat /\ gstate' \in {gstate, "ASK", "TRACE"}
           /\ UNCHANGED words
           /\ Asked'
           /\ result' \in {result, NoResult} \/ (OnTheirs(result') /\
                result' = [kind |-> result'.kind, a |-> result'.a, b |-> result'.b,
                           on |-> result'.on, since |-> FALSE])
<1>0. /\ page = "GRAPH" /\ GraphOn /\ UNCHANGED <<page, under, words>>
      /\ IsSeq(words)
      /\ curve \in Nat \ {0} /\ (words # <<>> => curve \in 1..Len(words))
      /\ calc = [kind |-> calc.kind, step |-> calc.step, c1 |-> calc.c1, c2 |-> calc.c2]
      /\ calc.step \in Nat
  BY AsksOnIt DEF AskStep, OnIt, Elsewhere, drawn, GraphInv, GraphType, GraphOn
<1>1. /\ \A i : IsFunction(i) => i \in 1..Len(words) /\ words # <<>> /\ Functions # {}
      /\ \A i : IsFunction(i)' = IsFunction(i)
      /\ 1..Len(words) \subseteq Nat \ {0}
      /\ Functions # {} => words # <<>>
  BY <1>0 DEF IsSeq, IsFunction, Functions
<1>2. gstate = "ASK" /\ calc.kind \in CalcKinds => OfFunctions
  BY <1>0 DEF GraphInv, Asked
<1>3. TwoCurves \subseteq CalcKinds
  BY DEF TwoCurves, CalcKinds
<1>4. ASSUME NEW dir \in {-1, 1}, Functions # {}, curve' = CurveStep(curve, dir, TRUE)
      PROVE  IsFunction(curve')
  BY <1>0, <1>1, <1>4, CurveStepped
<1>5. CASE AskCurve
  <2>1. /\ gstate = "ASK" /\ calc.kind \in CalcKinds /\ (calc.kind \in TwoCurves => calc.step < 2)
        /\ UNCHANGED <<calc, gstate, result>>
    BY <1>5, <1>3 DEF AskCurve, AskingForCurve, Asking
  <2>2. IsFunction(curve')
    BY <1>1, <1>2, <1>4, <1>5, <2>1 DEF AskCurve, OfFunctions
  <2>3. OfFunctions'
    BY <1>0, <1>1, <1>2, <2>1, <2>2 DEF OfFunctions
  <2> QED BY <1>0, <1>1, <2>1, <2>2, <2>3 DEF Asked
<1>6. CASE PickFirst
  <2>1. /\ gstate = "ASK" /\ calc.kind \in TwoCurves /\ calc.step = 0
        /\ calc' = [calc EXCEPT !.step = 1, !.c1 = curve] /\ UNCHANGED <<gstate, result>>
        /\ curve' = CurveStep(curve, 1, TRUE)
    BY <1>6 DEF PickFirst, AskingForCurve, Asking
  <2>2. IsFunction(curve) /\ IsFunction(curve')
    BY <1>1, <1>2, <1>3, <1>4, <2>1 DEF OfFunctions
  <2>3. calc' = [kind |-> calc.kind, step |-> 1, c1 |-> curve, c2 |-> calc.c2]
    BY <1>0, <2>1
  <2>4. OfFunctions'
    BY <1>1, <2>2, <2>3 DEF OfFunctions
  <2>5. Asked'
    BY <2>4 DEF Asked
  <2>6. gstate' = gstate /\ result' = result
    BY <2>1
  <2> QED BY <1>0, <1>1, <2>2, <2>3, <2>5, <2>6
<1>7. CASE PickSecond
  <2>1. /\ gstate = "ASK" /\ calc.kind \in TwoCurves /\ calc.step = 1 /\ curve # calc.c1
        /\ calc' = [calc EXCEPT !.step = 2, !.c2 = curve] /\ UNCHANGED <<gstate, result>>
        /\ curve' \in {curve, calc.c1}
    BY <1>7 DEF PickSecond, AskingForCurve, Asking
  <2>2. IsFunction(curve) /\ IsFunction(calc.c1) /\ IsFunction(curve')
    BY <1>2, <1>3, <2>1 DEF OfFunctions
  <2>3. calc' = [kind |-> calc.kind, step |-> 2, c1 |-> calc.c1, c2 |-> curve]
    BY <1>0, <2>1
  <2>4. OfFunctions'
    BY <1>1, <2>1, <2>2, <2>3 DEF OfFunctions
  <2>5. Asked'
    BY <2>4 DEF Asked
  <2>6. gstate' = gstate /\ result' = result
    BY <2>1
  <2> QED BY <1>0, <1>1, <2>2, <2>3, <2>5, <2>6
<1>8. CASE AcceptX
  <2>1. /\ gstate = "ASK" /\ calc.kind \in CalcKinds /\ (calc.kind \in TwoCurves => ~(calc.step < 2))
        /\ calc' = [calc EXCEPT !.step = @ + 1]
    BY <1>8 DEF AcceptX, AskingForCurve, Asking
  <2>2. calc' = [kind |-> calc.kind, step |-> calc.step + 1, c1 |-> calc.c1, c2 |-> calc.c2]
    BY <1>0, <2>1
  <2>3. OfFunctions
    BY <1>2, <2>1
  <2>4. calc.kind \in TwoCurves => calc.step >= 2 /\ calc.step >= 1
    BY <1>0, <2>1
  <2>5. calc.kind \in TwoCurves => IsFunction(calc.c1) /\ IsFunction(calc.c2) /\ calc.c1 # calc.c2
    BY <2>3, <2>4 DEF OfFunctions
  <2>6. CASE calc.step + 1 < CalcSteps(calc.kind)
    <3>1. UNCHANGED <<gstate, curve, result>>
      BY <1>8, <2>6 DEF AcceptX
    <3>2. OfFunctions'
      BY <1>1, <2>2, <2>3, <2>5, <3>1 DEF OfFunctions
    <3> QED BY <1>0, <1>1, <2>1, <2>2, <3>1, <3>2 DEF Asked
  <2>7. CASE ~(calc.step + 1 < CalcSteps(calc.kind))
    <3>1. /\ gstate' = "TRACE"
          /\ \/ UNCHANGED <<curve, result>>
             \/ /\ curve' = IF calc.kind \in TwoCurves THEN calc.c1 ELSE curve
                /\ result' = Found
      BY <1>8, <2>7 DEF AcceptX
    <3>2. IsFunction(curve')
      BY <2>3, <2>5, <3>1 DEF OfFunctions
    <3>3. Asked'
      BY <3>1 DEF Asked
    <3>4. Found = result \/ (OnTheirs(Found) /\
            Found = [kind |-> Found.kind, a |-> Found.a, b |-> Found.b, on |-> Found.on, since |-> FALSE])
      <4>1. CASE calc.kind \in {"INTEGRAL", "TANGENT"}
        <5> DEFINE cs == <<curve>>
                   as(kind) == [kind |-> kind, a |-> curve, b |-> 0,
                                on |-> [i \in DOMAIN cs |-> Def(words[cs[i]].word)], since |-> FALSE]
        <5>1. Found = as("shade") \/ Found = as("tangent")
          <6>1. calc.kind = "INTEGRAL" => Found = as("shade")
            BY DEF Found
          <6>2. calc.kind = "TANGENT" => Found = as("tangent")
            BY DEF Found
          <6> QED BY <4>1, <6>1, <6>2
        <5>2. curve \in DOMAIN words
          BY <1>0, <1>1, <2>3 DEF OfFunctions, IsSeq
        <5> QED BY <5>1, <5>2 DEF OnTheirs
      <4>2. CASE calc.kind = "AREA"
        <5> DEFINE cs == <<calc.c1, calc.c2>>
        <5>1. Found = [kind |-> "shade", a |-> calc.c1, b |-> calc.c2,
                       on |-> [i \in DOMAIN cs |-> Def(words[cs[i]].word)], since |-> FALSE]
          BY <4>2 DEF Found
        <5>2. calc.c1 \in DOMAIN words /\ calc.c2 \in DOMAIN words /\ calc.c2 # 0
          BY <1>0, <1>1, <2>5, <4>2 DEF TwoCurves, IsSeq
        <5> QED BY <5>1, <5>2 DEF OnTheirs
      <4> QED BY <4>1, <4>2 DEF Found
    <3>5. result' = result \/ (OnTheirs(result') /\
            result' = [kind |-> result'.kind, a |-> result'.a, b |-> result'.b, on |-> result'.on, since |-> FALSE])
      BY <3>1, <3>4
    <3> QED BY <1>0, <1>1, <2>1, <2>2, <3>1, <3>2, <3>3, <3>5
  <2> QED BY <2>6, <2>7
<1>9. ASSUME NEW kind \in CalcKinds, CalcStart(kind)
      PROVE  /\ result' = NoResult /\ gstate' \in {gstate, "ASK", "TRACE"}
             /\ \/ UNCHANGED <<curve, calc, gstate>>
                \/ IsFunction(curve') /\ calc' = [kind |-> kind, step |-> 0, c1 |-> calc.c1, c2 |-> calc.c2]
  <2>1. CASE Functions = {} \/ (kind \in TwoCurves /\ Cardinality(Functions) < 2)
    BY <1>9, <2>1 DEF CalcStart
  <2>2. CASE ~(Functions = {} \/ (kind \in TwoCurves /\ Cardinality(Functions) < 2))
    <3>1. /\ Functions # {} /\ result' = NoResult /\ gstate' \in {"ASK", "TRACE"}
          /\ curve' = IF IsFunction(curve) THEN curve ELSE CurveStep(curve, 1, TRUE)
          /\ calc' = [calc EXCEPT !.kind = kind, !.step = 0]
      BY <1>9, <2>2 DEF CalcStart
    <3>2. IsFunction(curve')
      BY <1>4, <3>1
    <3>3. calc' = [kind |-> kind, step |-> 0, c1 |-> calc.c1, c2 |-> calc.c2]
      BY <1>0, <3>1
    <3> QED BY <3>1, <3>2, <3>3
  <2> QED BY <2>1, <2>2
<1>10. CASE \E kind \in CalcKinds : CalcStart(kind)
  <2>1. PICK kind \in CalcKinds : CalcStart(kind)
    BY <1>10
  <2>2. CASE UNCHANGED <<curve, calc, gstate>>
    <3>1. Asked'
      BY <1>0, <1>1, <1>2, <2>2 DEF Asked, OfFunctions
    <3> QED BY <1>0, <1>9, <2>1, <2>2, <3>1
  <2>3. CASE IsFunction(curve') /\ calc' = [kind |-> kind, step |-> 0, c1 |-> calc.c1, c2 |-> calc.c2]
    <3>1. OfFunctions'
      BY <1>1, <2>3 DEF OfFunctions
    <3> QED BY <1>0, <1>1, <1>9, <2>1, <2>3, <3>1 DEF Asked
  <2> QED BY <1>9, <2>1, <2>2, <2>3
<1> QED BY <1>5, <1>6, <1>7, <1>8, <1>10 DEF AskStep

LEMMA AskedStep ==
    ASSUME GraphInv, GraphStep
    PROVE  Asked'
<1>0. Asked /\ graphReturn \in Homes
  BY DEF GraphInv, GraphType
<1>1. CASE UNCHANGED <<words, curve, calc>> /\ (GraphOn' => GraphOn) /\ (gstate' = "ASK" => gstate = "ASK")
  BY <1>0, <1>1 DEF Asked, OfFunctions, IsFunction
<1>2. CASE Opened
  <2>1. gstate' # "ASK" \/ calc'.kind = "BOX"
    <3>1. calc = [kind |-> calc.kind, step |-> calc.step, c1 |-> calc.c1, c2 |-> calc.c2]
      BY DEF GraphInv, GraphType
    <3> QED BY <1>2, <3>1 DEF Opened
  <2> QED BY <2>1 DEF Asked, CalcKinds
<1>3. CASE Surfaced \/ Restart
  BY <1>3 DEF Surfaced, Restart, Asked, GraphOn
<1>4. CASE Walked
  BY <1>1, <1>4 DEF Walked
<1>5. CASE OnIt /\ Unasked
  <2>1. UNCHANGED <<words, page, under>>
    BY <1>5 DEF OnIt, Elsewhere, drawn
  <2>2. CASE gstate' # "ASK" \/ calc'.kind = "BOX"
    BY <2>2 DEF Asked, CalcKinds
  <2>3. CASE gstate' = gstate /\ UNCHANGED <<curve, calc>>
    BY <1>1, <2>1, <2>3 DEF GraphOn
  <2> QED BY <1>5, <2>2, <2>3 DEF Unasked
<1>6. CASE AskStep
  BY <1>6, Questions
<1>7. CASE SlotEdited \/ WindowTyped
  BY <1>1, <1>7 DEF SlotEdited, WindowTyped, GraphOn, drawn
<1>8. CASE GraphRefresh
  BY <1>0, <1>1, <1>8 DEF GraphRefresh, GraphOn, Homes
<1>9. CASE AngleChanged \/ \E w \in Programs : \E b : ProgramChanged(w, b)
  BY <1>1, <1>9 DEF AngleChanged, ProgramChanged, GraphOn, drawn
<1> QED BY <1>2, <1>3, <1>4, <1>5, <1>6, <1>7, <1>8, <1>9 DEF GraphStep

LEMMA TypeStep ==
    ASSUME GraphInv, GraphStep
    PROVE  GraphType'
<1> USE DEF GraphType
<1>0. GraphType
  BY DEF GraphInv
<1>1. CASE Opened
  <2>1. calc' = calc \/ calc' = [kind |-> "BOX", step |-> 0, c1 |-> calc.c1, c2 |-> calc.c2]
    BY <1>0, <1>1 DEF Opened
  <2>2. IsSeq(words') /\ (words' # <<>> => 1 \in 1..Len(words'))
    BY <1>1 DEF Opened, IsSeq
  <2>3. page' = "GRAPH" /\ graphReturn' \in Homes /\ gstate' \in {"PAN", "ASK"} /\ curve' = 1
        /\ under' = under
    BY <1>1 DEF Opened
  <2> QED BY <1>0, <2>1, <2>2, <2>3
<1>2. CASE Surfaced
  BY <1>0, <1>2 DEF Surfaced, GraphOn
<1>3. CASE Walked
  BY <1>0, <1>3 DEF Walked, IsSeq
<1>4. CASE Restart
  BY <1>4 DEF Restart, IsSeq, NoCalc, Homes
<1>5. CASE SlotEdited \/ WindowTyped \/ GraphRefresh \/ AngleChanged \/ \E w \in Programs : \E b : ProgramChanged(w, b)
  <2>1. UNCHANGED <<under, words, curve, calc, graphReturn, gstate>>
    BY <1>5 DEF SlotEdited, WindowTyped, GraphRefresh, AngleChanged, ProgramChanged, drawn
  <2>2. page' = page \/ page' \in Homes
    BY <1>0, <1>5 DEF SlotEdited, WindowTyped, GraphRefresh, AngleChanged, ProgramChanged
  <2> QED BY <1>0, <2>1, <2>2 DEF GraphOn, Homes, IsSeq
<1>6. CASE AskStep
  <2>1. UNCHANGED <<page, under, words, graphReturn>>
    BY <1>6, AsksOnIt DEF AskStep, OnIt, Elsewhere, drawn
  <2> QED BY <1>0, <1>6, <2>1, Questions DEF GraphOn, IsSeq
<1>7. CASE OnIt /\ Unasked
  <2>1. page = "GRAPH" /\ UNCHANGED <<page, under, words, graphReturn>>
    BY <1>7 DEF OnIt, Elsewhere, drawn
  <2>2. \A i \in 1..Len(words) : i \in Nat \ {0}
    BY <1>0 DEF IsSeq
  <2>3. GraphOn' = GraphOn /\ IsSeq(words')
    BY <1>0, <2>1 DEF GraphOn, IsSeq
  <2>4. /\ gstate' \in {"PAN", "TRACE", "FREE", "ASK"}
        /\ curve' = curve \/ curve' \in 1..Len(words)
        /\ calc' = calc \/ (calc'.step \in Nat /\
             calc' = [kind |-> calc'.kind, step |-> calc'.step, c1 |-> calc'.c1, c2 |-> calc'.c2])
    BY <1>7 DEF Unasked
  <2> QED BY <1>0, <2>1, <2>2, <2>3, <2>4
<1> QED BY <1>1, <1>2, <1>3, <1>4, <1>5, <1>6, <1>7 DEF GraphStep

LEMMA StandsStep ==
    ASSUME GraphInv, GraphStep
    PROVE  Stands'
<1>0. Stands
  BY DEF GraphInv
<1>1. CASE result' = NoResult
  BY <1>1 DEF Stands, NoResult
<1>2. CASE UNCHANGED <<result, words, slots, prog>>
  BY <1>0, <1>2 DEF Stands, OnTheirs, Def
<1>3. CASE result' = Since(result)
  <2>1. CASE result = NoResult
    BY <1>1, <1>3, <2>1 DEF Since
  <2>2. CASE result # NoResult
    <3>1. result' = [kind |-> result.kind, a |-> result.a, b |-> result.b, on |-> result.on, since |-> TRUE]
      BY <1>0, <1>3, <2>2 DEF Since, Stands
    <3> QED BY <3>1 DEF Stands
  <2> QED BY <2>1, <2>2
<1>4. CASE Opened
  <2>1. UNCHANGED <<slots, prog>> /\ (result' = NoResult \/ UNCHANGED <<result, words>>)
    BY <1>4 DEF Opened, setup
  <2> QED BY <1>1, <1>2, <2>1
<1>5. CASE Surfaced \/ \E w \in Programs : \E b : ProgramChanged(w, b)
  BY <1>3, <1>5 DEF Surfaced, ProgramChanged
<1>6. CASE Walked \/ (OnIt /\ UNCHANGED result) \/ WindowTyped \/ GraphRefresh \/ AngleChanged
  <2>1. OnIt => UNCHANGED <<words, slots, prog>>
    BY DEF OnIt, Elsewhere, setup, drawn
  <2> QED BY <1>2, <1>6, <2>1 DEF Walked, WindowTyped, GraphRefresh, AngleChanged, setup, drawn
<1>7. CASE Restart
  BY <1>1, <1>7 DEF Restart
<1>8. CASE SlotEdited
  <2>1. PICK w \in Slots, s \in SlotBodies :
          /\ slots' = [slots EXCEPT ![w] = s]
          /\ result' = NoResult \/ (UNCHANGED result /\ s.body = slots[w].body)
    BY <1>8 DEF SlotEdited
  <2>2. CASE UNCHANGED result /\ s.body = slots[w].body
    <3>1. \A x \in Slots : slots'[x].body = slots[x].body
      BY <2>1, <2>2 DEF GraphInv, AllKept
    <3>2. UNCHANGED <<words, prog>>
      BY <1>8 DEF SlotEdited, drawn
    <3>3. OnTheirs(result)' = OnTheirs(result)
      BY <2>2, <3>1, <3>2 DEF OnTheirs, Def
    <3> QED BY <1>0, <2>2, <3>3 DEF Stands
  <2> QED BY <1>1, <2>1, <2>2
<1>9. CASE AskStep
  <2>1. UNCHANGED <<words, slots, prog>>
    BY <1>9, AsksOnIt DEF AskStep, OnIt, Elsewhere, setup, drawn
  <2>2. CASE result' \in {result, NoResult}
    BY <1>1, <1>2, <2>1, <2>2
  <2>3. CASE /\ OnTheirs(result')
             /\ result' = [kind |-> result'.kind, a |-> result'.a, b |-> result'.b,
                           on |-> result'.on, since |-> FALSE]
    <3>1. OnTheirs(result)'
      BY <2>1, <2>3 DEF OnTheirs, Def
    <3>2. result'.since = FALSE
      BY <2>3
    <3> QED BY <2>3, <3>1, <3>2 DEF Stands
  <2> QED BY <1>9, <2>2, <2>3, Questions
<1> QED BY <1>4, <1>5, <1>6, <1>7, <1>8, <1>9 DEF GraphStep

LEMMA GraphAlways == GraphSpec => []GraphInv
<1>1. GraphInit => GraphInv
  BY GraphInitInv
<1>2. GraphInv /\ [GraphNext]_graphVars => GraphInv'
  BY GraphStepKinds, TypeStep, KeptStep, SampledStep, AskedStep, StandsStep DEF GraphInv
<1> QED BY <1>1, <1>2, PTL DEF GraphSpec

\* With nothing left for graph_refresh to sample, the points on the screen are of the
\* curves as they stand: their bodies, the window, the t and theta ranges and the angle
\* setting, however many keys (zooms, window edits, slots declared) came between two
\* repaints.
THEOREM SamplesCurrentCorrect == GraphSpec => []SamplesCurrent
<1>1. GraphInv => SamplesCurrent
  BY DEF GraphInv, Sampled, SamplesCurrent, GraphOn
<1> QED BY <1>1, GraphAlways, PTL

\* CALC asks only of functions that are plotted (calc_start and calc_curve choose them,
\* calc_accept_curve takes two that differ), and what calc_finish leaves shaded or as a
\* tangent stays on the curves it was found on until they change.
THEOREM CalcIsOfItsCurvesCorrect == GraphSpec => []CalcIsOfItsCurves
<1>1. Asked => AsksOfFunctions
  BY DEF Asked, AsksOfFunctions, Asking, InGraph, GraphOn, OfFunctions
<1>2. Stands => ResultIsTheirsSoFar
  BY DEF Stands, OnTheirs, ResultIsTheirsSoFar, ResultIsTheirs
<1>3. GraphInv => CalcIsOfItsCurves
  BY <1>1, <1>2 DEF GraphInv, CalcIsOfItsCurves
<1> QED BY <1>3, GraphAlways, PTL

\* slot_save and window_save write every change down: at any moment a restart gives back
\* the slots, the window of Y= and the ranges in use.
THEOREM KeptIsStoredCorrect == GraphSpec => []KeptIsStored
<1>1. GraphInv => KeptIsStored
  BY DEF GraphInv, AllKept, KeptIsStored
<1> QED BY <1>1, GraphAlways, PTL
=============================================================================
