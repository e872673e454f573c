--------------------------- MODULE SessionProofs ---------------------------
(***************************************************************************)
(* What a start gives back of a saved session, for every stack, every size *)
(* of a session and every place a save may be cut short at.                *)
(***************************************************************************)
EXTENDS Session, SequenceTheorems, WellFoundedInduction, TLAPS

\* No more values are on the card than were on a stack, and each was once saved
\* at its depth.
StoreInv ==
    /\ header # Unreadable => header <= MaxDepth
    /\ ever \in [Index -> SUBSET Values]
    /\ \A i \in Index : slot[i] = Unreadable \/ slot[i] \in ever[i]

\* A save under way is of the stack as it stands, has written the header and the
\* values before the step it is at, and has unmade the session there was as soon
\* as it has a file open.
SaveInv ==
    /\ Saving => /\ phase \in {"programs", "idle", "eval"}
                 /\ step <= LastStep
                 /\ step > 0 => header = Count(stack)
                 /\ \A i \in 1..Count(stack) :
                        i < step => slot[i - 1] = Encoded(stack[i])
    /\ torn => Saving /\ ~whole

\* Nothing has been saved yet.
NeverSaved ==
    /\ header = Unreadable /\ lostFile = Unreadable
    /\ saved = <<>> /\ savedFrom = 0

\* The card holds the session that was saved last.
HoldsSaved ==
    /\ header = Len(saved)
    /\ \A i \in 1..Len(saved) : slot[i - 1] = saved[i] /\ saved[i] # Unreadable
    /\ lostFile # Unreadable
    /\ savedFrom <= SESSION_MAX => lostFile = savedFrom - Len(saved)

WholeInv ==
    /\ saved \in Seq(Values) /\ savedFrom \in Nat
    /\ whole => NeverSaved \/ HoldsSaved

\* A module's word that has been called had the session saved in this keypress,
\* or that save was broken off; and so it still is at the start after a fault.
FreshInv ==
    /\ phase = "off" => ~called
    /\ phase \in {"programs", "eval"} /\ ~Saving /\ called /\ whole => fresh
    /\ phase \in {"off", "programs", "restored"} /\ whole /\ cause = "fault" => fresh

IInv ==
    /\ TypeOK /\ StoreInv /\ SaveInv /\ WholeInv /\ FreshInv
    /\ RestoredExact /\ RightDepth
-----------------------------------------------------------------------------
(* What is saved of a stack, and what is read back *)

\* A set of naturals that is not empty has a least member.
LEMMA LeastNat ==
    ASSUME NEW T \in SUBSET Nat, T # {}
    PROVE  \E x \in T : \A y \in T : x <= y
<1> DEFINE R == OpToRel(<, Nat)
<1>1. IsWellFoundedOn(R, Nat)
  BY NatLessThanWellFounded
<1>2. PICK x \in T : \A y \in T : ~(<<y, x>> \in R)
  <2> HIDE DEF R
  <2> QED BY <1>1, WFMin
<1>3. \A y \in T : <<y, x>> \in R <=> y < x
  BY DEF OpToRel
<1>4. \A y \in T : ~(y < x)
  <2> HIDE DEF R
  <2> QED BY <1>2, <1>3, Zenon
<1> QED BY <1>4

\* A bounded one that is not empty has a greatest.
LEMMA MaxOf ==
    ASSUME NEW n \in Nat, NEW T \in SUBSET (0..n), T # {}
    PROVE  Max(T) \in T /\ \A y \in T : y <= Max(T)
<1> DEFINE U == {m \in Nat : \A y \in T : y <= m}
<1>1. n \in U
  OBVIOUS
<1>2. PICK m \in U : \A k \in U : m <= k
  BY <1>1, LeastNat
<1>3. m \in T
  <2> SUFFICES ASSUME m \notin T PROVE FALSE
    OBVIOUS
  <2>1. PICK t \in T : TRUE
    OBVIOUS
  <2>2. m > 0 /\ m - 1 \in Nat
    BY <2>1, <1>2
  <2>3. m - 1 \in U
    BY <1>2, <2>2
  <2> QED BY <2>2, <2>3, <1>2
<1>4. \E x \in T : \A y \in T : x >= y
  BY <1>2, <1>3
<1> QED BY <1>4 DEF Max

\* session_encode gives what the store can hold.
LEMMA EncodedStored ==
    ASSUME NEW v \in Values, v # Array
    PROVE  Encoded(v) \in Values \ {Long, Array} /\ Encoded(v) # Unreadable
  BY SessionAssumption DEF Values, Encoded

\* What is saved of a stack fits the session and the stack, and is storable.
LEMMA CountFits ==
    ASSUME NEW s \in Seq(Values)
    PROVE  /\ Wanted(s) \in Nat /\ Wanted(s) <= SESSION_MAX /\ Wanted(s) <= Len(s)
           /\ Count(s) \in 0..Wanted(s)
           /\ \A i \in 1..Count(s) : s[i] \in Values /\ s[i] # Array
<1> DEFINE T == {n \in 0..Wanted(s) : \A i \in 1..n : s[i] # Array}
<1>1. Wanted(s) \in Nat /\ Wanted(s) <= SESSION_MAX /\ Wanted(s) <= Len(s)
  BY SessionAssumption DEF Wanted
<1>2. 0 \in T /\ T \in SUBSET (0..Wanted(s))
  BY <1>1
<1>3. Max(T) \in T
  <2> HIDE DEF T
  <2> QED BY <1>1, <1>2, MaxOf
<1>4. Count(s) = Max(T)
  BY DEF Count
<1>5. \A i \in 1..Count(s) : i \in 1..Len(s)
  BY <1>1, <1>3, <1>4
<1> QED BY <1>1, <1>3, <1>4, <1>5

LEMMA SaveableFits ==
    ASSUME NEW s \in Seq(Values)
    PROVE  /\ Saveable(s) \in Seq(Values) /\ Len(Saveable(s)) = Count(s)
           /\ \A i \in 1..Count(s) :
                  Saveable(s)[i] = Encoded(s[i]) /\ Encoded(s[i]) # Unreadable
<1>1. Count(s) \in Nat
  BY CountFits
<1>2. \A i \in 1..Count(s) : Encoded(s[i]) \in Values /\ Encoded(s[i]) # Unreadable
  BY CountFits, EncodedStored
<1> QED BY <1>1, <1>2 DEF Saveable

\* What qdos_storage_restore_session reads is a prefix of what is there, and all
\* of it where every value can be read.
LEMMA ReadableFits ==
    ASSUME TypeOK
    PROVE  /\ Readable \in Nat /\ Readable <= SESSION_MAX
           /\ header = Unreadable => Readable = 0
           /\ header # Unreadable => Readable <= header
           /\ \A i \in 1..Readable : i - 1 \in Index /\ slot[i - 1] # Unreadable
           /\ header # Unreadable /\ (\A i \in 1..header : slot[i - 1] # Unreadable)
                => Readable = header
<1>1. CASE header = Unreadable
  BY <1>1, SessionAssumption DEF Readable
<1>2. CASE header # Unreadable
  <2> DEFINE T == {n \in 0..header : \A i \in 1..n : Decodes(i)}
  <2>1. header \in Nat /\ header <= SESSION_MAX
    BY <1>2, SessionAssumption DEF TypeOK
  <2>2. 0 \in T /\ T \in SUBSET (0..header)
    BY <2>1
  <2>3. Max(T) \in T /\ \A y \in T : y <= Max(T)
    <3> HIDE DEF T
    <3> QED BY <2>1, <2>2, MaxOf
  <2>4. Readable = Max(T)
    BY <1>2 DEF Readable
  <2>5. Readable \in 0..header /\ \A i \in 1..Readable : slot[i - 1] # Unreadable
    BY <2>3, <2>4 DEF Decodes
  <2>6. \A i \in 1..Readable : i - 1 \in Index
    BY <2>1, <2>5, SessionAssumption DEF Index
  <2>7. ASSUME \A i \in 1..header : slot[i - 1] # Unreadable PROVE Readable = header
    <3>1. header \in T
      BY <2>1, <2>7 DEF Decodes
    <3>2. header <= Readable
      <4> HIDE DEF T
      <4> QED BY <2>3, <2>4, <3>1
    <3> QED BY <2>1, <2>5, <3>2
  <2> QED BY <1>2, <2>1, <2>5, <2>6, <2>7, SessionAssumption
<1> QED BY <1>1, <1>2

LEMMA RestoredFits ==
    ASSUME TypeOK, StoreInv
    PROVE  /\ Restored \in Seq(Values) /\ Len(Restored) = Readable
           /\ Len(Restored) <= MaxDepth
           /\ \A i \in 1..Readable : Restored[i] = slot[i - 1]
<1>1. Readable \in Nat /\ Readable <= MaxDepth
  BY ReadableFits, SessionAssumption DEF TypeOK, StoreInv
<1>2. \A i \in 1..Readable : slot[i - 1] \in Values
  BY ReadableFits DEF TypeOK
<1> QED BY <1>1, <1>2 DEF Restored

\* The card that holds the session that was saved gives it back.
LEMMA HeldIsRestored ==
    ASSUME TypeOK, StoreInv, WholeInv, whole
    PROVE  /\ Restored = saved
           /\ savedFrom <= SESSION_MAX =>
                  (IF lostFile = Unreadable THEN 0 ELSE lostFile) = savedFrom - Len(saved)
<1>1. CASE NeverSaved
  <2>1. Readable = 0 /\ Len(Restored) = 0 /\ Restored \in Seq(Values)
    BY <1>1, ReadableFits, RestoredFits DEF NeverSaved
  <2>2. Restored = <<>>
    BY <2>1, EmptySeq
  <2>3. saved = <<>> /\ savedFrom = 0 /\ lostFile = Unreadable /\ Len(saved) = 0
    BY <1>1 DEF NeverSaved
  <2>4. (IF lostFile = Unreadable THEN 0 ELSE lostFile) = savedFrom - Len(saved)
    <3>1. savedFrom - Len(saved) = 0
      <4>1. savedFrom = 0 /\ Len(saved) = 0
        BY <2>3
      <4> QED BY <4>1
    <3> QED BY <2>3, <3>1, Zenon
  <2> QED BY <2>2, <2>3, <2>4, Zenon
<1>2. CASE HoldsSaved
  <2>1. Len(saved) \in Nat /\ header = Len(saved) /\ header # Unreadable
    BY <1>2, SessionAssumption DEF HoldsSaved, WholeInv
  <2>2. Readable = Len(saved)
    BY <1>2, <2>1, ReadableFits DEF HoldsSaved
  <2>3. /\ Restored \in Seq(Values) /\ Len(Restored) = Len(saved)
        /\ \A i \in 1..Len(saved) : Restored[i] = saved[i]
    BY <1>2, <2>2, RestoredFits DEF HoldsSaved
  <2>4. Restored = saved
    BY <2>3 DEF WholeInv
  <2> QED BY <1>2, <2>4 DEF HoldsSaved
<1> QED BY <1>1, <1>2 DEF WholeInv
-----------------------------------------------------------------------------
(* Every step keeps the invariant *)

LEMMA InitIInv == Init => IInv
<1> SUFFICES ASSUME Init PROVE IInv
  OBVIOUS
<1>1. TypeOK
  BY SessionAssumption DEF Init, TypeOK, Index
<1>2. StoreInv /\ SaveInv /\ WholeInv /\ FreshInv
  BY DEF Init, StoreInv, SaveInv, WholeInv, NeverSaved, FreshInv, Saving, Index
<1>3. RestoredExact /\ RightDepth
  BY DEF Init, RestoredExact, RightDepth
<1> QED BY <1>1, <1>2, <1>3 DEF IInv

\* A step that leaves the files and what is known of them alone
LEMMA StoreKept ==
    ASSUME IInv, UNCHANGED <<storeVars, saved, savedFrom, whole, ever>>
    PROVE  StoreInv' /\ WholeInv'
  BY DEF IInv, StoreInv, WholeInv, NeverSaved, HoldsSaved, storeVars

\* The end of the process
LEMMA GoneIInv ==
    ASSUME IInv, NEW why, Gone(why),
           UNCHANGED <<header, slot, ever>>, StoreInv', WholeInv',
           lostFile' \in 0..SESSION_MAX \cup {Unreadable}, mishaps' \in 0..MaxMishaps,
           whole' \in BOOLEAN, fresh' \in BOOLEAN, whole' /\ why = "fault" => fresh'
    PROVE  IInv'
<1>1. TypeOK'
  <2>1. {called, hook, torn, whole, fresh}' \subseteq BOOLEAN
    BY DEF Gone
  <2>2. <<>> \in Seq(Values) /\ Len(<<>>) = 0
    BY EmptySeq
  <2> QED BY <2>1, <2>2, SessionAssumption DEF IInv, TypeOK, Gone
<1>2. SaveInv' /\ FreshInv' /\ RestoredExact' /\ RightDepth'
  BY DEF Gone, SaveInv, Saving, FreshInv, RestoredExact, RightDepth
<1> QED BY <1>1, <1>2 DEF IInv

\* fopen empties a file: one that the save has not written yet.
LEMMA OpenIInv == ASSUME IInv, SaveOpen PROVE IInv'
<1> USE DEF IInv
<1>1. stack \in Seq(Values) /\ Count(stack) \in Nat /\ Count(stack) <= SESSION_MAX
      /\ step \in Nat
  BY CountFits, SessionAssumption DEF TypeOK
<1>2. UNCHANGED <<shellVars, step, then, target, saved, savedFrom, fresh, cause, ever,
                  mishaps>> /\ torn' = TRUE /\ whole' = FALSE /\ Saving /\ ~torn
  BY DEF SaveOpen
<1>3. /\ header' \in {header, Unreadable}
      /\ lostFile' \in {lostFile, Unreadable}
      /\ slot' \in [Index -> (Values \ {Long, Array}) \cup {Unreadable}]
      /\ \A i \in Index : slot'[i] \in {slot[i], Unreadable}
  BY DEF SaveOpen, TypeOK
<1>4. TypeOK'
  BY <1>2, <1>3 DEF TypeOK, shellVars
<1>5. StoreInv' /\ WholeInv'
  BY <1>2, <1>3 DEF StoreInv, WholeInv
<1>6. SaveInv'
  <2>1. step > 0 => header' = header
    BY DEF SaveOpen
  <2>2. \A i \in 1..Count(stack) : i < step => slot'[i - 1] = slot[i - 1]
    BY <1>1, SessionAssumption DEF SaveOpen, TypeOK, Index
  <2> QED
    BY <1>1, <1>2, <2>1, <2>2 DEF SaveInv, Saving, LastStep, shellVars
<1>7. FreshInv' /\ RestoredExact' /\ RightDepth'
  BY <1>2 DEF FreshInv, RestoredExact, RightDepth, Saving, shellVars
<1> QED BY <1>4, <1>5, <1>6, <1>7

\* A file is written whole: the header, or the value at this step's depth.
LEMMA WriteIInv == ASSUME IInv, SaveWrite PROVE IInv'
<1> USE DEF IInv
<1>1. /\ stack \in Seq(Values) /\ Count(stack) \in Nat /\ Count(stack) <= SESSION_MAX
      /\ Count(stack) <= MaxDepth /\ step \in Nat /\ step <= Count(stack)
  BY CountFits, SessionAssumption DEF TypeOK, SaveWrite, LastStep
<1>2. /\ UNCHANGED <<lostFile, shellVars, then, target, saved, savedFrom, whole, fresh,
                     cause, mishaps>>
      /\ step' = step + 1 /\ torn' = FALSE /\ Saving /\ ~whole
  BY DEF SaveWrite, SaveInv
<1>3. CASE step = 0
  <2>1. header' = Count(stack) /\ UNCHANGED <<slot, ever>>
    BY <1>3 DEF SaveWrite
  <2>2. TypeOK'
    <3>1. {called, hook, torn, whole, fresh}' \subseteq BOOLEAN
      BY <1>2 DEF TypeOK, shellVars
    <3>2. header' \in 0..SESSION_MAX /\ step' \in 0..(SESSION_MAX + 1)
      BY <1>1, <1>2, <1>3, <2>1, SessionAssumption
    <3> QED BY <1>2, <2>1, <3>1, <3>2 DEF TypeOK, shellVars
  <2>3. StoreInv' /\ WholeInv'
    BY <1>1, <1>2, <2>1 DEF StoreInv, WholeInv
  <2>4. SaveInv'
    BY <1>1, <1>2, <1>3, <2>1 DEF SaveInv, Saving, LastStep, shellVars
  <2>5. FreshInv' /\ RestoredExact' /\ RightDepth'
    BY <1>2, <2>1 DEF FreshInv, RestoredExact, RightDepth, Saving, shellVars
  <2> QED BY <2>2, <2>3, <2>4, <2>5
<1>4. CASE step # 0
  <2> DEFINE v == Encoded(stack[step])
  <2>1. /\ header' = header /\ slot' = [slot EXCEPT ![step - 1] = v]
        /\ ever' = [ever EXCEPT ![step - 1] = ever[step - 1] \cup {v}]
    BY <1>4 DEF SaveWrite
  <2>2. step - 1 \in Index /\ step \in 1..Count(stack)
    BY <1>1, <1>4, SessionAssumption DEF Index
  <2>3. v \in Values \ {Long, Array} /\ v # Unreadable
    BY <1>1, <2>2, CountFits, EncodedStored
  <2> HIDE DEF v
  <2>4. /\ slot' \in [Index -> (Values \ {Long, Array}) \cup {Unreadable}]
        /\ ever' \in [Index -> SUBSET Values]
        /\ slot'[step - 1] = v /\ v \in ever'[step - 1]
        /\ \A i \in Index : i # step - 1 => slot'[i] = slot[i] /\ ever'[i] = ever[i]
    BY <2>1, <2>2, <2>3 DEF TypeOK, StoreInv
  <2>5. TypeOK'
    <3>1. {called, hook, torn, whole, fresh}' \subseteq BOOLEAN
      BY <1>2 DEF TypeOK, shellVars
    <3>2. step' \in 0..(SESSION_MAX + 1)
      BY <1>1, <1>2, SessionAssumption
    <3> QED BY <1>2, <2>1, <2>4, <3>1, <3>2 DEF TypeOK, shellVars
  <2>6. StoreInv' /\ WholeInv'
    <3>1. \A i \in Index : slot'[i] = Unreadable \/ slot'[i] \in ever'[i]
      BY <2>4 DEF StoreInv
    <3> QED BY <1>2, <2>1, <2>4, <3>1 DEF StoreInv, WholeInv
  <2>7. SaveInv'
    <3>1. \A i \in 1..Count(stack) : i < step + 1 => slot'[i - 1] = Encoded(stack[i])
      <4> SUFFICES ASSUME NEW i \in 1..Count(stack), i < step + 1
                   PROVE  slot'[i - 1] = Encoded(stack[i])
        OBVIOUS
      <4>1. CASE i = step
        BY <2>4, <4>1 DEF v
      <4>2. CASE i < step
        <5>1. i - 1 \in Index /\ i - 1 # step - 1
          BY <1>1, <4>2, SessionAssumption DEF Index
        <5> QED BY <1>2, <2>4, <4>2, <5>1 DEF SaveInv
      <4> QED BY <1>1, <4>1, <4>2
    <3> QED
      BY <1>1, <1>2, <1>4, <2>1, <3>1 DEF SaveInv, Saving, LastStep, shellVars
  <2>8. FreshInv' /\ RestoredExact' /\ RightDepth'
    <3>1. phase' # "restored"
      BY <1>2 DEF SaveInv, shellVars
    <3> QED BY <1>2, <3>1 DEF FreshInv, RestoredExact, RightDepth, Saving, shellVars
  <2> QED BY <2>5, <2>6, <2>7, <2>8
<1> QED BY <1>3, <1>4

\* The last file: what is on the card is now what the stack would be saved as.
LEMMA EndIInv == ASSUME IInv, SaveEnd PROVE IInv'
<1> USE DEF IInv
<1>1. /\ stack \in Seq(Values) /\ Len(stack) \in Nat
      /\ Wanted(stack) \in Nat /\ Wanted(stack) <= SESSION_MAX
      /\ Count(stack) \in Nat /\ Count(stack) <= Wanted(stack)
  BY CountFits DEF TypeOK
<1>2. /\ Saving /\ torn /\ step = Count(stack) + 1
      /\ lostFile' = Wanted(stack) - Count(stack)
      /\ saved' = Saveable(stack) /\ savedFrom' = Len(stack) /\ whole' = TRUE
      /\ UNCHANGED <<header, slot, target, ever, mishaps>>
  BY DEF SaveEnd, LastStep, Left
<1>3. lostFile' \in 0..SESSION_MAX
  <2>1. Wanted(stack) - Count(stack) \in 0..SESSION_MAX
    BY <1>1, SessionAssumption
  <2> QED BY <1>2, <2>1
<1>4. StoreInv'
  BY <1>2 DEF StoreInv
<1>5. WholeInv'
  <2>1. /\ saved' \in Seq(Values) /\ Len(saved') = Count(stack)
        /\ \A i \in 1..Count(stack) :
               saved'[i] = Encoded(stack[i]) /\ Encoded(stack[i]) # Unreadable
    BY <1>1, <1>2, SaveableFits
  <2>2. header' = Count(stack)
    BY <1>1, <1>2 DEF SaveInv
  <2>3. \A i \in 1..Count(stack) : slot'[i - 1] = Encoded(stack[i])
    BY <1>1, <1>2 DEF SaveInv
  <2>4. lostFile' # Unreadable
    BY <1>3, SessionAssumption
  <2>5. savedFrom' <= SESSION_MAX => lostFile' = savedFrom' - Len(saved')
    <3>1. Len(stack) <= SESSION_MAX => Wanted(stack) = Len(stack)
      BY <1>1, SessionAssumption DEF Wanted
    <3> QED BY <1>1, <1>2, <2>1, <3>1
  <2>6. HoldsSaved'
    BY <2>1, <2>2, <2>3, <2>4, <2>5 DEF HoldsSaved
  <2> QED BY <1>1, <1>2, <2>1, <2>6 DEF WholeInv
<1>6. CASE then = "off"
  <2>1. Gone("off") /\ fresh' = FALSE
    BY <1>6 DEF SaveEnd
  <2> QED BY <1>2, <1>3, <1>4, <1>5, <2>1, GoneIInv DEF TypeOK
<1>7. CASE then # "off"
  <2>1. /\ phase' = then /\ step' = 0 /\ torn' = FALSE /\ then' = "no"
        /\ fresh' = TRUE /\ UNCHANGED <<stack, called, hook, told, cause>>
    BY <1>7 DEF SaveEnd
  <2>2. phase' \in {"programs", "idle", "eval"}
    BY <1>2, <1>7, <2>1 DEF TypeOK, Saving
  <2>3. TypeOK'
    <3>1. {called, hook, torn, whole, fresh}' \subseteq BOOLEAN
      BY <1>2, <2>1 DEF TypeOK
    <3>2. step' \in 0..(SESSION_MAX + 1)
      BY <2>1, SessionAssumption
    <3> QED BY <1>2, <1>3, <2>1, <2>2, <3>1, <3>2 DEF TypeOK
  <2>4. SaveInv' /\ FreshInv' /\ RestoredExact' /\ RightDepth'
    BY <2>1, <2>2 DEF SaveInv, FreshInv, RestoredExact, RightDepth, Saving
  <2> QED BY <1>4, <1>5, <2>3, <2>4
<1> QED BY <1>6, <1>7

\* A save given up leaves no session to speak of.
LEMMA FailsIInv == ASSUME IInv, SaveFails PROVE IInv'
<1> USE DEF IInv
<1>1. /\ Saving /\ whole' = FALSE /\ mishaps' \in 0..MaxMishaps
      /\ UNCHANGED <<storeVars, target, saved, savedFrom, ever>>
  BY SessionAssumption DEF SaveFails, TypeOK
<1>2. StoreInv' /\ WholeInv'
  BY <1>1 DEF StoreInv, WholeInv, storeVars
<1>3. CASE then = "off"
  <2>1. Gone("off") /\ fresh' = FALSE
    BY <1>3 DEF SaveFails
  <2> QED BY <1>1, <1>2, <2>1, GoneIInv DEF TypeOK, storeVars
<1>4. CASE then # "off"
  <2>1. /\ phase' = then /\ step' = 0 /\ torn' = FALSE /\ then' = "no"
        /\ UNCHANGED <<stack, called, hook, told, cause, fresh>>
    BY <1>4 DEF SaveFails
  <2>2. phase' \in {"programs", "idle", "eval"}
    BY <1>1, <1>4, <2>1 DEF TypeOK, Saving
  <2>3. TypeOK'
    <3>1. {called, hook, torn, whole, fresh}' \subseteq BOOLEAN
      BY <1>1, <2>1 DEF TypeOK
    <3>2. step' \in 0..(SESSION_MAX + 1)
      BY <2>1, SessionAssumption
    <3> QED BY <1>1, <2>1, <2>2, <3>1, <3>2 DEF TypeOK, storeVars
  <2>4. SaveInv' /\ FreshInv' /\ RestoredExact' /\ RightDepth'
    BY <1>1, <2>1, <2>2 DEF SaveInv, FreshInv, RestoredExact, RightDepth, Saving
  <2> QED BY <1>2, <2>3, <2>4
<1> QED BY <1>3, <1>4

\* A save begins: of the stack as it is, with nothing written.
LEMMA BeginIInv ==
    ASSUME IInv, NEW p \in {"off", "programs", "idle", "eval"}, SaveBegin(p),
           phase' \in {"programs", "idle", "eval"}, called' \in BOOLEAN,
           UNCHANGED <<stack, hook, told, histVars, mishaps>>,
           phase' = "programs" => phase = "programs"
    PROVE  IInv'
<1> USE DEF IInv
<1>1. /\ step' = 0 /\ torn' = FALSE /\ then' = p /\ UNCHANGED storeVars
  BY DEF SaveBegin
<1>2. StoreInv' /\ WholeInv'
  BY <1>1, StoreKept DEF histVars
<1>3. TypeOK'
  <2>1. {called, hook, torn, whole, fresh}' \subseteq BOOLEAN
    BY <1>1 DEF TypeOK, histVars
  <2>2. step' \in 0..(SESSION_MAX + 1)
    BY <1>1, SessionAssumption
  <2> QED BY <1>1, <2>1, <2>2 DEF TypeOK, storeVars, histVars
<1>4. SaveInv'
  <2>1. Count(stack) \in Nat
    BY CountFits DEF TypeOK
  <2> QED BY <1>1, <2>1 DEF SaveInv, Saving, LastStep
<1>5. FreshInv'
  BY <1>1 DEF FreshInv, Saving, histVars
<1>6. RestoredExact' /\ RightDepth'
  BY DEF RestoredExact, RightDepth
<1> QED BY <1>2, <1>3, <1>4, <1>5, <1>6

\* A step of the shell that is not a save
LEMMA ShellIInv ==
    ASSUME IInv, ~Saving, UNCHANGED <<storeVars, saveVars, saved, savedFrom, whole,
                                      ever, mishaps>>,
           phase' \in {"programs", "idle", "eval"},
           stack' \in Seq(Values), Len(stack') <= MaxDepth,
           called' \in BOOLEAN, hook' \in BOOLEAN, fresh' \in BOOLEAN,
           told' \in 0..SESSION_MAX, FreshInv'
    PROVE  IInv'
<1> USE DEF IInv
<1>1. StoreInv' /\ WholeInv'
  BY StoreKept
<1>2. TypeOK'
  <2>1. {called, hook, torn, whole, fresh}' \subseteq BOOLEAN
    BY DEF TypeOK, saveVars
  <2> QED BY <2>1 DEF TypeOK, storeVars, saveVars
<1>3. SaveInv' /\ RestoredExact' /\ RightDepth'
  BY DEF SaveInv, Saving, saveVars, RestoredExact, RightDepth
<1> QED BY <1>1, <1>2, <1>3

\* The session is put back.
LEMMA RestoreIInv == ASSUME IInv, Restore PROVE IInv'
<1> USE DEF IInv
<1>1. /\ phase = "programs" /\ ~Saving /\ phase' = "restored" /\ stack' = Restored
      /\ told' = (IF lostFile = Unreadable THEN 0 ELSE lostFile) /\ hook' = TRUE
      /\ UNCHANGED <<storeVars, called, saveVars, saved, savedFrom, whole, fresh, cause,
                     ever, mishaps>>
  BY DEF Restore
<1>2. StoreInv' /\ WholeInv'
  BY <1>1, StoreKept
<1>3. TypeOK'
  <2>1. {called, hook, torn, whole, fresh}' \subseteq BOOLEAN
    BY <1>1 DEF TypeOK, saveVars
  <2>2. stack' \in Seq(Values) /\ Len(stack') <= MaxDepth
    BY <1>1, RestoredFits
  <2>3. told' \in 0..SESSION_MAX
    BY <1>1, SessionAssumption DEF TypeOK
  <2> QED BY <1>1, <2>1, <2>2, <2>3 DEF TypeOK, storeVars, saveVars
<1>4. SaveInv' /\ FreshInv'
  BY <1>1 DEF SaveInv, FreshInv, Saving, saveVars
<1>5. RestoredExact'
  <2> SUFFICES ASSUME whole
               PROVE  /\ Restored = saved
                      /\ savedFrom <= SESSION_MAX => told' = savedFrom - Len(Restored)
                      /\ cause = "fault" => fresh
    BY <1>1 DEF RestoredExact
  <2> QED BY <1>1, HeldIsRestored DEF FreshInv
<1>6. RightDepth'
  <2> SUFFICES ASSUME NEW i \in 1..Len(Restored) PROVE Restored[i] \in ever[i - 1]
    BY <1>1 DEF RightDepth
  <2>1. i \in 1..Readable
    BY RestoredFits
  <2> QED BY <2>1, RestoredFits, ReadableFits DEF StoreInv
<1> QED BY <1>2, <1>3, <1>4, <1>5, <1>6

LEMMA StepIInv == IInv /\ [Next]_vars => IInv'
<1> SUFFICES ASSUME IInv, [Next]_vars PROVE IInv'
  OBVIOUS
<1> USE DEF IInv
<1>1. CASE SaveOpen
  BY <1>1, OpenIInv
<1>2. CASE SaveWrite
  BY <1>2, WriteIInv
<1>3. CASE SaveEnd
  BY <1>3, EndIInv
<1>4. CASE SaveFails
  BY <1>4, FailsIInv
<1>5. CASE Boot
  <2>1. ~Saving
    BY <1>5 DEF Boot, SaveInv
  <2>2. FreshInv'
    BY <1>5 DEF Boot, FreshInv, Saving, saveVars, histVars, TypeOK
  <2> QED BY <1>5, <2>1, <2>2, ShellIInv DEF Boot, histVars, TypeOK
<1>6. CASE ProgramCalls
  BY <1>6, BeginIInv DEF ProgramCalls
<1>7. CASE Restore
  BY <1>7, RestoreIInv
<1>8. ASSUME NEW v \in Values, ProgramPushes(v) PROVE IInv'
  <2>1. stack' \in Seq(Values) /\ Len(stack') <= MaxDepth
    BY <1>8, SessionAssumption DEF ProgramPushes, TypeOK
  <2>2. FreshInv'
    BY <1>8 DEF ProgramPushes, FreshInv, Saving, saveVars, histVars
  <2> QED BY <1>8, <2>1, <2>2, ShellIInv DEF ProgramPushes, histVars, TypeOK
<1>9. CASE KeyDown
  <2>1. FreshInv'
    BY <1>9 DEF KeyDown, FreshInv
  <2> QED BY <1>9, <2>1, ShellIInv DEF KeyDown, Between, TypeOK
<1>10. CASE EvalStep
  <2>1. stack' \in Seq(Values) /\ Len(stack') <= MaxDepth
    <3>1. stack \in Seq(Values) /\ Len(stack) \in Nat /\ Len(stack) <= MaxDepth
      BY DEF TypeOK
    <3>2. ASSUME NEW v \in Values, Len(stack) < MaxDepth, stack' = Append(stack, v)
          PROVE  stack' \in Seq(Values) /\ Len(stack') <= MaxDepth
      BY <3>1, <3>2, SessionAssumption
    <3>3. ASSUME stack # <<>>, stack' = SubSeq(stack, 1, Len(stack) - 1)
          PROVE  stack' \in Seq(Values) /\ Len(stack') <= MaxDepth
      BY <3>1, <3>3, SessionAssumption
    <3> QED BY <1>10, <3>2, <3>3 DEF EvalStep
  <2>2. FreshInv'
    BY <1>10 DEF EvalStep, FreshInv, Saving, saveVars, histVars
  <2> QED BY <1>10, <2>1, <2>2, ShellIInv DEF EvalStep, Evaluating, histVars, TypeOK
<1>11. CASE CallWord
  BY <1>11, BeginIInv DEF CallWord, Evaluating
<1>12. CASE WordFaults
  <2>1. StoreInv' /\ WholeInv'
    BY <1>12, StoreKept DEF WordFaults
  <2>2. whole' => fresh'
    BY <1>12 DEF WordFaults, FreshInv
  <2> QED BY <1>12, <2>1, <2>2, GoneIInv DEF WordFaults, storeVars, TypeOK
<1>13. CASE EvalDone
  <2>1. FreshInv'
    BY <1>13 DEF EvalDone, FreshInv
  <2> QED BY <1>13, <2>1, ShellIInv DEF EvalDone, Evaluating, TypeOK
<1>14. CASE HookBetween
  BY <1>14, BeginIInv DEF HookBetween, TypeOK
<1>15. CASE HookEvaluating
  BY <1>15, BeginIInv DEF HookEvaluating, Evaluating, shellVars, TypeOK
<1>16. CASE PowerOff
  BY <1>16, BeginIInv DEF PowerOff, TypeOK
<1>17. CASE PowerCut
  <2>1. StoreInv' /\ WholeInv'
    BY <1>17, StoreKept DEF PowerCut
  <2>2. mishaps' \in 0..MaxMishaps
    BY <1>17, SessionAssumption DEF PowerCut, TypeOK
  <2> QED BY <1>17, <2>1, <2>2, GoneIInv DEF PowerCut, storeVars, TypeOK
<1>18. CASE UNCHANGED vars
  <2>1. StoreInv' /\ WholeInv'
    BY <1>18, StoreKept DEF vars, histVars
  <2>2. TypeOK' /\ SaveInv'
    BY <1>18 DEF vars, storeVars, shellVars, saveVars, histVars, TypeOK, SaveInv,
                 Saving, LastStep
  <2>3. FreshInv' /\ RestoredExact' /\ RightDepth'
    BY <1>18 DEF vars, shellVars, saveVars, histVars, FreshInv, Saving,
                 RestoredExact, RightDepth
  <2> QED BY <2>1, <2>2, <2>3
<1> QED
  BY <1>1, <1>2, <1>3, <1>4, <1>5, <1>6, <1>7, <1>8, <1>9, <1>10, <1>11, <1>12,
     <1>13, <1>14, <1>15, <1>16, <1>17, <1>18 DEF Next

LEMMA IInvCorrect == Spec => []IInv
<1> QED BY InitIInv, StepIInv, PTL DEF Spec

\* The variables keep their types: no step of a save is past its last file, and
\* no more is put back than a session or the stack may hold.
THEOREM TypeCorrect == Spec => []TypeOK
<1>1. IInv => TypeOK
  BY DEF IInv
<1> QED BY <1>1, IInvCorrect, PTL

\* A start after a save that finished puts back exactly what that save took,
\* says how many values it left behind, and after a module's fault gives back the
\* stack of the keypress that faulted -- whatever was saved before, however deep
\* the stack, and wherever earlier saves were cut short.
THEOREM RestoredExactCorrect == Spec => []RestoredExact
<1>1. IInv => RestoredExact
  BY DEF IInv
<1> QED BY <1>1, IInvCorrect, PTL

\* Whatever was cut short, a value only ever comes back at a depth it was saved at.
THEOREM RightDepthCorrect == Spec => []RightDepth
<1>1. IInv => RightDepth
  BY DEF IInv
<1> QED BY <1>1, IInvCorrect, PTL
=============================================================================
