------------------------ MODULE NativeModulesProofs ------------------------
(***************************************************************************)
(* What NativeModules keeps for every card, every number of power cuts and *)
(* every size of its tables.                                               *)
(***************************************************************************)
EXTENDS NativeModules, FiniteSetTheorems, TLAPS

\* The crumb and the phase of start-up agree: it is down exactly while a module
\* is being opened, or while qdos_natives_recover is acting on one it found.
CrumbInv ==
    /\ phase = "opening" => /\ opening \in Copies
                            /\ loadingFile = NameOf(opening)
                            /\ NameOf(opening) \notin blocked
    /\ phase \in {"add", "write", "clear"} => loadingFile # None
    /\ phase \in {"walk", "up", "unload"} => loadingFile = None

\* The list in memory is the one in the file, except while it is rewritten.
ListInv ==
    /\ phase \in {"add", "clear", "walk", "opening", "up", "unload"} =>
           blocked = blockedFile /\ blockedLen = blockedFileLen
    /\ phase \in {"off", "recover"} => blocked = {} /\ blockedLen = 0
    /\ phase = "write" => blockedFile = {}
    /\ phase \in {"write", "clear"} => loadingFile \in blocked

\* A list of n names of at most L characters is at most n * (L + 1) long.
LenInv(L) ==
    /\ blockedLen <= Cardinality(blocked) * (L + 1)
    /\ blockedFileLen <= Cardinality(blockedFile) * (L + 1)

\* The modules that will not be opened at the next start, or at this one
Known == blockedFile
           \cup (IF phase = "write" THEN blocked ELSE {})
           \cup (IF phase = "opening" THEN {} ELSE {loadingFile})

\* A module that is not known has used up no more faults than there were cuts.
FaultInv == \A m \in Modules :
                faults[m] <= cuts + (IF m \in Known THEN 1 ELSE 0)

TypeInv == TypeOK /\ CrumbInv

IInv(L) == TypeInv /\ ListInv /\ LenInv(L) /\ FaultInv

\* Every name, with its separator, fits the buffer of the list at once.
NamesFit(L) ==
    /\ L \in Nat
    /\ \A m \in Modules : NameLen[m] <= L
    /\ Cardinality(Modules) * (L + 1) < BLOCKED_MAX
-----------------------------------------------------------------------------
(* Types *)

\* The entries stay within their array: slot_for gives out a new one only
\* while there is room.
LEMMA SlotRoom ==
    ASSUME NEW S \in SUBSET Modules, Cardinality(S) <= NATIVE_MAX,
           NEW m \in Modules, m \in S \/ Cardinality(S) < NATIVE_MAX
    PROVE  Cardinality(S \cup {m}) <= NATIVE_MAX
<1>1. IsFiniteSet(S)
  BY FS_Subset, NativeAssumption
<1>2. CASE m \in S
  <2>1. S \cup {m} = S
    BY <1>2
  <2> QED BY <2>1
<1>3. CASE m \notin S
  <2>1. Cardinality(S \cup {m}) = Cardinality(S) + 1
    BY <1>1, <1>3, FS_AddElement
  <2>2. Cardinality(S) \in Nat
    BY <1>1, FS_CardinalityType
  <2> QED BY <1>3, <2>1, <2>2, NativeAssumption
<1> QED BY <1>2, <1>3

LEMMA EmptyRoom == Cardinality({}) = 0
  BY FS_EmptySet

LEMMA InitType == Init => TypeInv
  BY EmptyRoom, NativeAssumption
     DEF Init, TypeInv, TypeOK, CrumbInv, Phases, Scopes, SYSTEM, USER, NoHandles

\* The end of the process leaves every variable at its first value.
LEMMA GoneType ==
    ASSUME TypeInv, Gone, UNCHANGED <<card, fileVars>>,
           cuts' \in 0..MaxCuts, faults' \in [Modules -> Nat],
           cutIn' \subseteq Modules
    PROVE  TypeInv'
  BY EmptyRoom, NativeAssumption
     DEF Gone, TypeInv, TypeOK, CrumbInv, Phases, Scopes, SYSTEM, USER, NoHandles,
         fileVars

\* load_one up to the point where it has an entry keeps the types.
LEMMA ReleaseType ==
    ASSUME TypeOK, NEW c \in todo, Release(c)
    PROVE  /\ slots' \subseteq Modules /\ Cardinality(slots') <= NATIVE_MAX
           /\ handle' \in [Modules -> Copies \cup {None}]
           /\ todo' \subseteq Copies
           /\ within' \in {FolderOf(d) : d \in Copies} \cup {Loose}
           /\ c \in Copies /\ NameOf(c) \in Modules
<1>1. c \in Copies /\ NameOf(c) \in Modules
  BY NativeAssumption DEF TypeOK
<1>2. Cardinality(slots') <= NATIVE_MAX
  BY <1>1, SlotRoom DEF Release, HasSlot, TypeOK
<1> QED
  BY <1>1, <1>2 DEF Release, TypeOK

LEMMA StepType == TypeInv /\ [Next]_vars => TypeInv'
<1> SUFFICES ASSUME TypeInv, [Next]_vars PROVE TypeInv'
  OBVIOUS
<1> USE DEF TypeInv
<1>1. CASE Boot
  BY <1>1 DEF Boot, TypeOK, CrumbInv, Phases, fileVars, setVars, listVars, histVars
<1>2. CASE RecoverNothing
  BY <1>2 DEF RecoverNothing, StartWalk, TypeOK, CrumbInv, Phases, Scopes, SYSTEM,
              USER, fileVars, setVars, histVars
<1>3. CASE RecoverRead
  BY <1>3 DEF RecoverRead, TypeOK, CrumbInv, Phases, fileVars, setVars, histVars
<1>4. CASE RecoverTruncate
  <2>1. loadingFile \in Modules
    BY <1>4 DEF RecoverTruncate, TypeOK, CrumbInv
  <2>2. blocked' \subseteq Modules /\ blockedLen' \in 0..(BLOCKED_MAX - 1)
    BY <1>4, <2>1, NativeAssumption
       DEF RecoverTruncate, ListAdd, Appended, TypeOK
  <2> QED
    BY <1>4, <2>1, <2>2, NativeAssumption
       DEF RecoverTruncate, TypeOK, CrumbInv, Phases, setVars, histVars
<1>5. CASE RecoverWrite
  BY <1>5 DEF RecoverWrite, TypeOK, CrumbInv, Phases, setVars, listVars, histVars
<1>6. CASE RecoverClear
  BY <1>6 DEF RecoverClear, StartWalk, TypeOK, CrumbInv, Phases, Scopes, SYSTEM,
              USER, setVars, histVars
<1>7. ASSUME NEW c \in todo, LoadNoRoom(c) PROVE TypeInv'
  BY <1>7 DEF LoadNoRoom, TypeOK, CrumbInv, Phases, fileVars, setVars, listVars,
              histVars
<1>8. ASSUME NEW c \in todo, LoadBlocked(c) PROVE TypeInv'
  <2>1. phase = "walk"
    BY <1>8 DEF LoadBlocked, Release
  <2> QED
    BY <1>8, <2>1, ReleaseType
       DEF LoadBlocked, TypeOK, CrumbInv, Phases, fileVars, listVars, histVars
<1>9. ASSUME NEW c \in todo, LoadBegin(c) PROVE TypeInv'
  BY <1>9, ReleaseType
     DEF LoadBegin, Listed, TypeOK, CrumbInv, Phases, listVars, histVars
<1>10. ASSUME NEW c \in todo, ReleaseFaults(c) PROVE TypeInv'
  BY <1>10, GoneType DEF ReleaseFaults, TypeOK, histVars
<1>11. CASE LoadRefused
  BY <1>11 DEF LoadRefused, TypeOK, CrumbInv, Phases, setVars, listVars, histVars
<1>12. CASE LoadOpened
  BY <1>12 DEF LoadOpened, TypeOK, CrumbInv, Phases, listVars, histVars
<1>13. CASE LoadFaults
  <2> DEFINE m == NameOf(opening)
  <2>1. m \in Modules /\ faults[m] \in Nat
    BY <1>13, NativeAssumption DEF LoadFaults, TypeOK, CrumbInv
  <2>2. faults' = [faults EXCEPT ![m] = IF faults[m] < FaultCap THEN faults[m] + 1
                                                               ELSE faults[m]]
    BY <1>13 DEF LoadFaults
  <2>3. faults' \in [Modules -> Nat]
    <3> HIDE DEF m
    <3> QED BY <2>1, <2>2 DEF TypeOK
  <2> QED
    BY <1>13, <2>3, GoneType DEF LoadFaults, TypeOK
<1>14. CASE NextScope
  BY <1>14 DEF NextScope, StartWalk, TypeOK, CrumbInv, Phases, Scopes, SYSTEM, USER,
               fileVars, setVars, listVars, histVars
<1>15. CASE Register
  BY <1>15 DEF Register, TypeOK, CrumbInv, Phases, fileVars, setVars, listVars,
               histVars
<1>16. CASE Unload
  BY <1>16, GoneType DEF Unload, TypeOK, histVars
<1>17. ASSUME NEW m \in Modules, WordFaults(m) PROVE TypeInv'
  BY <1>17, GoneType DEF WordFaults, TypeOK, histVars
<1>18. CASE Unblock
  BY <1>18, NativeAssumption
     DEF Unblock, TypeOK, CrumbInv, Phases, walkVars, setVars
<1>19. CASE DestroyInterp
  BY <1>19 DEF DestroyInterp, TypeOK, CrumbInv, Phases, fileVars, setVars, listVars,
               histVars
<1>20. CASE CardChanges
  BY <1>20 DEF CardChanges, TypeOK, CrumbInv, fileVars, walkVars, setVars, listVars,
               histVars
<1>21. CASE PowerCut
  <2>1. cuts' \in 0..MaxCuts /\ cutIn' \subseteq Modules
    BY <1>21, NativeAssumption DEF PowerCut, TypeOK, CrumbInv
  <2> QED
    BY <1>21, <2>1, GoneType DEF PowerCut, TypeOK
<1>22. CASE UNCHANGED vars
  BY <1>22 DEF vars, TypeOK, CrumbInv, fileVars, walkVars, setVars, listVars,
               histVars
<1> QED
  BY <1>1, <1>2, <1>3, <1>4, <1>5, <1>6, <1>7, <1>8, <1>9, <1>10, <1>11, <1>12,
     <1>13, <1>14, <1>15, <1>16, <1>17, <1>18, <1>19, <1>20, <1>21, <1>22
     DEF Next, Progress, Environment

\* The variables keep their types, the list never outgrows its buffer nor the
\* entries their array, and the crumb names the module being opened.
THEOREM TypeCorrect == Spec => [](TypeOK /\ CrumbInv)
<1>1. Init => TypeInv
  BY InitType
<1>2. TypeInv /\ [Next]_vars => TypeInv'
  BY StepType
<1>3. TypeInv => TypeOK /\ CrumbInv
  BY DEF TypeInv
<1> QED BY <1>1, <1>2, <1>3, PTL DEF Spec
-----------------------------------------------------------------------------
(* One fault each *)

LEMMA MulMono == \A x, y, k \in Nat : x <= y => x * k <= y * k
  OBVIOUS

\* list_add never cuts a name short where the names fit.
LEMMA AddFits ==
    ASSUME NEW L, NamesFit(L),
           NEW S \in SUBSET Modules, NEW m \in Modules, m \notin S,
           NEW len \in Nat, len <= Cardinality(S) * (L + 1)
    PROVE  /\ Appended(len, m) < BLOCKED_MAX
           /\ Appended(len, m) <= Cardinality(S \cup {m}) * (L + 1)
<1> DEFINE n == Cardinality(S)
           all == Cardinality(Modules)
           k == L + 1
<1>1. IsFiniteSet(S) /\ IsFiniteSet(S \cup {m})
  BY FS_Subset, FS_AddElement, NativeAssumption
<1>2. Cardinality(S \cup {m}) = n + 1 /\ n \in Nat
  BY <1>1, FS_AddElement, FS_CardinalityType
<1>3. n + 1 <= all /\ all \in Nat
  BY <1>2, FS_Subset, FS_CardinalityType, NativeAssumption
<1>4. k \in Nat /\ NameLen[m] \in Nat /\ NameLen[m] + 1 <= k
  BY NativeAssumption DEF NamesFit
<1>5. (n + 1) * k <= all * k
  <2> HIDE DEF n, all, k
  <2> QED BY <1>2, <1>3, <1>4, MulMono
<1>6. (n + 1) * k = n * k + k
  <2> HIDE DEF n, k
  <2> QED BY <1>2, <1>4
<1>7. n * k \in Nat /\ all * k \in Nat /\ all * k < BLOCKED_MAX /\ len <= n * k
  <2>1. all * k < BLOCKED_MAX /\ len <= n * k
    BY DEF NamesFit
  <2>2. n * k \in Nat /\ all * k \in Nat
    <3> HIDE DEF n, all, k
    <3> QED BY <1>2, <1>3, <1>4
  <2> QED BY <2>1, <2>2
<1>8. Appended(len, m) <= n * k + k
  <2>1. Appended(len, m) <= len + 1 + NameLen[m]
    BY <1>4 DEF Appended
  <2> HIDE DEF n, k
  <2> QED BY <2>1, <1>4, <1>7, <1>2 DEF Appended
<1>9. Appended(len, m) \in Nat
  BY <1>4 DEF Appended
<1>10. Appended(len, m) <= Cardinality(S \cup {m}) * (L + 1)
  <2>1. Cardinality(S \cup {m}) * (L + 1) = n * k + k
    BY <1>2, <1>6
  <2> QED BY <2>1, <1>8
<1>11. Appended(len, m) < BLOCKED_MAX
  <2> HIDE DEF n, all, k
  <2> QED BY <1>2, <1>3, <1>4, <1>5, <1>6, <1>7, <1>8, <1>9, NativeAssumption
<1> QED BY <1>10, <1>11

LEMMA InitIInv == ASSUME NEW L, NamesFit(L) PROVE Init => IInv(L)
<1> SUFFICES ASSUME Init PROVE IInv(L)
  OBVIOUS
<1>1. TypeInv
  BY InitType
<1>2. ListInv
  BY DEF Init, ListInv
<1>3. LenInv(L)
  BY EmptyRoom DEF Init, LenInv, NamesFit
<1>4. FaultInv
  BY <1>1 DEF Init, FaultInv, Known
<1> QED BY <1>1, <1>2, <1>3, <1>4 DEF IInv

\* The end of the process: memory is lost, the files are as they were.
LEMMA GoneLists ==
    ASSUME NEW L, NamesFit(L), IInv(L), Gone, UNCHANGED <<card, fileVars>>
    PROVE  ListInv' /\ LenInv(L)'
  BY EmptyRoom DEF IInv, Gone, ListInv, LenInv, fileVars, NamesFit

\* What is known stays known when the process ends, but for what was only in
\* memory and not yet in the file.
LEMMA GoneKnown ==
    ASSUME Gone, UNCHANGED <<card, fileVars>>
    PROVE  Known' = blockedFile \cup {loadingFile}
  BY DEF Gone, Known, fileVars

LEMMA StepLists ==
    ASSUME NEW L, NamesFit(L), IInv(L), TypeInv', [Next]_vars
    PROVE  ListInv' /\ LenInv(L)'
<1> USE DEF IInv
<1>1. CASE Boot
  BY <1>1 DEF Boot, ListInv, LenInv, fileVars, listVars
<1>2. CASE RecoverNothing
  BY <1>2 DEF RecoverNothing, StartWalk, ListInv, LenInv, fileVars
<1>3. CASE RecoverRead
  BY <1>3 DEF RecoverRead, ListInv, LenInv, fileVars
<1>4. CASE RecoverTruncate
  <2>1. loadingFile \in Modules /\ blockedLen \in Nat /\ blocked \in SUBSET Modules
    BY <1>4 DEF RecoverTruncate, TypeInv, TypeOK, CrumbInv
  <2>2. CASE loadingFile \in blocked
    BY <1>4, <2>2, EmptyRoom
       DEF RecoverTruncate, ListAdd, Listed, ListInv, LenInv, NamesFit
  <2>3. CASE loadingFile \notin blocked
    <3>1. /\ Appended(blockedLen, loadingFile) < BLOCKED_MAX
          /\ Appended(blockedLen, loadingFile)
                <= Cardinality(blocked \cup {loadingFile}) * (L + 1)
      BY <2>1, <2>3, AddFits DEF LenInv
    <3> QED
      BY <1>4, <2>3, <3>1, EmptyRoom
         DEF RecoverTruncate, ListAdd, Listed, ListInv, LenInv, NamesFit
  <2> QED BY <2>2, <2>3
<1>5. CASE RecoverWrite
  BY <1>5 DEF RecoverWrite, ListInv, LenInv, listVars
<1>6. CASE RecoverClear
  BY <1>6 DEF RecoverClear, StartWalk, ListInv, LenInv
<1>7. ASSUME NEW c \in todo, LoadNoRoom(c) PROVE ListInv' /\ LenInv(L)'
  BY <1>7 DEF LoadNoRoom, ListInv, LenInv, fileVars, listVars
<1>8. ASSUME NEW c \in todo, LoadBlocked(c) PROVE ListInv' /\ LenInv(L)'
  BY <1>8 DEF LoadBlocked, Release, ListInv, LenInv, fileVars, listVars
<1>9. ASSUME NEW c \in todo, LoadBegin(c) PROVE ListInv' /\ LenInv(L)'
  BY <1>9 DEF LoadBegin, Release, ListInv, LenInv, listVars
<1>10. ASSUME NEW c \in todo, ReleaseFaults(c) PROVE ListInv' /\ LenInv(L)'
  BY <1>10, GoneLists DEF ReleaseFaults
<1>11. CASE LoadRefused
  BY <1>11 DEF LoadRefused, ListInv, LenInv, listVars
<1>12. CASE LoadOpened
  BY <1>12 DEF LoadOpened, ListInv, LenInv, listVars
<1>13. CASE LoadFaults
  BY <1>13, GoneLists DEF LoadFaults
<1>14. CASE NextScope
  BY <1>14 DEF NextScope, StartWalk, ListInv, LenInv, fileVars, listVars
<1>15. CASE Register
  BY <1>15 DEF Register, ListInv, LenInv, fileVars, listVars
<1>16. CASE Unload
  BY <1>16, GoneLists DEF Unload
<1>17. ASSUME NEW m \in Modules, WordFaults(m) PROVE ListInv' /\ LenInv(L)'
  BY <1>17, GoneLists DEF WordFaults
<1>18. CASE Unblock
  BY <1>18, EmptyRoom DEF Unblock, ListInv, LenInv, walkVars, NamesFit
<1>19. CASE DestroyInterp
  BY <1>19 DEF DestroyInterp, ListInv, LenInv, fileVars, listVars
<1>20. CASE CardChanges
  BY <1>20 DEF CardChanges, ListInv, LenInv, fileVars, walkVars, listVars
<1>21. CASE PowerCut
  BY <1>21, GoneLists DEF PowerCut
<1>22. CASE UNCHANGED vars
  BY <1>22 DEF vars, ListInv, LenInv, fileVars, walkVars, listVars
<1> QED
  BY <1>1, <1>2, <1>3, <1>4, <1>5, <1>6, <1>7, <1>8, <1>9, <1>10, <1>11, <1>12,
     <1>13, <1>14, <1>15, <1>16, <1>17, <1>18, <1>19, <1>20, <1>21, <1>22
     DEF Next, Progress, Environment
\* A step after which everything known is still known, and no module has
\* faulted, keeps the count.
LEMMA KnownKept ==
    ASSUME TypeInv, FaultInv, Known \cap Modules \subseteq Known',
           UNCHANGED <<faults, cuts>>
    PROVE  FaultInv'
<1> SUFFICES ASSUME NEW m \in Modules
             PROVE  faults[m] <= cuts + (IF m \in Known' THEN 1 ELSE 0)
  BY DEF FaultInv
<1>1. faults[m] <= cuts + (IF m \in Known THEN 1 ELSE 0)
  BY DEF FaultInv
<1>2. faults[m] \in Nat /\ cuts \in Nat
  BY NativeAssumption DEF TypeInv, TypeOK
<1> QED BY <1>1, <1>2

\* A step that may forget what is known keeps the count if the power was cut.
LEMMA KnownCut ==
    ASSUME TypeInv, FaultInv, cuts' = cuts + 1, UNCHANGED faults
    PROVE  FaultInv'
<1> SUFFICES ASSUME NEW m \in Modules
             PROVE  faults'[m] <= cuts' + (IF m \in Known' THEN 1 ELSE 0)
  BY DEF FaultInv
<1>1. faults[m] <= cuts + 1
  BY DEF FaultInv, TypeInv, TypeOK
<1>2. faults[m] \in Nat /\ cuts \in Nat
  BY NativeAssumption DEF TypeInv, TypeOK
<1> QED BY <1>1, <1>2

\* The process ends without a cut: only what was written in the files counts,
\* and before the list is being rewritten that is everything.
LEMMA GoneFaults ==
    ASSUME TypeInv, FaultInv, Gone, UNCHANGED <<card, fileVars>>,
           phase # "write",
           UNCHANGED <<faults, cuts>>
    PROVE  FaultInv'
<1>1. Known \subseteq Known'
  BY GoneKnown DEF Known
<1> QED BY <1>1, KnownKept

LEMMA StepFaults ==
    ASSUME NEW L, NamesFit(L), IInv(L), TypeInv', [Next]_vars
    PROVE  FaultInv'
<1> USE DEF IInv
<1> None \notin Modules
  BY NativeAssumption
<1>1. CASE Boot
  BY <1>1, KnownKept DEF Boot, Known, fileVars, listVars, histVars
<1>2. CASE RecoverNothing
  BY <1>2, KnownKept DEF RecoverNothing, StartWalk, Known, fileVars, histVars
<1>3. CASE RecoverRead
  BY <1>3, KnownKept DEF RecoverRead, Known, fileVars, histVars
<1>4. CASE RecoverTruncate
  <2>1. blocked = blockedFile
    BY <1>4 DEF RecoverTruncate, ListInv
  <2>2. blocked \subseteq blocked'
    BY <1>4 DEF RecoverTruncate, ListAdd
  <2>3. Known \subseteq Known'
    BY <1>4, <2>1, <2>2 DEF RecoverTruncate, Known
  <2> QED BY <1>4, <2>3, KnownKept DEF RecoverTruncate, histVars
<1>5. CASE RecoverWrite
  <2>1. Known \subseteq Known'
    BY <1>5 DEF RecoverWrite, Known, listVars, ListInv
  <2>2. UNCHANGED <<faults, cuts>>
    BY <1>5 DEF RecoverWrite, histVars
  <2> QED BY <2>1, <2>2, KnownKept
<1>6. CASE RecoverClear
  <2>1. blocked = blockedFile /\ loadingFile \in blocked
    BY <1>6 DEF RecoverClear, ListInv
  <2>2. Known \subseteq Known'
    BY <1>6, <2>1 DEF RecoverClear, StartWalk, Known
  <2> QED BY <1>6, <2>2, KnownKept DEF RecoverClear, histVars
<1>7. ASSUME NEW c \in todo, LoadNoRoom(c) PROVE FaultInv'
  BY <1>7, KnownKept DEF LoadNoRoom, Known, fileVars, listVars, histVars
<1>8. ASSUME NEW c \in todo, LoadBlocked(c) PROVE FaultInv'
  BY <1>8, KnownKept DEF LoadBlocked, Release, Known, fileVars, listVars, histVars
<1>9. ASSUME NEW c \in todo, LoadBegin(c) PROVE FaultInv'
  BY <1>9, KnownKept
     DEF LoadBegin, Release, Known, listVars, histVars, TypeInv, CrumbInv
<1>10. ASSUME NEW c \in todo, ReleaseFaults(c) PROVE FaultInv'
  BY <1>10, GoneFaults DEF ReleaseFaults, histVars
<1>11. CASE LoadRefused
  BY <1>11, KnownKept DEF LoadRefused, Known, listVars, histVars
<1>12. CASE LoadOpened
  BY <1>12, KnownKept DEF LoadOpened, Known, listVars, histVars
<1>13. CASE LoadFaults
  <2> DEFINE f == NameOf(opening)
  <2>1. /\ opening \in Copies /\ loadingFile = f /\ f \notin blocked
        /\ blocked = blockedFile /\ f \in Modules
    BY <1>13, NativeAssumption DEF LoadFaults, TypeInv, CrumbInv, ListInv
  <2>2. f \notin Known
    BY <1>13, <2>1 DEF LoadFaults, Known
  <2>3. Known' = blockedFile \cup {f}
    BY <1>13, <2>1, GoneKnown DEF LoadFaults
  <2>4. Known = blockedFile
    BY <1>13 DEF LoadFaults, Known
  <2>5. /\ cuts' = cuts
        /\ faults' = [faults EXCEPT ![f] = IF faults[f] < FaultCap
                                          THEN faults[f] + 1 ELSE faults[f]]
    BY <1>13 DEF LoadFaults
  <2> SUFFICES ASSUME NEW m \in Modules
               PROVE  faults'[m] <= cuts' + (IF m \in Known' THEN 1 ELSE 0)
    BY DEF FaultInv
  <2>6. faults \in [Modules -> Nat] /\ cuts \in Nat
    BY NativeAssumption DEF TypeInv, TypeOK
  <2>7. faults[m] <= cuts + (IF m \in Known THEN 1 ELSE 0)
    BY DEF FaultInv
  <2> HIDE DEF f
  <2>8. CASE m = f
    BY <2>1, <2>2, <2>3, <2>5, <2>6, <2>7, <2>8
  <2>9. CASE m # f
    BY <2>1, <2>3, <2>4, <2>5, <2>6, <2>7, <2>9
  <2> QED BY <2>8, <2>9
<1>14. CASE NextScope
  BY <1>14, KnownKept DEF NextScope, StartWalk, Known, fileVars, listVars, histVars
<1>15. CASE Register
  BY <1>15, KnownKept DEF Register, Known, fileVars, listVars, histVars
<1>16. CASE Unload
  BY <1>16, GoneFaults DEF Unload, histVars
<1>17. ASSUME NEW m \in Modules, WordFaults(m) PROVE FaultInv'
  BY <1>17, GoneFaults DEF WordFaults, histVars
<1>18. CASE Unblock
  BY <1>18, NativeAssumption DEF Unblock, FaultInv, TypeInv, TypeOK
<1>19. CASE DestroyInterp
  BY <1>19, KnownKept DEF DestroyInterp, Known, fileVars, listVars, histVars
<1>20. CASE CardChanges
  BY <1>20, KnownKept DEF CardChanges, Known, fileVars, walkVars, listVars, histVars
<1>21. CASE PowerCut
  BY <1>21, KnownCut DEF PowerCut
<1>22. CASE UNCHANGED vars
  BY <1>22, KnownKept
     DEF vars, Known, fileVars, walkVars, listVars, histVars
<1> QED
  BY <1>1, <1>2, <1>3, <1>4, <1>5, <1>6, <1>7, <1>8, <1>9, <1>10, <1>11, <1>12,
     <1>13, <1>14, <1>15, <1>16, <1>17, <1>18, <1>19, <1>20, <1>21, <1>22
     DEF Next, Progress, Environment

\* Where the names fit the list's buffer, no module takes the machine down
\* while being opened more than once, and once more for each power cut --
\* whatever the modules do, however many there are, and wherever the power is
\* cut in native.c's start-up.
THEOREM OneFaultCorrect ==
    ASSUME NEW L, NamesFit(L) PROVE Spec => []OneFaultEach
<1>1. Init => IInv(L)
  BY InitIInv
<1>2. IInv(L) /\ [Next]_vars => IInv(L)'
  <2> SUFFICES ASSUME IInv(L), [Next]_vars PROVE IInv(L)'
    OBVIOUS
  <2>1. TypeInv'
    BY StepType DEF IInv
  <2> QED BY <2>1, StepLists, StepFaults DEF IInv
<1>3. IInv(L) => OneFaultEach
  BY NativeAssumption DEF IInv, FaultInv, OneFaultEach, TypeInv, TypeOK
<1> QED BY <1>1, <1>2, <1>3, PTL DEF Spec
-----------------------------------------------------------------------------
(* Nobody is blocked for nothing *)

\* The modules that the next start will not open, or is about to block
Accused == blockedFile \cup blocked
             \cup (IF phase = "opening" THEN {} ELSE {loadingFile} \ {None})

\* A step that accuses nobody new and forgets nothing keeps the innocent free.
LEMMA AccusedKept ==
    ASSUME InnocentNotBlocked, Accused' \subseteq Accused, UNCHANGED <<faults, cutIn>>
    PROVE  InnocentNotBlocked'
  BY DEF InnocentNotBlocked, Accused

\* The end of the process accuses no one, but for the module being opened.
LEMMA GoneAccused ==
    ASSUME TypeInv, Gone, UNCHANGED <<card, fileVars>>
    PROVE  /\ phase # "opening" => Accused' \subseteq Accused
           /\ phase = "opening" => Accused' \subseteq Accused \cup {NameOf(opening)}
  BY DEF TypeInv, CrumbInv, Gone, Accused, fileVars

LEMMA StepInnocent ==
    ASSUME TypeInv, InnocentNotBlocked, [Next]_vars
    PROVE  InnocentNotBlocked'
<1>1. CASE Boot
  BY <1>1, AccusedKept DEF Boot, Accused, fileVars, listVars, histVars
<1>2. CASE RecoverNothing
  BY <1>2, AccusedKept DEF RecoverNothing, StartWalk, Accused, fileVars, histVars
<1>3. CASE RecoverRead
  BY <1>3, AccusedKept DEF RecoverRead, Accused, fileVars, histVars
<1>4. CASE RecoverTruncate
  <2>1. loadingFile # None
    BY <1>4 DEF RecoverTruncate, TypeInv, CrumbInv
  <2>2. blocked' \subseteq blocked \cup {loadingFile}
    BY <1>4 DEF RecoverTruncate, ListAdd
  <2>3. Accused' \subseteq Accused
    BY <1>4, <2>1, <2>2 DEF RecoverTruncate, Accused
  <2> QED BY <1>4, <2>3, AccusedKept DEF RecoverTruncate, histVars
<1>5. CASE RecoverWrite
  BY <1>5, AccusedKept DEF RecoverWrite, Accused, listVars, histVars
<1>6. CASE RecoverClear
  BY <1>6, AccusedKept DEF RecoverClear, StartWalk, Accused, histVars
<1>7. ASSUME NEW c \in todo, LoadNoRoom(c) PROVE InnocentNotBlocked'
  BY <1>7, AccusedKept DEF LoadNoRoom, Accused, fileVars, listVars, histVars
<1>8. ASSUME NEW c \in todo, LoadBlocked(c) PROVE InnocentNotBlocked'
  BY <1>8, AccusedKept DEF LoadBlocked, Accused, fileVars, listVars, histVars
<1>9. ASSUME NEW c \in todo, LoadBegin(c) PROVE InnocentNotBlocked'
  BY <1>9, AccusedKept DEF LoadBegin, Accused, listVars, histVars
<1>10. ASSUME NEW c \in todo, ReleaseFaults(c) PROVE InnocentNotBlocked'
  BY <1>10, GoneAccused, AccusedKept DEF ReleaseFaults, histVars
<1>11. CASE LoadRefused
  BY <1>11, AccusedKept DEF LoadRefused, Accused, listVars, histVars
<1>12. CASE LoadOpened
  BY <1>12, AccusedKept DEF LoadOpened, Accused, listVars, histVars
<1>13. CASE LoadFaults
  <2> DEFINE f == NameOf(opening)
  <2>1. f \in Modules /\ faults \in [Modules -> Nat]
    BY <1>13, NativeAssumption DEF LoadFaults, TypeInv, TypeOK, CrumbInv
  <2>2. Accused' \subseteq Accused \cup {f} /\ cutIn' = cutIn
    BY <1>13, GoneAccused DEF LoadFaults
  <2>3. faults' = [faults EXCEPT ![f] = IF faults[f] < FaultCap THEN faults[f] + 1
                                                               ELSE faults[f]]
    BY <1>13 DEF LoadFaults
  <2> HIDE DEF f
  <2>4. \A m \in Modules : faults[m] > 0 => faults'[m] > 0
    BY <2>1, <2>3
  <2>5. faults'[f] > 0
    BY <2>1, <2>3, NativeAssumption
  <2>6. Accused \subseteq Modules
    BY DEF Accused, TypeInv, TypeOK
  <2> SUFFICES ASSUME NEW m \in Accused' PROVE faults'[m] > 0 \/ m \in cutIn'
    BY DEF InnocentNotBlocked, Accused
  <2> QED BY <2>2, <2>4, <2>5, <2>6 DEF InnocentNotBlocked, Accused
<1>14. CASE NextScope
  BY <1>14, AccusedKept
     DEF NextScope, StartWalk, Accused, fileVars, listVars, histVars
<1>15. CASE Register
  BY <1>15, AccusedKept DEF Register, Accused, fileVars, listVars, histVars
<1>16. CASE Unload
  BY <1>16, GoneAccused, AccusedKept DEF Unload, histVars
<1>17. ASSUME NEW m \in Modules, WordFaults(m) PROVE InnocentNotBlocked'
  BY <1>17, GoneAccused, AccusedKept DEF WordFaults, histVars
<1>18. CASE Unblock
  BY <1>18 DEF Unblock, InnocentNotBlocked, TypeInv, CrumbInv, walkVars
<1>19. CASE DestroyInterp
  BY <1>19, AccusedKept DEF DestroyInterp, Accused, fileVars, listVars, histVars
<1>20. CASE CardChanges
  BY <1>20, AccusedKept
     DEF CardChanges, Accused, fileVars, walkVars, listVars, histVars
<1>21. CASE PowerCut
  <2>1. UNCHANGED faults /\ cutIn \subseteq cutIn'
    BY <1>21 DEF PowerCut
  <2>2. Accused' \subseteq Accused \cup cutIn'
    BY <1>21, GoneAccused DEF PowerCut
  <2> QED BY <2>1, <2>2 DEF InnocentNotBlocked, Accused
<1>22. CASE UNCHANGED vars
  BY <1>22, AccusedKept
     DEF vars, Accused, fileVars, walkVars, listVars, histVars
<1> QED
  BY <1>1, <1>2, <1>3, <1>4, <1>5, <1>6, <1>7, <1>8, <1>9, <1>10, <1>11, <1>12,
     <1>13, <1>14, <1>15, <1>16, <1>17, <1>18, <1>19, <1>20, <1>21, <1>22
     DEF Next, Progress, Environment

\* No module is ever blocked, or about to be, that neither faulted while being
\* opened nor was half open when the power went: whatever is refused, replaced
\* or never reached by load_one, and wherever qdos_natives_recover is cut short.
THEOREM InnocentCorrect == Spec => []InnocentNotBlocked
<1>1. Init => TypeInv /\ InnocentNotBlocked
  BY InitType DEF Init, InnocentNotBlocked
<1>2. TypeInv /\ InnocentNotBlocked /\ [Next]_vars => (TypeInv /\ InnocentNotBlocked)'
  BY StepType, StepInnocent
<1> QED BY <1>1, <1>2, PTL DEF Spec
-----------------------------------------------------------------------------
(* The words and the copies behind them *)

\* A boot starts with no entries, and the interpreter holds words only between
\* qdos_natives_register and the first step of qdos_shell_destroy; no entry is
\* released in between.
HeldInv ==
    /\ phase \in {"off", "recover", "add", "write", "clear"} =>
           slots = {} /\ handle = NoHandles
    /\ words = IF phase = "up" THEN {m \in slots : handle[m] # None} ELSE {}

\* Every name on the card has an entry to go to.
RoomForAll == Cardinality({NameOf(c) : c \in card}) <= NATIVE_MAX

\* What the walk has still to visit is on the card, in the scope being walked.
TodoInv ==
    phase \in {"walk", "opening", "up"} =>
        /\ slots \subseteq {NameOf(c) : c \in card}
        /\ \A c \in todo : c \in card /\ ScopeOf(c) = scope
        /\ phase = "opening" => /\ opening \in card /\ ScopeOf(opening) = scope
                                /\ handle[NameOf(opening)] = None
        /\ phase = "up" => todo = {} /\ scope = USER

\* The copies the walk has passed
Passed == {c \in card : ScopeOf(c) < scope \/ (ScopeOf(c) = scope /\ c \notin todo)}

\* No entry holds a copy from farther away than one the walk has passed.
NearInv ==
    phase \in {"walk", "opening", "up"} /\ RoomForAll =>
        \A c \in Passed : handle[NameOf(c)] # None =>
            ScopeOf(c) <= ScopeOf(handle[NameOf(c)])

WalkInv == TypeInv /\ HeldInv /\ TodoInv /\ NearInv

\* With room for every name, slot_for always finds an entry.
LEMMA AlwaysRoom ==
    ASSUME TypeInv, TodoInv, phase = "walk", RoomForAll, NEW c \in todo
    PROVE  HasSlot(NameOf(c))
<1> DEFINE names == {NameOf(d) : d \in card}
           m == NameOf(c)
<1> SUFFICES ASSUME m \notin slots PROVE Cardinality(slots) < NATIVE_MAX
  BY DEF HasSlot
<1>1. names \in SUBSET Modules /\ IsFiniteSet(names)
  BY FS_Subset, NativeAssumption DEF TypeInv, TypeOK
<1>2. slots \cup {m} \subseteq names
  BY DEF TodoInv
<1>3. IsFiniteSet(slots) /\ IsFiniteSet(slots \cup {m})
  BY <1>1, <1>2, FS_Subset
<1>4. Cardinality(slots \cup {m}) = Cardinality(slots) + 1
  BY <1>3, FS_AddElement
<1>5. Cardinality(slots \cup {m}) <= Cardinality(names)
  BY <1>1, <1>2, FS_Subset
<1>6. Cardinality(names) <= NATIVE_MAX
  BY DEF RoomForAll
<1> QED
  BY <1>1, <1>3, <1>4, <1>5, <1>6, FS_CardinalityType, NativeAssumption

\* A walk that begins has passed what is farther, and an entry of a boot that
\* begins is empty.
LEMMA StartNear ==
    ASSUME TypeInv, NEW s \in Scopes, StartWalk(s), UNCHANGED <<card, handle, slots>>,
           slots \subseteq {NameOf(c) : c \in card},
           RoomForAll => \A c \in card : ScopeOf(c) < s /\ handle[NameOf(c)] # None =>
                             ScopeOf(c) <= ScopeOf(handle[NameOf(c)])
    PROVE  TodoInv' /\ NearInv'
<1>1. TodoInv'
  BY DEF StartWalk, TodoInv
<1>2. \A c \in Passed' : c \in card /\ ScopeOf(c) < s
  BY DEF StartWalk, Passed
<1>3. NearInv'
  BY <1>2 DEF NearInv, RoomForAll
<1> QED BY <1>1, <1>3

\* The end of the process leaves nothing to say of the walk.
LEMMA GoneWalk == ASSUME Gone PROVE HeldInv' /\ TodoInv' /\ NearInv'
  BY DEF Gone, HeldInv, TodoInv, NearInv, NoHandles

\* load_one up to the point where the entry is empty
LEMMA ReleaseNear ==
    ASSUME WalkInv, NEW c \in todo, Release(c), UNCHANGED <<card, scope>>
    PROVE  /\ c \in card /\ ScopeOf(c) = scope /\ handle'[NameOf(c)] = None
           /\ slots' \subseteq {NameOf(d) : d \in card}
           /\ \A d \in todo' : d \in card /\ ScopeOf(d) = scope
           /\ RoomForAll => \A d \in Passed' : handle'[NameOf(d)] # None =>
                  ScopeOf(d) <= ScopeOf(handle'[NameOf(d)])
<1> USE DEF WalkInv
<1>1. phase = "walk" /\ c \in card /\ ScopeOf(c) = scope
  BY DEF Release, TodoInv
<1>2. \A d \in card : NameOf(d) \in Modules
  BY NativeAssumption DEF TypeInv, TypeOK
<1>3. handle' = [handle EXCEPT ![NameOf(c)] = None] /\ handle \in [Modules -> Copies \cup {None}]
  BY DEF Release, TypeInv, TypeOK
<1>4. handle'[NameOf(c)] = None /\ \A d \in card : NameOf(d) # NameOf(c) =>
          handle'[NameOf(d)] = handle[NameOf(d)]
  BY <1>1, <1>2, <1>3
<1>5. \A d \in Passed' : d \in card /\ (d = c \/ d \in Passed)
  BY DEF Release, Passed
<1>6. \A d \in todo' : d \in card /\ ScopeOf(d) = scope
  BY <1>1 DEF Release, TodoInv
<1>7. slots' \subseteq {NameOf(d) : d \in card}
  BY <1>1 DEF Release, TodoInv
<1> QED BY <1>1, <1>4, <1>5, <1>6, <1>7 DEF NearInv

LEMMA StepWalk ==
    ASSUME WalkInv, [Next]_vars
    PROVE  HeldInv' /\ TodoInv' /\ NearInv'
<1> USE DEF WalkInv
<1>1. CASE Boot
  BY <1>1 DEF Boot, HeldInv, TodoInv, NearInv, setVars
<1>2. CASE RecoverNothing
  <2>1. HeldInv'
    BY <1>2 DEF RecoverNothing, StartWalk, HeldInv, setVars
  <2>2. StartWalk(SYSTEM) /\ UNCHANGED <<card, handle, slots>> /\ slots = {}
    BY <1>2 DEF RecoverNothing, HeldInv, setVars
  <2>3. \A c \in card : ~(ScopeOf(c) < SYSTEM)
    BY NativeAssumption DEF TypeInv, TypeOK, Scopes, SYSTEM, USER
  <2> QED BY <2>1, <2>2, <2>3, StartNear DEF Scopes, SYSTEM, USER
<1>3. CASE RecoverRead
  BY <1>3 DEF RecoverRead, HeldInv, TodoInv, NearInv, setVars
<1>4. CASE RecoverTruncate
  BY <1>4 DEF RecoverTruncate, HeldInv, TodoInv, NearInv, setVars
<1>5. CASE RecoverWrite
  BY <1>5 DEF RecoverWrite, HeldInv, TodoInv, NearInv, setVars
<1>6. CASE RecoverClear
  <2>1. HeldInv'
    BY <1>6 DEF RecoverClear, StartWalk, HeldInv, setVars
  <2>2. StartWalk(SYSTEM) /\ UNCHANGED <<card, handle, slots>> /\ slots = {}
    BY <1>6 DEF RecoverClear, HeldInv, setVars
  <2>3. \A c \in card : ~(ScopeOf(c) < SYSTEM)
    BY NativeAssumption DEF TypeInv, TypeOK, Scopes, SYSTEM, USER
  <2> QED BY <2>1, <2>2, <2>3, StartNear DEF Scopes, SYSTEM, USER
<1>7. ASSUME NEW c \in todo, LoadNoRoom(c) PROVE HeldInv' /\ TodoInv' /\ NearInv'
  <2>1. HeldInv' /\ TodoInv'
    BY <1>7 DEF LoadNoRoom, HeldInv, TodoInv, setVars
  <2>2. ~RoomForAll
    BY <1>7, AlwaysRoom DEF LoadNoRoom
  <2> QED BY <1>7, <2>1, <2>2 DEF LoadNoRoom, NearInv, RoomForAll
<1>8. ASSUME NEW c \in todo, LoadBlocked(c) PROVE HeldInv' /\ TodoInv' /\ NearInv'
  <2>1. phase = "walk" /\ phase' = "walk" /\ UNCHANGED <<card, scope, words>>
    BY <1>8 DEF LoadBlocked, Release
  <2> QED
    BY <1>8, <2>1, ReleaseNear DEF LoadBlocked, HeldInv, TodoInv, NearInv, RoomForAll
<1>9. ASSUME NEW c \in todo, LoadBegin(c) PROVE HeldInv' /\ TodoInv' /\ NearInv'
  <2>1. /\ phase = "walk" /\ phase' = "opening" /\ opening' = c
        /\ UNCHANGED <<card, scope, words>>
    BY <1>9 DEF LoadBegin, Release
  <2> QED
    BY <1>9, <2>1, ReleaseNear DEF LoadBegin, HeldInv, TodoInv, NearInv, RoomForAll
<1>10. ASSUME NEW c \in todo, ReleaseFaults(c) PROVE HeldInv' /\ TodoInv' /\ NearInv'
  BY <1>10, GoneWalk DEF ReleaseFaults
<1>11. CASE LoadRefused
  BY <1>11 DEF LoadRefused, HeldInv, TodoInv, NearInv, RoomForAll, Passed, setVars
<1>12. CASE LoadOpened
  <2> DEFINE m == NameOf(opening)
  <2>1. opening \in card /\ ScopeOf(opening) = scope /\ m \in Modules
    BY <1>12, NativeAssumption DEF LoadOpened, TodoInv, TypeInv, TypeOK
  <2>2. /\ handle' = [handle EXCEPT ![m] = opening]
        /\ handle \in [Modules -> Copies \cup {None}]
        /\ phase = "opening" /\ phase' = "walk"
        /\ UNCHANGED <<card, scope, todo, slots, words>>
    BY <1>12 DEF LoadOpened, TypeInv, TypeOK
  <2>3. handle'[m] = opening /\ \A d \in card : NameOf(d) # m =>
            handle'[NameOf(d)] = handle[NameOf(d)]
    <3>1. \A d \in card : NameOf(d) \in Modules
      BY NativeAssumption DEF TypeInv, TypeOK
    <3> HIDE DEF m
    <3> QED BY <2>1, <2>2, <3>1
  <2>4. \A d \in Passed : ScopeOf(d) <= scope /\ d \in card
    BY NativeAssumption DEF Passed, TypeInv, TypeOK, Scopes, SYSTEM, USER
  <2>5. Passed' = Passed
    BY <2>2 DEF Passed
  <2>6. HeldInv' /\ TodoInv'
    BY <2>2 DEF HeldInv, TodoInv
  <2>7. NearInv'
    <3> SUFFICES ASSUME RoomForAll', NEW d \in Passed', handle'[NameOf(d)] # None
                 PROVE  ScopeOf(d) <= ScopeOf(handle'[NameOf(d)])
      BY DEF NearInv
    <3>1. CASE NameOf(d) = m
      BY <2>1, <2>3, <2>4, <2>5, <3>1
    <3>2. CASE NameOf(d) # m
      BY <2>2, <2>3, <2>4, <2>5, <3>2 DEF NearInv, RoomForAll
    <3> QED BY <3>1, <3>2
  <2> QED BY <2>6, <2>7
<1>13. CASE LoadFaults
  BY <1>13, GoneWalk DEF LoadFaults
<1>14. CASE NextScope
  <2>1. HeldInv'
    BY <1>14 DEF NextScope, StartWalk, HeldInv, setVars
  <2>2. /\ StartWalk(scope + 1) /\ UNCHANGED <<card, handle, slots>>
        /\ scope \in Scopes /\ scope + 1 \in Scopes
        /\ phase = "walk" /\ todo = {}
    BY <1>14 DEF NextScope, setVars, TypeInv, TypeOK, Scopes, SYSTEM, USER
  <2>3. \A c \in card : ScopeOf(c) < scope + 1 => c \in Passed
    BY <2>2, NativeAssumption DEF Passed, TypeInv, TypeOK, Scopes, SYSTEM, USER
  <2>4. slots \subseteq {NameOf(c) : c \in card}
    BY <2>2 DEF TodoInv
  <2> QED BY <2>1, <2>2, <2>3, <2>4, StartNear DEF NearInv
<1>15. CASE Register
  <2>1. HeldInv' /\ TodoInv'
    BY <1>15 DEF Register, HeldInv, TodoInv, setVars
  <2>2. NearInv'
    BY <1>15 DEF Register, NearInv, RoomForAll, Passed, setVars
  <2> QED BY <2>1, <2>2
<1>16. CASE Unload
  BY <1>16, GoneWalk DEF Unload
<1>17. ASSUME NEW m \in Modules, WordFaults(m) PROVE HeldInv' /\ TodoInv' /\ NearInv'
  BY <1>17, GoneWalk DEF WordFaults
<1>18. CASE Unblock
  BY <1>18 DEF Unblock, HeldInv, TodoInv, NearInv, RoomForAll, Passed, walkVars, setVars
<1>19. CASE DestroyInterp
  BY <1>19 DEF DestroyInterp, HeldInv, TodoInv, NearInv, setVars
<1>20. CASE CardChanges
  BY <1>20 DEF CardChanges, HeldInv, TodoInv, NearInv, walkVars, setVars
<1>21. CASE PowerCut
  BY <1>21, GoneWalk DEF PowerCut
<1>22. CASE UNCHANGED vars
  BY <1>22 DEF vars, HeldInv, TodoInv, NearInv, RoomForAll, Passed, walkVars, setVars
<1> QED
  BY <1>1, <1>2, <1>3, <1>4, <1>5, <1>6, <1>7, <1>8, <1>9, <1>10, <1>11, <1>12,
     <1>13, <1>14, <1>15, <1>16, <1>17, <1>18, <1>19, <1>20, <1>21, <1>22
     DEF Next, Progress, Environment

LEMMA WalkCorrect == Spec => []WalkInv
<1>1. Init => WalkInv
  BY InitType DEF Init, WalkInv, HeldInv, TodoInv, NearInv
<1>2. WalkInv /\ [Next]_vars => WalkInv'
  BY StepType, StepWalk DEF WalkInv
<1> QED BY <1>1, <1>2, PTL DEF Spec

\* Once the shell is up, what answers to a name is a copy from the nearest scope
\* that has that name, in whatever order readdir gave the copies and whichever
\* of them were blocked or would not open.
THEOREM NearestCorrect == Spec => []NearestWins
<1>1. WalkInv => NearestWins
  <2> SUFFICES ASSUME WalkInv, phase = "up", RoomForAll,
                      NEW m \in words, NEW c \in card, NameOf(c) = m
               PROVE  ScopeOf(c) <= ScopeOf(handle[m])
    BY DEF NearestWins, RoomForAll
  <2>1. handle[m] # None
    BY DEF WalkInv, HeldInv
  <2>2. c \in Passed
    BY NativeAssumption
       DEF WalkInv, TodoInv, Passed, TypeInv, TypeOK, Scopes, SYSTEM, USER
  <2> QED BY <2>1, <2>2 DEF WalkInv, NearInv
<1> QED BY <1>1, WalkCorrect, PTL

\* The interpreter never holds a word of a module that release() has closed.
THEOREM WordsLiveCorrect == Spec => []WordsLive
<1>1. WalkInv => WordsLive
  BY DEF WalkInv, HeldInv, WordsLive
<1> QED BY <1>1, WalkCorrect, PTL
=============================================================================
