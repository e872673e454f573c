-------------------------- MODULE Esp32InputProofs --------------------------
(***************************************************************************)
(* What Esp32Input keeps for any keys, columns, queue and scan counts.     *)
(***************************************************************************)
EXTENDS Esp32Input, FiniteSetTheorems, TLAPS

\* A round of scanning ends with every key up, and a key taken to be down has
\* read up for at least as many scans as count towards its letting go.
PressInv ==
    /\ reported \subseteq down
    /\ idle > 0 => down = {}
    /\ scan \in {"waiting", "arming"} => down = {}
    /\ \A k \in down : streak[k] <= seenUp[k]
    /\ ~twice

\* With no notification due, the columns enabled so far are enabled still.
ArmInv ==
    /\ scan = "waiting" /\ ~notified => intr = Columns
    /\ scan = "arming" /\ ~notified => {c \in Columns : c < armed} \subseteq intr

\* A change not yet read is still to be flagged, is flagged, or has been seen;
\* and a flag set since the shell last polled has an entry behind it.
UploadInv ==
    /\ stale /\ ~missed => \/ shell \in {"boot", "reload"}
                           \/ serial = "landed"
                           \/ touched
                           \/ shell = "clear" /\ saw
    /\ touched /\ shell \in {"reload", "wait"} => serial = "flagged" \/ queue # <<>>

-----------------------------------------------------------------------------
(* Types *)

LEMMA FreshCount == Cardinality(Fresh) \in Nat
<1>1. IsFiniteSet(Fresh)
  BY InputAssumption, FS_Subset DEF Fresh
<1> QED BY <1>1, FS_CardinalityType

\* The presses of one scan keep to the room there is.
LEMMA PressesFit ==
    ASSUME TypeOK
    PROVE  /\ AfterPresses \in Seq({"pad", "key", "wake"})
           /\ Len(AfterPresses) <= QUEUE_MAX
           /\ queue # <<>> => AfterPresses # <<>>
<1> DEFINE room == QUEUE_MAX - Len(queue)
           n == IF Cardinality(Fresh) < room THEN Cardinality(Fresh) ELSE room
           tail == [i \in 1..n |-> "pad"]
<1>1. /\ Len(queue) \in Nat /\ QUEUE_MAX \in Nat /\ room \in Nat /\ n \in Nat
      /\ Len(queue) + n <= QUEUE_MAX
  BY FreshCount, InputAssumption DEF TypeOK
<1>2. tail \in Seq({"pad", "key", "wake"}) /\ Len(tail) = n
  BY <1>1
<1>3. AfterPresses = queue \o tail
  BY DEF AfterPresses
<1> HIDE DEF n, tail, room
<1>4. /\ queue \o tail \in Seq({"pad", "key", "wake"})
      /\ Len(queue \o tail) = Len(queue) + n
  BY <1>1, <1>2 DEF TypeOK
<1>5. queue # <<>> => queue \o tail # <<>>
  BY <1>1, <1>2, <1>4 DEF TypeOK
<1> QED BY <1>1, <1>3, <1>4, <1>5

\* Counts that start at nought
LEMMA Noughts ==
    /\ [k \in Keys |-> 0] \in [Keys -> 0..(DEBOUNCE_SCANS - 1)]
    /\ [k \in Keys |-> 0] \in [Keys -> 0..DEBOUNCE_SCANS]
    /\ 0 \in 0..IDLE_SCANS /\ 0 \in 0..TEXT_MAX /\ COLS \in 0..COLS
    /\ <<>> \in Seq({"pad", "key", "wake"}) /\ Len(<<>>) <= QUEUE_MAX
  BY InputAssumption

LEMMA InitType == Init => TypeOK
  BY Noughts DEF Init, TypeOK

LEMMA StepType == TypeOK /\ [Next]_vars => TypeOK'
<1> SUFFICES ASSUME TypeOK, [Next]_vars PROVE TypeOK'
  OBVIOUS
<1> USE InputAssumption
<1>1. CASE Finger
  BY <1>1 DEF Finger, TypeOK, matrixVars, pressVars, serialVars, shellVars
<1>2. CASE Interrupt
  BY <1>2 DEF Interrupt, TypeOK, pressVars, serialVars, shellVars
<1>3. CASE ScanBegin
  BY <1>3, Noughts DEF ScanBegin, TypeOK, pressVars, serialVars, shellVars
<1>4. CASE ScanOnce
  <2>1. streak' \in [Keys -> 0..(DEBOUNCE_SCANS - 1)]
    BY <1>4 DEF ScanOnce, StreakOf, Flips, TypeOK
  <2>2. seenUp' \in [Keys -> 0..DEBOUNCE_SCANS]
    BY <1>4 DEF ScanOnce, SeenUp, TypeOK
  <2>3. down' \subseteq Keys /\ reported' \subseteq Keys /\ twice' \in BOOLEAN
    BY <1>4 DEF ScanOnce, Fresh, TypeOK
  <2>4. queue' \in Seq({"pad", "key", "wake"}) /\ Len(queue') <= QUEUE_MAX
    BY <1>4, PressesFit DEF ScanOnce
  <2>5. idle' \in 0..IDLE_SCANS
    BY <1>4 DEF ScanOnce, TypeOK
  <2> QED
    BY <1>4, <2>1, <2>2, <2>3, <2>4, <2>5
       DEF ScanOnce, TypeOK, serialVars, shellVars
<1>5. CASE ScanEnd
  BY <1>5 DEF ScanEnd, TypeOK, pressVars, serialVars, shellVars
<1>6. CASE Arm
  <2>1. armed < COLS => armed \in Columns /\ armed + 1 \in 0..COLS
    BY DEF TypeOK, Columns
  <2>2. scan' \in {"waiting", "scanning", "arming"}
    BY <1>6 DEF Arm, TypeOK
  <2>3. intr' \subseteq Columns /\ armed' \in 0..COLS
    BY <1>6, <2>1 DEF Arm, TypeOK
  <2> QED BY <1>6, <2>2, <2>3 DEF Arm, TypeOK, pressVars, serialVars, shellVars
<1>7. CASE KeyArrives
  BY <1>7 DEF KeyArrives, TypeOK, matrixVars, pressVars, shellVars
<1>8. CASE Lands
  BY <1>8 DEF Lands, TypeOK, matrixVars, pressVars, shellVars
<1>9. CASE PortKey
  BY <1>9 DEF PortKey, TypeOK, matrixVars, pressVars, shellVars
<1>10. CASE TouchFlag
  BY <1>10 DEF TouchFlag, TypeOK, matrixVars, pressVars, shellVars
<1>11. CASE TouchWake
  BY <1>11 DEF TouchWake, Offered, TypeOK, matrixVars, pressVars, shellVars
<1>12. CASE Boot
  BY <1>12 DEF Boot, TypeOK, matrixVars, pressVars
<1>13. CASE PollPending
  <2>1. pending' \in 0..TEXT_MAX
    BY <1>13 DEF PollPending, HandleKey, TypeOK
  <2>2. queue' \in Seq({"pad", "key", "wake"}) /\ Len(queue') <= QUEUE_MAX
    BY <1>13 DEF PollPending, TypeOK
  <2>3. shell' \in {"boot", "poll", "modal", "check", "clear", "reload", "wait",
                   "modalwait", "off"} /\ due' \in BOOLEAN
    BY <1>13 DEF PollPending, HandleKey, TypeOK
  <2> QED
    BY <1>13, <2>1, <2>2, <2>3
       DEF PollPending, HandleKey, TypeOK, matrixVars, pressVars, serialVars
<1>14. CASE PollWake
  BY <1>14 DEF PollWake, TypeOK, matrixVars, pressVars, serialVars, shellVars
<1>15. CASE PollKey
  <2>1. pending' \in 0..TEXT_MAX
    BY <1>15 DEF PollKey, HandleKey, TypeOK
  <2>2. queue' \in Seq({"pad", "key", "wake"}) /\ Len(queue') <= QUEUE_MAX
    BY <1>15 DEF PollKey, TypeOK
  <2>3. shell' \in {"boot", "poll", "modal", "check", "clear", "reload", "wait",
                   "modalwait", "off"} /\ due' \in BOOLEAN
    BY <1>15 DEF PollKey, HandleKey, TypeOK
  <2> QED
    BY <1>15, <2>1, <2>2, <2>3
       DEF PollKey, HandleKey, TypeOK, matrixVars, pressVars, serialVars
<1>16. CASE PollPad
  <2>1. pending' \in 0..TEXT_MAX
    BY <1>16 DEF PollPad, HandleKey, TypeOK
  <2>2. queue' \in Seq({"pad", "key", "wake"}) /\ Len(queue') <= QUEUE_MAX
    BY <1>16 DEF PollPad, TypeOK
  <2>3. shell' \in {"boot", "poll", "modal", "check", "clear", "reload", "wait",
                   "modalwait", "off"} /\ due' \in BOOLEAN
    BY <1>16 DEF PollPad, HandleKey, TypeOK
  <2> QED
    BY <1>16, <2>1, <2>2, <2>3
       DEF PollPad, HandleKey, TypeOK, matrixVars, pressVars, serialVars
<1>17. CASE PollEmpty
  BY <1>17 DEF PollEmpty, TypeOK, matrixVars, pressVars, serialVars
<1>18. CASE StoreChangedRead
  BY <1>18 DEF StoreChangedRead, TypeOK, matrixVars, pressVars, serialVars
<1>19. CASE StoreChangedClear
  BY <1>19 DEF StoreChangedClear, TypeOK, matrixVars, pressVars
<1>20. CASE ReloadCard
  BY <1>20 DEF ReloadCard, TypeOK, matrixVars, pressVars
<1>21. CASE WaitEnds
  BY <1>21 DEF WaitEnds, Polls, TypeOK, matrixVars, pressVars, serialVars
<1>22. CASE WaitTimesOut
  BY <1>22 DEF WaitTimesOut, Polls, TypeOK, matrixVars, pressVars, serialVars
<1>23. CASE WakeUp
  BY <1>23, Noughts DEF WakeUp, TypeOK
<1>24. CASE UNCHANGED vars
  BY <1>24 DEF vars, TypeOK, matrixVars, pressVars, serialVars, shellVars
<1> QED
  BY <1>1, <1>2, <1>3, <1>4, <1>5, <1>6, <1>7, <1>8, <1>9, <1>10, <1>11, <1>12,
     <1>13, <1>14, <1>15, <1>16, <1>17, <1>18, <1>19, <1>20, <1>21, <1>22, <1>23,
     <1>24 DEF Next, ScanTask, SerialTask, ShellTask

\* The variables keep their types: the queue never outgrows its entries, nor a
\* count the scans it counts to.
THEOREM InputTypes == Spec => []TypeOK
<1> QED BY InitType, StepType, PTL DEF Spec
-----------------------------------------------------------------------------
(* The matrix *)

\* What the steps outside keymatrix.c leave alone
Elsewhere ==
    UNCHANGED <<intr, notified, scan, armed, down, streak, idle, reported, seenUp, twice>>

LEMMA OutsideMatrix ==
    Next => \/ Elsewhere \/ Interrupt \/ ScanBegin \/ ScanOnce \/ ScanEnd \/ Arm \/ WakeUp
<1> USE DEF Elsewhere, matrixVars, pressVars
<1>1. Finger => Elsewhere
  BY DEF Finger
<1>2. KeyArrives \/ Lands \/ SerialTask => Elsewhere
  BY DEF KeyArrives, Lands, SerialTask, PortKey, TouchFlag, TouchWake
<1>3. ShellTask => Elsewhere
  BY DEF ShellTask, Boot, PollPending, PollWake, PollKey, PollPad, PollEmpty,
         StoreChangedRead, StoreChangedClear, ReloadCard, WaitEnds, HandleKey
<1>4. WaitTimesOut => Elsewhere
  BY DEF WaitTimesOut
<1> QED BY <1>1, <1>2, <1>3, <1>4 DEF Next, ScanTask

LEMMA StepArm == TypeOK /\ ArmInv /\ [Next]_vars => ArmInv'
<1> SUFFICES ASSUME TypeOK, ArmInv, [Next]_vars PROVE ArmInv'
  OBVIOUS
<1> USE InputAssumption
<1>1. CASE Elsewhere \/ UNCHANGED vars
  BY <1>1 DEF Elsewhere, vars, matrixVars, ArmInv
<1>2. CASE Interrupt
  BY <1>2 DEF Interrupt, ArmInv
<1>3. CASE ScanBegin \/ ScanOnce
  BY <1>3 DEF ScanBegin, ScanOnce, ArmInv
<1>4. CASE ScanEnd
  BY <1>4 DEF ScanEnd, ArmInv, Columns
<1>5. CASE Arm
  <2>1. CASE armed < COLS
    <3>1. {c \in Columns : c < armed'} \subseteq {c \in Columns : c < armed} \cup {armed}
      BY <1>5, <2>1 DEF Arm, TypeOK, Columns
    <3> QED BY <1>5, <2>1, <3>1 DEF Arm, ArmInv
  <2>2. CASE ~(armed < COLS)
    <3>1. {c \in Columns : c < armed} = Columns
      BY <2>2 DEF TypeOK, Columns
    <3> QED BY <1>5, <2>2, <3>1 DEF Arm, ArmInv, TypeOK
  <2> QED BY <2>1, <2>2
<1>6. CASE WakeUp
  BY <1>6 DEF WakeUp, ArmInv
<1> QED BY <1>1, <1>2, <1>3, <1>4, <1>5, <1>6, OutsideMatrix

\* The matrix is never deaf, for any number of columns and wherever among them
\* on_column interrupts the scan task.
THEOREM MatrixHears == Spec => []NotDeaf
<1>1. Init => ArmInv
  BY DEF Init, ArmInv
<1>2. ArmInv => NotDeaf
  BY DEF ArmInv, NotDeaf
<1> QED BY <1>1, <1>2, InitType, StepType, StepArm, PTL DEF Spec

LEMMA StepPress == TypeOK /\ PressInv /\ [Next]_vars => PressInv'
<1> SUFFICES ASSUME TypeOK, PressInv, [Next]_vars PROVE PressInv'
  OBVIOUS
<1> USE InputAssumption
<1>1. CASE Elsewhere \/ UNCHANGED vars
  BY <1>1 DEF Elsewhere, vars, matrixVars, pressVars, PressInv
<1>2. CASE Interrupt
  BY <1>2 DEF Interrupt, PressInv, pressVars
<1>3. CASE ScanBegin
  BY <1>3 DEF ScanBegin, PressInv, pressVars
<1>4. CASE ScanOnce
  <2>1. down' = {k \in Keys : (k \in down) # Flips(k)}
    BY <1>4 DEF ScanOnce
  <2>2. \A k \in down : Flips(k) => SeenUp(k) >= DEBOUNCE_SCANS
    BY DEF PressInv, TypeOK, Flips, Differs, SeenUp
  <2>3. reported' \subseteq down'
    BY <1>4, <2>1, <2>2 DEF ScanOnce, PressInv, TypeOK, Fresh, Flips, Differs, SeenUp
  <2>4. idle' > 0 => down' = {}
    BY <1>4, <2>1 DEF ScanOnce, AnyDown, Flips, Differs
  <2>5. scan' \notin {"waiting", "arming"}
    BY <1>4 DEF ScanOnce
  <2>6. \A k \in down' : streak'[k] <= seenUp'[k]
    BY <1>4, <2>1 DEF ScanOnce, PressInv, TypeOK, Flips, Differs, SeenUp, StreakOf
  <2>7. ~twice'
    BY <1>4 DEF ScanOnce, PressInv, Fresh, Flips, Differs
  <2> QED BY <2>3, <2>4, <2>5, <2>6, <2>7 DEF PressInv
<1>5. CASE ScanEnd
  BY <1>5 DEF ScanEnd, PressInv, TypeOK, pressVars
<1>6. CASE Arm
  BY <1>6 DEF Arm, PressInv, pressVars
<1>7. CASE WakeUp
  BY <1>7 DEF WakeUp, PressInv, TypeOK
<1> QED BY <1>1, <1>2, <1>3, <1>4, <1>5, <1>6, <1>7, OutsideMatrix

\* A press is sent once, for any keys and any counts of scans.
THEOREM PressedOnce == Spec => []OncePerPress
<1>1. Init => PressInv
  BY DEF Init, PressInv
<1>2. PressInv => OncePerPress
  BY DEF PressInv, OncePerPress
<1> QED BY <1>1, <1>2, InitType, StepType, StepPress, PTL DEF Spec
-----------------------------------------------------------------------------
(* The upload flag *)

LEMMA StepUpload == TypeOK /\ UploadInv /\ [Next]_vars => UploadInv'
<1> SUFFICES ASSUME TypeOK, UploadInv, [Next]_vars PROVE UploadInv'
  OBVIOUS
<1> USE InputAssumption DEF UploadInv
<1>1. CASE Finger \/ Interrupt \/ ScanBegin \/ ScanEnd \/ Arm \/ UNCHANGED vars
  BY <1>1 DEF Finger, Interrupt, ScanBegin, ScanEnd, Arm, vars, serialVars, shellVars
<1>2. CASE ScanOnce
  BY <1>2, PressesFit DEF ScanOnce, serialVars, shellVars
<1>3. CASE KeyArrives \/ Lands
  BY <1>3 DEF KeyArrives, Lands, shellVars
<1>4. CASE PortKey
  <2>1. queue' # <<>>
    BY <1>4 DEF PortKey, TypeOK
  <2> QED BY <1>4, <2>1 DEF PortKey, shellVars
<1>5. CASE TouchFlag
  BY <1>5 DEF TouchFlag, shellVars
<1>6. CASE TouchWake
  <2>1. queue' # <<>>
    BY <1>6 DEF TouchWake, Offered, TypeOK
  <2> QED BY <1>6, <2>1 DEF TouchWake, shellVars
<1>7. CASE Boot
  BY <1>7 DEF Boot
<1>8. CASE PollPending \/ PollKey \/ PollPad
  BY <1>8 DEF PollPending, PollKey, PollPad, Polling, HandleKey, serialVars, TypeOK
<1>9. CASE PollWake \/ PollEmpty
  BY <1>9 DEF PollWake, PollEmpty, Polling, serialVars, shellVars
<1>10. CASE StoreChangedRead
  BY <1>10 DEF StoreChangedRead, serialVars, TypeOK
<1>11. CASE StoreChangedClear
  BY <1>11 DEF StoreChangedClear, TypeOK
<1>12. CASE ReloadCard
  BY <1>12 DEF ReloadCard
<1>13. CASE WaitEnds \/ WaitTimesOut
  BY <1>13 DEF WaitEnds, WaitTimesOut, Waiting, Polls, serialVars
<1>14. CASE WakeUp
  BY <1>14 DEF WakeUp
<1> QED
  BY <1>1, <1>2, <1>3, <1>4, <1>5, <1>6, <1>7, <1>8, <1>9, <1>10, <1>11, <1>12,
     <1>13, <1>14 DEF Next, ScanTask, SerialTask, ShellTask

\* The shell never sleeps on an upload whose flag it has not lost, whatever is
\* in the queue and however full it is when the wake is sent.
THEOREM UploadWakes == Spec => []NotAsleepOnUpload
<1>1. Init => UploadInv
  BY DEF Init, UploadInv
<1>2. UploadInv /\ TypeOK => NotAsleepOnUpload
  BY DEF UploadInv, NotAsleepOnUpload, Asleep, TypeOK
<1> QED BY <1>1, <1>2, InitType, StepType, StepUpload, PTL DEF Spec
=============================================================================
