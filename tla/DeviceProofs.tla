---------------------------- MODULE DeviceProofs ----------------------------
(***************************************************************************)
(* What the machine keeps under a user's hands, for any timings, any width *)
(* of the tick and any keys: its run loop left alone (Device), the Linux   *)
(* build's keyboard (Keyboard), the program editor (Editor), and the line  *)
(* with its history and its completion (Line).                             *)
(***************************************************************************)
EXTENDS Device, Keyboard, Editor, Line, SequenceTheorems, FiniteSetTheorems, NaturalsInduction,
        WellFoundedInduction, TLAPS

\* A set of naturals that is not empty has a least member, and Min finds it.
LEMMA LeastNat ==
    ASSUME NEW T \in SUBSET Nat, T # {}
    PROVE  Min(T) \in T /\ \A y \in T : Min(T) <= y
<1> DEFINE R == OpToRel(<, Nat)
<1>1. IsWellFoundedOn(R, Nat)
  BY NatLessThanWellFounded
<1>2. PICK x \in T : \A y \in T : ~(<<y, x>> \in R)
  <2> HIDE DEF R
  <2> QED BY <1>1, WFMin
<1>3. \A y \in T : <<y, x>> \in R <=> y < x
  BY DEF OpToRel
<1>4. \A y \in T : ~(y < x)
  <2> HIDE DEF R
  <2> QED BY <1>2, <1>3, Zenon
<1>5. \E z \in T : \A y \in T : z <= y
  BY <1>4
<1> QED BY <1>5 DEF Min

-----------------------------------------------------------------------------
(* The run loop.                                                            *)

LoopType ==
    /\ pc \in {"keys", "card", "rest", "wait", "off"}
    /\ idle \in Nat /\ since \in Nat /\ left \in Nat \cup {NEVER} /\ auto \in {0, OFF}

\* With a power-off to come and no warning yet: asleep, the loop wakes before the
\* warning is due or just then, and one tick late at most; awake, there is more
\* time left than the warning gives, less that tick.
NotYet ==
    AutoOff > 0 /\ ~warned =>
        /\ idle <= OFF - WARN + 1
        /\ pc = "wait" /\ ~late => left \in Nat /\ idle + left <= OFF - WARN
        /\ pc = "wait" /\ late => left = 0

LoopInv == LoopType /\ NotYet

\* A key or a card read starts the wait again.
LEMMA DirtyNotYet ==
    ASSUME LoopInv, Dirty, pc' # "wait", pc' \in {"keys", "card", "rest", "wait", "off"},
           auto' \in {0, OFF}, UNCHANGED left
    PROVE  LoopInv'
  BY DeviceAssumption DEF LoopInv, LoopType, NotYet, Dirty

\* What the loop sleeps for is no later than what is due.
LEMMA SleepsUntil ==
    ASSUME LoopInv, NEW minute \in SUBSET Nat, since' \in Nat, AutoOff > 0, ~warned',
           idle < OFF - WARN, left' = Timeout(Dues \cup minute)
    PROVE  left' \in Nat /\ idle + left' <= OFF - WARN
<1> DEFINE blink == IF ~Settled /\ HasCursor' THEN {IF since' >= BLINK THEN 0 ELSE BLINK - since'} ELSE {}
           due == OFF - WARN - idle
           all == Dues \cup minute
<1>1. AutoOff = OFF /\ OFF - WARN \in Nat /\ due \in Nat
  BY DeviceAssumption DEF AutoOff, LoopInv, LoopType
<1>2. blink \in SUBSET Nat
  BY DeviceAssumption
<1>3. Dues = blink \cup {due}
  BY <1>1 DEF Dues, LoopInv, LoopType
<1>4. all \in SUBSET Nat /\ due \in all
  BY <1>1, <1>2, <1>3
<1> HIDE DEF blink, due, all
<1>5. Min(all) \in Nat /\ Min(all) <= due
  BY <1>4, LeastNat
<1>6. left' = Min(all)
  BY <1>4 DEF Timeout, all
<1> QED BY <1>1, <1>5, <1>6 DEF due, LoopInv, LoopType

LEMMA LoopStep == ASSUME LoopInv, [Next]_vars PROVE LoopInv'
<1>1. CASE World
  BY <1>1 DEF World, Press, Lands, FolderMade, loopVars, cardVars, LoopInv, LoopType, NotYet, AutoOff
<1>2. CASE PollKey
  <2>1. CASE pc' = "off"
    BY <1>2, <2>1 DEF PollKey, cardVars, LoopInv, LoopType, NotYet, AutoOff, Dirty
  <2>2. CASE Dirty /\ pc' = pc
    <3>1. auto' \in {0, OFF} /\ left' = left /\ pc' = "keys"
      BY <1>2, <2>2 DEF PollKey, LoopInv, LoopType
    <3> QED BY <2>2, <3>1, DirtyNotYet
  <2> QED BY <1>2, <2>1, <2>2 DEF PollKey
<1>3. CASE KeysDrained \/ CardQuiet \/ TurnsItselfOff \/ Wakes
  BY <1>3 DEF KeysDrained, CardQuiet, TurnsItselfOff, Wakes, cardVars, LoopInv, LoopType,
         NotYet, AutoOff
<1>4. CASE ReadCard
  BY <1>4, DirtyNotYet DEF ReadCard, LoopInv, LoopType
<1>5. CASE Sleep
  <2>1. /\ pc' = "wait" /\ ~late' /\ UNCHANGED <<idle, auto, shared>>
        /\ warned' = (warned \/ Warns)
    BY <1>5 DEF Sleep, cardVars
  <2>2. since' \in Nat
    BY <1>5 DEF Sleep, LoopInv, LoopType
  <2>3. PICK minute \in StatusDue : left' = Timeout(Dues \cup minute)
    BY <1>5 DEF Sleep
  <2>4. minute \in SUBSET Nat
    BY DeviceAssumption DEF StatusDue
  <2>5. left' \in Nat \cup {NEVER}
    <3>1. Dues \in SUBSET Nat
      BY <2>1, <2>2, DeviceAssumption DEF Dues, LoopInv, LoopType, AutoOff
    <3>2. Dues \cup minute \in SUBSET Nat
      BY <2>4, <3>1
    <3> QED BY <2>3, <3>2, LeastNat, DeviceAssumption DEF Timeout
  <2>6. NotYet'
    <3> SUFFICES ASSUME AutoOff' > 0, ~warned'
                 PROVE  idle <= OFF - WARN + 1 /\ left' \in Nat /\ idle + left' <= OFF - WARN
      BY <2>1 DEF NotYet
    <3>1. AutoOff' = AutoOff /\ AutoOff = OFF
      BY <2>1 DEF AutoOff, LoopInv, LoopType
    <3>2. idle < OFF - WARN
      <4>1. ~warned /\ ~Warns
        BY <2>1, Zenon
      <4> QED BY <3>1, <4>1, DeviceAssumption DEF Warns, LoopInv, LoopType
    <3>3. left' \in Nat /\ idle + left' <= OFF - WARN
      BY <2>2, <2>3, <2>4, <3>1, <3>2, SleepsUntil
    <3> QED BY <3>2, <3>3, DeviceAssumption DEF LoopInv, LoopType
  <2> QED BY <2>1, <2>2, <2>5, <2>6 DEF LoopInv, LoopType
<1>6. CASE Tick
  <2>1. /\ pc = "wait" /\ ~late /\ pc' = pc /\ warned' = warned /\ auto' = auto
        /\ shared' = shared /\ idle' = (idle + 1) % TICKS /\ since' = (since + 1) % TICKS
        /\ left' = (IF left > 0 THEN left - 1 ELSE left) /\ late' = (left = 0)
    BY <1>6 DEF Tick, cardVars
  <2>2. /\ TICKS \in Nat \ {0} /\ WARN \in Nat /\ OFF \in Nat
        /\ 1 < WARN /\ WARN < OFF /\ OFF + 1 < TICKS
    BY DeviceAssumption
  <2>3. idle' \in Nat /\ since' \in Nat /\ left' \in Nat \cup {NEVER}
    BY <2>1, <2>2 DEF LoopInv, LoopType, NEVER
  <2>4. NotYet'
    <3> SUFFICES ASSUME AutoOff > 0, ~warned
                 PROVE  /\ idle' <= OFF - WARN + 1
                        /\ ~late' => left' \in Nat /\ idle' + left' <= OFF - WARN
                        /\ late' => left' = 0
      BY <2>1 DEF NotYet, AutoOff
    <3>1. left \in Nat /\ idle \in Nat /\ idle + left <= OFF - WARN
      BY <2>1 DEF LoopInv, LoopType, NotYet
    <3>2. idle' = idle + 1
      BY <2>1, <2>2, <3>1
    <3>3. late' <=> left = 0
      BY <2>1, Zenon
    <3>4. left' = IF left > 0 THEN left - 1 ELSE left
      BY <2>1
    <3> QED BY <2>2, <3>1, <3>2, <3>3, <3>4
  <2> QED BY <2>1, <2>3, <2>4 DEF LoopInv, LoopType
<1>7. CASE UNCHANGED vars
  BY <1>7 DEF vars, loopVars, cardVars, LoopInv, LoopType, NotYet, AutoOff
<1> QED
  BY <1>1, <1>2, <1>3, <1>4, <1>5, <1>6, <1>7 DEF Next, Loop

\* However late poll() is and whatever was changed while the machine was awake, it
\* never turns itself off without the warning having been shown: for every width of
\* the tick, and every power-off and warning time with room for a tick between.
THEOREM SaysSoFirstCorrect == Spec => []SaysSoFirst
<1>1. Init => LoopInv
  BY DeviceAssumption DEF Init, LoopInv, LoopType, NotYet, AutoOff
<1>2. LoopInv => SaysSoFirst
  BY DeviceAssumption DEF LoopInv, LoopType, NotYet, SaysSoFirst, AutoOff
<1> QED BY <1>1, <1>2, LoopStep, PTL DEF Spec

-----------------------------------------------------------------------------
(* The keyboard.                                                            *)

Events == [code : Codes \cup Modifiers, value : 0..2, with : SUBSET Modifiers]

\* The modifiers held once an event is over.
HeldAfter(e) ==
    IF e.code \notin Modifiers THEN e.with
    ELSE IF e.value = 0 THEN e.with \ {e.code} ELSE e.with \cup {e.code}

\* The modifiers at the point of the queue the shell has read up to.
Reached == IF evdev = <<>> THEN held ELSE evdev[1].with

KeysType ==
    /\ evdev \in Seq(Events) /\ held \in SUBSET Modifiers
    /\ shift \in BOOLEAN /\ altgr \in BOOLEAN

\* The queue is one story: each event was made with what the one before it left,
\* the last left what is held, and no shift was pressed with the other held.
Story ==
    /\ \A i \in 1..Len(evdev) : \A j \in 1..Len(evdev) :
           j = i + 1 => evdev[j].with = HeldAfter(evdev[i])
    /\ evdev # <<>> => held = HeldAfter(evdev[Len(evdev)])
    /\ \A i \in 1..Len(evdev) :
           evdev[i].code \in Shifts => evdev[i].with \cap (Shifts \ {evdev[i].code}) = {}

Tracked == shift = (Reached \cap Shifts # {}) /\ altgr = ("ralt" \in Reached)

KeysInv == KeysType /\ Story /\ Tracked /\ KeysAsPressed

LEMMA InitKeys == KeyboardInit => KeysInv
<1> SUFFICES ASSUME KeyboardInit PROVE KeysInv
  OBVIOUS
<1>1. evdev \in Seq(Events) /\ Len(evdev) = 0 /\ evdev = <<>>
  BY DEF KeyboardInit
<1>2. Tracked
  <2>1. Reached = {} /\ shift = FALSE /\ altgr = FALSE
    BY DEF KeyboardInit, Reached
  <2>2. (Reached \cap Shifts # {}) = FALSE /\ ("ralt" \in Reached) = FALSE
    BY <2>1
  <2> QED BY <2>1, <2>2 DEF Tracked
<1>3. Story
  BY <1>1 DEF Story
<1>4. KeysAsPressed
  BY DEF KeyboardInit, KeysAsPressed
<1>5. held \in SUBSET Modifiers /\ shift \in BOOLEAN /\ altgr \in BOOLEAN
  BY DEF KeyboardInit
<1> QED BY <1>1, <1>2, <1>3, <1>4, <1>5 DEF KeysInv, KeysType

LEMMA StrokeKeys ==
    ASSUME KeysInv, NEW code \in Codes \cup Modifiers, NEW value \in 0..2, Stroke(code, value)
    PROVE  KeysInv'
<1> DEFINE e == [code |-> code, value |-> value, with |-> held]
<1>1. /\ evdev' = Append(evdev, e) /\ held' = HeldAfter(e) /\ UNCHANGED <<shift, altgr, read>>
      /\ code \in Shifts => held \cap (Shifts \ {code}) = {}
  BY DEF Stroke, HeldAfter
<1>2. e \in Events /\ held' \in SUBSET Modifiers /\ evdev \in Seq(Events)
  BY <1>1 DEF Events, KeysInv, KeysType, HeldAfter
<1>3. e.code = code /\ e.with = held
  OBVIOUS
<1> HIDE DEF e
<1>4. /\ evdev' \in Seq(Events) /\ Len(evdev') = Len(evdev) + 1 /\ Len(evdev) \in Nat
      /\ evdev'[Len(evdev) + 1] = e /\ \A i \in 1..Len(evdev) : evdev'[i] = evdev[i]
  BY <1>1, <1>2
<1>5. evdev' # <<>>
  BY <1>4
<1>6. ASSUME evdev # <<>> PROVE Len(evdev) \in 1..Len(evdev) /\ e.with = HeldAfter(evdev[Len(evdev)])
  <2>1. Len(evdev) # 0
    BY <1>2, <1>6, EmptySeq
  <2> QED BY <1>3, <1>4, <1>6, <2>1 DEF KeysInv, Story
<1>7. Story'
  <2>1. ASSUME NEW i \in 1..Len(evdev'), NEW j \in 1..Len(evdev'), j = i + 1
        PROVE  evdev'[j].with = HeldAfter(evdev'[i])
    <3>1. i \in 1..Len(evdev) /\ evdev'[i] = evdev[i]
      BY <1>4, <2>1
    <3>2. CASE j \in 1..Len(evdev)
      <4>1. evdev[j].with = HeldAfter(evdev[i])
        BY <2>1, <3>1, <3>2 DEF KeysInv, Story
      <4> QED BY <1>4, <3>1, <3>2, <4>1
    <3>3. CASE j \notin 1..Len(evdev)
      <4>1. j = Len(evdev) + 1 /\ i = Len(evdev) /\ evdev # <<>>
        BY <1>4, <2>1, <3>1, <3>3
      <4> QED BY <1>4, <1>6, <3>1, <4>1
    <3> QED BY <3>2, <3>3
  <2>2. held' = HeldAfter(evdev'[Len(evdev')])
    BY <1>1, <1>4
  <2>3. ASSUME NEW i \in 1..Len(evdev'), evdev'[i].code \in Shifts
        PROVE  evdev'[i].with \cap (Shifts \ {evdev'[i].code}) = {}
    <3>1. CASE i \in 1..Len(evdev)
      BY <1>4, <2>3, <3>1 DEF KeysInv, Story
    <3>2. CASE i \notin 1..Len(evdev)
      <4>1. evdev'[i] = e
        BY <1>4, <3>2
      <4> QED BY <1>1, <1>3, <2>3, <4>1
    <3> QED BY <3>1, <3>2
  <2>4. \A i \in 1..Len(evdev') : \A j \in 1..Len(evdev') :
            j = i + 1 => evdev'[j].with = HeldAfter(evdev'[i])
    BY <2>1
  <2> QED BY <2>2, <2>3, <2>4 DEF Story, HeldAfter
<1>8. Reached' = Reached
  <2>1. CASE evdev = <<>>
    <3>1. Len(evdev) = 0
      BY <2>1
    <3> QED BY <1>3, <1>4, <1>5, <2>1, <3>1 DEF Reached
  <2>2. CASE evdev # <<>>
    <3>1. 1 \in 1..Len(evdev)
      BY <1>4, <1>6, <2>2
    <3> QED BY <1>4, <1>5, <2>2, <3>1 DEF Reached
  <2> QED BY <2>1, <2>2
<1>9. Tracked'
  BY <1>1, <1>8 DEF KeysInv, Tracked
<1> QED BY <1>1, <1>2, <1>4, <1>7, <1>9 DEF KeysInv, KeysType, KeysAsPressed

LEMMA PollKeys == ASSUME KeysInv, KeypadPoll PROVE KeysInv'
<1> DEFINE e == Head(evdev)
<1>1. evdev # <<>> /\ evdev' = Tail(evdev) /\ held' = held /\ layout' = layout
  BY DEF KeypadPoll
<1>2. evdev \in Seq(Events) /\ Len(evdev) \in Nat \ {0}
  BY <1>1, EmptySeq DEF KeysInv, KeysType
<1>3. /\ evdev' \in Seq(Events) /\ Len(evdev') = Len(evdev) - 1 /\ e = evdev[1] /\ e \in Events
      /\ \A i \in 1..Len(evdev') : evdev'[i] = evdev[i + 1]
  BY <1>1, <1>2, HeadTailProperties
<1> HIDE DEF e
<1>4. Story'
  <2>1. ASSUME NEW i \in 1..Len(evdev'), NEW j \in 1..Len(evdev'), j = i + 1
        PROVE  evdev'[j].with = HeldAfter(evdev'[i])
    <3>1. i + 1 \in 1..Len(evdev) /\ j + 1 \in 1..Len(evdev) /\ j + 1 = (i + 1) + 1
      BY <1>2, <1>3, <2>1
    <3>2. evdev[j + 1].with = HeldAfter(evdev[i + 1])
      BY <3>1 DEF KeysInv, Story
    <3> QED BY <1>3, <3>2
  <2>2. ASSUME evdev' # <<>> PROVE held' = HeldAfter(evdev'[Len(evdev')])
    <3>1. Len(evdev') # 0
      BY <1>3, <2>2, EmptySeq
    <3>2. Len(evdev') \in 1..Len(evdev') /\ Len(evdev') + 1 = Len(evdev)
      BY <1>2, <1>3, <3>1
    <3>3. evdev'[Len(evdev')] = evdev[Len(evdev)]
      BY <1>3, <3>2
    <3> QED BY <1>1, <3>3 DEF KeysInv, Story
  <2>3. ASSUME NEW i \in 1..Len(evdev'), evdev'[i].code \in Shifts
        PROVE  evdev'[i].with \cap (Shifts \ {evdev'[i].code}) = {}
    <3>1. i + 1 \in 1..Len(evdev) /\ evdev'[i] = evdev[i + 1]
      BY <1>2, <1>3
    <3> QED BY <2>3, <3>1 DEF KeysInv, Story
  <2>4. \A i \in 1..Len(evdev') : \A j \in 1..Len(evdev') :
            j = i + 1 => evdev'[j].with = HeldAfter(evdev'[i])
    BY <2>1
  <2> QED BY <2>2, <2>3, <2>4 DEF Story, HeldAfter
<1>5. Reached = e.with
  BY <1>1, <1>3 DEF Reached
<1>6. Reached' = HeldAfter(e)
  <2>1. CASE evdev' = <<>>
    <3>1. Len(evdev) = 1
      BY <1>2, <1>3, <2>1
    <3>2. held = HeldAfter(evdev[1])
      BY <1>1, <3>1 DEF KeysInv, Story
    <3> QED BY <1>1, <1>3, <2>1, <3>2 DEF Reached
  <2>2. CASE evdev' # <<>>
    <3>1. Len(evdev') # 0
      BY <1>3, <2>2, EmptySeq
    <3>2. 1 \in 1..Len(evdev') /\ 1 \in 1..Len(evdev) /\ 2 \in 1..Len(evdev) /\ 2 = 1 + 1
      BY <1>2, <1>3, <3>1
    <3>3. evdev[2].with = HeldAfter(evdev[1])
      BY <3>2 DEF KeysInv, Story
    <3>4. evdev'[1] = evdev[2]
      BY <1>3, <3>2
    <3> QED BY <1>3, <2>2, <3>3, <3>4 DEF Reached
  <2> QED BY <2>1, <2>2
<1>7. e.code \in Shifts => e.with \cap (Shifts \ {e.code}) = {}
  <2>1. 1 \in 1..Len(evdev)
    BY <1>2
  <2> QED BY <1>3, <2>1 DEF KeysInv, Story
<1>8. shift = (e.with \cap Shifts # {}) /\ altgr = ("ralt" \in e.with)
  BY <1>5 DEF KeysInv, Tracked
<1>9. CASE e.code \in Modifiers
  <2>1. ReadModifier(e) /\ read' = read
    BY <1>9 DEF KeypadPoll, e
  <2>2. shift' = (HeldAfter(e) \cap Shifts # {})
    <3>1. CASE e.code \in Shifts
      <4>1. shift' = (e.value # 0)
        BY <2>1, <3>1 DEF ReadModifier
      <4>2. e.value # 0 <=> HeldAfter(e) \cap Shifts # {}
        BY <1>7, <1>9, <3>1 DEF HeldAfter
      <4> QED BY <4>1, <4>2
    <3>2. CASE e.code \notin Shifts
      <4>1. shift' = shift
        BY <2>1, <3>2 DEF ReadModifier
      <4>2. HeldAfter(e) \cap Shifts = e.with \cap Shifts
        BY <1>9, <3>2 DEF HeldAfter
      <4> QED BY <1>8, <4>1, <4>2
    <3> QED BY <3>1, <3>2
  <2>3. altgr' = ("ralt" \in HeldAfter(e))
    <3>1. CASE e.code = "ralt"
      <4>1. altgr' = (e.value # 0)
        BY <2>1, <3>1 DEF ReadModifier
      <4>2. e.value # 0 <=> "ralt" \in HeldAfter(e)
        BY <1>9, <3>1 DEF HeldAfter
      <4> QED BY <4>1, <4>2
    <3>2. CASE e.code # "ralt"
      <4>1. altgr' = altgr
        BY <2>1, <3>2 DEF ReadModifier
      <4>2. "ralt" \in HeldAfter(e) <=> "ralt" \in e.with
        BY <1>9, <3>2 DEF HeldAfter
      <4> QED BY <1>8, <4>1, <4>2
    <3> QED BY <3>1, <3>2
  <2>4. Tracked'
    BY <1>6, <2>2, <2>3 DEF Tracked
  <2>5. shift' \in BOOLEAN /\ altgr' \in BOOLEAN
    BY <2>2, <2>3
  <2> QED BY <1>1, <1>3, <1>4, <2>1, <2>4, <2>5 DEF KeysInv, KeysType, KeysAsPressed
<1>10. CASE e.code \notin Modifiers
  <2>1. UNCHANGED <<shift, altgr>>
    BY <1>10 DEF KeypadPoll, e
  <2>2. HeldAfter(e) = e.with
    BY <1>10 DEF HeldAfter
  <2>3. Tracked'
    BY <1>6, <1>8, <2>1, <2>2 DEF Tracked
  <2>4. KeysAsPressed'
    <3>1. CASE read' = read
      BY <3>1 DEF KeysInv, KeysAsPressed
    <3>2. CASE read' = [as |-> KeypadMap(e.code, shift, altgr),
                        meant |-> KeypadMap(e.code, e.with \cap Shifts # {}, "ralt" \in e.with)]
      <4>1. KeypadMap(e.code, shift, altgr) = KeypadMap(e.code, e.with \cap Shifts # {}, "ralt" \in e.with)
        BY <1>8
      <4> QED BY <3>2, <4>1 DEF KeysAsPressed
    <3> QED BY <1>10, <3>1, <3>2 DEF KeypadPoll, e
  <2> QED BY <1>1, <1>3, <1>4, <2>1, <2>3, <2>4 DEF KeysInv, KeysType
<1> QED BY <1>9, <1>10

\* A key means what the modifiers held when it was pressed make of it, for any keys
\* and however long the queue has grown.
THEOREM KeysAsPressedCorrect == KeyboardSpec => []KeysAsPressed
<1>1. KeysInv /\ [KeyboardNext]_keyboardVars => KeysInv'
  <2> SUFFICES ASSUME KeysInv, [KeyboardNext]_keyboardVars PROVE KeysInv'
    OBVIOUS
  <2>1. CASE UNCHANGED keyboardVars
    BY <2>1 DEF keyboardVars, KeysInv, KeysType, Story, Tracked, Reached, HeldAfter, KeysAsPressed
  <2> QED BY <2>1, StrokeKeys, PollKeys DEF KeyboardNext
<1>2. KeysInv => KeysAsPressed
  BY DEF KeysInv
<1> QED BY <1>1, <1>2, InitKeys, PTL DEF KeyboardSpec

-----------------------------------------------------------------------------
(* The program editor: lines and cells                                      *)

\* The strings, with those the editor types itself named for the provers' sake.
Cells == STRING \cup {NL, TAB, " ", "-", ">", "{", "}", "mi", "nus", "word", "fn", "s", "i"}

LEMMA OneCell ==
    ASSUME NEW S, NEW c \in S
    PROVE  <<c>> \in Seq(S) /\ <<c>> # <<>>
  OBVIOUS

LEMMA TwoCells ==
    ASSUME NEW S, NEW c \in S, NEW d \in S
    PROVE  <<c, d>> \in Seq(S) /\ <<c, d>> # <<>>
  OBVIOUS

LEMMA SixCells ==
    ASSUME NEW S, NEW c \in S, NEW d \in S, NEW e \in S, NEW f \in S, NEW g \in S, NEW h \in S
    PROVE  <<c, d, e, f, g, h>> \in Seq(S) /\ Len(<<c, d, e, f, g, h>>) = 6
  OBVIOUS

LEMMA CellsAre ==
    /\ NL \in Cells /\ TAB \in Cells /\ " " \in Cells /\ "-" \in Cells /\ "word" \in Cells
    /\ \A c \in Chars : c \in Cells
    /\ MinusWord \in Seq(Cells) /\ MinusWord # <<>> /\ Template \in Seq(Cells) /\ Len(Template) = 6
    /\ \A s \in Sources : s \in Seq(Cells) /\ Len(s) < PROGRAM_MAX
<1>1. /\ NL \in Cells /\ TAB \in Cells /\ " " \in Cells /\ "-" \in Cells /\ "word" \in Cells
      /\ "{" \in Cells /\ "}" \in Cells /\ "mi" \in Cells /\ "nus" \in Cells /\ "fn" \in Cells
  BY DEF Cells
<1>2. \A c \in Chars : c \in Cells
  BY EditorAssumption DEF Cells
<1>3. ASSUME NEW s \in Sources PROVE s \in Seq(Cells) /\ Len(s) < PROGRAM_MAX
  <2>1. s \in Seq(STRING) /\ Len(s) < PROGRAM_MAX
    BY EditorAssumption
  <2>2. STRING \subseteq Cells
    BY DEF Cells
  <2>3. \A S, T : S \subseteq T /\ s \in Seq(S) => s \in Seq(T)
    OBVIOUS
  <2> QED BY <2>1, <2>2, <2>3
<1>4. MinusWord \in Seq(Cells) /\ MinusWord # <<>>
  BY <1>1, TwoCells DEF MinusWord
<1>5. Template \in Seq(Cells) /\ Len(Template) = 6
  BY <1>1, SixCells DEF Template
<1> QED BY <1>1, <1>2, <1>3, <1>4, <1>5

Texts == {t \in Seq(Cells) : Len(t) < PROGRAM_MAX}

LEMMA TextIs ==
    ASSUME NEW t \in Texts
    PROVE  t \in Seq(Cells) /\ Len(t) \in Nat /\ Len(t) < PROGRAM_MAX /\ \A i \in 1..Len(t) : t[i] \in Cells
  BY DEF Texts

\* The least and the greatest of a set between two numbers are between them.
LEMMA Between ==
    ASSUME NEW lo \in Nat, NEW hi \in Nat, NEW T \in SUBSET (lo..hi), T # {}
    PROVE  /\ Min(T) \in T /\ Min(T) \in lo..hi /\ \A y \in T : Min(T) <= y
           /\ Max(T) \in T /\ Max(T) \in lo..hi /\ \A y \in T : y <= Max(T)
<1>1. T \in SUBSET Nat
  <2>1. \A x \in lo..hi : x \in Nat
    OBVIOUS
  <2> QED BY <2>1
<1>2. Min(T) \in T /\ \A y \in T : Min(T) <= y
  BY <1>1, LeastNat
<1> DEFINE D == {hi - x : x \in T}
<1>3. D \in SUBSET Nat /\ D # {}
  <2>1. \A x \in lo..hi : hi - x \in Nat
    OBVIOUS
  <2>2. \A x \in T : hi - x \in Nat
    BY <2>1
  <2> QED BY <2>2
<1>4. Min(D) \in D /\ \A y \in D : Min(D) <= y
  <2> HIDE DEF D
  <2> QED BY <1>3, LeastNat
<1>5. PICK m \in T : \A y \in T : y <= m
  <2>1. PICK m \in T : Min(D) = hi - m
    BY <1>4
  <2>2. \A y \in T : hi - m <= hi - y
    BY <1>4, <2>1
  <2>3. \A y \in T : y \in Nat /\ y <= hi
    OBVIOUS
  <2> QED BY <2>2, <2>3
<1>6. Max(T) \in T /\ \A y \in T : y <= Max(T)
  BY <1>5 DEF Max
<1> QED BY <1>2, <1>6

LEMMA StartOfLine ==
    ASSUME NEW t \in Texts, NEW place \in 0..Len(t)
    PROVE  LineStart(t, place) \in 0..place
<1> DEFINE T == {0} \cup {i \in 1..place : t[i] = NL}
<1>1. place \in Nat /\ T \in SUBSET (0..place) /\ T # {}
  BY TextIs
<1>2. Max(T) \in 0..place
  <2> HIDE DEF T
  <2> QED BY <1>1, Between
<1> QED BY <1>2 DEF LineStart

LEMMA EndOfLine ==
    ASSUME NEW t \in Texts, NEW place \in 0..Len(t)
    PROVE  LineEnd(t, place) \in place..Len(t)
<1> DEFINE T == {Len(t)} \cup {i - 1 : i \in {j \in place + 1..Len(t) : t[j] = NL}}
<1>1. place \in Nat /\ Len(t) \in Nat /\ T \in SUBSET (place..Len(t)) /\ T # {}
  BY TextIs
<1>2. Min(T) \in place..Len(t)
  <2> HIDE DEF T
  <2> QED BY <1>1, Between
<1> QED BY <1>2 DEF LineEnd

LEMMA LineIsNat ==
    ASSUME NEW t, NEW place \in Nat
    PROVE  LineOf(t, place) \in Nat
<1>1. IsFiniteSet(1..place)
  BY FS_Interval
<1>2. IsFiniteSet({i \in 1..place : t[i] = NL})
  BY <1>1, FS_Subset
<1> QED BY <1>2, FS_CardinalityType DEF LineOf

\* A column of a line is in it.
LEMMA ColumnIn ==
    ASSUME NEW from \in Nat, NEW to \in Nat, from <= to, NEW col \in Nat
    PROVE  AtColumn(from, to, col) \in from..to
<1> DEFINE T == {col, to - from}
<1>1. T \in SUBSET Nat /\ T # {} /\ to - from \in T
  OBVIOUS
<1>2. Min(T) \in Nat /\ Min(T) <= to - from
  <2> HIDE DEF T
  <2> QED BY <1>1, LeastNat
<1> QED BY <1>2 DEF AtColumn

-----------------------------------------------------------------------------
(* The program editor: what each call leaves in the buffer                  *)

Undos == {u \in Texts \X Nat : u[2] <= Len(u[1])}

Buffers == {e \in [text : Texts, cursor : Nat, dirty : BOOLEAN, undo : Undos, can : BOOLEAN,
                   op : {"none", "insert", "delete"}] : e.cursor <= Len(e.text)}

\* Text of e typed over and become f, in one step of UNDO with what e's typing began;
\* no edit goes without the mark, and none leaves the cursor at the start.
Typed(e, f) ==
    /\ f \in Buffers /\ f.op = "insert"
    /\ f.undo = (IF e.op = "insert" THEN e.undo ELSE Here(e))
    /\ f.can = (IF e.op = "insert" THEN e.can ELSE TRUE)
    /\ f.dirty \/ (f.text = e.text /\ f.dirty = e.dirty)
    /\ f.cursor = 0 => Here(f) = Here(e)

LEMMA BufferIs ==
    ASSUME NEW e \in Buffers
    PROVE  /\ e = [text |-> e.text, cursor |-> e.cursor, dirty |-> e.dirty, undo |-> e.undo,
                   can |-> e.can, op |-> e.op]
           /\ e.text \in Texts /\ e.cursor \in 0..Len(e.text) /\ e.dirty \in BOOLEAN
           /\ e.undo \in Undos /\ e.can \in BOOLEAN /\ e.op \in {"none", "insert", "delete"}
           /\ Here(e) \in Undos
<1>1. e.text \in Texts /\ e.cursor \in Nat /\ e.cursor <= Len(e.text)
  BY DEF Buffers
<1>2. Len(e.text) \in Nat
  BY <1>1, TextIs
<1>3. Here(e) \in Undos
  BY <1>1 DEF Here, Undos
<1> QED BY <1>1, <1>2, <1>3 DEF Buffers

LEMMA UndoIs ==
    ASSUME NEW t \in Texts, NEW place \in Nat, place <= Len(t)
    PROVE  <<t, place>> \in Undos
  BY DEF Undos

LEMMA Checkpointed ==
    ASSUME NEW e \in Buffers, NEW op \in {"insert", "delete"}
    PROVE  /\ Checkpoint(e, op) \in Buffers
           /\ Checkpoint(e, op).text = e.text /\ Checkpoint(e, op).cursor = e.cursor
           /\ Checkpoint(e, op).dirty = e.dirty /\ Checkpoint(e, op).op = op
           /\ Checkpoint(e, op).undo = IF e.op = op THEN e.undo ELSE Here(e)
           /\ Checkpoint(e, op).can = IF e.op = op THEN e.can ELSE TRUE
<1>1. CASE e.op = op
  BY <1>1 DEF Checkpoint
<1>2. CASE e.op # op
  <2> DEFINE u == Here(e)
  <2>1. Checkpoint(e, op) = [e EXCEPT !.undo = u, !.can = TRUE, !.op = op]
    BY <1>2 DEF Checkpoint
  <2>2. u \in Undos
    BY BufferIs
  <2> HIDE DEF u
  <2>3. Checkpoint(e, op) = [text |-> e.text, cursor |-> e.cursor, dirty |-> e.dirty, undo |-> u,
                             can |-> TRUE, op |-> op]
    BY <2>1 DEF Buffers
  <2>4. Checkpoint(e, op) \in Buffers
    BY <2>2, <2>3 DEF Buffers
  <2>5. u = Here(e)
    BY DEF u
  <2> QED BY <1>2, <2>3, <2>4, <2>5
<1> QED BY <1>1, <1>2

LEMMA PutIn ==
    ASSUME NEW e \in Buffers, NEW cells \in Seq(Cells), cells # <<>>
    PROVE  /\ Put(e, cells) \in Buffers
           /\ Put(e, cells).op = e.op /\ Put(e, cells).undo = e.undo /\ Put(e, cells).can = e.can
           /\ \/ Put(e, cells) = e /\ Len(e.text) = PROGRAM_MAX - 1
              \/ Put(e, cells).dirty /\ Put(e, cells).cursor > 0
<1> DEFINE t == e.text
           fit == Min({Len(cells), PROGRAM_MAX - 1 - Len(t)})
           n == SubSeq(t, 1, e.cursor) \o SubSeq(cells, 1, fit) \o SubSeq(t, e.cursor + 1, Len(t))
<1>1. /\ t \in Seq(Cells) /\ Len(t) \in Nat /\ Len(t) < PROGRAM_MAX /\ PROGRAM_MAX \in Nat
      /\ e.cursor \in 0..Len(t) /\ Len(cells) \in Nat /\ Len(cells) > 0
  BY BufferIs, TextIs, EditorAssumption, EmptySeq
<1>2. fit \in Nat /\ fit <= Len(cells) /\ fit <= PROGRAM_MAX - 1 - Len(t)
      /\ (fit = 0 => Len(t) = PROGRAM_MAX - 1)
  <2> DEFINE T == {Len(cells), PROGRAM_MAX - 1 - Len(t)}
  <2>1. T \in SUBSET Nat /\ T # {} /\ Len(cells) \in T /\ PROGRAM_MAX - 1 - Len(t) \in T
    BY <1>1
  <2>2. Min(T) \in T /\ \A y \in T : Min(T) <= y
    <3> HIDE DEF T
    <3> QED BY <2>1, LeastNat
  <2>3. fit \in {Len(cells), PROGRAM_MAX - 1 - Len(t)} /\ fit <= Len(cells) /\ fit <= PROGRAM_MAX - 1 - Len(t)
    BY <2>1, <2>2
  <2> HIDE DEF fit, T, t
  <2> QED BY <1>1, <2>3
<1> HIDE DEF fit
<1>3. n \in Seq(Cells) /\ Len(n) = Len(t) + fit
  <2>1. SubSeq(t, 1, e.cursor) \in Seq(Cells) /\ Len(SubSeq(t, 1, e.cursor)) = e.cursor
    BY <1>1, SubSeqProperties
  <2>2. SubSeq(cells, 1, fit) \in Seq(Cells) /\ Len(SubSeq(cells, 1, fit)) = fit
    BY <1>2, SubSeqProperties
  <2>3. SubSeq(t, e.cursor + 1, Len(t)) \in Seq(Cells)
        /\ Len(SubSeq(t, e.cursor + 1, Len(t))) = Len(t) - e.cursor
    BY <1>1, SubSeqProperties
  <2> DEFINE front == SubSeq(t, 1, e.cursor)
             mid == SubSeq(cells, 1, fit)
             back == SubSeq(t, e.cursor + 1, Len(t))
  <2> HIDE DEF t, front, mid, back
  <2>4. front \o mid \in Seq(Cells) /\ Len(front \o mid) = Len(front) + Len(mid)
    BY <2>1, <2>2, ConcatProperties DEF front, mid
  <2> DEFINE most == front \o mid
  <2>5. most \o back \in Seq(Cells) /\ Len(most \o back) = Len(most) + Len(back)
    <3> HIDE DEF most
    <3> QED BY <2>3, <2>4, ConcatProperties DEF most, back
  <2>6. n = most \o back
    BY DEF front, mid, back
  <2>7. Len(front) = e.cursor /\ Len(mid) = fit /\ Len(back) = Len(t) - e.cursor
    BY <2>1, <2>2, <2>3 DEF front, mid, back
  <2> HIDE DEF n
  <2> QED BY <1>1, <1>2, <2>4, <2>5, <2>6, <2>7
<1>4. CASE fit = 0
  <2>1. Put(e, cells) = e
    BY <1>4 DEF Put, fit
  <2> QED BY <1>2, <1>4, <2>1
<1>5. CASE fit # 0
  <2>1. Put(e, cells) = [e EXCEPT !.text = n, !.cursor = e.cursor + fit, !.dirty = TRUE]
    BY <1>5 DEF Put, fit
  <2>2. Put(e, cells) = [text |-> n, cursor |-> e.cursor + fit, dirty |-> TRUE, undo |-> e.undo,
                         can |-> e.can, op |-> e.op]
    <3> HIDE DEF n
    <3> QED BY <2>1, BufferIs
  <2>3. n \in Texts /\ e.cursor + fit \in Nat /\ e.cursor + fit <= Len(n) /\ e.cursor + fit > 0
    <3> HIDE DEF n
    <3> QED BY <1>1, <1>2, <1>3, <1>5 DEF Texts
  <2> HIDE DEF n
  <2> QED BY <2>2, <2>3, BufferIs DEF Buffers
<1> QED BY <1>4, <1>5

LEMMA DeletedBack ==
    ASSUME NEW e \in Buffers, e.cursor # 0
    PROVE  /\ DeleteBack(e) \in Buffers /\ DeleteBack(e).dirty
           /\ Len(DeleteBack(e).text) < PROGRAM_MAX - 1
           /\ DeleteBack(e).op = e.op /\ DeleteBack(e).undo = e.undo /\ DeleteBack(e).can = e.can
<1> DEFINE t == e.text
           n == RemoveAt(t, e.cursor)
<1>1. /\ t \in Seq(Cells) /\ Len(t) \in Nat /\ Len(t) < PROGRAM_MAX /\ e.cursor \in 1..Len(t)
      /\ PROGRAM_MAX \in Nat
  BY BufferIs, TextIs, EditorAssumption
<1>2. n \in Seq(Cells) /\ Len(n) = Len(t) - 1
  <2>1. SubSeq(t, 1, e.cursor - 1) \in Seq(Cells) /\ Len(SubSeq(t, 1, e.cursor - 1)) = e.cursor - 1
    BY <1>1, SubSeqProperties
  <2>2. SubSeq(t, e.cursor + 1, Len(t)) \in Seq(Cells)
        /\ Len(SubSeq(t, e.cursor + 1, Len(t))) = Len(t) - e.cursor
    BY <1>1, SubSeqProperties
  <2>3. n = SubSeq(t, 1, e.cursor - 1) \o SubSeq(t, e.cursor + 1, Len(t))
    BY DEF RemoveAt
  <2> DEFINE front == SubSeq(t, 1, e.cursor - 1)
             back == SubSeq(t, e.cursor + 1, Len(t))
  <2>4. front \o back \in Seq(Cells) /\ Len(front \o back) = Len(front) + Len(back)
    <3> HIDE DEF t, front, back
    <3> QED BY <2>1, <2>2, ConcatProperties DEF front, back
  <2>5. Len(front) = e.cursor - 1 /\ Len(back) = Len(t) - e.cursor /\ n = front \o back
    BY <2>1, <2>2, <2>3
  <2> HIDE DEF t, n, front, back
  <2> QED BY <1>1, <2>4, <2>5
<1>3. DeleteBack(e) = [e EXCEPT !.text = n, !.cursor = e.cursor - 1, !.dirty = TRUE]
  BY DEF DeleteBack
<1> HIDE DEF n
<1>4. DeleteBack(e) = [text |-> n, cursor |-> e.cursor - 1, dirty |-> TRUE, undo |-> e.undo,
                       can |-> e.can, op |-> e.op]
  BY <1>3, BufferIs
<1>5. n \in Texts /\ e.cursor - 1 \in Nat /\ e.cursor - 1 <= Len(n) /\ Len(n) < PROGRAM_MAX - 1
  BY <1>1, <1>2 DEF Texts
<1> QED BY <1>4, <1>5, BufferIs DEF Buffers

LEMMA TypedOn ==
    ASSUME NEW e, NEW f, NEW g, Typed(e, f), Typed(f, g)
    PROVE  Typed(e, g)
<1>1. g.cursor = 0 => Here(g) = Here(e)
  BY DEF Typed, Here
<1>2. g.undo = f.undo /\ g.can = f.can
  BY DEF Typed
<1> QED BY <1>1, <1>2 DEF Typed

LEMMA InsertTypes ==
    ASSUME NEW e \in Buffers, NEW c \in Cells
    PROVE  Typed(e, Insert(e, c))
<1> DEFINE k == Checkpoint(e, "insert")
           outdents == /\ c = "}" /\ k.cursor > 0 /\ k.text[k.cursor] = TAB
                       /\ \A i \in LineStart(k.text, k.cursor) + 1..k.cursor : Blank(k.text[i])
           d == DeleteBack(k)
           from == IF outdents THEN d ELSE k
<1>1. Insert(e, c) = Put(from, <<c>>)
  BY DEF Insert
<1>2. /\ k \in Buffers /\ k.op = "insert" /\ k.undo = (IF e.op = "insert" THEN e.undo ELSE Here(e))
      /\ k.can = (IF e.op = "insert" THEN e.can ELSE TRUE)
      /\ k.text = e.text /\ k.dirty = e.dirty /\ k.cursor = e.cursor
  BY Checkpointed
<1>3. <<c>> \in Seq(Cells) /\ <<c>> # <<>>
  BY OneCell
<1>4. CASE outdents
  <2>1. k.cursor > 0
    BY <1>4
  <2>2. /\ d \in Buffers /\ d.dirty /\ Len(d.text) < PROGRAM_MAX - 1
        /\ d.op = k.op /\ d.undo = k.undo /\ d.can = k.can
    <3> HIDE DEF k
    <3>1. k.cursor # 0
      BY <2>1
    <3> QED BY <1>2, <3>1, DeletedBack
  <2>3. PROGRAM_MAX \in Nat /\ Len(d.text) \in Nat
    <3> HIDE DEF d
    <3> QED BY <2>2, BufferIs, TextIs, EditorAssumption
  <2> DEFINE p == Put(d, <<c>>)
  <2>4. p \in Buffers /\ p.op = d.op /\ p.undo = d.undo /\ p.can = d.can /\ p.dirty /\ p.cursor > 0
    <3>1. p \in Buffers /\ p.op = d.op /\ p.undo = d.undo /\ p.can = d.can
          /\ (Len(d.text) = PROGRAM_MAX - 1 \/ (p.dirty /\ p.cursor > 0))
      <4> HIDE DEF d
      <4> QED BY <1>3, <2>2, PutIn
    <3> HIDE DEF d, p
    <3> QED BY <2>2, <2>3, <3>1
  <2>5. Insert(e, c) = p
    BY <1>1, <1>4
  <2> HIDE DEF k, d, p
  <2>6. p.cursor # 0
    BY <2>4
  <2> QED BY <1>2, <2>2, <2>4, <2>5, <2>6 DEF Typed
<1>5. CASE ~outdents
  <2> DEFINE p == Put(k, <<c>>)
  <2>1. p \in Buffers /\ p.op = k.op /\ p.undo = k.undo /\ p.can = k.can
        /\ (p = k \/ (p.dirty /\ p.cursor > 0))
    <3> HIDE DEF k
    <3> QED BY <1>2, <1>3, PutIn
  <2>2. Insert(e, c) = p
    BY <1>1, <1>5
  <2> HIDE DEF k, p
  <2>3. p.cursor = 0 => p = k
    BY <2>1
  <2>4. Here(k) = Here(e)
    BY <1>2 DEF Here
  <2> QED BY <1>2, <2>1, <2>2, <2>3, <2>4 DEF Typed
<1> QED BY <1>4, <1>5

LEMMA InsertAllTypes ==
    ASSUME NEW e \in Buffers, NEW cells \in Seq(Cells), cells # <<>>
    PROVE  Typed(e, InsertAll(e, cells))
<1> DEFINE k == Checkpoint(e, "insert")
<1>1. /\ k \in Buffers /\ k.op = "insert" /\ k.undo = (IF e.op = "insert" THEN e.undo ELSE Here(e))
      /\ k.can = (IF e.op = "insert" THEN e.can ELSE TRUE)
      /\ k.text = e.text /\ k.dirty = e.dirty /\ k.cursor = e.cursor
  BY Checkpointed
<1>2. InsertAll(e, cells) = Put(k, cells)
  BY DEF InsertAll
<1> HIDE DEF k
<1>3. Put(k, cells) \in Buffers /\ Put(k, cells).op = k.op /\ Put(k, cells).undo = k.undo
      /\ Put(k, cells).can = k.can
      /\ (Put(k, cells) = k \/ (Put(k, cells).dirty /\ Put(k, cells).cursor > 0))
  BY <1>1, PutIn
<1> QED BY <1>1, <1>2, <1>3 DEF Typed, Here

\* The cursor taken elsewhere, which ends a run of typing.
Stepped(e, f) ==
    /\ f \in Buffers /\ f.op = "none"
    /\ f.text = e.text /\ f.dirty = e.dirty /\ f.undo = e.undo /\ f.can = e.can

LEMMA CursorStepped ==
    ASSUME NEW e \in Buffers, NEW place \in 0..Len(e.text), NEW f,
           f = [e EXCEPT !.cursor = place, !.op = "none"]
    PROVE  Stepped(e, f)
<1>1. f = [text |-> e.text, cursor |-> place, dirty |-> e.dirty, undo |-> e.undo, can |-> e.can, op |-> "none"]
  BY DEF Buffers
<1>2. place \in Nat /\ place <= Len(e.text)
  BY BufferIs, TextIs
<1> QED BY <1>1, <1>2, BufferIs DEF Stepped, Buffers

LEMMA MoveSteps ==
    ASSUME NEW e \in Buffers, NEW dx \in Int, NEW dy \in Int, dx = 0 \/ dy = 0
    PROVE  Stepped(e, Move(e, dx, dy))
<1> DEFINE t     == e.text
           start == LineStart(t, e.cursor)
           end   == LineEnd(t, e.cursor)
           col   == e.cursor - start
           up    == AtColumn(LineStart(t, start - 1), start - 1, col)
           down  == AtColumn(end + 1, LineEnd(t, end + 1), col)
<1>1. t \in Texts /\ Len(t) \in Nat /\ e.cursor \in 0..Len(t)
  BY BufferIs, TextIs
<1>2. start \in 0..e.cursor /\ end \in e.cursor..Len(t)
  <2> HIDE DEF t
  <2> QED BY <1>1, StartOfLine, EndOfLine
<1> HIDE DEF start, end
<1>3. start # 0 => up \in 0..Len(t)
  <2> SUFFICES ASSUME start # 0 PROVE up \in 0..Len(t)
    OBVIOUS
  <2>1. start - 1 \in 0..Len(t) /\ col \in Nat
    BY <1>1, <1>2
  <2> DEFINE from == LineStart(t, start - 1)
  <2>2. from \in 0..start - 1
    <3> HIDE DEF t
    <3> QED BY <1>1, <2>1, StartOfLine
  <2>3. from \in Nat /\ start - 1 \in Nat /\ from <= start - 1
    <3> HIDE DEF from
    <3> QED BY <2>1, <2>2
  <2>4. up \in from..start - 1
    <3> HIDE DEF from, col
    <3> QED BY <2>1, <2>3, ColumnIn DEF from
  <2> HIDE DEF from, up
  <2> QED BY <1>1, <2>1, <2>3, <2>4
<1>4. end < Len(t) => down \in 0..Len(t)
  <2> SUFFICES ASSUME end < Len(t) PROVE down \in 0..Len(t)
    OBVIOUS
  <2>1. end + 1 \in 0..Len(t) /\ end + 1 \in Nat /\ col \in Nat
    BY <1>1, <1>2
  <2> DEFINE to == LineEnd(t, end + 1)
  <2>2. to \in end + 1..Len(t)
    <3> HIDE DEF t
    <3> QED BY <1>1, <2>1, EndOfLine
  <2>3. to \in Nat /\ end + 1 <= to /\ to <= Len(t)
    <3> HIDE DEF to
    <3> QED BY <1>1, <2>1, <2>2
  <2>4. down \in end + 1..to
    <3> HIDE DEF to, col
    <3> QED BY <2>1, <2>3, ColumnIn DEF to
  <2> HIDE DEF to, down
  <2> QED BY <1>1, <2>1, <2>3, <2>4
<1>5. Moved(e, dx, dy) \in 0..Len(t)
  <2>1. CASE dx < 0
    <3>1. Moved(e, dx, dy) = IF e.cursor > 0 THEN e.cursor - 1 ELSE e.cursor
      BY <2>1 DEF Moved
    <3> HIDE DEF t
    <3> QED BY <1>1, <3>1
  <2>2. CASE ~(dx < 0) /\ dx > 0
    <3>1. Moved(e, dx, dy) = IF e.cursor < Len(t) THEN e.cursor + 1 ELSE e.cursor
      BY <2>2 DEF Moved
    <3> HIDE DEF t
    <3> QED BY <1>1, <3>1
  <2>3. CASE ~(dx < 0) /\ ~(dx > 0) /\ dy < 0
    <3> HIDE DEF up
    <3> QED BY <1>1, <1>3, <2>3 DEF Moved, start, up
  <2>4. CASE ~(dx < 0) /\ ~(dx > 0) /\ ~(dy < 0)
    <3> HIDE DEF down
    <3> QED BY <1>1, <1>2, <1>4, <2>4 DEF Moved, end, start, down
  <2> QED BY <2>1, <2>2, <2>3, <2>4
<1> QED BY <1>5, CursorStepped DEF Move

LEMMA GotoSteps ==
    ASSUME NEW e \in Buffers, NEW row
    PROVE  Stepped(e, Goto(e, row))
<1> DEFINE t == e.text
           starts == {i \in 0..Len(t) : LineStart(t, i) = i /\ LineOf(t, i) = row}
           from == IF starts = {} THEN Len(t) ELSE Min(starts)
           stops == {Len(t)} \cup {i \in from..Len(t) - 1 : ~Blank(t[i + 1])}
<1>1. Len(t) \in Nat
  BY BufferIs, TextIs
<1>2. from \in 0..Len(t)
  <2>1. starts \in SUBSET (0..Len(t)) /\ 0 \in Nat
    OBVIOUS
  <2>2. starts # {} => Min(starts) \in 0..Len(t)
    <3> HIDE DEF starts, t
    <3> QED BY <1>1, <2>1, Between
  <2> HIDE DEF starts, t
  <2> QED BY <1>1, <2>2
<1> HIDE DEF from
<1>3. stops \in SUBSET (0..Len(t)) /\ stops # {} /\ 0 \in Nat
  BY <1>1, <1>2
<1>4. Min(stops) \in 0..Len(t)
  <2> HIDE DEF stops, t
  <2> QED BY <1>1, <1>3, Between
<1>5. Goto(e, row) = [e EXCEPT !.cursor = Min(stops), !.op = "none"]
  BY DEF Goto, from
<1> HIDE DEF stops
<1> QED BY <1>4, <1>5, CursorStepped

LEMMA BackspaceKeeps ==
    ASSUME NEW e \in Buffers
    PROVE  /\ Backspace(e) \in Buffers
           /\ Backspace(e) = e \/ (Backspace(e).op = "delete" /\ Backspace(e).dirty /\ e.cursor # 0)
           /\ e.cursor # 0 =>
                /\ Backspace(e).op = "delete" /\ Backspace(e).dirty
                /\ Backspace(e).undo = IF e.op = "delete" THEN e.undo ELSE Here(e)
                /\ Backspace(e).can = IF e.op = "delete" THEN e.can ELSE TRUE
<1>1. CASE e.cursor = 0
  BY <1>1 DEF Backspace
<1>2. CASE e.cursor # 0
  <2> DEFINE k == Checkpoint(e, "delete")
  <2>1. /\ k \in Buffers /\ k.op = "delete" /\ k.undo = (IF e.op = "delete" THEN e.undo ELSE Here(e))
        /\ k.can = (IF e.op = "delete" THEN e.can ELSE TRUE) /\ k.cursor = e.cursor
    BY Checkpointed
  <2>2. Backspace(e) = DeleteBack(k)
    BY <1>2 DEF Backspace
  <2> HIDE DEF k
  <2> QED BY <1>2, <2>1, <2>2, DeletedBack
<1> QED BY <1>1, <1>2

\* What the minus key typed taken back is a buffer like any other: the same one, with the
\* cursor at its start, or one that a deletion left.
LEMMA MinusBack ==
    ASSUME NEW e \in Buffers
    PROVE  /\ MinusTakenBack(e) \in Buffers
           /\ \/ MinusTakenBack(e) = e /\ e.cursor = 0
              \/ MinusTakenBack(e).op = "delete" /\ MinusTakenBack(e).dirty
<1>1. ASSUME NEW x \in Buffers, x.op = "delete", x.dirty
      PROVE  Backspace(x) \in Buffers /\ Backspace(x).op = "delete" /\ Backspace(x).dirty
  <2>1. Backspace(x) \in Buffers /\ (Backspace(x) = x \/ (Backspace(x).op = "delete" /\ Backspace(x).dirty))
    BY BackspaceKeeps
  <2> QED BY <1>1, <2>1
<1>2. CASE e.cursor = 0
  BY <1>2 DEF Backspace, MinusTakenBack
<1>3. CASE e.cursor # 0
  <2>1. Backspace(e) \in Buffers /\ Backspace(e).op = "delete" /\ Backspace(e).dirty
    BY <1>3, BackspaceKeeps
  <2> DEFINE a == Backspace(e)
             b == Backspace(a)
  <2>2. b \in Buffers /\ b.op = "delete" /\ b.dirty
    <3> HIDE DEF a
    <3> QED BY <1>1, <2>1 DEF a
  <2>3. Backspace(b) \in Buffers /\ Backspace(b).op = "delete" /\ Backspace(b).dirty
    <3> HIDE DEF b
    <3> QED BY <1>1, <2>2
  <2> QED BY <2>3 DEF MinusTakenBack
<1> QED BY <1>2, <1>3

\* What a key that types leaves: as Typed, but it may end the run of typing.
Keyed(e, f) ==
    /\ f \in Buffers /\ f.op \in {"insert", "none"}
    /\ f.undo = (IF e.op = "insert" THEN e.undo ELSE Here(e))
    /\ f.can = (IF e.op = "insert" THEN e.can ELSE TRUE)
    /\ f.dirty \/ (f.text = e.text /\ f.dirty = e.dirty)
    /\ f.op = "insert" /\ f.cursor = 0 => Here(f) = Here(e)

LEMMA WordKeyed ==
    ASSUME NEW e \in Buffers, NEW word \in Seq(Cells), word # <<>>
    PROVE  Keyed(e, InsertWord(e, word))
<1> DEFINE cells == (IF StartsToken(e) THEN <<>> ELSE <<" ">>) \o word
           typed == InsertAll(e, cells)
<1>1. cells \in Seq(Cells) /\ cells # <<>>
  <2> DEFINE gap == IF StartsToken(e) THEN <<>> ELSE <<" ">>
  <2>1. gap \in Seq(Cells)
    <3>1. <<>> \in Seq(Cells) /\ <<" ">> \in Seq(Cells)
      BY CellsAre, OneCell, EmptySeq
    <3> QED BY <3>1
  <2>2. Len(word) \in Nat \ {0} /\ Len(gap) \in Nat
    BY <2>1, EmptySeq
  <2> HIDE DEF gap
  <2>3. gap \o word \in Seq(Cells) /\ Len(gap \o word) = Len(gap) + Len(word)
    BY <2>1, ConcatProperties
  <2>4. Len(gap \o word) # 0
    BY <2>2, <2>3
  <2>5. gap \o word # <<>>
    BY <2>4, EmptySeq
  <2> QED BY <2>3, <2>5 DEF gap
<1> HIDE DEF cells
<1>2. Typed(e, typed)
  BY <1>1, InsertAllTypes
<1>3. InsertWord(e, word) = IF SpaceAfter(typed) THEN Move(typed, 1, 0) ELSE Insert(typed, " ")
  BY DEF InsertWord, cells
<1> HIDE DEF typed
<1>4. typed \in Buffers
  BY <1>2 DEF Typed
<1>5. Stepped(typed, Move(typed, 1, 0))
  BY <1>4, MoveSteps
<1>6. Typed(e, Insert(typed, " "))
  <2>1. Typed(typed, Insert(typed, " "))
    BY <1>4, CellsAre, InsertTypes
  <2> QED BY <1>2, <2>1, TypedOn
<1>7. CASE SpaceAfter(typed)
  <2> DEFINE f == Move(typed, 1, 0)
  <2>1. InsertWord(e, word) = f
    BY <1>3, <1>7
  <2> HIDE DEF f
  <2> QED BY <1>2, <1>5, <2>1 DEF f, Typed, Stepped, Keyed
<1>8. CASE ~SpaceAfter(typed)
  <2> DEFINE f == Insert(typed, " ")
  <2>1. InsertWord(e, word) = f
    BY <1>3, <1>8
  <2>2. Typed(e, f)
    BY <1>6
  <2> HIDE DEF f
  <2> QED BY <2>1, <2>2 DEF Typed, Keyed
<1> QED BY <1>7, <1>8

LEMMA NewlineTypes ==
    ASSUME NEW e \in Buffers
    PROVE  /\ Newline(e) \in Buffers /\ Newline(e).op = "insert"
           /\ Newline(e).undo = Here(e) /\ Newline(e).can = TRUE
           /\ Newline(e).dirty \/ (Newline(e).text = e.text /\ Newline(e).dirty = e.dirty)
           /\ Newline(e).cursor = 0 => Here(Newline(e)) = Here(e)
<1> DEFINE start  == LineStart(e.text, e.cursor)
           row    == SubSeq(e.text, start + 1, e.cursor)
           solid  == {i \in DOMAIN row : ~Blank(row[i])}
           m      == IF solid = {} THEN Len(row) ELSE Min(solid) - 1
           opens  == solid # {} /\ row[Max(solid)] = "{"
           deeper == IF opens THEN <<TAB>> ELSE <<>>
           cells  == <<NL>> \o SubSeq(row, 1, m) \o deeper
           n      == [e EXCEPT !.op = "none"]
           k      == Checkpoint(n, "insert")
<1>1. e.text \in Seq(Cells) /\ e.cursor \in 0..Len(e.text) /\ start \in 0..e.cursor
  BY BufferIs, TextIs, StartOfLine
<1>2. row \in Seq(Cells)
  <2> HIDE DEF start
  <2> QED BY <1>1, SubSeqProperties
<1>3. SubSeq(row, 1, m) \in Seq(Cells)
  <2> HIDE DEF row
  <2>1. Len(row) \in Nat /\ solid \in SUBSET (1..Len(row))
    BY <1>2
  <2>2. solid # {} => Min(solid) \in 1..Len(row)
    <3> HIDE DEF solid
    <3> QED BY <2>1, Between
  <2>3. m \in 0..Len(row)
    <3> HIDE DEF solid
    <3> QED BY <2>1, <2>2
  <2> HIDE DEF m
  <2>4. 1 \in Int /\ m \in Int /\ \A i \in 1..m : row[i] \in Cells
    BY <1>2, <2>1, <2>3
  <2> QED BY <1>2, <2>4, SubSeqProperties
<1>4. cells \in Seq(Cells) /\ cells # <<>>
  <2> DEFINE indent == SubSeq(row, 1, m)
  <2>1. deeper \in Seq(Cells) /\ <<NL>> \in Seq(Cells) /\ indent \in Seq(Cells)
    BY <1>3, CellsAre, OneCell, EmptySeq
  <2> HIDE DEF deeper, indent
  <2>2. <<NL>> \o indent \in Seq(Cells) /\ Len(<<NL>> \o indent) = 1 + Len(indent)
    BY <2>1, ConcatProperties
  <2> DEFINE first == <<NL>> \o indent
  <2>3. first \o deeper \in Seq(Cells) /\ Len(first \o deeper) = Len(first) + Len(deeper)
    <3> HIDE DEF first
    <3> QED BY <2>1, <2>2, ConcatProperties DEF first
  <2>4. Len(first \o deeper) # 0
    BY <2>1, <2>2, <2>3
  <2>5. first \o deeper # <<>>
    BY <2>4, EmptySeq
  <2> QED BY <2>3, <2>5 DEF indent
<1> HIDE DEF cells
<1>5. n \in Buffers /\ n.op = "none" /\ Here(n) = Here(e) /\ n.text = e.text /\ n.dirty = e.dirty
      /\ n.cursor = e.cursor
  <2>1. n = [text |-> e.text, cursor |-> e.cursor, dirty |-> e.dirty, undo |-> e.undo,
             can |-> e.can, op |-> "none"]
    BY DEF Buffers
  <2> HIDE DEF n
  <2> QED BY <2>1 DEF Buffers, Here
<1> HIDE DEF n
<1>6. /\ k \in Buffers /\ k.op = "insert" /\ k.undo = Here(e) /\ k.can = TRUE
      /\ k.text = e.text /\ k.dirty = e.dirty /\ k.cursor = e.cursor
  BY <1>5, Checkpointed
<1>7. Newline(e) = Put(k, cells)
  BY DEF Newline, cells, n
<1> HIDE DEF k
<1> DEFINE f == Put(k, cells)
<1>8. f \in Buffers /\ f.op = k.op /\ f.undo = k.undo /\ f.can = k.can
      /\ (f = k \/ (f.dirty /\ f.cursor > 0))
  BY <1>4, <1>6, PutIn
<1>9. Newline(e) = f
  BY <1>7
<1> HIDE DEF f
<1>10. f.cursor = 0 => f = k
  BY <1>8
<1>11. Here(k) = Here(e)
  BY <1>6 DEF Here
<1> QED BY <1>6, <1>8, <1>9, <1>10, <1>11

LEMMA UndoSwaps ==
    ASSUME NEW e \in Buffers, e.can
    PROVE  Undo(e) \in Buffers /\ Undo(e).undo = Here(e) /\ Undo(e).op = "none" /\ Undo(e).dirty
<1> DEFINE u == Here(e)
<1>1. u \in Undos /\ e.undo \in Undos
  BY BufferIs
<1>2. Undo(e) = [e EXCEPT !.text = e.undo[1], !.cursor = e.undo[2], !.undo = u, !.op = "none", !.dirty = TRUE]
  BY DEF Undo
<1> HIDE DEF u
<1>3. Undo(e) = [text |-> e.undo[1], cursor |-> e.undo[2], dirty |-> TRUE, undo |-> u,
                 can |-> e.can, op |-> "none"]
  BY <1>2 DEF Buffers
<1>4. Undo(e) \in Buffers
  BY <1>1, <1>3 DEF Buffers, Undos
<1> QED BY <1>3, <1>4 DEF u

LEMMA OpenedFresh ==
    ASSUME NEW source \in Sources \cup {NoText}
    PROVE  Open(source) \in Buffers /\ Open(source).op = "none" /\ ~Open(source).can /\ ~Open(source).dirty
<1> DEFINE t == IF source = NoText THEN Template ELSE source
           c == IF source = NoText THEN Len(Template) - 2 ELSE 0
<1>1. Open(source) = [text |-> t, cursor |-> c, dirty |-> FALSE, undo |-> <<<<>>, 0>>, can |-> FALSE, op |-> "none"]
  BY DEF Open
<1>2. Template \in Seq(Cells) /\ Len(Template) = 6
  BY CellsAre
<1>3. t \in Texts /\ c \in Nat /\ c <= Len(t)
  <2>1. CASE source = NoText
    <3>1. t = Template /\ c = Len(Template) - 2
      BY <2>1
    <3>2. Template \in Texts /\ Len(Template) - 2 \in Nat /\ Len(Template) - 2 <= Len(Template)
      <4>1. Len(Template) < PROGRAM_MAX
        BY EditorAssumption
      <4>2. Template \in Texts
        BY <1>2, <4>1, Zenon DEF Texts
      <4>3. Len(Template) - 2 = 4 /\ Len(Template) - 2 <= Len(Template)
        BY <1>2
      <4> QED BY <4>2, <4>3
    <3> HIDE DEF t, c
    <3> QED BY <3>1, <3>2
  <2>2. CASE source # NoText
    <3>1. t = source /\ c = 0 /\ source \in Sources
      BY <2>2
    <3>2. source \in Seq(Cells) /\ Len(source) < PROGRAM_MAX
      BY <3>1, CellsAre, Zenon
    <3>3. Len(source) \in Nat
      BY <3>2
    <3> HIDE DEF t, c
    <3> QED BY <3>1, <3>2, <3>3 DEF Texts
  <2> QED BY <2>1, <2>2
<1> HIDE DEF t, c
<1>4. <<<<>>, 0>> \in Undos
  <2>1. <<>> \in Seq(Cells) /\ Len(<<>>) = 0 /\ 0 < PROGRAM_MAX
    BY EditorAssumption, EmptySeq
  <2>2. <<>> \in Texts /\ 0 <= Len(<<>>)
    BY <2>1 DEF Texts
  <2> QED BY <2>2, UndoIs
<1> QED BY <1>1, <1>3, <1>4 DEF Buffers

-----------------------------------------------------------------------------
(* The program editor: what every key keeps                                 *)

EditorInv ==
    /\ ed \in Buffers /\ (ed.op = "insert" /\ ed.cursor = 0 => ed.undo = Here(ed))
    /\ top \in Nat /\ LineOf(ed.text, ed.cursor) \in top..top + EDIT_ROWS - 1
    /\ run = ed.op
    /\ ed.can /\ clean => ed.undo = base
    /\ ~ed.dirty => ed.text = opened

\* A pane brought to the cursor's line shows it.
LEMMA Scrolled ==
    ASSUME NEW e \in Buffers, top \in Nat, ScrollIntoView(e)
    PROVE  top' \in Nat /\ LineOf(e.text, e.cursor) \in top'..top' + EDIT_ROWS - 1
<1>1. LineOf(e.text, e.cursor) \in Nat
  BY LineIsNat DEF Buffers
<1>2. EDIT_ROWS \in Nat \ {0}
  BY EditorAssumption
<1> DEFINE row == LineOf(e.text, e.cursor)
<1>3. top' = IF row < top THEN row ELSE IF row >= top + EDIT_ROWS THEN row - (EDIT_ROWS - 1) ELSE top
  BY DEF ScrollIntoView
<1> HIDE DEF row
<1>4. row \in Nat
  BY <1>1 DEF row
<1>5. top' \in Nat /\ row \in top'..top' + EDIT_ROWS - 1
  BY <1>2, <1>3, <1>4
<1> QED BY <1>5 DEF row

\* A key that shows what it made of the buffer keeps the invariant, if the rest of it does.
LEMMA ShownKeeps ==
    ASSUME EditorInv, NEW f \in Buffers, Shows(f),
           f.op = "insert" /\ f.cursor = 0 => f.undo = Here(f),
           run' = f.op, f.can /\ clean' => f.undo = base', ~f.dirty => f.text = opened'
    PROVE  EditorInv'
<1>1. ed' = f
  BY DEF Shows
<1>2. top' \in Nat /\ LineOf(f.text, f.cursor) \in top'..top' + EDIT_ROWS - 1
  BY Scrolled DEF Shows, EditorInv
<1>3. Here(ed)' = Here(f) /\ LineOf(ed.text, ed.cursor)' = LineOf(f.text, f.cursor)
  BY <1>1 DEF Here, LineOf
<1> QED BY <1>1, <1>2, <1>3 DEF EditorInv

LEMMA TypingKeeps ==
    ASSUME EditorInv, NEW f, Keyed(ed, f), Shows(f), RunOf("insert", f), UNCHANGED <<clean, opened>>
    PROVE  EditorInv'
<1>1. f \in Buffers /\ f.op \in {"insert", "none"}
  BY DEF Keyed
<1>2. run' = f.op /\ base' = IF ed.op = "insert" THEN base ELSE Here(ed)
  BY <1>1 DEF RunOf, EditorInv
<1>3. f.op = "insert" /\ f.cursor = 0 => f.undo = Here(f)
  <2> SUFFICES ASSUME f.op = "insert", f.cursor = 0 PROVE f.undo = Here(f)
    OBVIOUS
  <2>1. Here(f) = Here(ed) /\ f.undo = (IF ed.op = "insert" THEN ed.undo ELSE Here(ed))
    BY DEF Keyed
  <2>2. ed.cursor = 0
    BY <2>1 DEF Here
  <2> QED BY <2>1, <2>2 DEF EditorInv
<1>4. f.can /\ clean' => f.undo = base'
  BY <1>2 DEF Keyed, EditorInv
<1>5. ~f.dirty => f.text = opened'
  BY DEF Keyed, EditorInv
<1> QED BY <1>1, <1>2, <1>3, <1>4, <1>5, ShownKeeps

LEMMA SteppingKeeps ==
    ASSUME EditorInv, NEW f, Stepped(ed, f), Shows(f), run' = "none", UNCHANGED <<base, clean, opened>>
    PROVE  EditorInv'
  BY ShownKeeps DEF Stepped, EditorInv

LEMMA Keyable ==
    ASSUME NEW e, NEW f, Typed(e, f)
    PROVE  Keyed(e, f)
  BY DEF Typed, Keyed

LEMMA OpeningKeeps ==
    ASSUME NEW source \in Sources \cup {NoText}, Opened(source)
    PROVE  EditorInv'
<1> DEFINE o == Open(source)
           row == LineOf(o.text, o.cursor)
<1>1. o \in Buffers /\ o.op = "none" /\ ~o.can /\ ~o.dirty
  BY OpenedFresh
<1>2. ed' = o /\ opened' = o.text /\ run' = "none"
      /\ top' = IF row >= EDIT_ROWS THEN row - (EDIT_ROWS - 1) ELSE 0
  BY DEF Opened
<1>3. row \in Nat /\ EDIT_ROWS \in Nat \ {0}
  BY <1>1, LineIsNat, EditorAssumption DEF Buffers
<1>4. LineOf(ed.text, ed.cursor)' = row
  BY <1>2 DEF LineOf
<1> HIDE DEF o, row
<1>5. top' \in Nat /\ row \in top'..top' + EDIT_ROWS - 1
  BY <1>2, <1>3
<1> QED BY <1>1, <1>2, <1>4, <1>5 DEF EditorInv

\* The buffer itself left alone, saved perhaps, with the pane brought to its cursor or
\* left where it is.
LEMMA SavedKeeps ==
    ASSUME EditorInv,
           \/ \E done \in BOOLEAN : Saves(done)
           \/ UNCHANGED <<ed, opened>>,
           ScrollIntoView(ed) \/ UNCHANGED top,
           UNCHANGED <<base, run, clean>>
    PROVE  EditorInv'
<1>1. ed \in Buffers
  BY DEF EditorInv
<1>2. \/ UNCHANGED <<ed, opened>>
      \/ ed' = [ed EXCEPT !.dirty = FALSE] /\ opened' = ed.text
  BY DEF Saves
<1>3. /\ ed' \in Buffers /\ ed'.text = ed.text /\ ed'.cursor = ed.cursor /\ ed'.op = ed.op
      /\ ed'.undo = ed.undo /\ ed'.can = ed.can
      /\ \/ UNCHANGED <<ed, opened>>
         \/ opened' = ed.text
  <2>1. CASE UNCHANGED <<ed, opened>>
    BY <1>1, <2>1
  <2>2. CASE ed' = [ed EXCEPT !.dirty = FALSE] /\ opened' = ed.text
    <3>1. ed' = [text |-> ed.text, cursor |-> ed.cursor, dirty |-> FALSE, undo |-> ed.undo,
                 can |-> ed.can, op |-> ed.op]
      BY <1>1, <2>2 DEF Buffers
    <3> QED BY <1>1, <2>2, <3>1 DEF Buffers
  <2> QED BY <1>2, <2>1, <2>2
<1>4. top' \in Nat /\ LineOf(ed.text, ed.cursor) \in top'..top' + EDIT_ROWS - 1
  <2>1. CASE ScrollIntoView(ed)
    BY <1>1, <2>1, Scrolled DEF EditorInv
  <2>2. CASE UNCHANGED top
    BY <2>2 DEF EditorInv
  <2> QED BY <2>1, <2>2
<1>5. Here(ed)' = Here(ed) /\ LineOf(ed.text, ed.cursor)' = LineOf(ed.text, ed.cursor)
  BY <1>3 DEF Here, LineOf
<1> QED BY <1>3, <1>4, <1>5 DEF EditorInv

\* Typing keys: characters, words, operators, and what the minus key types.
LEMMA TypingStep ==
    ASSUME EditorInv,
           \/ \E c \in Chars : TypeChar(c)
           \/ TypeWord(<<"word">>) \/ MinusKey \/ LiteralMinus
    PROVE  EditorInv'
<1>0. ed \in Buffers
  BY DEF EditorInv
<1>1. ASSUME NEW c \in Chars, TypeChar(c) PROVE EditorInv'
  <2> DEFINE f == Insert(ed, c)
  <2>1. Keyed(ed, f)
    BY <1>0, CellsAre, InsertTypes, Keyable
  <2>2. Shows(f) /\ RunOf("insert", ed') /\ UNCHANGED <<clean, opened>>
    BY <1>1 DEF TypeChar, Kept
  <2> HIDE DEF f
  <2> QED BY <2>1, <2>2, TypingKeeps DEF Shows, RunOf
<1>2. CASE TypeWord(<<"word">>)
  <2> DEFINE f == InsertWord(ed, <<"word">>)
  <2>0. <<"word">> \in Seq(Cells) /\ <<"word">> # <<>>
    BY CellsAre, OneCell
  <2>1. Keyed(ed, f)
    BY <1>0, <2>0, WordKeyed
  <2>2. Shows(f) /\ RunOf("insert", ed') /\ UNCHANGED <<clean, opened>>
    BY <1>2 DEF TypeWord, Kept
  <2> HIDE DEF f
  <2> QED BY <2>1, <2>2, TypingKeeps DEF Shows, RunOf
<1>3. CASE MinusKey
  <2> DEFINE f == InsertWord(ed, MinusWord)
  <2>1. Keyed(ed, f)
    BY <1>0, CellsAre, WordKeyed
  <2>2. Shows(f) /\ RunOf("insert", ed') /\ UNCHANGED <<clean, opened>>
    BY <1>3 DEF MinusKey, Kept
  <2> HIDE DEF f
  <2> QED BY <2>1, <2>2, TypingKeeps DEF Shows, RunOf
<1>4. CASE LiteralMinus
  <2> DEFINE f == Insert(ed, "-")
  <2>1. Keyed(ed, f)
    BY <1>0, CellsAre, InsertTypes, Keyable
  <2>2. Shows(f) /\ RunOf("insert", ed') /\ UNCHANGED <<clean, opened>>
    BY <1>4 DEF LiteralMinus, TypeOperator, Kept
  <2> HIDE DEF f
  <2> QED BY <2>1, <2>2, TypingKeeps DEF Shows, RunOf
<1> QED BY <1>1, <1>2, <1>3, <1>4

\* A digit after the minus key: what is taken back is what that key typed, where the sign
\* is clean, and UNDO then goes back to what was there before it.
LEMMA SignStep ==
    ASSUME EditorInv, NEW c \in Chars, Signs(c)
    PROVE  EditorInv'
<1> DEFINE b == MinusTakenBack(ed)
           f == InsertAll(b, <<"-", c>>)
<1>1. ed \in Buffers
  BY DEF EditorInv
<1>2. /\ b \in Buffers
      /\ \/ b = ed /\ ed.cursor = 0
         \/ b.op = "delete" /\ b.dirty
  BY <1>1, MinusBack
<1>3. <<"-", c>> \in Seq(Cells) /\ <<"-", c>> # <<>>
  BY CellsAre, TwoCells
<1>4. /\ Shows(f) /\ base' = before /\ run' = "insert" /\ UNCHANGED opened
      /\ clean' = (clean /\ Here(b) = before)
  BY DEF Signs, Signed, Kept
<1>5. Typed(b, f)
  <2> HIDE DEF b
  <2> QED BY <1>2, <1>3, InsertAllTypes
<1> HIDE DEF b, f
<1>6. b.op = "insert" => b = ed /\ ed.cursor = 0
  BY <1>2
<1>7. f \in Buffers /\ f.op = "insert" /\ f.undo = Here(b)
  BY <1>5, <1>6 DEF Typed, EditorInv
<1>8. f.cursor = 0 => f.undo = Here(f)
  BY <1>5, <1>7 DEF Typed
<1>9. ~f.dirty => f.text = opened'
  BY <1>2, <1>4, <1>5 DEF Typed, EditorInv
<1>10. f.can /\ clean' => f.undo = base'
  BY <1>4, <1>7
<1> QED BY <1>4, <1>7, <1>8, <1>9, <1>10, ShownKeeps

LEMMA ErasingStep ==
    ASSUME EditorInv, Erase
    PROVE  EditorInv'
<1> DEFINE f == Backspace(ed)
<1>1. ed \in Buffers
  BY DEF EditorInv
<1>2. CASE ed.cursor = 0
  <2>1. Shows(ed) /\ UNCHANGED <<base, run, clean, opened>>
    BY <1>2 DEF Erase, Kept, Backspace
  <2> QED BY <1>1, <2>1, ShownKeeps DEF EditorInv
<1>3. CASE ed.cursor # 0
  <2>1. /\ f \in Buffers /\ f.op = "delete" /\ f.dirty
        /\ f.undo = IF ed.op = "delete" THEN ed.undo ELSE Here(ed)
        /\ f.can = IF ed.op = "delete" THEN ed.can ELSE TRUE
    BY <1>1, <1>3, BackspaceKeeps
  <2>2. Shows(f) /\ RunOf("delete", ed') /\ UNCHANGED <<clean, opened>>
    BY <1>3 DEF Erase, Kept
  <2> HIDE DEF f
  <2>3. ed' = f
    BY <2>2 DEF Shows
  <2>4. run' = "delete" /\ base' = IF ed.op = "delete" THEN base ELSE Here(ed)
    BY <2>1, <2>2, <2>3 DEF RunOf, EditorInv
  <2>5. f.can /\ clean' => f.undo = base'
    BY <2>1, <2>2, <2>4 DEF EditorInv
  <2> QED BY <2>1, <2>2, <2>4, <2>5, ShownKeeps
<1> QED BY <1>2, <1>3

LEMMA EnterStep ==
    ASSUME EditorInv, Enter
    PROVE  EditorInv'
<1> DEFINE f == Newline(ed)
<1>1. ed \in Buffers
  BY DEF EditorInv
<1>2. /\ f \in Buffers /\ f.op = "insert" /\ f.undo = Here(ed) /\ f.can = TRUE
      /\ f.dirty \/ (f.text = ed.text /\ f.dirty = ed.dirty)
      /\ f.cursor = 0 => Here(f) = Here(ed)
  BY <1>1, NewlineTypes
<1>3. Shows(f) /\ base' = Here(ed) /\ run' = "insert" /\ UNCHANGED <<clean, opened>>
  BY DEF Enter, Kept
<1> HIDE DEF f
<1>4. f.op = "insert" /\ f.cursor = 0 => f.undo = Here(f)
  BY <1>2
<1>5. ~f.dirty => f.text = opened'
  BY <1>2, <1>3 DEF EditorInv
<1>6. f.can /\ clean' => f.undo = base'
  BY <1>2, <1>3
<1> QED BY <1>2, <1>3, <1>4, <1>5, <1>6, ShownKeeps

LEMMA UndoStep ==
    ASSUME EditorInv, UndoKey
    PROVE  EditorInv'
<1> DEFINE f == Undo(ed)
<1>1. ed \in Buffers
  BY DEF EditorInv
<1>2. CASE ed.can
  <2>1. f \in Buffers /\ f.undo = Here(ed) /\ f.op = "none" /\ f.dirty
    BY <1>1, <1>2, UndoSwaps
  <2>2. Shows(f) /\ base' = Here(ed) /\ run' = "none" /\ UNCHANGED <<clean, opened>>
    BY <1>2 DEF UndoKey, Kept
  <2> HIDE DEF f
  <2> QED BY <2>1, <2>2, ShownKeeps
<1>3. CASE ~ed.can
  <2>1. Shows(ed) /\ UNCHANGED <<base, run, clean, opened>>
    BY <1>3 DEF UndoKey, Kept, Undo
  <2> QED BY <1>1, <2>1, ShownKeeps DEF EditorInv
<1> QED BY <1>2, <1>3

LEMMA MovingStep ==
    ASSUME EditorInv, Check \/ \E d \in {-1, 1} : Moves(d, 0) \/ Moves(0, d)
    PROVE  EditorInv'
<1>1. ed \in Buffers
  BY DEF EditorInv
<1>2. ASSUME NEW d \in {-1, 1}, Moves(d, 0) \/ Moves(0, d)
      PROVE  EditorInv'
  <2>1. PICK dx \in Int, dy \in Int : (dx = 0 \/ dy = 0) /\ Moves(dx, dy)
    BY <1>2
  <2> DEFINE f == Move(ed, dx, dy)
  <2>2. Stepped(ed, f)
    BY <1>1, <2>1, MoveSteps
  <2>3. Shows(f) /\ run' = "none" /\ UNCHANGED <<base, clean, opened>>
    BY <2>1 DEF Moves, Kept
  <2> HIDE DEF f
  <2> QED BY <2>2, <2>3, SteppingKeeps
<1>3. CASE Check
  <2>1. CASE Shows(ed) /\ UNCHANGED run
    <3>1. UNCHANGED <<base, clean, opened>>
      BY <1>3 DEF Check, Kept
    <3> QED BY <1>1, <2>1, <3>1, ShownKeeps DEF EditorInv
  <2>2. CASE \E row : Shows(Goto(ed, row)) /\ run' = "none"
    <3>1. PICK row : Shows(Goto(ed, row)) /\ run' = "none"
      BY <2>2
    <3>2. UNCHANGED <<base, clean, opened>>
      BY <1>3 DEF Check, Kept
    <3> DEFINE f == Goto(ed, row)
    <3>3. Stepped(ed, f) /\ Shows(f)
      BY <1>1, <3>1, GotoSteps
    <3> HIDE DEF f
    <3> QED BY <3>1, <3>2, <3>3, SteppingKeeps
  <2> QED BY <1>3, <2>1, <2>2 DEF Check
<1> QED BY <1>2, <1>3

LEMMA CardStep ==
    ASSUME EditorInv, Save \/ Run \/ Esc \/ PageOver \/ Return \/ Edit
    PROVE  EditorInv'
<1>1. CASE Save
  BY <1>1, SavedKeeps DEF Save
<1>2. CASE Run
  <2>1. CASE Saves(FALSE) /\ ScrollIntoView(ed) /\ UNCHANGED <<base, run, clean>>
    BY <2>1, SavedKeeps
  <2>2. CASE /\ Saves(TRUE) \/ UNCHANGED <<ed, opened>>
             /\ ScrollIntoView(ed) \/ UNCHANGED top
             /\ UNCHANGED <<base, run, clean>>
    BY <2>2, SavedKeeps
  <2>3. CASE \E source \in Sources : Opened(source)
    BY <2>3, OpeningKeeps
  <2> QED BY <1>2, <2>1, <2>2, <2>3 DEF Run
<1>3. CASE Esc
  BY <1>3, SavedKeeps DEF Esc
<1>4. CASE PageOver \/ Return
  BY <1>4, SavedKeeps DEF PageOver, Return
<1>5. CASE Edit
  BY <1>5, OpeningKeeps DEF Edit
<1> QED BY <1>1, <1>2, <1>3, <1>4, <1>5

LEMMA EditorAlways == EditorSpec => []EditorInv
<1>1. EditorInit => EditorInv
  <2> SUFFICES ASSUME EditorInit PROVE EditorInv
    OBVIOUS
  <2>1. card \in Sources /\ ed = Open(card) /\ top = 0 /\ opened = card /\ run = "none"
    BY DEF EditorInit
  <2>2. ed \in Buffers /\ ed.op = "none" /\ ~ed.can
    BY <2>1, OpenedFresh
  <2>3. ed.text = card /\ ed.cursor = 0
    BY <2>1, EditorAssumption DEF Open
  <2>4. LineOf(ed.text, 0) = 0
    BY FS_EmptySet DEF LineOf
  <2>5. EDIT_ROWS \in Nat \ {0}
    BY EditorAssumption
  <2>6. LineOf(ed.text, ed.cursor) \in top..top + EDIT_ROWS - 1
    BY <2>1, <2>3, <2>4, <2>5
  <2> QED BY <2>1, <2>2, <2>3, <2>6 DEF EditorInv
<1>2. EditorInv /\ [EditorNext]_editorVars => EditorInv'
  <2> SUFFICES ASSUME EditorInv, [EditorNext]_editorVars PROVE EditorInv'
    OBVIOUS
  <2>1. CASE UNCHANGED editorVars
    BY <2>1, SavedKeeps DEF editorVars
  <2>2. ASSUME NEW c \in Chars, TypeChar(c) PROVE EditorInv'
    BY <2>2, TypingStep
  <2>3. ASSUME NEW c \in Chars, Signs(c) PROVE EditorInv'
    BY <2>3, SignStep
  <2>4. CASE TypeWord(<<"word">>) \/ MinusKey \/ LiteralMinus
    BY <2>4, TypingStep
  <2>5. CASE Enter \/ Erase \/ UndoKey
    BY <2>5, EnterStep, ErasingStep, UndoStep
  <2>6. CASE Check \/ \E d \in {-1, 1} : Moves(d, 0) \/ Moves(0, d)
    BY <2>6, MovingStep
  <2>7. CASE Save \/ Run \/ Esc \/ PageOver \/ Return \/ Edit
    BY <2>7, CardStep
  <2> QED BY <2>1, <2>2, <2>3, <2>4, <2>5, <2>6, <2>7 DEF EditorNext
<1> QED BY <1>1, <1>2, PTL DEF EditorSpec

\* UNDO gives back what was on the screen before the present run of typing or of deleting,
\* the sign of a number with it; text that counts as untouched is what was opened or last
\* saved, so handle_edit_key's ESC never throws an edit away unasked; and
\* edit_scroll_into_view keeps the cursor's line in the pane: for any size of buffer and
\* pane, any programs and any keys.
THEOREM EditorKeepsCorrect == EditorSpec => []EditorKeeps
<1>1. EditorInv => EditorKeeps
  BY BufferIs DEF EditorInv, EditorKeeps, UndoIsBeforeTheRun, UntouchedIsKept, CursorInView
<1> QED BY <1>1, EditorAlways, PTL

-----------------------------------------------------------------------------
(* The line: members picked out of a sequence                               *)

\* The place n of those in K.
Nth(K, n) == Max({i \in K : Cardinality({j \in K : j < i}) < n})

LEMMA FewPlaces ==
    ASSUME NEW m \in Nat, NEW K \in SUBSET (1..m)
    PROVE  IsFiniteSet(K) /\ Cardinality(K) \in Nat /\ \A i \in K : i \in Nat
<1>1. 1 \in Int /\ m \in Int /\ \A i \in 1..m : i \in Nat
  OBVIOUS
<1>2. IsFiniteSet(1..m)
  BY <1>1, FS_Interval
<1>3. IsFiniteSet(K)
  BY <1>2, FS_Subset
<1> QED BY <1>1, <1>3, FS_CardinalityType

\* Place n is one of them.
LEMMA NthIn ==
    ASSUME NEW m \in Nat, NEW K \in SUBSET (1..m), NEW n \in 1..Cardinality(K)
    PROVE  Nth(K, n) \in K
<1> DEFINE T == {i \in K : Cardinality({j \in K : j < i}) < n}
<1>1. IsFiniteSet(K) /\ Cardinality(K) \in Nat
  BY FewPlaces
<1>2. K # {}
  BY <1>1, FS_EmptySet
<1>3. K \in SUBSET Nat
  BY FewPlaces
<1>4. Min(K) \in K /\ \A y \in K : Min(K) <= y
  BY <1>2, <1>3, LeastNat
<1>5. {j \in K : j < Min(K)} = {}
  <2>1. \A a, b \in Nat : a <= b => ~(b < a)
    OBVIOUS
  <2>2. \A y \in K : ~(y < Min(K))
    BY <1>3, <1>4, <2>1
  <2> QED BY <2>2
<1>6. Cardinality({j \in K : j < Min(K)}) = 0
  BY <1>5, FS_EmptySet
<1>7. Min(K) \in T
  BY <1>1, <1>4, <1>6
<1>8. T \in SUBSET (1..m) /\ T # {} /\ T \subseteq K
  BY <1>7
<1>9. Max(T) \in T
  <2> HIDE DEF T
  <2> QED BY <1>8, Between
<1> QED BY <1>8, <1>9 DEF Nth

\* A place after all of K is the last of those in K and it.
LEMMA NthGrows ==
    ASSUME NEW m \in Nat, NEW K \in SUBSET (1..m)
    PROVE  LET L == K \cup {m + 1} IN
           /\ Cardinality(L) = Cardinality(K) + 1
           /\ \A n \in 1..Cardinality(K) : Nth(L, n) = Nth(K, n)
           /\ Nth(L, Cardinality(K) + 1) = m + 1
<1> DEFINE L == K \cup {m + 1}
           q == Cardinality(K)
           B(i) == Cardinality({j \in K : j < i})
           C(i) == Cardinality({j \in L : j < i})
<1>1. IsFiniteSet(K) /\ q \in Nat
  BY FewPlaces
<1>2. m + 1 \notin K /\ \A i \in K : i \in 1..m
  OBVIOUS
<1>3. Cardinality(L) = q + 1
  BY <1>1, <1>2, FS_AddElement
<1>4. \A i \in K : C(i) = B(i)
  <2> TAKE i \in K
  <2>1. ~(m + 1 < i)
    BY <1>2
  <2>2. {j \in L : j < i} = {j \in K : j < i}
    BY <2>1
  <2> QED BY <2>2
<1>5. C(m + 1) = q
  <2>1. ~(m + 1 < m + 1) /\ \A i \in K : i < m + 1
    BY <1>2
  <2>2. {j \in L : j < m + 1} = K
    BY <2>1
  <2> QED BY <2>2
<1>6. \A n \in 1..q : Nth(L, n) = Nth(K, n)
  <2> TAKE n \in 1..q
  <2>1. {i \in L : C(i) < n} = {i \in K : B(i) < n}
    <3>1. ~(C(m + 1) < n)
      BY <1>1, <1>5
    <3> HIDE DEF B, C
    <3> QED BY <1>4, <3>1
  <2> QED BY <2>1 DEF Nth
<1>7. Nth(L, q + 1) = m + 1
  <2> DEFINE T == {i \in L : C(i) < q + 1}
  <2>1. m + 1 \in T
    BY <1>1, <1>5
  <2>2. T \in SUBSET (1..(m + 1)) /\ T # {}
    <3>1. \A i \in L : i \in 1..(m + 1)
      BY <1>2
    <3> QED BY <2>1, <3>1
  <2>3. Max(T) \in 1..(m + 1) /\ \A y \in T : y <= Max(T)
    <3> HIDE DEF T
    <3>1. m + 1 \in Nat /\ 1 \in Nat
      OBVIOUS
    <3> QED BY <2>2, <3>1, Between
  <2>4. Max(T) = m + 1
    <3> HIDE DEF T
    <3> QED BY <2>1, <2>3
  <2> QED BY <2>4 DEF Nth
<1> QED BY <1>3, <1>6, <1>7

LEMMA AtPlacesType ==
    ASSUME NEW S, NEW s \in Seq(S), NEW K \in SUBSET (1..Len(s))
    PROVE  /\ AtPlaces(s, K) \in Seq(S) /\ Len(AtPlaces(s, K)) = Cardinality(K)
           /\ Cardinality(K) \in Nat
           /\ \A n \in 1..Cardinality(K) : AtPlaces(s, K)[n] = s[Nth(K, n)]
<1>1. Len(s) \in Nat /\ \A i \in 1..Len(s) : s[i] \in S
  OBVIOUS
<1>2. Cardinality(K) \in Nat
  BY <1>1, FewPlaces
<1>3. AtPlaces(s, K) = [n \in 1..Cardinality(K) |-> s[Nth(K, n)]]
  BY DEF AtPlaces, Nth
<1>4. \A n \in 1..Cardinality(K) : s[Nth(K, n)] \in S
  BY <1>1, NthIn
<1> QED BY <1>2, <1>3, <1>4

LEMMA AtPlacesAppend ==
    ASSUME NEW S, NEW s \in Seq(S), NEW x \in S, NEW K \in SUBSET (1..Len(s))
    PROVE  /\ AtPlaces(Append(s, x), K) = AtPlaces(s, K)
           /\ AtPlaces(Append(s, x), K \cup {Len(s) + 1}) = Append(AtPlaces(s, K), x)
<1> DEFINE t == Append(s, x)
           m == Len(s)
           L == K \cup {m + 1}
<1>1. /\ m \in Nat /\ t \in Seq(S) /\ Len(t) = m + 1 /\ t[m + 1] = x
      /\ \A i \in 1..m : t[i] = s[i]
  OBVIOUS
<1> HIDE DEF t, m
<1>0. K \in SUBSET (1..m)
  BY DEF m
<1>2. K \in SUBSET (1..Len(t)) /\ L \in SUBSET (1..Len(t))
  <2>1. \A i \in 1..m : i \in 1..(m + 1)
    BY <1>1
  <2> QED BY <1>0, <1>1, <2>1
<1>3. /\ AtPlaces(s, K) \in Seq(S) /\ Len(AtPlaces(s, K)) = Cardinality(K) /\ Cardinality(K) \in Nat
      /\ \A n \in 1..Cardinality(K) : AtPlaces(s, K)[n] = s[Nth(K, n)]
  BY <1>1, <1>0, AtPlacesType DEF m
<1>4. /\ AtPlaces(t, K) \in Seq(S) /\ Len(AtPlaces(t, K)) = Cardinality(K)
      /\ \A n \in 1..Cardinality(K) : AtPlaces(t, K)[n] = t[Nth(K, n)]
  BY <1>1, <1>2, AtPlacesType
<1>5. /\ AtPlaces(t, L) \in Seq(S) /\ Len(AtPlaces(t, L)) = Cardinality(L)
      /\ \A n \in 1..Cardinality(L) : AtPlaces(t, L)[n] = t[Nth(L, n)]
  <2> HIDE DEF L
  <2> QED BY <1>1, <1>2, AtPlacesType
<1>6. /\ Cardinality(L) = Cardinality(K) + 1
      /\ \A n \in 1..Cardinality(K) : Nth(L, n) = Nth(K, n)
      /\ Nth(L, Cardinality(K) + 1) = m + 1
  BY <1>0, <1>1, NthGrows
<1>7. \A n \in 1..Cardinality(K) : Nth(K, n) \in 1..m
  BY <1>0, <1>1, NthIn
<1>8. AtPlaces(t, K) = AtPlaces(s, K)
  <2>1. \A n \in 1..Cardinality(K) : AtPlaces(t, K)[n] = AtPlaces(s, K)[n]
    BY <1>1, <1>3, <1>4, <1>7
  <2> QED BY <1>3, <1>4, <2>1, SeqEqual
<1>9. AtPlaces(t, L) = Append(AtPlaces(s, K), x)
  <2> DEFINE p == AtPlaces(s, K)
             r == Append(p, x)
             q == Cardinality(K)
  <2>1. r \in Seq(S) /\ Len(r) = q + 1 /\ r[q + 1] = x /\ \A n \in 1..q : r[n] = p[n]
    <3> HIDE DEF p, q
    <3>1. p \in Seq(S) /\ Len(p) = q
      BY <1>3 DEF p, q
    <3> QED BY <3>1, AppendProperties
  <2>2. \A n \in 1..(q + 1) : AtPlaces(t, L)[n] = r[n]
    <3> TAKE n \in 1..(q + 1)
    <3>1. CASE n \in 1..q
      BY <1>1, <1>3, <1>5, <1>6, <1>7, <2>1, <3>1
    <3>2. CASE n = q + 1
      BY <1>1, <1>5, <1>6, <2>1, <3>2
    <3> QED BY <1>3, <3>1, <3>2
  <2>3. AtPlaces(t, L) \in Seq(S) /\ Len(AtPlaces(t, L)) = q + 1
    BY <1>5, <1>6
  <2> DEFINE g == AtPlaces(t, L)
  <2>4. g = r
    <3> HIDE DEF r, g, q
    <3>1. /\ g \in Seq(S) /\ r \in Seq(S) /\ Len(g) = Len(r)
          /\ \A i \in 1..Len(g) : g[i] = r[i]
      BY <2>1, <2>2, <2>3 DEF g
    <3> QED BY <3>1, SeqEqual
  <2> QED BY <2>4
<1> QED BY <1>8, <1>9 DEF t, m

LEMMA OneMore ==
    ASSUME NEW m \in Nat, NEW A \in SUBSET (1..m), NEW B \in SUBSET (1..(m + 1)),
           \A i \in 1..m : i \in B <=> i \in A
    PROVE  B = IF m + 1 \in B THEN A \cup {m + 1} ELSE A
<1>1. \A i \in 1..(m + 1) : i \in 1..m \/ i = m + 1
  OBVIOUS
<1>2. \A i \in 1..m : i # m + 1
  OBVIOUS
<1>3. \A i : i \in B => i \in A \/ i = m + 1
  BY <1>1
<1>4. \A i : i \in A => i \in B
  OBVIOUS
<1> QED BY <1>3, <1>4

\* Lines kept once, with one more entered.
LEMMA DistinctAppend ==
    ASSUME NEW S, NEW s \in Seq(S), NEW x \in S
    PROVE  /\ Distinct(s) \in Seq(S)
           /\ Distinct(Append(s, x)) = IF s # <<>> /\ Last(s) = x THEN Distinct(s)
                                       ELSE Append(Distinct(s), x)
<1> DEFINE m == Len(s)
           t == Append(s, x)
           K(u) == {i \in DOMAIN u : i = 1 \/ u[i] # u[i - 1]}
<1>1. /\ m \in Nat /\ t \in Seq(S) /\ Len(t) = m + 1 /\ t[m + 1] = x
      /\ DOMAIN s = 1..m /\ DOMAIN t = 1..(m + 1) /\ \A i \in 1..m : t[i] = s[i]
  OBVIOUS
<1>2. s = <<>> <=> m = 0
  BY EmptySeq
<1> HIDE DEF t
<1>3. K(s) \in SUBSET (1..m)
  BY <1>1
<1>4. \A i \in 1..m : i # 1 => i - 1 \in 1..m
  BY <1>1
<1>5. \A i \in 1..m : i \in K(t) <=> i \in K(s)
  BY <1>1, <1>4
<1>6. m + 1 \in K(t) <=> ~(s # <<>> /\ Last(s) = x)
  <2>1. CASE m = 0
    BY <1>1, <1>2, <2>1
  <2>2. CASE m # 0
    <3>1. m \in 1..m /\ m + 1 # 1 /\ m + 1 - 1 = m
      BY <1>1, <2>2
    <3>2. t[m + 1 - 1] = Last(s)
      BY <1>1, <3>1 DEF Last
    <3> QED BY <1>1, <1>2, <2>2, <3>1, <3>2
  <2> QED BY <2>1, <2>2
<1>7. K(t) = IF s # <<>> /\ Last(s) = x THEN K(s) ELSE K(s) \cup {m + 1}
  <2>1. K(t) \in SUBSET (1..(m + 1))
    BY <1>1
  <2> DEFINE A == K(s)
             B == K(t)
  <2>2. B = IF m + 1 \in B THEN A \cup {m + 1} ELSE A
    <3>1. m \in Nat /\ A \in SUBSET (1..m) /\ B \in SUBSET (1..(m + 1))
          /\ \A i \in 1..m : i \in B <=> i \in A
      BY <1>1, <1>3, <1>5, <2>1
    <3> HIDE DEF A, B, m
    <3> QED BY <3>1, OneMore
  <2> QED BY <1>6, <2>2
<1>8. Distinct(s) = AtPlaces(s, K(s)) /\ Distinct(t) = AtPlaces(t, K(t))
  BY DEF Distinct
<1> HIDE DEF K
<1>9. AtPlaces(s, K(s)) \in Seq(S)
  BY <1>3, AtPlacesType
<1>10. AtPlaces(t, K(s)) = AtPlaces(s, K(s)) /\ AtPlaces(t, K(s) \cup {m + 1}) = Append(AtPlaces(s, K(s)), x)
  BY <1>3, AtPlacesAppend DEF t
<1> QED BY <1>7, <1>8, <1>9, <1>10 DEF t

LEMMA DistinctNone == Distinct(<<>>) = <<>>
<1>1. <<>> \in Seq({1}) /\ Len(<<>>) = 0 /\ {} \in SUBSET (1..Len(<<>>))
  BY EmptySeq
<1>2. {i \in DOMAIN <<>> : i = 1 \/ <<>>[i] # <<>>[i - 1]} = {}
  <2>1. DOMAIN <<>> = {}
    BY <1>1
  <2> QED BY <2>1
<1>3. Distinct(<<>>) = AtPlaces(<<>>, {})
  BY <1>2 DEF Distinct
<1>4. AtPlaces(<<>>, {}) \in Seq({1}) /\ Len(AtPlaces(<<>>, {})) = 0
  BY <1>1, AtPlacesType, FS_EmptySet
<1> QED BY <1>3, <1>4, EmptySeq

LEMMA AppendConcat ==
    ASSUME NEW S, NEW s \in Seq(S), NEW t \in Seq(S), NEW x \in S
    PROVE  s \o Append(t, x) = Append(s \o t, x)
<1>1. <<x>> \in Seq(S)
  OBVIOUS
<1>2. Append(t, x) = t \o <<x>>
  BY AppendIsConcat
<1>3. s \o t \in Seq(S)
  BY ConcatProperties
<1>4. Append(s \o t, x) = (s \o t) \o <<x>>
  BY <1>3, AppendIsConcat
<1> QED BY <1>1, <1>2, <1>4, ConcatAssociative

\* What is not a blank, with one more cell after it.
LEMMA SolidAppend ==
    ASSUME NEW S, NEW s \in Seq(S), NEW x \in S
    PROVE  /\ Solid(s) \in Seq(S)
           /\ Solid(Append(s, x)) = IF x = " " THEN Solid(s) ELSE Append(Solid(s), x)
<1> DEFINE m == Len(s)
           t == Append(s, x)
           K(u) == {i \in DOMAIN u : u[i] # " "}
<1>1. /\ m \in Nat /\ t \in Seq(S) /\ Len(t) = m + 1 /\ t[m + 1] = x
      /\ DOMAIN s = 1..m /\ DOMAIN t = 1..(m + 1) /\ \A i \in 1..m : t[i] = s[i]
  OBVIOUS
<1> HIDE DEF t
<1>3. K(s) \in SUBSET (1..m)
  BY <1>1
<1>7. K(t) = IF x = " " THEN K(s) ELSE K(s) \cup {m + 1}
  <2>1. K(t) \in SUBSET (1..(m + 1))
    BY <1>1
  <2>2. \A i \in 1..m : i \in 1..(m + 1)
    BY <1>1
  <2>3. \A i \in 1..m : i \in K(t) <=> i \in K(s)
    BY <1>1, <2>2
  <2>4. m + 1 \in K(t) <=> x # " "
    <3>1. m + 1 \in 1..(m + 1)
      BY <1>1
    <3> QED BY <1>1, <3>1
  <2> DEFINE A == K(s)
             B == K(t)
  <2>5. B = IF m + 1 \in B THEN A \cup {m + 1} ELSE A
    <3>1. m \in Nat /\ A \in SUBSET (1..m) /\ B \in SUBSET (1..(m + 1))
          /\ \A i \in 1..m : i \in B <=> i \in A
      BY <1>1, <1>3, <2>1, <2>3
    <3> HIDE DEF A, B, m
    <3> QED BY <3>1, OneMore
  <2> QED BY <2>4, <2>5
<1>8. Solid(s) = AtPlaces(s, K(s)) /\ Solid(t) = AtPlaces(t, K(t))
  BY DEF Solid
<1> HIDE DEF K
<1>9. AtPlaces(s, K(s)) \in Seq(S)
  BY <1>3, AtPlacesType
<1>10. AtPlaces(t, K(s)) = AtPlaces(s, K(s)) /\ AtPlaces(t, K(s) \cup {m + 1}) = Append(AtPlaces(s, K(s)), x)
  BY <1>3, AtPlacesAppend DEF t
<1> QED BY <1>7, <1>8, <1>9, <1>10 DEF t

LEMMA SolidNone == Solid(<<>>) = <<>>
<1>1. <<>> \in Seq({1}) /\ Len(<<>>) = 0 /\ {} \in SUBSET (1..Len(<<>>))
  BY EmptySeq
<1>2. {i \in DOMAIN <<>> : <<>>[i] # " "} = {}
  <2>1. DOMAIN <<>> = {}
    BY <1>1
  <2> QED BY <2>1
<1>3. Solid(<<>>) = AtPlaces(<<>>, {})
  BY <1>2 DEF Solid
<1>4. AtPlaces(<<>>, {}) \in Seq({1}) /\ Len(AtPlaces(<<>>, {})) = 0
  BY <1>1, AtPlacesType, FS_EmptySet
<1> QED BY <1>3, <1>4, EmptySeq

\* What is not a blank of two texts, one after the other.
LEMMA SolidConcat ==
    ASSUME NEW S, NEW s \in Seq(S), NEW t \in Seq(S)
    PROVE  Solid(s \o t) = Solid(s) \o Solid(t)
<1> DEFINE part(k) == SubSeq(t, 1, k)
           P(k) == Solid(s \o part(k)) = Solid(s) \o Solid(part(k))
           T == {k \in 0..Len(t) : ~P(k)}
<1>1. Len(t) \in Nat /\ part(Len(t)) = t /\ \A i \in 1..Len(t) : t[i] \in S
  OBVIOUS
<1>2. \A k \in 0..Len(t) : part(k) \in Seq(S)
  <2> TAKE k \in 0..Len(t)
  <2>1. 1 \in Int /\ k \in Int /\ \A i \in 1..k : t[i] \in S
    BY <1>1
  <2> QED BY <2>1, SubSeqProperties
<1>3. T = {}
  <2> SUFFICES ASSUME T # {} PROVE FALSE
    OBVIOUS
  <2>1. T \in SUBSET Nat
    <3> HIDE DEF P
    <3> QED BY <1>1
  <2>2. PICK k \in T : \A j \in T : k <= j
    <3> HIDE DEF T
    <3> QED BY <2>1, LeastNat
  <2>3. k \in 0..Len(t) /\ ~P(k)
    BY <2>2
  <2>4. CASE k = 0
    <3>1. part(k) = <<>>
      BY <2>4, SubSeqEmpty
    <3>2. s \o <<>> = s /\ Solid(s) \o <<>> = Solid(s)
      <4>1. Solid(s) \in Seq(S)
        <5>1. CASE s = <<>>
          BY <5>1, SolidNone, EmptySeq
        <5>2. CASE s # <<>>
          <6>1. s[1] \in S
            BY <5>2, EmptySeq
          <6> QED BY <6>1, SolidAppend
        <5> QED BY <5>1, <5>2
      <4> QED BY <4>1, ConcatEmptySeq
    <3> QED BY <2>3, <3>1, <3>2, SolidNone
  <2>5. CASE k # 0
    <3>1. k - 1 \in 0..Len(t) /\ k - 1 < k /\ k \in 1..Len(t) /\ k \in Nat /\ t[k] \in S
      BY <1>1, <2>3, <2>5
    <3>2. k - 1 \notin T
      <4> HIDE DEF T
      <4> QED BY <2>1, <2>2, <3>1
    <3>3. P(k - 1)
      BY <3>1, <3>2
    <3>4. part(k) = Append(part(k - 1), t[k])
      <4>1. 1 \in 1..Len(t) /\ k \in 1..Len(t)
        BY <1>1, <3>1
      <4>2. SubSeq(t, 1, k) = SubSeq(t, 1, k - 1) \o <<t[k]>>
        BY <4>1, SubSeqRecursiveSecond
      <4>3. part(k - 1) \in Seq(S)
        BY <1>2, <3>1
      <4> QED BY <3>1, <4>2, <4>3, AppendIsConcat
    <3> DEFINE b == part(k - 1)
               x == t[k]
    <3>5. b \in Seq(S) /\ x \in S /\ s \o b \in Seq(S)
      <4>1. b \in Seq(S) /\ x \in S
        BY <1>2, <3>1
      <4> HIDE DEF b, x
      <4> QED BY <4>1, ConcatProperties
    <3>6. Solid(s \o b) = Solid(s) \o Solid(b)
      BY <3>3
    <3>7. part(k) = Append(b, x)
      BY <3>4
    <3> HIDE DEF b, x, part, P, T
    <3>8. s \o Append(b, x) = Append(s \o b, x)
      BY <3>5, AppendConcat
    <3>9. /\ Solid(s) \in Seq(S) /\ Solid(b) \in Seq(S)
          /\ Solid(Append(b, x)) = IF x = " " THEN Solid(b) ELSE Append(Solid(b), x)
          /\ Solid(Append(s \o b, x)) = IF x = " " THEN Solid(s \o b) ELSE Append(Solid(s \o b), x)
      <4>1. /\ Solid(s) \in Seq(S) /\ Solid(b) \in Seq(S)
            /\ Solid(Append(b, x)) = IF x = " " THEN Solid(b) ELSE Append(Solid(b), x)
        BY <3>5, SolidAppend
      <4> DEFINE w == s \o b
      <4>2. Solid(Append(w, x)) = IF x = " " THEN Solid(w) ELSE Append(Solid(w), x)
        <5>1. w \in Seq(S)
          BY <3>5
        <5> HIDE DEF w
        <5> QED BY <3>5, <5>1, SolidAppend
      <4> QED BY <4>1, <4>2
    <3>10. Append(Solid(s) \o Solid(b), x) = Solid(s) \o Append(Solid(b), x)
      <4> DEFINE u == Solid(s)
                 v == Solid(b)
      <4>1. u \in Seq(S) /\ v \in Seq(S) /\ x \in S
        BY <3>5, <3>9
      <4> HIDE DEF u, v
      <4>2. u \o Append(v, x) = Append(u \o v, x)
        BY <4>1, AppendConcat
      <4> QED BY <4>2 DEF u, v
    <3>11. P(k)
      BY <3>6, <3>7, <3>8, <3>9, <3>10 DEF P
    <3> QED BY <2>3, <3>11
  <2> QED BY <2>4, <2>5
<1>4. P(Len(t))
  <2> HIDE DEF P
  <2>1. Len(t) \in 0..Len(t)
    BY <1>1
  <2> QED BY <1>3, <2>1
<1> QED BY <1>1, <1>4

-----------------------------------------------------------------------------
(* The line: the lines entered before                                       *)

\* The last of a sequence, as many as are kept.
Newest(s) == SubSeq(s, Max({0, Len(s) - HISTORY_MAX}) + 1, Len(s))

\* The newest are the end of the sequence.
LEMMA NewestIs ==
    ASSUME NEW S, NEW s \in Seq(S)
    PROVE  /\ Newest(s) \in Seq(S)
           /\ Len(Newest(s)) = IF Len(s) <= HISTORY_MAX THEN Len(s) ELSE HISTORY_MAX
           /\ \A i \in 1..Len(Newest(s)) : Newest(s)[i] = s[Len(s) - Len(Newest(s)) + i]
<1> DEFINE m == Len(s)
           a == Max({0, m - HISTORY_MAX})
<1>1. m \in Nat /\ HISTORY_MAX \in Nat \ {0} /\ \A i \in 1..m : s[i] \in S
  BY LineAssumption
<1>2. a = IF m <= HISTORY_MAX THEN 0 ELSE m - HISTORY_MAX
  <2> DEFINE T == {0, m - HISTORY_MAX}
  <2>1. CASE m <= HISTORY_MAX
    <3>1. 0 \in T /\ \A y \in T : 0 >= y /\ (y >= 0 => y = 0)
      BY <1>1, <2>1
    <3>2. Max(T) = 0
      <4> HIDE DEF T
      <4> QED BY <3>1 DEF Max
    <3> QED BY <2>1, <3>2
  <2>2. CASE ~(m <= HISTORY_MAX)
    <3>1. m - HISTORY_MAX \in T /\ \A y \in T : m - HISTORY_MAX >= y /\ (y >= m - HISTORY_MAX => y = m - HISTORY_MAX)
      BY <1>1, <2>2
    <3>2. Max(T) = m - HISTORY_MAX
      <4> HIDE DEF T
      <4> QED BY <3>1 DEF Max
    <3> QED BY <2>2, <3>2
  <2> QED BY <2>1, <2>2
<1>3. Newest(s) = SubSeq(s, a + 1, m)
  BY DEF Newest
<1> HIDE DEF a
<1>4. a \in 0..m /\ a + 1 \in Int /\ m \in Int
  BY <1>1, <1>2
<1>5. \A i \in (a + 1)..m : i \in 1..m
  BY <1>1, <1>4
<1>6. \A i \in (a + 1)..m : s[i] \in S
  BY <1>1, <1>5
<1>7. /\ SubSeq(s, a + 1, m) \in Seq(S)
      /\ Len(SubSeq(s, a + 1, m)) = IF a + 1 <= m THEN m - (a + 1) + 1 ELSE 0
      /\ \A i \in 1..(m - (a + 1) + 1) : SubSeq(s, a + 1, m)[i] = s[a + 1 + i - 1]
  BY <1>4, <1>6, SubSeqProperties
<1>8. Len(Newest(s)) = m - a
  BY <1>1, <1>3, <1>4, <1>7
<1>9. \A i \in 1..(m - a) : m - (m - a) + i = a + 1 + i - 1 /\ m - (a + 1) + 1 = m - a
  BY <1>1, <1>4
<1>10. m - (a + 1) + 1 = m - a
  BY <1>1, <1>4
<1> HIDE DEF m
<1>11. \A i \in 1..(m - a) : Newest(s)[i] = s[m - (m - a) + i]
  BY <1>3, <1>7, <1>9, <1>10
<1>12. Len(Newest(s)) = IF m <= HISTORY_MAX THEN m ELSE HISTORY_MAX
  BY <1>1, <1>2, <1>8
<1>13. \A i \in 1..Len(Newest(s)) : Newest(s)[i] = s[m - Len(Newest(s)) + i]
  BY <1>8, <1>11
<1>14. Newest(s) \in Seq(S)
  BY <1>3, <1>7
<1> QED BY <1>12, <1>13, <1>14 DEF m

\* One more: the oldest goes where there is no room.
LEMMA NewestAppend ==
    ASSUME NEW S, NEW s \in Seq(S), NEW x \in S
    PROVE  LET p == Newest(s)
           IN  Newest(Append(s, x)) = Append(IF Len(p) = HISTORY_MAX THEN Tail(p) ELSE p, x)
<1> DEFINE p == Newest(s)
           t == Append(s, x)
           q == Newest(t)
           b == IF Len(p) = HISTORY_MAX THEN Tail(p) ELSE p
           r == Append(b, x)
<1>1. /\ Len(s) \in Nat /\ t \in Seq(S) /\ Len(t) = Len(s) + 1 /\ t[Len(s) + 1] = x
      /\ \A i \in 1..Len(s) : t[i] = s[i]
  OBVIOUS
<1>2. /\ p \in Seq(S) /\ Len(p) = IF Len(s) <= HISTORY_MAX THEN Len(s) ELSE HISTORY_MAX
      /\ \A i \in 1..Len(p) : p[i] = s[Len(s) - Len(p) + i]
  BY NewestIs
<1>3. HISTORY_MAX \in Nat /\ HISTORY_MAX > 0
  BY LineAssumption
<1> HIDE DEF p, t
<1>4. /\ q \in Seq(S) /\ Len(q) = IF Len(t) <= HISTORY_MAX THEN Len(t) ELSE HISTORY_MAX
      /\ \A i \in 1..Len(q) : q[i] = t[Len(t) - Len(q) + i]
  BY <1>1, NewestIs
<1> HIDE DEF q
<1>5. /\ b \in Seq(S) /\ Len(b) = Len(q) - 1 /\ Len(q) \in Nat \ {0}
      /\ \A i \in 1..Len(b) : b[i] = s[Len(s) - Len(b) + i]
  <2>1. CASE Len(p) = HISTORY_MAX
    <3>1. p # <<>> /\ Len(p) \in Nat
      BY <1>2, <1>3, <2>1, EmptySeq
    <3>2. /\ Tail(p) \in Seq(S) /\ Len(Tail(p)) = Len(p) - 1
          /\ \A i \in 1..Len(Tail(p)) : Tail(p)[i] = p[i + 1]
      BY <1>2, <3>1, HeadTailProperties
    <3>3. b = Tail(p) /\ Len(q) = HISTORY_MAX
      BY <1>1, <1>2, <1>3, <1>4, <2>1
    <3>4. ASSUME NEW i \in 1..Len(b) PROVE b[i] = s[Len(s) - Len(b) + i]
      <4>0. Len(b) = Len(p) - 1
        BY <3>2, <3>3
      <4>1. i + 1 \in 1..Len(p) /\ Len(s) - Len(p) + (i + 1) = Len(s) - Len(b) + i
        <5> HIDE DEF b
        <5> QED BY <1>1, <3>1, <3>4, <4>0
      <4>2. b[i] = p[i + 1]
        BY <3>2, <3>3, <3>4
      <4>3. p[i + 1] = s[Len(s) - Len(p) + (i + 1)]
        BY <1>2, <4>1
      <4> QED BY <4>1, <4>2, <4>3
    <3> QED BY <1>3, <2>1, <3>2, <3>3, <3>4
  <2>2. CASE Len(p) # HISTORY_MAX
    <3>1. b = p /\ Len(q) = Len(s) + 1 /\ Len(p) = Len(s)
      BY <1>1, <1>2, <1>3, <1>4, <2>2
    <3>2. b \in Seq(S) /\ Len(b) = Len(q) - 1 /\ Len(q) \in Nat \ {0}
      <4> HIDE DEF b
      <4> QED BY <1>1, <1>2, <3>1
    <3>3. \A i \in 1..Len(b) : b[i] = s[Len(s) - Len(b) + i]
      BY <1>2, <3>1
    <3> QED BY <3>2, <3>3
  <2> QED BY <2>1, <2>2
<1> HIDE DEF b
<1>6. /\ r \in Seq(S) /\ Len(r) = Len(b) + 1 /\ r[Len(b) + 1] = x
      /\ \A i \in 1..Len(b) : r[i] = b[i]
  BY <1>5, AppendProperties
<1> HIDE DEF r
<1>7. Len(r) = Len(q) /\ Len(b) \in Nat /\ Len(q) <= Len(t)
  BY <1>1, <1>3, <1>4, <1>5, <1>6
<1>8. ASSUME NEW i \in 1..Len(q) PROVE q[i] = r[i]
  <2>1. q[i] = t[Len(t) - Len(q) + i]
    BY <1>4, <1>8
  <2>2. CASE i = Len(q)
    <3>1. Len(t) - Len(q) + i = Len(s) + 1 /\ i = Len(b) + 1
      BY <1>1, <1>5, <1>7, <2>2
    <3> QED BY <1>1, <1>6, <2>1, <3>1
  <2>3. CASE i # Len(q)
    <3>1. i \in 1..Len(b) /\ Len(t) - Len(q) + i = Len(s) - Len(b) + i
      BY <1>1, <1>5, <1>7, <1>8, <2>3
    <3>2. Len(s) - Len(b) + i \in 1..Len(s)
      BY <1>1, <1>5, <1>7, <3>1
    <3> QED BY <1>1, <1>5, <1>6, <2>1, <3>1, <3>2
  <2> QED BY <2>2, <2>3
<1>9. q = r
  BY <1>4, <1>6, <1>7, <1>8, SeqEqual
<1> QED BY <1>9 DEF q, r, b, p, t

\* UP's lines and the lines entered, and that the last of those is kept.
Recalls(ps, es) ==
    /\ ps \in Seq(Seq(Cells)) /\ es \in Seq(Seq(Cells))
    /\ ps = Newest(Distinct(es))
    /\ es # <<>> => Distinct(es) # <<>> /\ Last(Distinct(es)) = Last(es)

\* history_add keeps UP's lines the last of those entered.
LEMMA HistoryAdded ==
    ASSUME NEW ps, NEW es, Recalls(ps, es), NEW t \in Seq(Cells)
    PROVE  Recalls(HistoryAdd(ps, t), Append(es, t))
<1> DEFINE S == Seq(Cells)
           d == Distinct(es)
           e == Append(es, t)
           g == Distinct(e)
<1>1. t \in S /\ ps \in Seq(S) /\ es \in Seq(S)
  BY DEF Recalls
<1> HIDE DEF S
<1>2. /\ d \in Seq(S) /\ g = IF es # <<>> /\ Last(es) = t THEN d ELSE Append(d, t)
  BY <1>1, DistinctAppend
<1>3. /\ ps = Newest(d) /\ Len(ps) = (IF Len(d) <= HISTORY_MAX THEN Len(d) ELSE HISTORY_MAX)
      /\ \A i \in 1..Len(ps) : ps[i] = d[Len(d) - Len(ps) + i]
  BY <1>2, NewestIs DEF Recalls
<1>4. HISTORY_MAX \in Nat /\ HISTORY_MAX > 0 /\ Len(d) \in Nat /\ Len(ps) \in Nat
  BY <1>1, <1>2, LineAssumption
<1>5. e \in Seq(S) /\ e # <<>> /\ Last(e) = t
  BY <1>1 DEF Last
<1>6. es # <<>> => d # <<>> /\ Last(d) = Last(es)
  BY DEF Recalls
<1>7. es = <<>> => d = <<>>
  BY DistinctNone
<1>8. ps # <<>> <=> d # <<>>
  BY <1>1, <1>2, <1>3, <1>4, EmptySeq
<1>9. ps # <<>> => Last(ps) = Last(d)
  <2> SUFFICES ASSUME ps # <<>> PROVE Last(ps) = Last(d)
    OBVIOUS
  <2>1. Len(ps) \in 1..Len(ps)
    BY <1>1, <1>4, EmptySeq
  <2>2. ps[Len(ps)] = d[Len(d) - Len(ps) + Len(ps)]
    BY <1>3, <2>1
  <2>3. Len(d) - Len(ps) + Len(ps) = Len(d)
    BY <1>4
  <2> QED BY <2>2, <2>3 DEF Last
<1> HIDE DEF d, e, g
<1>10. (ps # <<>> /\ Last(ps) = t) <=> (es # <<>> /\ Last(es) = t)
  BY <1>6, <1>7, <1>8, <1>9
<1>11. CASE es # <<>> /\ Last(es) = t
  <2>1. HistoryAdd(ps, t) = ps /\ g = d
    BY <1>2, <1>10, <1>11 DEF HistoryAdd
  <2> QED BY <1>1, <1>3, <1>5, <1>6, <1>11, <2>1 DEF Recalls, S, g, e, d
<1>12. CASE ~(es # <<>> /\ Last(es) = t)
  <2>1. HistoryAdd(ps, t) = Append(IF Len(ps) = HISTORY_MAX THEN Tail(ps) ELSE ps, t)
    BY <1>10, <1>12 DEF HistoryAdd
  <2>2. g = Append(d, t)
    BY <1>2, <1>12
  <2>3. HistoryAdd(ps, t) = Newest(g)
    BY <1>1, <1>2, <1>3, <2>1, <2>2, NewestAppend
  <2>4. g # <<>> /\ Last(g) = t /\ g \in Seq(S)
    BY <1>1, <1>2, <2>2 DEF Last
  <2>5. Newest(g) \in Seq(S)
    BY <2>4, NewestIs
  <2> QED BY <1>5, <2>3, <2>4, <2>5 DEF Recalls, S, g, e
<1> QED BY <1>11, <1>12 DEF e

-----------------------------------------------------------------------------
(* The line: the buffer                                                     *)

Rows == {l \in [text : Seq(Cells), cursor : Nat] : l.cursor <= Len(l.text)}

\* The line has x before the cursor and y after it.
Split(l, x, y) ==
    /\ x \in Seq(Cells) /\ y \in Seq(Cells)
    /\ l = [text |-> x \o y, cursor |-> Len(x)]

\* A sequence of two parts gives each back.
LEMMA TwoParts ==
    ASSUME NEW S, NEW x \in Seq(S), NEW y \in Seq(S)
    PROVE  /\ x \o y \in Seq(S) /\ Len(x \o y) = Len(x) + Len(y) /\ Len(x) \in Nat /\ Len(y) \in Nat
           /\ SubSeq(x \o y, 1, Len(x)) = x /\ SubSeq(x \o y, Len(x) + 1, Len(x) + Len(y)) = y
<1> DEFINE t == x \o y
           m == Len(x)
           n == Len(y)
<1>1. /\ t \in Seq(S) /\ Len(t) = m + n /\ m \in Nat /\ n \in Nat
      /\ \A i \in 1..(m + n) : t[i] = IF i <= m THEN x[i] ELSE y[i - m]
  BY ConcatProperties
<1> HIDE DEF t, m, n
<1>2. SubSeq(t, 1, m) = x
  <2>1. 1 \in Int /\ m \in Int /\ \A i \in 1..m : t[i] \in S
    <3>1. \A i \in 1..m : i \in 1..(m + n) /\ i <= m /\ x[i] \in S
      BY <1>1 DEF m
    <3> QED BY <1>1, <3>1
  <2>2. /\ SubSeq(t, 1, m) \in Seq(S) /\ Len(SubSeq(t, 1, m)) = IF 1 <= m THEN m - 1 + 1 ELSE 0
        /\ \A i \in 1..(m - 1 + 1) : SubSeq(t, 1, m)[i] = t[1 + i - 1]
    BY <2>1, SubSeqProperties
  <2>3. Len(SubSeq(t, 1, m)) = m
    BY <1>1, <2>2
  <2>4. \A i \in 1..m : SubSeq(t, 1, m)[i] = x[i]
    <3> TAKE i \in 1..m
    <3>1. i \in 1..(m - 1 + 1) /\ 1 + i - 1 = i /\ i \in 1..(m + n) /\ i <= m
      BY <1>1
    <3> QED BY <1>1, <2>2, <3>1
  <2> QED BY <2>2, <2>3, <2>4, SeqEqual DEF m
<1>3. SubSeq(t, m + 1, m + n) = y
  <2> DEFINE lo == m + 1
             hi == m + n
  <2>0. lo = m + 1 /\ hi = m + n /\ lo \in Int /\ hi \in Int
    BY <1>1
  <2> HIDE DEF lo, hi
  <2>1. \A i \in lo..hi : t[i] \in S
    <3>1. \A i \in lo..hi : i \in 1..(m + n) /\ ~(i <= m) /\ i - m \in 1..n
      BY <1>1, <2>0
    <3>2. \A i \in 1..n : y[i] \in S
      BY DEF n
    <3> QED BY <1>1, <3>1, <3>2
  <2> DEFINE u == SubSeq(t, lo, hi)
  <2>2. /\ u \in Seq(S) /\ Len(u) = IF lo <= hi THEN hi - lo + 1 ELSE 0
        /\ \A i \in 1..(hi - lo + 1) : u[i] = t[lo + i - 1]
    BY <2>0, <2>1, SubSeqProperties
  <2> HIDE DEF u
  <2>3. Len(u) = n
    BY <1>1, <2>0, <2>2
  <2>4. \A i \in 1..n : u[i] = y[i]
    <3> TAKE i \in 1..n
    <3>1. m \in Nat /\ n \in Nat /\ i \in Nat /\ 1 <= i /\ i <= n
      BY <1>1
    <3>2. i \in 1..(hi - lo + 1) /\ lo + i - 1 = m + i
      BY <2>0, <3>1
    <3>3. m + i \in 1..(m + n) /\ ~(m + i <= m) /\ m + i - m = i
      BY <3>1
    <3> QED BY <1>1, <2>2, <3>2, <3>3
  <2>5. u = y
    BY <2>2, <2>3, <2>4, SeqEqual DEF n
  <2> QED BY <2>5 DEF u, lo, hi
<1> QED BY <1>1, <1>2, <1>3 DEF t, m, n

\* Every line is so split at its cursor.
LEMMA CursorSplits ==
    ASSUME NEW l \in Rows
    PROVE  /\ l.text \in Seq(Cells) /\ l.cursor \in 0..Len(l.text) /\ Len(l.text) \in Nat
           /\ Split(l, SubSeq(l.text, 1, l.cursor), SubSeq(l.text, l.cursor + 1, Len(l.text)))
           /\ Len(SubSeq(l.text, 1, l.cursor)) = l.cursor
<1> DEFINE t == l.text
           c == l.cursor
           x == SubSeq(t, 1, c)
           y == SubSeq(t, c + 1, Len(t))
<1>1. t \in Seq(Cells) /\ c \in 0..Len(t) /\ Len(t) \in Nat /\ l = [text |-> t, cursor |-> c]
  BY DEF Rows
<1> HIDE DEF t, c
<1>2. \A i \in 1..Len(t) : t[i] \in Cells
  BY <1>1
<1>3. x \in Seq(Cells) /\ Len(x) = c /\ \A i \in 1..c : x[i] = t[i]
  <2>1. 1 \in Int /\ c \in Int /\ \A i \in 1..c : t[i] \in Cells
    BY <1>1, <1>2
  <2>2. /\ x \in Seq(Cells) /\ Len(x) = IF 1 <= c THEN c - 1 + 1 ELSE 0
        /\ \A i \in 1..(c - 1 + 1) : x[i] = t[1 + i - 1]
    BY <2>1, SubSeqProperties
  <2> HIDE DEF x
  <2>3. Len(x) = c /\ c - 1 + 1 = c
    BY <1>1, <2>2
  <2>4. \A i \in 1..c : 1 + i - 1 = i
    BY <1>1
  <2> QED BY <2>2, <2>3, <2>4
<1>4. y \in Seq(Cells) /\ Len(y) = Len(t) - c /\ \A i \in 1..(Len(t) - c) : y[i] = t[c + i]
  <2>1. c + 1 \in Int /\ Len(t) \in Int /\ \A i \in (c + 1)..Len(t) : t[i] \in Cells
    BY <1>1, <1>2
  <2>2. /\ y \in Seq(Cells) /\ Len(y) = IF c + 1 <= Len(t) THEN Len(t) - (c + 1) + 1 ELSE 0
        /\ \A i \in 1..(Len(t) - (c + 1) + 1) : y[i] = t[c + 1 + i - 1]
    BY <2>1, SubSeqProperties
  <2> HIDE DEF y
  <2>3. Len(y) = Len(t) - c /\ Len(t) - (c + 1) + 1 = Len(t) - c
    BY <1>1, <2>2
  <2>4. \A i \in 1..(Len(t) - c) : c + 1 + i - 1 = c + i
    BY <1>1
  <2> QED BY <2>2, <2>3, <2>4
<1> HIDE DEF x, y
<1>5. t = x \o y
  <2> DEFINE z == x \o y
  <2>1. /\ z \in Seq(Cells) /\ Len(z) = Len(x) + Len(y)
        /\ \A i \in 1..(Len(x) + Len(y)) : z[i] = IF i <= Len(x) THEN x[i] ELSE y[i - Len(x)]
    BY <1>3, <1>4, ConcatProperties
  <2> HIDE DEF z
  <2>2. Len(z) = Len(t) /\ \A i \in 1..Len(t) : z[i] = IF i <= c THEN x[i] ELSE y[i - c]
    BY <1>1, <1>3, <1>4, <2>1
  <2>3. \A i \in 1..Len(t) : t[i] = z[i]
    <3> TAKE i \in 1..Len(t)
    <3>1. CASE i <= c
      BY <1>1, <1>3, <2>2, <3>1
    <3>2. CASE ~(i <= c)
      <4>1. i - c \in 1..(Len(t) - c) /\ c + (i - c) = i
        BY <1>1, <3>2
      <4> QED BY <1>4, <2>2, <3>2, <4>1
    <3> QED BY <3>1, <3>2
  <2>4. t = z
    BY <1>1, <2>1, <2>2, <2>3, SeqEqual
  <2> QED BY <2>4 DEF z
<1> QED BY <1>1, <1>3, <1>4, <1>5 DEF Split, t, c, x, y

LEMMA SplitIs ==
    ASSUME NEW l, NEW x, NEW y, Split(l, x, y)
    PROVE  /\ l \in Rows /\ l.text = x \o y /\ l.cursor = Len(x) /\ Len(l.text) = Len(x) + Len(y)
           /\ Len(x) \in Nat /\ Len(y) \in Nat
           /\ SubSeq(l.text, 1, l.cursor) = x /\ SubSeq(l.text, l.cursor + 1, Len(l.text)) = y
<1>1. x \in Seq(Cells) /\ y \in Seq(Cells) /\ l.text = x \o y /\ l.cursor = Len(x)
      /\ l = [text |-> x \o y, cursor |-> Len(x)]
  BY DEF Split
<1>2. /\ x \o y \in Seq(Cells) /\ Len(x \o y) = Len(x) + Len(y) /\ Len(x) \in Nat /\ Len(y) \in Nat
      /\ SubSeq(x \o y, 1, Len(x)) = x /\ SubSeq(x \o y, Len(x) + 1, Len(x) + Len(y)) = y
  BY <1>1, TwoParts
<1> DEFINE t == x \o y
           n == Len(x)
<1> HIDE DEF t, n
<1>3. l = [text |-> t, cursor |-> n] /\ t \in Seq(Cells) /\ n \in Nat /\ n <= Len(t)
  BY <1>1, <1>2 DEF t, n
<1>4. l \in Rows
  BY <1>3 DEF Rows
<1> QED BY <1>1, <1>2, <1>4

\* Cells put at the cursor go before it, if there is room for them all.
LEMMA SplitAppended ==
    ASSUME NEW l, NEW x, NEW y, Split(l, x, y), NEW cells \in Seq(Cells)
    PROVE  IF Len(x) + Len(y) + Len(cells) < INPUT_MAX
           THEN Split(Append_(l, cells), x \o cells, y)
           ELSE Append_(l, cells) = l
<1>1. /\ Len(l.text) = Len(x) + Len(y) /\ Len(x) \in Nat /\ Len(y) \in Nat /\ l.cursor = Len(x)
      /\ SubSeq(l.text, 1, l.cursor) = x /\ SubSeq(l.text, l.cursor + 1, Len(l.text)) = y
  BY SplitIs
<1>2. Len(cells) \in Nat /\ INPUT_MAX \in Nat
  BY LineAssumption
<1>3. Len(l.text) + Len(cells) >= INPUT_MAX <=> ~(Len(x) + Len(y) + Len(cells) < INPUT_MAX)
  BY <1>1, <1>2
<1>4. CASE Len(x) + Len(y) + Len(cells) < INPUT_MAX
  <2>1. Append_(l, cells) = [text |-> x \o cells \o y, cursor |-> Len(x) + Len(cells)]
    BY <1>1, <1>3, <1>4 DEF Append_
  <2>2. x \in Seq(Cells) /\ y \in Seq(Cells)
    BY DEF Split
  <2>3. x \o cells \in Seq(Cells) /\ Len(x \o cells) = Len(x) + Len(cells)
    BY <2>2, TwoParts
  <2> QED BY <1>4, <2>1, <2>2, <2>3 DEF Split
<1>5. CASE ~(Len(x) + Len(y) + Len(cells) < INPUT_MAX)
  BY <1>3, <1>5 DEF Append_
<1> QED BY <1>4, <1>5

\* What the buffer's operations leave is a row, its cursor in it.
LEMMA AppendedRow ==
    ASSUME NEW l \in Rows, NEW cells \in Seq(Cells)
    PROVE  Append_(l, cells) \in Rows
<1> DEFINE x == SubSeq(l.text, 1, l.cursor)
           y == SubSeq(l.text, l.cursor + 1, Len(l.text))
<1>1. Split(l, x, y)
  BY CursorSplits
<1> HIDE DEF x, y
<1>2. Append_(l, cells) = l \/ Split(Append_(l, cells), x \o cells, y)
  BY <1>1, SplitAppended
<1> QED BY <1>2, SplitIs

\* Backspaces take the cells before the cursor.
LEMMA SplitWithout ==
    ASSUME NEW l, NEW x, NEW z, NEW y, Split(l, x \o z, y), x \in Seq(Cells), z \in Seq(Cells)
    PROVE  Split(Without(l, Len(z)), x, y)
<1> DEFINE w == x \o z
           t == w \o y
<1>1. w \in Seq(Cells) /\ y \in Seq(Cells) /\ l = [text |-> t, cursor |-> Len(w)]
  BY DEF Split
<1>2. Len(w) = Len(x) + Len(z) /\ Len(x) \in Nat /\ Len(z) \in Nat
  BY TwoParts
<1>3. SubSeq(l.text, l.cursor + 1, Len(l.text)) = y /\ l.text = t /\ l.cursor = Len(w)
  BY SplitIs
<1>4. t = x \o (z \o y) /\ z \o y \in Seq(Cells)
  BY <1>1, ConcatAssociative, TwoParts
<1>5. SubSeq(x \o (z \o y), 1, Len(x)) = x
  BY <1>4, TwoParts
<1> HIDE DEF w, t
<1>6. l.cursor - Len(z) = Len(x)
  BY <1>2, <1>3
<1>7. Without(l, Len(z)) = [text |-> x \o y, cursor |-> Len(x)]
  BY <1>3, <1>4, <1>5, <1>6 DEF Without
<1> QED BY <1>1, <1>7 DEF Split

LEMMA WithoutRow ==
    ASSUME NEW l \in Rows, NEW n \in 0..l.cursor
    PROVE  Without(l, n) \in Rows
<1> DEFINE t == l.text
           c == l.cursor
           x == SubSeq(t, 1, c - n)
           y == SubSeq(t, c + 1, Len(t))
<1>1. t \in Seq(Cells) /\ c \in 0..Len(t) /\ Len(t) \in Nat /\ n \in 0..c /\ y \in Seq(Cells)
  BY CursorSplits DEF Split
<1>2. x \in Seq(Cells) /\ Len(x) = c - n
  <2>1. 1 \in Int /\ c - n \in Int /\ \A i \in 1..(c - n) : t[i] \in Cells
    BY <1>1
  <2> DEFINE m == c - n
  <2> HIDE DEF t, c, m
  <2>2. SubSeq(t, 1, m) \in Seq(Cells) /\ Len(SubSeq(t, 1, m)) = IF 1 <= m THEN m - 1 + 1 ELSE 0
    BY <2>1, SubSeqProperties DEF m
  <2>3. m \in Nat
    BY <1>1 DEF m
  <2>4. x = SubSeq(t, 1, m)
    BY DEF m
  <2> HIDE DEF x
  <2>5. Len(x) = m
    BY <2>2, <2>3, <2>4
  <2> QED BY <2>2, <2>4, <2>5 DEF m
<1>3. Without(l, n) = [text |-> x \o y, cursor |-> c - n]
  BY DEF Without
<1> HIDE DEF x, y, t, c
<1>4. Split(Without(l, n), x, y)
  BY <1>1, <1>2, <1>3 DEF Split
<1> QED BY <1>4, SplitIs

LEMMA ErasedRow == ASSUME NEW l \in Rows PROVE Erased(l) \in Rows
<1>1. CASE l.cursor = 0
  BY <1>1 DEF Erased
<1>2. CASE l.cursor # 0
  <2>1. l.cursor \in Nat /\ 1 \in 0..l.cursor
    BY <1>2, CursorSplits
  <2>2. Erased(l) = Without(l, 1)
    BY <1>2 DEF Erased, Without, RemoveAt
  <2> QED BY <2>1, <2>2, WithoutRow
<1> QED BY <1>1, <1>2

\* What is after the cursor, and the step over it.
LEMMA SplitAfter ==
    ASSUME NEW l, NEW x, NEW y, Split(l, x, y)
    PROVE  /\ After(l) = IF y = <<>> THEN "end" ELSE y[1]
           /\ y # <<>> => /\ y[1] \in Cells /\ Tail(y) \in Seq(Cells) /\ y = <<y[1]>> \o Tail(y)
                          /\ Split([l EXCEPT !.cursor = @ + 1], x \o <<y[1]>>, Tail(y))
<1>1. x \in Seq(Cells) /\ y \in Seq(Cells) /\ l = [text |-> x \o y, cursor |-> Len(x)]
  BY DEF Split
<1>2. /\ l.text = x \o y /\ l.cursor = Len(x) /\ Len(l.text) = Len(x) + Len(y)
      /\ Len(x) \in Nat /\ Len(y) \in Nat
  BY SplitIs
<1>3. y = <<>> <=> Len(y) = 0
  BY <1>1, EmptySeq
<1>4. y # <<>> => l.text[l.cursor + 1] = y[1]
  <2> SUFFICES ASSUME y # <<>> PROVE l.text[l.cursor + 1] = y[1]
    OBVIOUS
  <2> DEFINE n == Len(x) + 1
  <2>1. n \in 1..(Len(x) + Len(y)) /\ ~(n <= Len(x)) /\ n - Len(x) = 1
    BY <1>2, <1>3
  <2>2. \A i \in 1..(Len(x) + Len(y)) : (x \o y)[i] = IF i <= Len(x) THEN x[i] ELSE y[i - Len(x)]
    BY <1>1, ConcatProperties
  <2> HIDE DEF n
  <2>3. (x \o y)[n] = y[1]
    BY <2>1, <2>2
  <2> QED BY <1>2, <2>3 DEF n
<1>5. After(l) = IF y = <<>> THEN "end" ELSE y[1]
  BY <1>2, <1>3, <1>4 DEF After
<1>6. ASSUME y # <<>>
      PROVE  /\ y[1] \in Cells /\ Tail(y) \in Seq(Cells) /\ y = <<y[1]>> \o Tail(y)
             /\ Split([l EXCEPT !.cursor = @ + 1], x \o <<y[1]>>, Tail(y))
  <2>1. y[1] \in Cells /\ Tail(y) \in Seq(Cells)
    <3>1. Len(y) \in Nat \ {0} /\ \A i \in 1..Len(y) : y[i] \in Cells
      BY <1>1, <1>2, <1>3, <1>6
    <3>2. 1 \in 1..Len(y)
      BY <3>1
    <3> QED BY <1>1, <1>6, <3>1, <3>2, HeadTailProperties
  <2>2. y = <<y[1]>> \o Tail(y)
    <3>1. 1 \in 1..Len(y) /\ Len(y) \in 1..Len(y)
      BY <1>2, <1>3, <1>6
    <3>2. SubSeq(y, 1, Len(y)) = <<y[1]>> \o SubSeq(y, 1 + 1, Len(y))
      BY <1>1, <3>1, SubSeqRecursiveFirst
    <3>3. SubSeq(y, 1, Len(y)) = y
      BY <1>1, SubSeqFull
    <3>4. Tail(y) = SubSeq(y, 2, Len(y))
      BY <1>1, <1>6, TailIsSubSeq
    <3> QED BY <3>2, <3>3, <3>4
  <2> DEFINE h == y[1]
             r == Tail(y)
  <2>3. h \in Cells /\ r \in Seq(Cells) /\ y = <<h>> \o r
    BY <2>1, <2>2
  <2> HIDE DEF h, r
  <2>4. <<h>> \in Seq(Cells) /\ Len(<<h>>) = 1
    BY <2>3
  <2>5. x \o y = (x \o <<h>>) \o r
    BY <1>1, <2>3, <2>4, ConcatAssociative
  <2>6. x \o <<h>> \in Seq(Cells) /\ Len(x \o <<h>>) = Len(x) + 1
    BY <1>1, <2>4, TwoParts
  <2>7. [l EXCEPT !.cursor = @ + 1] = [text |-> (x \o <<h>>) \o r, cursor |-> Len(x \o <<h>>)]
    <3> DEFINE t == x \o y
               n == Len(x)
    <3>1. l = [text |-> t, cursor |-> n]
      BY <1>1
    <3> HIDE DEF t, n
    <3>2. [l EXCEPT !.cursor = @ + 1] = [text |-> t, cursor |-> n + 1]
      BY <3>1
    <3> QED BY <2>5, <2>6, <3>2 DEF t, n
  <2>8. Split([l EXCEPT !.cursor = @ + 1], x \o <<h>>, r)
    BY <2>3, <2>6, <2>7 DEF Split
  <2> QED BY <2>1, <2>2, <2>8 DEF h, r
<1> QED BY <1>5, <1>6

LEMMA RowCells ==
    /\ " " \in Cells /\ NL \in Cells /\ "-" \in Cells /\ <<>> \in Seq(Cells)
    /\ <<" ">> \in Seq(Cells) /\ <<"-">> \in Seq(Cells) /\ <<NL>> \in Seq(Cells)
    /\ Len(<<" ">>) = 1 /\ Len(<<"-">>) = 1 /\ Len(<<NL>>) = 1
    /\ MinusText \in Seq(Cells) /\ Len(MinusText) \in 1..2
    /\ \A c \in Typeable : c \in Cells /\ <<c>> \in Seq(Cells) /\ Len(<<c>>) = 1
<1>1. " " \in Cells /\ NL \in Cells /\ "-" \in Cells /\ "mi" \in Cells /\ "nus" \in Cells
  BY DEF Cells
<1>2. \A c \in Cells : <<c>> \in Seq(Cells) /\ Len(<<c>>) = 1
  OBVIOUS
<1>3. \A c, d \in Cells : <<c, d>> \in Seq(Cells) /\ Len(<<c, d>>) = 2
  OBVIOUS
<1>4. <<"-">> \in Seq(Cells) /\ <<"mi", "nus">> \in Seq(Cells)
      /\ Len(<<"-">>) = 1 /\ Len(<<"mi", "nus">>) = 2
  BY <1>1, <1>2, <1>3
<1>5. MinusText \in Seq(Cells) /\ Len(MinusText) \in 1..2
  BY <1>4 DEF MinusText
<1>6. \A c \in Typeable : c \in Cells
  BY LineAssumption DEF Cells
<1>7. <<>> \in Seq(Cells)
  BY EmptySeq
<1> QED BY <1>1, <1>2, <1>4, <1>5, <1>6, <1>7

LEMMA WordRow ==
    ASSUME NEW l \in Rows, NEW word \in Seq(Cells)
    PROVE  Word(l, word) \in Rows
<1> DEFINE a == IF Before(l) \in {" ", NL} THEN l ELSE Append_(l, <<" ">>)
           b == Append_(a, word)
<1>1. a \in Rows
  BY AppendedRow, RowCells
<1> HIDE DEF a
<1>2. b \in Rows
  BY <1>1, AppendedRow
<1> HIDE DEF b
<1>3. Append_(b, <<" ">>) \in Rows
  BY <1>2, AppendedRow, RowCells
<1>4. ASSUME After(b) \in {" ", NL} PROVE [b EXCEPT !.cursor = @ + 1] \in Rows
  <2> DEFINE x == SubSeq(b.text, 1, b.cursor)
             y == SubSeq(b.text, b.cursor + 1, Len(b.text))
  <2>1. Split(b, x, y)
    BY <1>2, CursorSplits
  <2> HIDE DEF x, y
  <2>2. "end" # " " /\ "end" # NL
    BY DEF NL
  <2>3. y # <<>>
    BY <1>4, <2>1, <2>2, SplitAfter
  <2> QED BY <2>1, <2>3, SplitAfter, SplitIs
<1>5. Word(l, word) = IF After(b) \in {" ", NL} THEN [b EXCEPT !.cursor = @ + 1] ELSE Append_(b, <<" ">>)
  BY DEF Word, a, b
<1> QED BY <1>3, <1>4, <1>5

\* Rows of one cell or none.
NoCell == <<>>
OneBlank == <<" ">>
OneDash == <<"-">>
OneNL == <<NL>>
One(c) == <<c>>

\* Rows of one cell, named so that the provers meet them as cells and not as tuples.
LEMMA OneRow == ASSUME NEW c \in Cells PROVE One(c) \in Seq(Cells) /\ Len(One(c)) = 1
BY DEF One

LEMMA OneIs == ASSUME NEW c PROVE One(c)[1] = c
BY DEF One

LEMMA BlankIs == OneBlank = One(" ") /\ " " \in Cells
<1>1. " " \in Cells
  BY DEF Cells
<1> QED BY <1>1 DEF OneBlank, One

LEMMA BlankRow == OneBlank \in Seq(Cells) /\ Len(OneBlank) = 1
<1>1. OneBlank = One(" ") /\ " " \in Cells
  BY BlankIs
<1> QED BY <1>1, OneRow

LEMMA DashIs == OneDash = One("-") /\ "-" \in Cells
<1>1. "-" \in Cells
  BY DEF Cells
<1> QED BY <1>1 DEF OneDash, One

LEMMA DashRow == OneDash \in Seq(Cells) /\ Len(OneDash) = 1
<1>1. OneDash = One("-") /\ "-" \in Cells
  BY DashIs
<1> QED BY <1>1, OneRow

LEMMA EndIs == OneNL = One(NL) /\ NL \in Cells
<1>1. NL \in Cells
  BY DEF Cells
<1> QED BY <1>1 DEF OneNL, One

LEMMA EndRow == OneNL \in Seq(Cells) /\ Len(OneNL) = 1
<1>1. OneNL = One(NL) /\ NL \in Cells
  BY EndIs
<1> QED BY <1>1, OneRow

\* A blank adds nothing that is kept, and any other cell itself.
LEMMA OneMoreCell ==
    ASSUME NEW s \in Seq(Cells), NEW c \in Cells
    PROVE  /\ s \o One(c) \in Seq(Cells) /\ Len(s \o One(c)) = Len(s) + 1 /\ Len(s) \in Nat
           /\ (s \o One(c))[Len(s) + 1] = c
           /\ Solid(s) \in Seq(Cells)
           /\ Solid(s \o One(c)) = IF c = " " THEN Solid(s) ELSE Append(Solid(s), c)
<1>1. Append(s, c) = s \o One(c)
  BY AppendIsConcat DEF One
<1>2. /\ Append(s, c) \in Seq(Cells) /\ Len(Append(s, c)) = Len(s) + 1 /\ Len(s) \in Nat
      /\ Append(s, c)[Len(s) + 1] = c
  OBVIOUS
<1>3. /\ Solid(s) \in Seq(Cells)
      /\ Solid(Append(s, c)) = IF c = " " THEN Solid(s) ELSE Append(Solid(s), c)
  BY SolidAppend
<1> QED BY <1>1, <1>2, <1>3

\* At most a blank.
Gap == {g \in Seq(Cells) : Len(g) \in 0..1 /\ Solid(g) = <<>>}

LEMMA NoGap == NoCell \in Gap
BY SolidNone, EmptySeq DEF Gap, NoCell

LEMMA BlankGap == OneBlank \in Gap
<1>1. NoCell \in Seq(Cells) /\ NoCell \o One(" ") = One(" ") /\ Solid(NoCell) = NoCell
  <2>1. NoCell \in Seq(Cells)
    BY EmptySeq DEF NoCell
  <2>2. One(" ") \in Seq(Cells)
    BY BlankIs, OneRow
  <2>3. NoCell \o One(" ") = One(" ")
    BY <2>2, ConcatEmptySeq DEF NoCell
  <2> QED BY <2>1, <2>3, SolidNone DEF NoCell
<1>2. Solid(One(" ")) = NoCell
  BY <1>1, BlankIs, OneMoreCell
<1>3. Solid(OneBlank) = <<>>
  BY <1>2, BlankIs DEF NoCell
<1> QED BY <1>3, BlankRow DEF Gap

Two(c, d) == <<c, d>>

LEMMA TwoIs == ASSUME NEW c, NEW d PROVE Len(Two(c, d)) = 2 /\ Two(c, d)[1] = c /\ Two(c, d)[2] = d
BY DEF Two

LEMMA TwoRow == ASSUME NEW c \in Cells, NEW d \in Cells PROVE Two(c, d) \in Seq(Cells)
BY DEF Two

LEMMA TwoIsOneMore ==
    ASSUME NEW c \in Cells, NEW d \in Cells
    PROVE  Append(One(c), d) = Two(c, d)
<1> DEFINE r == One(c)
           a == Append(r, d)
           b == Two(c, d)
<1>1. r \in Seq(Cells) /\ Len(r) = 1
  BY OneRow
<1>2. r[1] = c
  BY OneIs
<1>3. b \in Seq(Cells)
  BY TwoRow
<1>4. Len(b) = 2 /\ b[1] = c /\ b[2] = d
  BY TwoIs
<1> HIDE DEF r, b
<1>5. a \in Seq(Cells) /\ Len(a) = Len(r) + 1
  BY <1>1, AppendProperties
<1>9. a[Len(r) + 1] = d
  BY <1>1, AppendProperties
<1>10. \A i \in 1..Len(r) : a[i] = r[i]
  BY <1>1, AppendProperties
<1> HIDE DEF a
<1>6. Len(a) = 2 /\ a[2] = d /\ a[1] = c
  BY <1>1, <1>2, <1>5, <1>9, <1>10
<1>7. \A i \in 1..2 : a[i] = b[i]
  BY <1>4, <1>6
<1>8. a = b
  BY <1>3, <1>4, <1>5, <1>6, <1>7, SeqEqual
<1> QED BY <1>8 DEF a, b, r

LEMMA TwoMoreCells ==
    ASSUME NEW q \in Seq(Cells), NEW c \in Cells, NEW d \in Cells
    PROVE  Append(Append(q, c), d) = q \o Two(c, d)
<1> DEFINE r == One(c)
<1>1. r \in Seq(Cells)
  BY OneRow
<1>2. Append(q, c) = q \o r
  BY AppendIsConcat DEF One
<1>3. Append(r, d) = Two(c, d)
  BY TwoIsOneMore
<1> HIDE DEF r
<1>4. q \o Append(r, d) = Append(q \o r, d)
  BY <1>1, AppendConcat
<1> QED BY <1>2, <1>3, <1>4

\* A word typed where there is room: a space either side of it, its own or the
\* line's.
LEMMA WordSplit ==
    ASSUME NEW l, NEW x, NEW y, Split(l, x, y), NEW word \in Seq(Cells), Len(word) \in 1..2,
           Len(x) + Len(y) + 6 < INPUT_MAX
    PROVE  \E gap \in Gap :
               LET w == (x \o gap) \o word
               IN  \/ Split(Word(l, word), w \o OneBlank, y)
                   \/ y # <<>> /\ y[1] = " " /\ Split(Word(l, word), w \o OneBlank, Tail(y))
                   \/ y # <<>> /\ y[1] = NL /\ Split(Word(l, word), w \o OneNL, Tail(y))
<1> DEFINE a == IF Before(l) \in {" ", NL} THEN l ELSE Append_(l, OneBlank)
           b == Append_(a, word)
<1>1. x \in Seq(Cells) /\ y \in Seq(Cells) /\ Len(x) \in Nat /\ Len(y) \in Nat /\ INPUT_MAX \in Nat
  BY SplitIs, LineAssumption DEF Split
<1>0. PICK X \in Nat, Y \in Nat : Len(x) = X /\ Len(y) = Y /\ X + Y + 6 < INPUT_MAX
                                  /\ INPUT_MAX \in Nat
  BY <1>1
<1>2. PICK gap \in Gap : Split(a, x \o gap, y)
  <2>1. CASE Before(l) \in {" ", NL}
    <3>1. x \o NoCell = x
      BY <1>1, ConcatEmptySeq DEF NoCell
    <3> QED BY <2>1, <3>1, NoGap
  <2>2. CASE Before(l) \notin {" ", NL}
    <3>1. Len(x) + Len(y) + Len(OneBlank) < INPUT_MAX
      <4>1. Len(OneBlank) = 1
        BY BlankRow
      <4> QED BY <1>0, <4>1
    <3>2. Split(Append_(l, OneBlank), x \o OneBlank, y)
      BY <3>1, BlankRow, SplitAppended
    <3> QED BY <2>2, <3>2, BlankGap DEF OneBlank
  <2> QED BY <2>1, <2>2
<1> DEFINE g == x \o gap
           w == g \o word
<1>3. gap \in Seq(Cells) /\ Len(gap) \in 0..1
  BY DEF Gap
<1>4. g \in Seq(Cells) /\ Len(g) = Len(x) + Len(gap)
  BY <1>1, <1>3, TwoParts
<1> HIDE DEF a, g
<1>11. PICK p \in 0..1, q \in 1..2 : Len(gap) = p /\ Len(word) = q
  BY <1>3
<1>12. Len(g) = X + p /\ INPUT_MAX \in Nat
  BY <1>0, <1>1, <1>4, <1>11
<1>5. w \in Seq(Cells) /\ Len(w) = Len(g) + Len(word)
  BY <1>4, TwoParts
<1>6. Split(a, g, y)
  BY <1>2 DEF g
<1>7. Split(b, w, y)
  <2>1. Len(g) + Len(y) + Len(word) < INPUT_MAX
    BY <1>0, <1>11, <1>12
  <2> QED BY <1>6, <2>1, SplitAppended
<1> HIDE DEF b, w
<1>8. Word(l, word) = IF After(b) \in {" ", NL} THEN [b EXCEPT !.cursor = @ + 1] ELSE Append_(b, OneBlank)
  BY DEF Word, a, b, OneBlank
<1>9. CASE After(b) \in {" ", NL}
  <2>1. "end" # " " /\ "end" # NL
    BY DEF NL
  <2>2. /\ y # <<>> /\ y[1] \in {" ", NL}
        /\ Split([b EXCEPT !.cursor = @ + 1], w \o <<y[1]>>, Tail(y))
    BY <1>7, <1>9, <2>1, SplitAfter
  <2>3. Word(l, word) = [b EXCEPT !.cursor = @ + 1]
    BY <1>8, <1>9
  <2>4. CASE y[1] = " "
    BY <1>2, <2>2, <2>3, <2>4 DEF w, g, OneBlank
  <2>5. CASE y[1] = NL
    BY <1>2, <2>2, <2>3, <2>5 DEF w, g, OneNL
  <2> QED BY <2>2, <2>4, <2>5
<1>10. CASE After(b) \notin {" ", NL}
  <2>1. Len(w) + Len(y) + Len(OneBlank) < INPUT_MAX
    <3>1. Len(w) = X + p + q
      BY <1>5, <1>11, <1>12
    <3>2. Len(OneBlank) = 1
      BY BlankRow
    <3> QED BY <1>0, <1>11, <1>12, <3>1, <3>2
  <2>2. Split(Append_(b, OneBlank), w \o OneBlank, y)
    BY <1>7, <2>1, BlankRow, SplitAppended
  <2> QED BY <1>2, <1>8, <1>10, <2>2 DEF w, g
<1> QED BY <1>9, <1>10

\* A sign where a minus was typed: what Sign makes of the line the minus key made.
LEMMA SignTyped ==
    ASSUME NEW l \in Rows, line = Word(l, MinusText), Meant, NEW d \in Digits \cap Typeable,
           Len(l.text) + 6 < INPUT_MAX
    PROVE  Solid(Append_(Append_(TakenBack(line), OneDash), One(d)).text)
             = Solid(SubSeq(l.text, 1, l.cursor)) \o Two("-", d)
                 \o Solid(SubSeq(l.text, l.cursor + 1, Len(l.text)))
<1> DEFINE x == SubSeq(l.text, 1, l.cursor)
           y == SubSeq(l.text, l.cursor + 1, Len(l.text))
           m == MinusText
<1>1. Split(l, x, y)
  BY CursorSplits
<1> HIDE DEF x, y, m
<1>2. /\ Len(x) + Len(y) + 6 < INPUT_MAX /\ Len(x) \in Nat /\ Len(y) \in Nat /\ INPUT_MAX \in Nat
      /\ x \in Seq(Cells) /\ y \in Seq(Cells)
  BY <1>1, SplitIs, LineAssumption DEF Split
<1>3. m \in Seq(Cells) /\ Len(m) \in 1..2
  BY RowCells DEF m
<1>4. PICK gap \in Gap :
          LET w == (x \o gap) \o m
          IN  \/ Split(line, w \o OneBlank, y)
              \/ y # <<>> /\ y[1] = " " /\ Split(line, w \o OneBlank, Tail(y))
              \/ y # <<>> /\ y[1] = NL /\ Split(line, w \o OneNL, Tail(y))
  BY <1>1, <1>2, <1>3, WordSplit DEF m
<1> DEFINE g == x \o gap
           w == g \o m
<1>5. gap \in Seq(Cells) /\ Len(gap) \in 0..1
  BY DEF Gap
<1>6. g \in Seq(Cells) /\ Len(g) = Len(x) + Len(gap)
  BY <1>2, <1>5, TwoParts
<1> HIDE DEF g
<1>7. w \in Seq(Cells) /\ Len(w) = Len(g) + Len(m)
  BY <1>3, <1>6, TwoParts
<1> HIDE DEF w
<1>8. \/ Split(line, w \o OneBlank, y)
      \/ y # <<>> /\ y[1] = " " /\ Split(line, w \o OneBlank, Tail(y))
      \/ y # <<>> /\ y[1] = NL /\ Split(line, w \o OneNL, Tail(y))
  BY <1>4 DEF w, g
\* The cell before the cursor is the blank of the minus, not a line's end.
<1>9. ASSUME Split(line, w \o OneNL, Tail(y)) PROVE FALSE
  <2> DEFINE n == Len(m) + 1
             c == line.cursor
             t == line.text
             u == w \o OneNL
             v == Tail(y)
  <2>1. c >= n /\ SubSeq(t, c - n + 1, c) = m \o OneBlank
    BY DEF Meant, m, OneBlank
  <2>2. /\ Len(u) = Len(w) + 1 /\ u \in Seq(Cells) /\ u[Len(w) + 1] = NL
    BY <1>7, EndIs, OneMoreCell
  <2> HIDE DEF u, v, t, c
  <2>3. Split(line, u, v)
    BY <1>9 DEF u, v
  <2>4. t = u \o v /\ c = Len(u) /\ v \in Seq(Cells) /\ t \in Seq(Cells) /\ Len(t) = Len(u) + Len(v)
        /\ Len(u) \in Nat /\ Len(v) \in Nat
    BY <2>3, SplitIs, TwoParts DEF Split, t, c
  <2>6. t[c] = NL
    <3>1. \A i \in 1..(Len(u) + Len(v)) : t[i] = IF i <= Len(u) THEN u[i] ELSE v[i - Len(u)]
      BY <2>2, <2>4, ConcatProperties
    <3> QED BY <1>7, <2>2, <2>4, <3>1
  <2> DEFINE lo == c - n + 1
  <2>7. lo \in Int /\ c \in Int /\ lo <= c /\ c - lo + 1 = n /\ \A i \in lo..c : t[i] \in Cells
    <3>1. \A i \in lo..c : i \in 1..Len(t)
      BY <1>3, <2>1, <2>4
    <3> QED BY <1>3, <2>1, <2>4, <3>1
  <2>8. lo + n - 1 = c /\ n \in 1..n
    BY <1>3, <2>4
  <2> HIDE DEF lo
  <2>9. SubSeq(t, lo, c) \in Seq(Cells) /\ \A i \in 1..(c - lo + 1) : SubSeq(t, lo, c)[i] = t[lo + i - 1]
    BY <2>7, SubSeqProperties
  <2>10. SubSeq(t, lo, c)[n] = NL
    <3> HIDE DEF n
    <3> QED BY <2>6, <2>7, <2>8, <2>9
  <2>11. (m \o OneBlank)[n] = " "
    BY <1>3, BlankIs, OneMoreCell
  <2>12. " " # NL
    BY DEF NL
  <2> QED BY <2>1, <2>10, <2>11, <2>12 DEF lo
<1>10. PICK r : Split(line, w \o OneBlank, r) /\ (r = y \/ (y # <<>> /\ y[1] = " " /\ r = Tail(y)))
  <2> DEFINE A(r) == Split(line, w \o OneBlank, r)
             B == Split(line, w \o OneNL, Tail(y))
             P(c) == y # <<>> /\ y[1] = c
  <2>1. A(y) \/ (P(" ") /\ A(Tail(y))) \/ (P(NL) /\ B)
    BY <1>8, Zenon
  <2>2. ~B
    BY <1>9
  <2> HIDE DEF A, B, P
  <2>3. \E r : A(r) /\ (r = y \/ (P(" ") /\ r = Tail(y)))
    BY <2>1, <2>2, Zenon
  <2>4. PICK r : A(r) /\ (r = y \/ (P(" ") /\ r = Tail(y)))
    BY <2>3
  <2>5. A(r) /\ (r = y \/ (y # <<>> /\ y[1] = " " /\ r = Tail(y)))
    BY <2>4 DEF P
  <2> QED BY <2>5 DEF A
<1>11. r \in Seq(Cells) /\ Len(r) <= Len(y) /\ Len(r) \in Nat /\ Solid(r) = Solid(y)
  <2>1. CASE r = y
    BY <1>2, <2>1
  <2>2. CASE y # <<>> /\ y[1] = " " /\ r = Tail(y)
    <3>1. r \in Seq(Cells) /\ y = OneBlank \o r
      BY <1>1, <2>2, SplitAfter DEF OneBlank
    <3>2. Len(y) = Len(r) + 1 /\ Len(r) \in Nat
      BY <3>1, BlankRow, TwoParts
    <3>3. Solid(y) = Solid(OneBlank) \o Solid(r)
      BY <3>1, BlankRow, SolidConcat
    <3>4. Solid(OneBlank) = <<>>
      BY BlankGap DEF Gap
    <3>5. Solid(r) \in Seq(Cells)
      BY <3>1, BlankIs, OneMoreCell
    <3>6. <<>> \o Solid(r) = Solid(r)
      BY <3>5, ConcatEmptySeq
    <3> QED BY <3>1, <3>2, <3>3, <3>4, <3>6
  <2> QED BY <1>10, <2>1, <2>2
<1> DEFINE z == m \o OneBlank
           k == TakenBack(line)
<1>12. z \in Seq(Cells) /\ Len(z) = Len(m) + 1
  BY <1>3, BlankIs, OneMoreCell
<1>13. w \o OneBlank = g \o z
  BY <1>3, <1>6, BlankRow, ConcatAssociative DEF w
<1>14. Split(k, g, r)
  <2> HIDE DEF z
  <2>1. Split(line, g \o z, r)
    BY <1>10, <1>13
  <2>2. Split(Without(line, Len(z)), g, r)
    BY <1>6, <1>12, <2>1, SplitWithout
  <2> QED BY <1>12, <2>2 DEF TakenBack, m
<1> HIDE DEF z, k
<1>15. d \in Cells /\ One(d) \in Seq(Cells) /\ Len(One(d)) = 1 /\ d # " "
  BY RowCells, OneRow DEF Digits
<1> DEFINE s == Append_(k, OneDash)
           e == g \o OneDash
           f == e \o One(d)
<1>16. e \in Seq(Cells) /\ Len(e) = Len(g) + 1
  BY <1>6, DashIs, OneMoreCell
<1>24. PICK G \in Nat, R \in Nat : Len(g) = G /\ Len(r) = R /\ G + R + 2 < INPUT_MAX
  <2>1. PICK X \in Nat, Y \in Nat : Len(x) = X /\ Len(y) = Y /\ X + Y + 6 < INPUT_MAX
    BY <1>2
  <2>2. PICK p \in 0..1 : Len(gap) = p
    BY <1>5
  <2>3. PICK R \in Nat : Len(r) = R
    BY <1>11
  <2>4. R <= Y
    BY <1>11, <2>1, <2>3
  <2>5. Len(g) = X + p /\ INPUT_MAX \in Nat
    BY <1>2, <1>6, <2>1, <2>2
  <2> QED BY <2>1, <2>3, <2>4, <2>5
<1>25. INPUT_MAX \in Nat
  BY <1>2
<1>17. Split(s, e, r)
  <2>1. Len(g) + Len(r) + Len(OneDash) < INPUT_MAX
    BY <1>24, <1>25, DashRow
  <2> QED BY <1>14, <2>1, DashRow, SplitAppended
<1> HIDE DEF s, e
<1>18. Split(Append_(s, One(d)), f, r)
  <2>1. Len(e) + Len(r) + Len(One(d)) < INPUT_MAX
    <3>1. Len(e) = Len(g) + 1 /\ Len(One(d)) = 1
      BY <1>15, <1>16
    <3> QED BY <1>24, <1>25, <3>1
  <2> QED BY <1>15, <1>17, <2>1, SplitAppended
<1>19. Append_(s, One(d)).text = f \o r
  BY <1>18, SplitIs
<1>20. f \in Seq(Cells)
  BY <1>15, <1>16, TwoParts
<1>21. Solid(f \o r) = Solid(f) \o Solid(y)
  <2> HIDE DEF f
  <2> QED BY <1>11, <1>20, SolidConcat
\* The gap is a blank or nothing, the sign and the digit are none.
<1>22. Solid(g) = Solid(x) /\ Solid(x) \in Seq(Cells)
  <2>1. Solid(x) \in Seq(Cells)
    BY <1>2, BlankIs, OneMoreCell
  <2>2. Solid(g) = Solid(x) \o Solid(gap) /\ Solid(gap) = <<>>
    BY <1>2, SolidConcat DEF g, Gap
  <2> QED BY <2>1, <2>2, ConcatEmptySeq
<1>23. Solid(f) = Solid(x) \o Two("-", d)
  <2> DEFINE q == Solid(x)
  <2>1. Solid(e) = Append(Solid(g), "-")
    <3>1. "-" # " "
      OBVIOUS
    <3> QED BY <1>6, <3>1, DashIs, OneMoreCell DEF e
  <2>2. Solid(f) = Append(Solid(e), d)
    BY <1>15, <1>16, OneMoreCell
  <2> HIDE DEF q, f
  <2>3. Solid(f) = Append(Append(q, "-"), d)
    BY <1>22, <2>1, <2>2 DEF q
  <2>4. q \in Seq(Cells)
    BY <1>22 DEF q
  <2>5. d \in Cells /\ "-" \in Cells
    BY <1>15, DashIs
  <2>6. q \o Two("-", d) = Append(Append(q, "-"), d)
    BY <2>4, <2>5, TwoMoreCells
  <2> QED BY <2>3, <2>6 DEF q
<1> QED BY <1>19, <1>21, <1>23 DEF s, k, x, y

-----------------------------------------------------------------------------
(* The line: the completion of a word                                       *)

\* Prefixes.
LEMMA Fronts ==
    ASSUME NEW w \in Seq(Cells), NEW n \in 0..Len(w), NEW u, u = SubSeq(w, 1, n)
    PROVE  u \in Seq(Cells) /\ Len(u) = n /\ \A i \in 1..n : u[i] = w[i]
<1>1. Len(w) \in Nat /\ \A i \in 1..Len(w) : w[i] \in Cells
  OBVIOUS
<1>2. n \in Nat /\ \A i \in 1..n : i \in 1..Len(w)
  BY <1>1
<1>3. 1 \in Int /\ n \in Int /\ \A i \in 1..n : w[i] \in Cells
  BY <1>1, <1>2
<1>4. /\ u \in Seq(Cells) /\ Len(u) = IF 1 <= n THEN n - 1 + 1 ELSE 0
      /\ \A i \in 1..(n - 1 + 1) : u[i] = w[1 + i - 1]
  BY <1>3, SubSeqProperties
<1>5. Len(u) = n /\ n - 1 + 1 = n
  BY <1>2, <1>4
<1>6. \A i \in 1..n : 1 + i - 1 = i
  OBVIOUS
<1> QED BY <1>4, <1>5, <1>6

LEMMA PrefixIs ==
    ASSUME NEW c \in Seq(Cells), NEW w \in Seq(Cells)
    PROVE  IsPrefix(c, w) <=> (Len(c) <= Len(w) /\ \A i \in 1..Len(c) : c[i] = w[i])
<1>1. Len(c) \in Nat /\ Len(w) \in Nat /\ SubSeq(c, 1, Len(c)) = c
  BY SubSeqFull
<1>2. CASE ~(Len(c) <= Len(w))
  BY <1>2 DEF IsPrefix
<1>3. CASE Len(c) <= Len(w)
  <2> DEFINE u == SubSeq(w, 1, Len(c))
             n == Len(c)
  <2>0. u = SubSeq(w, 1, n)
    OBVIOUS
  <2>1. n \in 0..Len(w)
    BY <1>1, <1>3
  <2> HIDE DEF u, n
  <2>2. u \in Seq(Cells) /\ Len(u) = n /\ \A i \in 1..n : u[i] = w[i]
    BY <2>0, <2>1, Fronts
  <2>3. IsPrefix(c, w) <=> c = u
    BY <1>1, <1>3 DEF IsPrefix, u, n
  <2>4. c = u <=> \A i \in 1..n : c[i] = u[i]
    BY <2>2, SeqEqual DEF n
  <2> QED BY <1>3, <2>2, <2>3, <2>4 DEF n
<1> QED BY <1>2, <1>3

\* Of two beginnings of one word the shorter begins the longer.
LEMMA TwoPrefixes ==
    ASSUME NEW c \in Seq(Cells), NEW d \in Seq(Cells), NEW w \in Seq(Cells),
           IsPrefix(c, w), IsPrefix(d, w), Len(d) <= Len(c)
    PROVE  IsPrefix(d, c) /\ (Len(d) = Len(c) => d = c)
<1>1. Len(c) \in Nat /\ Len(d) \in Nat
  OBVIOUS
<1>2. \A i \in 1..Len(c) : c[i] = w[i]
  BY PrefixIs
<1>3. \A i \in 1..Len(d) : d[i] = w[i]
  BY PrefixIs
<1>4. \A i \in 1..Len(d) : i \in 1..Len(c)
  BY <1>1
<1>5. \A i \in 1..Len(d) : d[i] = c[i]
  BY <1>2, <1>3, <1>4
<1>6. IsPrefix(d, c)
  BY <1>5, PrefixIs
<1> QED BY <1>5, <1>6, SeqEqual

LEMMA PrefixOfFront ==
    ASSUME NEW w \in Seq(Cells), NEW n \in 0..Len(w), NEW d \in Seq(Cells)
    PROVE  /\ IsPrefix(SubSeq(w, 1, n), w)
           /\ IsPrefix(d, w) => SubSeq(w, 1, Len(d)) = d
<1> DEFINE u == SubSeq(w, 1, n)
<1>0. u = SubSeq(w, 1, n)
  OBVIOUS
<1> HIDE DEF u
<1>1. u \in Seq(Cells) /\ Len(u) = n /\ \A i \in 1..n : u[i] = w[i]
  BY <1>0, Fronts
<1>2. Len(u) <= Len(w)
  BY <1>1
<1>3. IsPrefix(u, w)
  BY <1>1, <1>2, PrefixIs
<1>4. SubSeq(d, 1, Len(d)) = d
  BY SubSeqFull
<1> QED BY <1>3, <1>4 DEF u, IsPrefix

LEMMA PrefixTrans ==
    ASSUME NEW a \in Seq(Cells), NEW b \in Seq(Cells), NEW c \in Seq(Cells),
           IsPrefix(a, b), IsPrefix(b, c)
    PROVE  IsPrefix(a, c)
<1>1. Len(a) \in Nat /\ Len(b) \in Nat /\ Len(c) \in Nat
  OBVIOUS
<1>2. Len(a) <= Len(b) /\ \A i \in 1..Len(a) : a[i] = b[i]
  BY PrefixIs
<1>3. Len(b) <= Len(c) /\ \A i \in 1..Len(b) : b[i] = c[i]
  BY PrefixIs
<1>4. Len(a) <= Len(c) /\ \A i \in 1..Len(a) : a[i] = c[i]
  <2>1. \A i \in 1..Len(a) : i \in 1..Len(b)
    BY <1>1, <1>2
  <2>2. Len(a) <= Len(c)
    BY <1>1, <1>2, <1>3
  <2> QED BY <1>2, <1>3, <2>1, <2>2
<1> QED BY <1>4, PrefixIs

\* narrow_common: the longest beginning of both.
LEMMA SharedIs ==
    ASSUME NEW a \in Seq(Cells), NEW b \in Seq(Cells)
    PROVE  /\ Shared(a, b) \in Seq(Cells)
           /\ IsPrefix(Shared(a, b), a) /\ IsPrefix(Shared(a, b), b)
           /\ \A d \in Seq(Cells) : IsPrefix(d, a) /\ IsPrefix(d, b) => Len(d) <= Len(Shared(a, b))
<1> DEFINE M == {Len(a), Len(b)}
           m == Min(M)
           T == {i \in 0..m : SubSeq(a, 1, i) = SubSeq(b, 1, i)}
           n == Max(T)
<1>1. Len(a) \in Nat /\ Len(b) \in Nat
  OBVIOUS
<1>2. m \in Nat /\ m <= Len(a) /\ m <= Len(b) /\ (m = Len(a) \/ m = Len(b))
  <2>1. M \in SUBSET Nat /\ M # {}
    BY <1>1
  <2>2. Min(M) \in M /\ \A y \in M : Min(M) <= y
    <3> HIDE DEF M
    <3> QED BY <2>1, LeastNat
  <2> QED BY <1>1, <2>2
<1>3. Shared(a, b) = SubSeq(a, 1, n)
  BY DEF Shared
<1> HIDE DEF m
<1>4. 0 \in T
  <2>1. SubSeq(a, 1, 0) = <<>> /\ SubSeq(b, 1, 0) = <<>>
    BY SubSeqEmpty
  <2> QED BY <1>2, <2>1
<1>5. n \in T /\ n \in 0..m /\ \A y \in T : y <= n
  <2>1. T \in SUBSET (0..m) /\ T # {} /\ 0 \in Nat
    BY <1>4
  <2> HIDE DEF T
  <2> QED BY <1>2, <2>1, Between
<1>6. n \in 0..Len(a) /\ n \in 0..Len(b) /\ SubSeq(a, 1, n) = SubSeq(b, 1, n)
  <2>1. n \in 0..Len(a) /\ n \in 0..Len(b)
    <3> HIDE DEF n
    <3> QED BY <1>1, <1>2, <1>5
  <2> QED BY <1>5, <2>1
<1> DEFINE u == SubSeq(a, 1, n)
<1>7. u \in Seq(Cells) /\ Len(u) = n
  <2>1. u = SubSeq(a, 1, n)
    OBVIOUS
  <2> HIDE DEF n, u
  <2> QED BY <1>6, <2>1, Fronts
<1>8. IsPrefix(u, a) /\ IsPrefix(SubSeq(b, 1, n), b)
  <2> HIDE DEF n
  <2>1. IsPrefix(u, a)
    BY <1>6, PrefixOfFront
  <2>2. IsPrefix(SubSeq(b, 1, n), b)
    BY <1>6, PrefixOfFront
  <2> QED BY <2>1, <2>2
<1>9. ASSUME NEW d \in Seq(Cells), IsPrefix(d, a), IsPrefix(d, b)
      PROVE  Len(d) <= n
  <2>1. Len(d) \in Nat /\ Len(d) <= Len(a) /\ Len(d) <= Len(b)
    BY <1>9, PrefixIs
  <2>2. Len(d) \in 0..m
    BY <1>2, <2>1
  <2>3. SubSeq(a, 1, Len(d)) = d /\ SubSeq(b, 1, Len(d)) = d
    <3>1. Len(d) \in 0..Len(a) /\ Len(d) \in 0..Len(b)
      BY <1>1, <2>1
    <3>2. SubSeq(a, 1, Len(d)) = d
      BY <1>9, <3>1, PrefixOfFront
    <3>3. SubSeq(b, 1, Len(d)) = d
      BY <1>9, <3>1, PrefixOfFront
    <3> QED BY <3>2, <3>3
  <2>4. Len(d) \in T
    BY <2>2, <2>3
  <2> QED BY <1>5, <2>4
<1> HIDE DEF u, n
<1> QED BY <1>3, <1>6, <1>7, <1>8, <1>9 DEF u

\* c begins every word of W, and nothing longer does.
Longest(c, W) ==
    /\ c \in Seq(Cells) /\ \A w \in W : IsPrefix(c, w)
    /\ \A d \in Seq(Cells) : (\A w \in W : IsPrefix(d, w)) => Len(d) <= Len(c)

\* What has been found of the words W.
Found(out, W) ==
    /\ IsFiniteSet(W) /\ W \subseteq Seq(Cells)
    /\ out.matches \in Nat /\ out.listing \subseteq W
    /\ out.matches = 0 <=> W = {}
    /\ out.matches = 1 => \E w : W = {w} /\ out.listing = {w}
    /\ out.matches > 1 => \E v, w \in W : v # w
    /\ W # {} => Longest(out.common, W)

LEMMA LongestOne == ASSUME NEW w \in Seq(Cells) PROVE Longest(w, {w})
<1>1. Len(w) \in 0..Len(w) /\ SubSeq(w, 1, Len(w)) = w
  BY SubSeqFull
<1>2. IsPrefix(w, w)
  BY <1>1, PrefixOfFront
<1>3. \A d \in Seq(Cells) : IsPrefix(d, w) => Len(d) <= Len(w)
  BY PrefixIs
<1> QED BY <1>2, <1>3 DEF Longest

\* narrow_common: what begins all the words and one more.
LEMMA LongestMore ==
    ASSUME NEW W \in SUBSET Seq(Cells), W # {}, NEW c, Longest(c, W), NEW name \in Seq(Cells)
    PROVE  Longest(Shared(c, name), W \cup {name})
<1> DEFINE s == Shared(c, name)
<1>1. c \in Seq(Cells) /\ \A w \in W : IsPrefix(c, w)
  BY DEF Longest
<1>2. s \in Seq(Cells) /\ IsPrefix(s, c) /\ IsPrefix(s, name)
      /\ \A d \in Seq(Cells) : IsPrefix(d, c) /\ IsPrefix(d, name) => Len(d) <= Len(s)
  BY <1>1, SharedIs
<1> HIDE DEF s
<1>3. ASSUME NEW w \in W \cup {name} PROVE IsPrefix(s, w)
  <2>1. CASE w \in W
    <3>1. w \in Seq(Cells) /\ IsPrefix(c, w)
      BY <1>1, <2>1
    <3> QED BY <1>1, <1>2, <3>1, PrefixTrans
  <2>2. CASE w = name
    BY <1>2, <2>2
  <2> QED BY <2>1, <2>2
<1>4. ASSUME NEW d \in Seq(Cells), \A w \in W \cup {name} : IsPrefix(d, w)
      PROVE  Len(d) <= Len(s)
  <2>1. PICK w : w \in W
    OBVIOUS
  <2>2. Len(d) <= Len(c)
    BY <1>4 DEF Longest
  <2>3. IsPrefix(d, c)
    <3>1. w \in Seq(Cells) /\ IsPrefix(c, w) /\ IsPrefix(d, w)
      BY <1>1, <1>4, <2>1
    <3> QED BY <1>1, <2>2, <3>1, TwoPrefixes
  <2>4. IsPrefix(d, name)
    BY <1>4
  <2> QED BY <1>2, <2>3, <2>4
<1>5. Longest(s, W \cup {name})
  BY <1>2, <1>3, <1>4 DEF Longest
<1> QED BY <1>5 DEF s

\* consider, told the next word.
LEMMA Considered ==
    ASSUME NEW out, NEW W, Found(out, W), NEW name \in Seq(Cells)
    PROVE  Found(Consider(out, name), W \cup {name})
<1> DEFINE now == Consider(out, name)
           V == W \cup {name}
<1>1. /\ IsFiniteSet(W) /\ W \subseteq Seq(Cells)
      /\ out.matches \in Nat /\ out.listing \subseteq W
  BY DEF Found
<1>2. /\ out.matches = 0 <=> W = {}
      /\ out.matches = 1 => \E w : W = {w} /\ out.listing = {w}
      /\ out.matches > 1 => \E v, w \in W : v # w
      /\ W # {} => Longest(out.common, W)
  BY DEF Found
<1>3. CASE name \in out.listing
  <2>1. now = out /\ V = W
    BY <1>1, <1>3 DEF Consider
  <2> QED BY <2>1
<1>4. CASE name \notin out.listing
  <2> DEFINE common == IF out.matches = 0 THEN name ELSE Shared(out.common, name)
             listing == IF Cardinality(out.listing) < LISTING THEN out.listing \cup {name} ELSE out.listing
  <2>1. now = [matches |-> out.matches + 1, common |-> common, listing |-> listing]
    BY <1>4 DEF Consider
  <2> HIDE DEF common, listing
  <2>2. now.matches = out.matches + 1 /\ now.common = common /\ now.listing = listing
    BY <2>1
  <2>3. IsFiniteSet(V) /\ V \subseteq Seq(Cells) /\ V # {}
    <3>1. IsFiniteSet(V)
      BY <1>1, FS_AddElement
    <3> QED BY <1>1, <3>1
  <2>4. now.matches \in Nat /\ now.matches # 0
    BY <1>1, <2>2
  <2>5. now.listing \subseteq V
    BY <1>1, <2>2 DEF listing
  <2>6. ASSUME out.matches = 0
        PROVE  now.matches = 1 /\ V = {name} /\ now.listing = {name} /\ Longest(now.common, V)
    <3>1. W = {} /\ out.listing = {}
      BY <1>1, <1>2, <2>6
    <3>2. Cardinality(out.listing) = 0 /\ LISTING \in Nat \ {0}
      BY <3>1, FS_EmptySet, LineAssumption
    <3>3. listing = {name}
      BY <3>1, <3>2 DEF listing
    <3>4. V = {name} /\ common = name
      BY <2>6, <3>1 DEF common
    <3>5. Longest(name, {name})
      BY LongestOne
    <3>6. now.matches = 1
      BY <2>2, <2>6
    <3> HIDE DEF V, now
    <3> QED BY <2>2, <3>3, <3>4, <3>5, <3>6
  <2>7. ASSUME out.matches # 0
        PROVE  now.matches > 1 /\ (\E v, w \in V : v # w) /\ Longest(now.common, V)
    <3>1. W # {} /\ Longest(out.common, W)
      BY <1>2, <2>7
    <3>2. common = Shared(out.common, name)
      BY <2>7 DEF common
    <3>3. Longest(common, V)
      BY <1>1, <3>1, <3>2, LongestMore
    <3>4. \E v, w \in V : v # w
      <4>1. CASE out.matches = 1
        <5>1. PICK w : W = {w} /\ out.listing = {w}
          BY <1>2, <4>1
        <5>2. w # name /\ w \in V /\ name \in V
          BY <1>4, <5>1
        <5> QED BY <5>2
      <4>2. CASE out.matches # 1
        <5>1. out.matches > 1
          BY <1>1, <2>7, <4>2
        <5>2. PICK v, w \in W : v # w
          BY <1>2, <5>1
        <5> QED BY <5>2
      <4> QED BY <4>1, <4>2
    <3>5. now.matches > 1
      BY <1>1, <2>2, <2>7
    <3> QED BY <2>2, <3>3, <3>4, <3>5
  <2> HIDE DEF now, V
  <2>8. Found(now, V)
    <3>1. CASE out.matches = 0
      <4>1. ~(now.matches > 1)
        BY <2>6, <3>1
      <4> QED BY <2>3, <2>4, <2>5, <2>6, <3>1, <4>1 DEF Found
    <3>2. CASE out.matches # 0
      <4>1. now.matches # 1
        BY <2>4, <2>7, <3>2
      <4> QED BY <2>3, <2>4, <2>5, <2>7, <3>2, <4>1 DEF Found
    <3> QED BY <3>1, <3>2
  <2> QED BY <2>8 DEF now, V
<1> QED BY <1>3, <1>4

\* What is known when i words have been seen, from what was when one fewer had.
WordSeen(prefix, out, i) ==
    IF IsPrefix(prefix, Vocabulary[i]) THEN Consider(out, Vocabulary[i]) ELSE out
Walk(f, prefix, n) == f = [i \in 0..n |-> IF i = 0 THEN NoMatches ELSE WordSeen(prefix, f[i - 1], i)]

LEMMA CompleteDef ==
    ASSUME NEW prefix
    PROVE  Complete(prefix) = (CHOOSE f : Walk(f, prefix, Len(Vocabulary)))[Len(Vocabulary)]
BY Zenon DEF Complete, Walk, WordSeen

\* Complete's function of the words seen is there, whatever the vocabulary.
LEMMA WalkExists ==
    ASSUME NEW prefix, NEW N \in Nat
    PROVE  \E f : Walk(f, prefix, N)
<1> DEFINE P(n) == \E f : Walk(f, prefix, n)
           T == {n \in 0..N : ~P(n)}
<1>1. T = {}
  <2> SUFFICES ASSUME T # {} PROVE FALSE
    OBVIOUS
  <2>1. T \in SUBSET Nat
    <3> HIDE DEF P
    <3> QED OBVIOUS
  <2>2. PICK n \in T : \A j \in T : n <= j
    <3> HIDE DEF T
    <3> QED BY <2>1, LeastNat
  <2>3. n \in 0..N /\ ~P(n)
    BY <2>2
  <2>4. CASE n = 0
    <3> DEFINE e == [i \in 0..0 |-> NoMatches]
    <3>1. \A i \in 0..0 : i = 0
      OBVIOUS
    <3>2. e = [i \in 0..0 |-> IF i = 0 THEN NoMatches ELSE WordSeen(prefix, e[i - 1], i)]
      BY <3>1
    <3> HIDE DEF e
    <3> QED BY <2>3, <2>4, <3>2 DEF Walk
  <2>5. CASE n # 0
    <3>1. n - 1 \in 0..N /\ n - 1 < n /\ n \in Nat
      BY <2>3, <2>5
    <3>2. n - 1 \notin T
      <4> HIDE DEF T
      <4> QED BY <2>1, <2>2, <3>1
    <3>3. PICK f : Walk(f, prefix, n - 1)
      <4>1. P(n - 1)
        BY <3>1, <3>2
      <4> QED BY <4>1
    <3> DEFINE g == [i \in 0..n |-> IF i = n THEN WordSeen(prefix, f[n - 1], n) ELSE f[i]]
               h(i) == IF i = 0 THEN NoMatches ELSE WordSeen(prefix, g[i - 1], i)
    <3>4. \A i \in 0..n : g[i] = h(i)
      <4> SUFFICES ASSUME NEW i \in 0..n PROVE g[i] = h(i)
        OBVIOUS
      <4>1. CASE i = n
        <5>1. g[i] = WordSeen(prefix, f[n - 1], n) /\ g[n - 1] = f[n - 1]
          BY <3>1, <4>1
        <5> HIDE DEF g
        <5> QED BY <2>5, <4>1, <5>1
      <4>2. CASE i # n
        <5>1. i \in 0..(n - 1) /\ g[i] = f[i]
          BY <3>1, <4>2
        <5>2. f[i] = IF i = 0 THEN NoMatches ELSE WordSeen(prefix, f[i - 1], i)
          BY <3>3, <5>1 DEF Walk
        <5>3. i # 0 => g[i - 1] = f[i - 1]
          BY <3>1, <4>2
        <5> HIDE DEF g
        <5> QED BY <5>1, <5>2, <5>3
      <4> QED BY <4>1, <4>2
    <3>5. g = [i \in 0..n |-> h(i)]
      <4>1. g = [i \in 0..n |-> g[i]]
        OBVIOUS
      <4> HIDE DEF g
      <4> QED BY <3>4, <4>1
    <3> HIDE DEF g
    <3> QED BY <2>3, <3>5 DEF Walk
  <2> QED BY <2>4, <2>5
<1>2. N \in 0..N
  OBVIOUS
<1> HIDE DEF P
<1>3. P(N)
  BY <1>1, <1>2
<1> QED BY <1>3 DEF P

\* The words of the vocabulary that begin so, of its first i.
Seen(prefix, i) == {Vocabulary[k] : k \in {j \in 1..i : IsPrefix(prefix, Vocabulary[j])}}

LEMMA VocabularyType ==
    /\ Len(Vocabulary) \in Nat
    /\ \A k \in 1..Len(Vocabulary) : Vocabulary[k] \in Seq(Cells)
<1>1. Vocabulary \in Seq(Seq(STRING))
  BY LineAssumption
<1>2. \A w \in Seq(STRING) : w \in Seq(Cells)
  <2> TAKE w \in Seq(STRING)
  <2>1. w \in [1..Len(w) -> STRING] /\ Len(w) \in Nat
    OBVIOUS
  <2>2. \A i \in 1..Len(w) : w[i] \in Cells
    BY <2>1 DEF Cells
  <2> QED BY <2>1, <2>2
<1> QED BY <1>1, <1>2

\* However far the walk has come, it has found what the words seen have.
LEMMA WalkFinds ==
    ASSUME NEW prefix, NEW f, Walk(f, prefix, Len(Vocabulary))
    PROVE  Found(f[Len(Vocabulary)], Seen(prefix, Len(Vocabulary)))
<1> DEFINE N == Len(Vocabulary)
           P(n) == Found(f[n], Seen(prefix, n))
           T == {n \in 0..N : ~P(n)}
<1>0. N \in Nat /\ \A k \in 1..N : Vocabulary[k] \in Seq(Cells)
  BY VocabularyType
<1>1. T = {}
  <2> SUFFICES ASSUME T # {} PROVE FALSE
    OBVIOUS
  <2>1. T \in SUBSET Nat
    <3> HIDE DEF P
    <3> QED BY <1>0
  <2>2. PICK n \in T : \A j \in T : n <= j
    <3> HIDE DEF T
    <3> QED BY <2>1, LeastNat
  <2>3. n \in 0..N /\ ~P(n)
    BY <2>2
  <2>4. f[n] = IF n = 0 THEN NoMatches ELSE WordSeen(prefix, f[n - 1], n)
    BY <2>3 DEF Walk
  <2>5. CASE n = 0
    <3>1. Seen(prefix, 0) = {}
      BY DEF Seen
    <3>2. IsFiniteSet({})
      BY FS_EmptySet
    <3>3. NoMatches.matches = 0 /\ NoMatches.listing = {}
      BY DEF NoMatches
    <3>4. Found(NoMatches, {})
      BY <3>2, <3>3 DEF Found
    <3> QED BY <2>3, <2>4, <2>5, <3>1, <3>4
  <2>6. CASE n # 0
    <3>1. n - 1 \in 0..N /\ n - 1 < n /\ n \in Nat /\ n \in 1..N
      BY <1>0, <2>3, <2>6
    <3>2. n - 1 \notin T
      <4> HIDE DEF T
      <4> QED BY <2>1, <2>2, <3>1
    <3> DEFINE o == f[n - 1]
               W == Seen(prefix, n - 1)
               w == Vocabulary[n]
    <3>3. Found(o, W)
      BY <3>1, <3>2
    <3>4. w \in Seq(Cells)
      BY <1>0, <3>1
    <3>5. \A j : j \in 1..n <=> (j \in 1..(n - 1) \/ j = n)
      BY <3>1
    <3>6. CASE IsPrefix(prefix, w)
      <4>1. Seen(prefix, n) = W \cup {w}
        BY <3>5, <3>6 DEF Seen
      <4>2. f[n] = Consider(o, w)
        BY <2>4, <2>6, <3>6 DEF WordSeen
      <4> HIDE DEF o, W, w
      <4> QED BY <2>3, <3>3, <3>4, <4>1, <4>2, Considered
    <3>7. CASE ~IsPrefix(prefix, w)
      <4>1. Seen(prefix, n) = W
        BY <3>5, <3>7 DEF Seen
      <4>2. f[n] = o
        BY <2>4, <2>6, <3>7 DEF WordSeen
      <4> QED BY <2>3, <3>3, <4>1, <4>2
    <3> QED BY <3>6, <3>7
  <2> QED BY <2>5, <2>6
<1> HIDE DEF P
<1>2. N \in 0..N
  BY <1>0
<1>3. P(N)
  BY <1>1, <1>2
<1> QED BY <1>3 DEF P

\* What completing a prefix finds.
LEMMA Completed == ASSUME NEW prefix PROVE Found(Complete(prefix), Matching(prefix))
<1> DEFINE N == Len(Vocabulary)
           c == CHOOSE f : Walk(f, prefix, N)
<1>1. N \in Nat
  BY VocabularyType
<1>2. Walk(c, prefix, N)
  <2> HIDE DEF N
  <2>1. \E f : Walk(f, prefix, N)
    BY <1>1, WalkExists
  <2> QED BY <2>1
<1>3. Complete(prefix) = c[N]
  BY CompleteDef
<1> HIDE DEF c
<1>4. Found(c[N], Seen(prefix, N))
  BY <1>2, WalkFinds
<1>5. Seen(prefix, N) = Matching(prefix)
  <2>1. DOMAIN Vocabulary = 1..N
    BY LineAssumption
  <2>2. Range(Vocabulary) = {Vocabulary[k] : k \in 1..N}
    BY <2>1 DEF Range
  <2> QED BY <2>2 DEF Seen, Matching
<1> QED BY <1>3, <1>4, <1>5

\* What the words share is the longest of what begins them all.
LEMMA CommonIs ==
    ASSUME NEW W \in SUBSET Seq(Cells), W # {}, NEW c, Longest(c, W)
    PROVE  CommonOf(W) = c
<1> DEFINE U == UNION {{SubSeq(w, 1, n) : n \in 0..Len(w)} : w \in W}
           Q(d) == /\ \A w \in W : IsPrefix(d, w)
                   /\ \A w \in W : \A n \in Len(d) + 1..Len(w) :
                         \E v \in W : ~IsPrefix(SubSeq(w, 1, n), v)
<1>1. c \in Seq(Cells) /\ \A w \in W : IsPrefix(c, w)
  BY DEF Longest
<1>2. PICK z : z \in W
  OBVIOUS
<1>3. z \in Seq(Cells) /\ IsPrefix(c, z) /\ Len(z) \in Nat /\ Len(c) \in Nat /\ Len(c) <= Len(z)
  BY <1>1, <1>2, PrefixIs
<1>4. SubSeq(z, 1, Len(c)) = c /\ Len(c) \in 0..Len(z)
  BY <1>1, <1>3, PrefixOfFront
<1>5. c \in U
  <2> DEFINE A(w) == {SubSeq(w, 1, n) : n \in 0..Len(w)}
  <2>1. c \in A(z)
    BY <1>4
  <2>2. A(z) \in {A(w) : w \in W}
    BY <1>2
  <2> HIDE DEF A
  <2>3. c \in UNION {A(w) : w \in W}
    BY <2>1, <2>2
  <2> QED BY <2>3 DEF A
<1>6. Q(c)
  <2>1. ASSUME NEW w \in W, NEW n \in Len(c) + 1..Len(w),
               \A v \in W : IsPrefix(SubSeq(w, 1, n), v)
        PROVE  FALSE
    <3> DEFINE u == SubSeq(w, 1, n)
    <3>1. w \in Seq(Cells) /\ Len(w) \in Nat
      OBVIOUS
    <3>2. n \in 0..Len(w) /\ ~(n <= Len(c))
      BY <1>3, <3>1
    <3>3. u = SubSeq(w, 1, n)
      OBVIOUS
    <3> HIDE DEF u
    <3>4. u \in Seq(Cells) /\ Len(u) = n
      BY <3>1, <3>2, <3>3, Fronts
    <3>5. \A v \in W : IsPrefix(u, v)
      BY <2>1, <3>3
    <3> QED BY <3>2, <3>4, <3>5 DEF Longest
  <2> QED BY <1>1, <2>1
<1>7. ASSUME NEW d \in U, Q(d) PROVE d = c
  <2>0. PICK w \in W : \E n \in 0..Len(w) : d = SubSeq(w, 1, n)
    BY <1>7
  <2>1. PICK n \in 0..Len(w) : d = SubSeq(w, 1, n)
    BY <2>0
  <2>2. d \in Seq(Cells)
    BY <2>1, Fronts
  <2>3. \A v \in W : IsPrefix(d, v)
    BY <1>7
  <2>4. Len(d) <= Len(c)
    BY <2>2, <2>3 DEF Longest
  <2>5. IsPrefix(d, z)
    BY <1>2, <2>3
  <2>6. CASE Len(d) = Len(c)
    BY <1>1, <1>3, <2>2, <2>4, <2>5, <2>6, TwoPrefixes
  <2>7. CASE Len(d) # Len(c)
    <3>1. Len(c) \in Len(d) + 1..Len(z)
      BY <1>3, <2>2, <2>4, <2>7
    <3>2. \E v \in W : ~IsPrefix(SubSeq(z, 1, Len(c)), v)
      BY <1>2, <1>7, <3>1
    <3> QED BY <1>1, <1>4, <3>2
  <2> QED BY <2>6, <2>7
<1>8. CommonOf(W) = CHOOSE d \in U : Q(d)
  BY DEF CommonOf
<1> HIDE DEF U, Q
<1>9. (CHOOSE d \in U : Q(d)) = c
  BY <1>5, <1>6, <1>7
<1> QED BY <1>8, <1>9

\* The word before the cursor is the end of its text.
LEMMA PrefixSplits ==
    ASSUME NEW t \in Seq(Cells)
    PROVE  /\ PrefixOf(t) \in Seq(Cells)
           /\ PrefixOf(t) # <<>> => \E a \in Seq(Cells) : t = a \o PrefixOf(t)
<1> DEFINE T == {0} \cup {i \in DOMAIN t : ~WordCell(t[i])}
           from == Max(T)
           word == SubSeq(t, from + 1, Len(t))
           a == SubSeq(t, 1, from)
           l == [text |-> t, cursor |-> from]
<1>1. Len(t) \in Nat /\ DOMAIN t = 1..Len(t)
  OBVIOUS
<1>2. from \in 0..Len(t)
  <2>1. T \in SUBSET (0..Len(t)) /\ T # {} /\ 0 \in Nat
    BY <1>1
  <2> HIDE DEF T
  <2> QED BY <1>1, <2>1, Between
<1>3. PrefixOf(t) = IF word # <<>> /\ word[1] \in Digits THEN <<>> ELSE word
  BY DEF PrefixOf
<1> HIDE DEF from
<1>4. l \in Rows /\ l.text = t /\ l.cursor = from
  BY <1>1, <1>2 DEF Rows
<1> HIDE DEF l
<1>5. Split(l, a, word)
  BY <1>4, CursorSplits
<1>6. a \in Seq(Cells) /\ word \in Seq(Cells) /\ t = a \o word
  BY <1>4, <1>5, SplitIs DEF Split
<1> HIDE DEF a, word
<1>7. <<>> \in Seq(Cells)
  BY RowCells
<1> QED BY <1>3, <1>6, <1>7

LEMMA MatchingIs ==
    ASSUME NEW prefix \in Seq(Cells)
    PROVE  /\ Found(Complete(prefix), Matching(prefix))
           /\ Matching(prefix) \in SUBSET Seq(Cells)
           /\ \A w \in Matching(prefix) : IsPrefix(prefix, w)
<1>1. Found(Complete(prefix), Matching(prefix))
  BY Completed
<1> QED BY <1>1 DEF Found, Matching

\* What every match shares is longer than what was typed, if at all, by cells.
LEMMA CommonSplits ==
    ASSUME NEW p \in Seq(Cells), Matching(p) # {}, NEW c, c = Complete(p).common
    PROVE  LET rest == SubSeq(c, Len(p) + 1, Len(c)) IN
           /\ c \in Seq(Cells) /\ Longest(c, Matching(p)) /\ c = CommonOf(Matching(p))
           /\ Len(p) \in 0..Len(c) /\ rest \in Seq(Cells) /\ c = p \o rest
           /\ (~(Len(c) > Len(p)) => rest = <<>>)
<1> DEFINE W == Matching(p)
           rest == SubSeq(c, Len(p) + 1, Len(c))
           l == [text |-> c, cursor |-> Len(p)]
<1>1. W \in SUBSET Seq(Cells) /\ W # {} /\ \A w \in W : IsPrefix(p, w)
  BY MatchingIs
<1>2. Longest(c, W)
  BY MatchingIs DEF Found
<1> HIDE DEF W
<1>3. c \in Seq(Cells) /\ Len(c) \in Nat /\ Len(p) \in Nat /\ Len(p) <= Len(c)
  <2>1. c \in Seq(Cells) /\ Len(p) <= Len(c)
    BY <1>1, <1>2 DEF Longest
  <2> QED BY <2>1
<1>4. c = CommonOf(W)
  BY <1>1, <1>2, CommonIs
<1>5. IsPrefix(p, c)
  <2>1. PICK w : w \in W
    BY <1>1
  <2>2. w \in Seq(Cells) /\ IsPrefix(c, w) /\ IsPrefix(p, w)
    BY <1>1, <1>2, <2>1 DEF Longest
  <2> QED BY <1>3, <2>2, TwoPrefixes
<1>6. SubSeq(c, 1, Len(p)) = p /\ Len(p) \in 0..Len(c)
  BY <1>3, <1>5, PrefixOfFront
<1>7. l \in Rows /\ l.text = c /\ l.cursor = Len(p)
  BY <1>3 DEF Rows
<1> HIDE DEF l
<1>8. Split(l, p, rest)
  BY <1>6, <1>7, CursorSplits
<1>9. rest \in Seq(Cells) /\ c = p \o rest /\ Len(c) = Len(p) + Len(rest) /\ Len(rest) \in Nat
  BY <1>7, <1>8, SplitIs DEF Split
<1> HIDE DEF rest
<1>10. ~(Len(c) > Len(p)) => rest = <<>>
  <2>1. ~(Len(c) > Len(p)) => Len(rest) = 0
    BY <1>3, <1>9
  <2> QED BY <1>9, <2>1, EmptySeq
<1> QED BY <1>2, <1>3, <1>4, <1>6, <1>9, <1>10 DEF W, rest

\* What TAB leaves is a row.
LEMMA SpacedRow == ASSUME NEW l \in Rows PROVE Append_(l, <<" ">>) \in Rows
<1>1. Append_(l, OneBlank) \in Rows
  BY AppendedRow, BlankRow
<1> QED BY <1>1 DEF OneBlank

\* TAB leaves a line.
LEMMA CompletedRow == ASSUME NEW l \in Rows PROVE CompleteWord(l) \in Rows
<1> DEFINE p == PrefixOf(l.text)
           done == Complete(p)
           rest == SubSeq(done.common, Len(p) + 1, Len(done.common))
           longer == IF Len(done.common) > Len(p) THEN Append_(l, rest) ELSE l
<1>1. CompleteWord(l) = IF p = <<>> \/ done.matches = 0 THEN l
                        ELSE IF done.matches = 1 THEN Append_(longer, <<" ">>) ELSE longer
  BY DEF CompleteWord
<1>2. p \in Seq(Cells)
  BY CursorSplits, PrefixSplits
<1>3. ASSUME done.matches # 0 PROVE longer \in Rows
  <2>1. Matching(p) # {}
    BY <1>2, <1>3, MatchingIs DEF Found
  <2>2. rest \in Seq(Cells)
    BY <1>2, <2>1, CommonSplits
  <2> HIDE DEF rest
  <2>3. Append_(l, rest) \in Rows
    BY <2>2, AppendedRow
  <2> QED BY <2>3
<1> HIDE DEF longer, p, done
<1>4. ASSUME longer \in Rows PROVE Append_(longer, <<" ">>) \in Rows
  BY <1>4, SpacedRow
<1>5. CASE p = <<>> \/ done.matches = 0
  BY <1>1, <1>5
<1>6. CASE ~(p = <<>> \/ done.matches = 0)
  <2>1. CASE done.matches = 1
    BY <1>1, <1>3, <1>4, <1>6, <2>1
  <2>2. CASE done.matches # 1
    BY <1>1, <1>3, <1>6, <2>2
  <2> QED BY <2>1, <2>2
<1> QED BY <1>5, <1>6

\* TAB at the end of a line types what the words share.
LEMMA TabTypes == ASSUME line \in Rows PROVE TabTypesWhatIsShared
<1> DEFINE t == line.text
           p == PrefixOf(t)
           W == Matching(p)
           done == Complete(p)
           c == done.common
           rest == SubSeq(c, Len(p) + 1, Len(c))
           front == SubSeq(t, 1, Len(t) - Len(p))
           room == IF Cardinality(W) = 1 THEN <<" ">> ELSE <<>>
           whole == front \o CommonOf(W) \o room
           longer == IF Len(c) > Len(p) THEN Append_(line, rest) ELSE line
<1> SUFFICES ASSUME line.cursor = Len(t), p # <<>>, W # {}, Len(whole) < INPUT_MAX
             PROVE  CompleteWord(line).text = whole
  BY DEF TabTypesWhatIsShared
<1>1. t \in Seq(Cells) /\ line = [text |-> t, cursor |-> Len(t)]
  BY CursorSplits DEF Rows
<1>2. p \in Seq(Cells)
  BY <1>1, PrefixSplits
<1>3. PICK a \in Seq(Cells) : t = a \o p
  BY <1>1, PrefixSplits
<1>4. Found(done, W)
  BY <1>2, MatchingIs
<1>5. /\ c \in Seq(Cells) /\ c = CommonOf(W) /\ rest \in Seq(Cells) /\ c = p \o rest
      /\ (~(Len(c) > Len(p)) => rest = <<>>)
  BY <1>2, CommonSplits
<1>6. CompleteWord(line) = IF p = <<>> \/ done.matches = 0 THEN line
                           ELSE IF done.matches = 1 THEN Append_(longer, <<" ">>) ELSE longer
  BY DEF CompleteWord
<1>7. done.matches # 0 /\ (done.matches = 1 <=> Cardinality(W) = 1)
  <2>1. /\ IsFiniteSet(W) /\ done.matches \in Nat
        /\ done.matches = 0 <=> W = {}
        /\ done.matches = 1 => \E w : W = {w} /\ done.listing = {w}
        /\ done.matches > 1 => \E v, w \in W : v # w
    BY <1>4 DEF Found
  <2> HIDE DEF W, done
  <2>2. done.matches # 0
    BY <2>1
  <2>3. CASE done.matches = 1
    BY <2>1, <2>3, FS_Singleton
  <2>4. CASE done.matches # 1
    <3>1. done.matches > 1
      BY <2>1, <2>2, <2>4
    <3>2. PICK v, w \in W : v # w
      BY <2>1, <3>1
    <3>3. ~(\E x : W = {x})
      BY <3>2
    <3>4. Cardinality(W) # 1
      BY <2>1, <3>3, FS_Singleton
    <3> QED BY <2>2, <2>4, <3>4
  <2> QED BY <2>3, <2>4
<1>8. front = a
  <2>1. SubSeq(a \o p, 1, Len(a)) = a /\ Len(a \o p) = Len(a) + Len(p) /\ Len(a) \in Nat /\ Len(p) \in Nat
    BY <1>2, <1>3, TwoParts
  <2> HIDE DEF t, p
  <2>2. Len(t) - Len(p) = Len(a)
    BY <1>3, <2>1
  <2> QED BY <1>3, <2>1, <2>2
<1> DEFINE ac == a \o c
<1>9. ac \in Seq(Cells) /\ Len(ac) \in Nat /\ whole = ac \o room
  <2>1. ac \in Seq(Cells)
    BY <1>3, <1>5, TwoParts
  <2>2. whole = ac \o room
    BY <1>5, <1>8
  <2> HIDE DEF ac, whole, room
  <2> QED BY <2>1, <2>2
<1>10. ac = t \o rest
  <2>1. p \in Seq(Cells) /\ rest \in Seq(Cells)
    BY <1>2, <1>5
  <2> HIDE DEF c, rest, p, t
  <2>2. (a \o p) \o rest = a \o (p \o rest)
    BY <2>1, ConcatAssociative
  <2>3. c = p \o rest /\ t = a \o p
    BY <1>3, <1>5
  <2> QED BY <2>2, <2>3
<1> HIDE DEF t, p, W, done, c, rest, front, whole, ac
<1>11. Len(ac) < INPUT_MAX /\ (Cardinality(W) = 1 => Len(ac) + 1 < INPUT_MAX)
  <2>1. INPUT_MAX \in Nat
    BY LineAssumption
  <2>2. CASE Cardinality(W) = 1
    <3>1. whole = ac \o OneBlank
      BY <1>9, <2>2 DEF OneBlank
    <3>2. Len(ac \o OneBlank) = Len(ac) + Len(OneBlank)
      BY <1>9, BlankRow, TwoParts
    <3>3. Len(OneBlank) = 1
      BY BlankRow
    <3>4. PICK n \in Nat : Len(ac) = n
      BY <1>9
    <3>5. Len(whole) = n + 1
      BY <3>1, <3>2, <3>3, <3>4
    <3>6. n + 1 < INPUT_MAX
      BY <3>5
    <3> QED BY <2>1, <3>4, <3>6
  <2>3. CASE Cardinality(W) # 1
    <3>1. whole = ac
      BY <1>9, <2>3, ConcatEmptySeq
    <3> QED BY <2>3, <3>1
  <2> QED BY <2>2, <2>3
<1>12. Split(line, t, NoCell)
  <2>1. NoCell \in Seq(Cells) /\ t \o NoCell = t
    BY <1>1, ConcatEmptySeq, EmptySeq DEF NoCell
  <2> QED BY <1>1, <2>1 DEF Split
<1>13. Split(longer, ac, NoCell)
  <2>1. CASE Len(c) > Len(p)
    <3>1. IF Len(t) + Len(NoCell) + Len(rest) < INPUT_MAX
          THEN Split(Append_(line, rest), t \o rest, NoCell)
          ELSE Append_(line, rest) = line
      BY <1>5, <1>12, SplitAppended
    <3>2. Len(t) + Len(NoCell) + Len(rest) = Len(ac)
      <4>1. Len(NoCell) = 0
        BY EmptySeq DEF NoCell
      <4>2. Len(t \o rest) = Len(t) + Len(rest) /\ Len(t) \in Nat /\ Len(rest) \in Nat
        BY <1>1, <1>5, TwoParts
      <4> QED BY <1>10, <4>1, <4>2
    <3>3. Split(Append_(line, rest), ac, NoCell)
      BY <1>10, <1>11, <3>1, <3>2
    <3> QED BY <2>1, <3>3
  <2>2. CASE ~(Len(c) > Len(p))
    <3>1. ac = t
      BY <1>1, <1>5, <1>10, <2>2, ConcatEmptySeq
    <3> QED BY <1>12, <2>2, <3>1
  <2> QED BY <2>1, <2>2
<1> HIDE DEF longer
<1>14. CASE done.matches = 1
  <2>1. CompleteWord(line) = Append_(longer, OneBlank)
    BY <1>6, <1>7, <1>14 DEF OneBlank
  <2>2. Len(ac) + Len(NoCell) + Len(OneBlank) < INPUT_MAX
    <3>1. Len(NoCell) = 0
      BY EmptySeq DEF NoCell
    <3>2. Len(OneBlank) = 1
      BY BlankRow
    <3>3. Len(ac) + 1 < INPUT_MAX /\ Len(ac) \in Nat
      BY <1>7, <1>9, <1>11, <1>14
    <3> QED BY <3>1, <3>2, <3>3
  <2>3. Split(Append_(longer, OneBlank), ac \o OneBlank, NoCell)
    BY <1>13, <2>2, BlankRow, SplitAppended
  <2>4. (ac \o OneBlank) \o NoCell = ac \o OneBlank
    <3>1. ac \o OneBlank \in Seq(Cells)
      BY <1>9, BlankRow, TwoParts
    <3> QED BY <3>1, ConcatEmptySeq DEF NoCell
  <2>5. CompleteWord(line).text = ac \o OneBlank
    BY <2>1, <2>3, <2>4, SplitIs
  <2>6. whole = ac \o OneBlank
    BY <1>7, <1>9, <1>14 DEF OneBlank
  <2> QED BY <2>5, <2>6 DEF whole
<1>15. CASE done.matches # 1
  <2>1. CompleteWord(line) = longer
    BY <1>6, <1>7, <1>15
  <2>2. longer.text = ac \o NoCell /\ ac \o NoCell = ac
    BY <1>9, <1>13, SplitIs, ConcatEmptySeq DEF NoCell
  <2>3. whole = ac
    BY <1>7, <1>9, <1>15, ConcatEmptySeq
  <2> QED BY <2>1, <2>2, <2>3 DEF whole
<1> QED BY <1>14, <1>15

-----------------------------------------------------------------------------
(* The line: every step                                                     *)

\* The lines are rows, UP's lines are the ones entered, and where a minus may be
\* a sign the line is the one before it with the minus typed.
LineInv ==
    /\ line \in Rows /\ minused \in Rows
    /\ at \in 1..Len(past) + 1
    /\ Recalls(past, entered)
    /\ sign => mode # "calc" /\ line = Word(minused, MinusText)

LEMMA EmptyRow == Empty \in Rows
<1>1. <<>> \in Seq(Cells) /\ Len(<<>>) = 0
  BY EmptySeq
<1> QED BY <1>1 DEF Empty, Rows

LEMMA PastType ==
    ASSUME LineInv
    PROVE  /\ Len(past) \in Nat /\ past \in Seq(Seq(Cells)) /\ Len(past) + 1 \in 1..Len(past) + 1
<1>1. past \in Seq(Seq(Cells))
  BY DEF LineInv, Recalls
<1>2. Len(past) \in Nat
  BY <1>1
<1> QED BY <1>1, <1>2

\* A step that leaves no sign, nothing entered, and a row.
LEMMA NoSignLeft ==
    ASSUME LineInv, line' \in Rows, sign' = FALSE, minused' = minused,
           past' = past, entered' = entered, at' \in 1..Len(past) + 1
    PROVE  LineInv'
<1>1. Recalls(past', entered')
  BY DEF LineInv
<1> QED BY <1>1 DEF LineInv

\* The keys, one by one.
LEMMA TypesKeeps == ASSUME LineInv, NEW l \in Rows, Types(l) PROVE LineInv'
<1>1. Len(past) + 1 \in 1..Len(past) + 1
  BY PastType
<1> QED BY <1>1, NoSignLeft DEF Types, LineNotASign, NoHistory

LEMMA FixupKeeps == ASSUME LineInv, NEW cells \in Seq(Cells), Fixup(cells) PROVE LineInv'
<1> DEFINE n == Len(MinusText) + 1
           k == TakenBack(line)
           e == Append_(k, OneDash)
<1>1. line \in Rows /\ line.cursor >= n /\ n \in Nat
  <2>1. Len(MinusText) \in 1..2
    BY RowCells
  <2>2. n \in Nat
    BY <2>1
  <2>3. line \in Rows
    BY DEF LineInv
  <2>4. line.cursor >= n
    BY DEF Fixup, Meant
  <2> QED BY <2>2, <2>3, <2>4
<1>2. k \in Rows
  <2> HIDE DEF n
  <2>1. line.cursor \in Nat /\ n \in 0..line.cursor
    BY <1>1, CursorSplits
  <2>2. Without(line, n) \in Rows
    BY <1>1, <2>1, WithoutRow
  <2> QED BY <2>2 DEF TakenBack, n
<1> HIDE DEF k
<1>3. e \in Rows
  BY <1>2, AppendedRow, DashRow
<1>4. line' = Append_(e, cells)
  BY DEF Fixup, e, k, OneDash
<1> HIDE DEF e
<1>5. line' \in Rows
  BY <1>3, <1>4, AppendedRow
<1>6. /\ sign' = FALSE /\ minused' = minused /\ past' = past /\ entered' = entered /\ at' = at
      /\ at \in 1..Len(past) + 1
  BY DEF Fixup, LineInv
<1> QED BY <1>5, <1>6, NoSignLeft

LEMMA SignKeeps == ASSUME LineInv, Sign PROVE LineInv'
<1>1. CASE \E d \in Digits \cap Typeable : Fixup(<<d>>)
  <2>1. PICK d \in Typeable : Fixup(<<d>>)
    BY <1>1
  <2>2. <<d>> \in Seq(Cells)
    BY RowCells
  <2> DEFINE u == <<d>>
  <2>3. u \in Seq(Cells) /\ Fixup(u)
    BY <2>1, <2>2
  <2> HIDE DEF u
  <2> QED BY <2>3, FixupKeeps
<1>2. CASE Fixup(<<"-", " ">>)
  <2> DEFINE u == Two("-", " ")
  <2>1. u \in Seq(Cells)
    BY DashIs, BlankIs, TwoRow
  <2>2. Fixup(u)
    BY <1>2 DEF Two
  <2> HIDE DEF u
  <2> QED BY <2>1, <2>2, FixupKeeps
<1>3. CASE Fixup(<<">", " ">>)
  <2> DEFINE u == Two(">", " ")
  <2>0. ">" \in Cells
    BY DEF Cells
  <2>1. u \in Seq(Cells)
    BY <2>0, BlankIs, TwoRow
  <2>2. Fixup(u)
    BY <1>3 DEF Two
  <2> HIDE DEF u
  <2> QED BY <2>1, <2>2, FixupKeeps
<1> QED BY <1>1, <1>2, <1>3 DEF Sign

LEMMA CharKeeps == ASSUME LineInv, NEW c \in Typeable, LineChar(c) PROVE LineInv'
<1> DEFINE u == One(c)
           l == IF c = " " /\ Before(line) = " " /\ line.cursor > 0 /\ ~InLiteral(line)
                THEN line ELSE Append_(line, u)
<1>1. Types(l)
  BY DEF LineChar, One
<1>2. u \in Seq(Cells)
  BY RowCells DEF One
<1> HIDE DEF u
<1>3. line \in Rows
  BY DEF LineInv
<1>4. l \in Rows
  BY <1>2, <1>3, AppendedRow
<1> HIDE DEF l
<1> QED BY <1>1, <1>4, TypesKeeps

LEMMA MinusKeeps == ASSUME LineInv, LineMinus PROVE LineInv'
<1>1. /\ mode # "calc" /\ at' = Len(past) + 1 /\ past' = past /\ entered' = entered /\ mode' = mode
  BY DEF LineMinus, LineKey, NoHistory
<1>2. line \in Rows /\ Len(past) + 1 \in 1..Len(past) + 1
  BY PastType DEF LineInv
<1>3. CASE InLiteral(line) \/ AfterExponent(line)
  <2>1. line' = Append_(line, OneDash) /\ sign' = FALSE /\ minused' = minused
    BY <1>3 DEF LineMinus, OneDash
  <2>2. line' \in Rows
    BY <1>2, <2>1, AppendedRow, DashRow
  <2> QED BY <1>1, <1>2, <2>1, <2>2, NoSignLeft
<1>4. CASE ~(InLiteral(line) \/ AfterExponent(line))
  <2>1. line' = Word(line, MinusText) /\ minused' = line
    BY <1>4 DEF LineMinus
  <2>2. line' \in Rows
    BY <1>2, <2>1, WordRow, RowCells
  <2>3. MinusText' = MinusText
    BY <1>1 DEF MinusText
  <2>4. line' = Word(minused', MinusText')
    BY <2>1, <2>3
  <2>5. Recalls(past', entered') /\ at' \in 1..Len(past') + 1
    BY <1>1, <1>2 DEF LineInv
  <2> DEFINE R(a) == a \in Rows
  <2>6. R(line)' /\ R(minused)'
    BY <1>2, <2>1, <2>2
  <2>7. (mode # "calc" /\ line = Word(minused, MinusText))'
    BY <1>1, <2>4
  <2> QED BY <2>5, <2>6, <2>7 DEF LineInv
<1> QED BY <1>3, <1>4

LEMMA MovesKeeps == ASSUME LineInv, NEW d \in {-1, 1}, LineMoves(d) PROVE LineInv'
<1> DEFINE to == line.cursor + d
           l == IF to \in 0..Len(line.text) THEN [line EXCEPT !.cursor = to] ELSE line
<1>1. Types(l)
  BY DEF LineMoves
<1>2. line \in Rows
  BY DEF LineInv
<1>3. to \in 0..Len(line.text) => [line EXCEPT !.cursor = to] \in Rows
  <2>1. line.text \in Seq(Cells) /\ Len(line.text) \in Nat
    BY <1>2, CursorSplits
  <2>2. line = [text |-> line.text, cursor |-> line.cursor]
    BY <1>2 DEF Rows
  <2> DEFINE t == line.text
             c == line.cursor
  <2> HIDE DEF to, t, c
  <2>3. ASSUME to \in 0..Len(t) PROVE [text |-> t, cursor |-> to] \in Rows
    BY <2>1, <2>3 DEF Rows, t
  <2>4. [line EXCEPT !.cursor = to] = [text |-> t, cursor |-> to]
    BY <2>2 DEF t, c
  <2> QED BY <2>3, <2>4 DEF t
<1>4. l \in Rows
  BY <1>2, <1>3
<1> HIDE DEF l
<1> QED BY <1>1, <1>4, TypesKeeps

LEMMA HistoryKeeps == ASSUME LineInv, NEW d \in {-1, 1}, HistoryStep(d) PROVE LineInv'
<1> DEFINE i == at + d
<1>1. /\ i \in 1..Len(past) + 1 /\ at' = i /\ line' = Recalled(at')
      /\ sign' = FALSE /\ minused' = minused /\ past' = past /\ entered' = entered
  BY DEF HistoryStep, LineNotASign
<1> HIDE DEF i
<1>2. Recalled(i) \in Rows
  <2>1. CASE i > Len(past)
    BY <2>1, EmptyRow DEF Recalled
  <2>2. CASE ~(i > Len(past))
    <3>1. i \in 1..Len(past)
      BY <1>1, <2>2, PastType
    <3> DEFINE t == past[i]
    <3>2. t \in Seq(Cells)
      BY <3>1, PastType
    <3>3. Recalled(i) = [text |-> t, cursor |-> Len(t)]
      BY <2>2 DEF Recalled
    <3> HIDE DEF t
    <3> QED BY <3>2, <3>3 DEF Rows
  <2> QED BY <2>1, <2>2
<1>3. line' \in Rows
  BY <1>1, <1>2
<1> QED BY <1>1, <1>3, NoSignLeft

LEMMA EnterKeeps == ASSUME LineInv, LineEnter PROVE LineInv'
<1> DEFINE t == line.text
           adds == /\ past' = HistoryAdd(past, t) /\ at' = Len(past') + 1
                   /\ entered' = Append(entered, t) /\ (line' = line \/ line' = Empty)
           keeps == /\ past' = past /\ entered' = entered /\ at' = Len(past) + 1
                    /\ (line' = line \/ line' = Append_(line, OneNL) \/ line' = Empty)
<1>1. sign' = FALSE /\ minused' = minused /\ (keeps \/ adds)
  BY DEF LineEnter, LineNotASign, NoHistory, Closed, OneNL
<1>2. line \in Rows /\ minused \in Rows /\ Empty \in Rows /\ Append_(line, OneNL) \in Rows /\ t \in Seq(Cells)
  BY EmptyRow, AppendedRow, EndRow, CursorSplits DEF LineInv
<1>3. Len(past) + 1 \in 1..Len(past) + 1
  BY PastType
<1>4. CASE keeps
  <2>1. line' \in Rows
    BY <1>2, <1>4
  <2> QED BY <1>1, <1>3, <1>4, <2>1, NoSignLeft
<1>5. CASE adds
  <2>1. Recalls(past', entered')
    <3>1. Recalls(past, entered)
      BY DEF LineInv
    <3> DEFINE u == t
    <3>2. u \in Seq(Cells)
      BY <1>2
    <3> HIDE DEF u
    <3>3. Recalls(HistoryAdd(past, u), Append(entered, u))
      BY <3>1, <3>2, HistoryAdded
    <3> QED BY <1>5, <3>3 DEF u
  <2>2. at' \in 1..Len(past') + 1
    <3>1. past' \in Seq(Seq(Cells))
      BY <2>1 DEF Recalls
    <3>2. Len(past') \in Nat
      BY <3>1
    <3> QED BY <1>5, <3>2
  <2>3. line' \in Rows /\ minused' \in Rows
    BY <1>1, <1>2, <1>5
  <2>4. sign' = FALSE
    BY <1>1
  <2> QED BY <2>1, <2>2, <2>3, <2>4 DEF LineInv
<1> QED BY <1>1, <1>4, <1>5

LEMMA OpenKeeps == ASSUME LineInv, LineOpen PROVE LineInv'
<1>1. /\ past' = past /\ entered' = entered /\ minused' = minused
      /\ sign' = sign \/ sign' = FALSE
      /\ at' = at \/ at' = Len(past) + 1
  BY DEF LineOpen
<1>2. sign' = FALSE
  <2>1. ~sign
    BY DEF LineOpen, LineInv
  <2> QED BY <1>1, <2>1
<1>3. line' \in Rows
  <2>1. line' = Empty \/ \E c \in Typeable : line' = Append_(Empty, One(c))
    BY DEF LineOpen, One
  <2>2. \A c \in Typeable : One(c) \in Seq(Cells)
    BY RowCells DEF One
  <2> QED BY <2>1, <2>2, EmptyRow, AppendedRow
<1>4. at' \in 1..Len(past) + 1
  BY <1>1, PastType DEF LineInv
<1> QED BY <1>1, <1>2, <1>3, <1>4, NoSignLeft

LEMMA EnterWordKeeps == ASSUME LineInv, LineWord(<<"s", "i">>) PROVE LineInv'
<1> DEFINE u == Two("s", "i")
           l == Word(line, u)
<1>1. Types(l)
  BY DEF LineWord, Two
<1>2. "s" \in Cells /\ "i" \in Cells
  BY DEF Cells
<1>3. u \in Seq(Cells)
  BY <1>2, TwoRow
<1> HIDE DEF u
<1>4. line \in Rows
  BY DEF LineInv
<1>5. l \in Rows
  BY <1>3, <1>4, WordRow
<1> HIDE DEF l
<1> QED BY <1>1, <1>5, TypesKeeps

LEMMA TabKeeps == ASSUME LineInv, Tab PROVE LineInv'
<1> DEFINE l == CompleteWord(line)
<1>1. Types(l)
  BY DEF Tab
<1>2. line \in Rows
  BY DEF LineInv
<1>3. l \in Rows
  BY <1>2, CompletedRow
<1> HIDE DEF l
<1> QED BY <1>1, <1>3, TypesKeeps

LEMMA ErasesKeeps == ASSUME LineInv, LineBackspace PROVE LineInv'
<1> DEFINE l == Erased(line)
<1>1. Types(l)
  BY DEF LineBackspace
<1>2. line \in Rows
  BY DEF LineInv
<1>3. l \in Rows
  BY <1>2, ErasedRow
<1> HIDE DEF l
<1> QED BY <1>1, <1>3, TypesKeeps

LEMMA ClearKeeps == ASSUME LineInv, Clear \/ ModeKey PROVE LineInv'
<1>1. /\ sign' = FALSE /\ minused' = minused /\ past' = past /\ entered' = entered
      /\ at' = Len(past) + 1 /\ line' = Empty
  BY DEF Clear, ModeKey, Leave, LineNotASign, NoHistory
<1>2. line' \in Rows /\ Len(past) + 1 \in 1..Len(past) + 1
  BY <1>1, EmptyRow, PastType
<1> QED BY <1>1, <1>2, NoSignLeft

LEMMA LineStarts == LineInit => LineInv
<1> SUFFICES ASSUME LineInit PROVE LineInv
  OBVIOUS
<1>1. /\ line = Empty /\ minused = Empty /\ sign = FALSE /\ at = 1
      /\ past = NoCell /\ entered = NoCell
  BY DEF LineInit, NoCell
<1>2. NoCell \in Seq(Seq(Cells)) /\ Len(NoCell) = 0
  BY EmptySeq DEF NoCell
<1>3. Newest(NoCell) = NoCell
  <2> DEFINE q == Newest(NoCell)
             e == NoCell
  <2>1. q \in Seq(Seq(Cells)) /\ Len(q) = IF Len(e) <= HISTORY_MAX THEN Len(e) ELSE HISTORY_MAX
    BY <1>2, NewestIs
  <2>2. Len(e) = 0 /\ HISTORY_MAX \in Nat \ {0}
    BY <1>2, LineAssumption
  <2> HIDE DEF q, e
  <2>3. Len(q) = 0
    BY <2>1, <2>2
  <2>4. q = <<>>
    BY <2>1, <2>3, EmptySeq
  <2> QED BY <2>4 DEF q, NoCell
<1>4. Distinct(NoCell) = NoCell
  BY DistinctNone DEF NoCell
<1>5. Recalls(NoCell, NoCell)
  <2>1. ~(NoCell # <<>>)
    BY DEF NoCell
  <2> QED BY <1>2, <1>3, <1>4, <2>1 DEF Recalls
<1>6. Len(past) = 0
  BY <1>1, <1>2
<1>7. at \in 1..Len(past) + 1
  BY <1>1, <1>6
<1> QED BY <1>1, <1>5, <1>7, EmptyRow DEF LineInv

LEMMA LineStays == ASSUME LineInv, UNCHANGED lineVars PROVE LineInv'
<1>1. /\ line' = line /\ minused' = minused /\ at' = at /\ past' = past
      /\ entered' = entered /\ sign' = sign /\ mode' = mode
  BY DEF lineVars
<1>2. MinusText' = MinusText
  BY <1>1 DEF MinusText
<1>3. line' \in Rows /\ minused' \in Rows /\ at' \in 1..Len(past') + 1 /\ Recalls(past', entered')
  BY <1>1 DEF LineInv
<1>4. sign' => mode' # "calc" /\ line' = Word(minused', MinusText')
  <2>1. sign => mode # "calc" /\ line = Word(minused, MinusText)
    BY DEF LineInv
  <2> QED BY <1>1, <1>2, <2>1
<1> QED BY <1>3, <1>4 DEF LineInv

LEMMA LineStep == LineInv /\ [LineNext]_lineVars => LineInv'
<1> SUFFICES ASSUME LineInv, [LineNext]_lineVars PROVE LineInv'
  OBVIOUS
<1>1. CASE LineOpen
  BY <1>1, OpenKeeps
<1>2. CASE Sign
  BY <1>2, SignKeeps
<1>3. CASE LineMinus
  BY <1>3, MinusKeeps
<1>4. CASE LineWord(<<"s", "i">>)
  BY <1>4, EnterWordKeeps
<1>5. CASE Tab
  BY <1>5, TabKeeps
<1>6. CASE LineBackspace
  BY <1>6, ErasesKeeps
<1>7. CASE \E c \in Typeable : LineChar(c)
  BY <1>7, CharKeeps
<1>8. CASE \E d \in {-1, 1} : LineMoves(d) \/ HistoryStep(d)
  BY <1>8, MovesKeeps, HistoryKeeps
<1>9. CASE LineEnter
  BY <1>9, EnterKeeps
<1>10. CASE Clear \/ ModeKey
  BY <1>10, ClearKeeps
<1>11. CASE UNCHANGED lineVars
  BY <1>11, LineStays
<1> QED
  BY <1>1, <1>2, <1>3, <1>4, <1>5, <1>6, <1>7, <1>8, <1>9, <1>10, <1>11 DEF LineNext

\* Every line the keys leave is a row with its cursor in it, and the parts of
\* LineInv hold of it: what the two theorems below rest on.
THEOREM LineInvCorrect == LineSpec => []LineInv
BY LineStarts, LineStep, PTL DEF LineSpec

\* What the line offers, whatever was typed: UP's lines are the last lines that
\* were evaluated, newest first, one entered twice running kept once, at any
\* number kept; and TAB, at the end of any line, types what all the words of any
\* vocabulary that begin as the line ends so share, with a space when there is one
\* such word (history_add, history_step and complete_word).
THEOREM LineOffersCorrect == LineSpec => []LineOffers
<1>1. LineInv => LineOffers
  <2> SUFFICES ASSUME LineInv PROVE LineOffers
    OBVIOUS
  <2>1. at \in 1..Len(past) + 1 /\ past = Newest(Distinct(entered)) /\ line \in Rows
    BY DEF LineInv, Recalls
  <2>2. HistoryIsWhatWasEntered
    BY <2>1 DEF HistoryIsWhatWasEntered, Newest
  <2>3. TabTypesWhatIsShared
    BY <2>1, TabTypes
  <2> QED BY <2>2, <2>3 DEF LineOffers
<1> QED BY <1>1, LineInvCorrect, PTL

\* A minus key and a digit put a sign where the minus key was pressed, whatever
\* the line and wherever in it: nothing but a blank goes with the minus that is
\* taken back, on either side (line_minus and line_minus_fixup).
THEOREM SignKeepsTheRestCorrect == LineSpec => SignKeepsTheRest
<1> DEFINE kept(d) ==
        Fixup(<<d>>) /\ Len(minused.text) + 6 < INPUT_MAX
           => Solid(line'.text) = Solid(SubSeq(minused.text, 1, minused.cursor)) \o <<"-", d>>
                   \o Solid(SubSeq(minused.text, minused.cursor + 1, Len(minused.text)))
<1>1. ASSUME LineInv, NEW d \in Digits \cap Typeable PROVE kept(d)
  <2> SUFFICES ASSUME Fixup(<<d>>), Len(minused.text) + 6 < INPUT_MAX
               PROVE  Solid(line'.text) = Solid(SubSeq(minused.text, 1, minused.cursor)) \o <<"-", d>>
                   \o Solid(SubSeq(minused.text, minused.cursor + 1, Len(minused.text)))
    OBVIOUS
  <2> DEFINE l == minused
  <2>1. Meant /\ line' = Append_(Append_(TakenBack(line), OneDash), One(d))
    BY DEF Fixup, OneDash, One
  <2>2. l \in Rows /\ line = Word(l, MinusText) /\ Len(l.text) + 6 < INPUT_MAX
    BY <2>1, <1>1 DEF LineInv, Meant
  <2> HIDE DEF l
  <2>3. Solid(Append_(Append_(TakenBack(line), OneDash), One(d)).text)
             = Solid(SubSeq(l.text, 1, l.cursor)) \o Two("-", d)
                 \o Solid(SubSeq(l.text, l.cursor + 1, Len(l.text)))
    BY <2>1, <2>2, SignTyped
  <2> QED BY <2>1, <2>3 DEF l, Two
<1>2. LineInv /\ [LineNext]_lineVars => [\A d \in Digits \cap Typeable : kept(d)]_lineVars
  <2> SUFFICES ASSUME LineInv PROVE \A d \in Digits \cap Typeable : kept(d)
    OBVIOUS
  <2> HIDE DEF kept
  <2> QED BY <1>1
<1> QED BY <1>2, LineInvCorrect, PTL DEF LineSpec, SignKeepsTheRest
=============================================================================
