--------------------------- MODULE NativeModules ---------------------------
(***************************************************************************)
(* The loader of native modules (src/shell/native.c) as the shell drives   *)
(* it at start-up (qdos_shell_create in src/shell/shell.c), with the two   *)
(* files that outlive a crash: native.loading, the name of the module that *)
(* is being opened, and native.blocked, the names never to open again.     *)
(*                                                                         *)
(* The process may die at any step: a module's own code faults while it is *)
(* opened, closed or called, or the power is cut.  init starts it again.   *)
(*                                                                         *)
(* A copy is one libNAME.so on the card: <<scope, folder, name>>, where    *)
(* the folder is the app it belongs to or Loose.  The name list is kept as *)
(* the set of whole names in it and its length in characters, which is all *)
(* listed() and list_add() look at.                                        *)
(***************************************************************************)
EXTENDS Naturals, FiniteSets

CONSTANTS
    Modules,      \* module names (the stem of libNAME.so)
    Loose,        \* the folder of a module that belongs to no app
    None,         \* no name, no copy
    Copies,       \* the copies that may be on the card
    OpenFaulty,   \* the copies whose opening may take the process down
    CloseFaulty,  \* the copies whose close() may take it down
    NameLen,      \* strlen of each name
    BLOCKED_MAX,  \* QDOS_NATIVE_BLOCKED_MAX, the size of the list's buffer
    NATIVE_MAX,   \* QDOS_NATIVE_MAX, the number of entries
    MaxCuts,      \* bound: power cuts in one behaviour
    FaultCap      \* bound: where the count of faults stops counting

SYSTEM == 0
INBOX == 1
USER == 2
Scopes == SYSTEM..USER

ScopeOf(c) == c[1]
FolderOf(c) == c[2]
NameOf(c) == c[3]

ASSUME NativeAssumption ==
    /\ IsFiniteSet(Modules)
    /\ None \notin Modules /\ None \notin Copies
    /\ \A c \in Copies : /\ ScopeOf(c) \in Scopes
                         /\ NameOf(c) \in Modules
    /\ OpenFaulty \subseteq Copies
    /\ CloseFaulty \subseteq Copies
    /\ NameLen \in [Modules -> Nat \ {0}]
    /\ BLOCKED_MAX \in Nat \ {0}
    /\ NATIVE_MAX \in Nat \ {0}
    /\ MaxCuts \in Nat
    /\ FaultCap \in Nat \ {0}

VARIABLES
    \* What survives the process
    card,            \* the copies on the card
    loadingFile,     \* the name in native.loading, None where it is empty
    blockedFile,     \* the whole names in native.blocked ...
    blockedFileLen,  \* ... and its length
    \* qdos_natives and the walk over the stores
    phase,           \* where start-up is
    scope,           \* the scope being walked
    todo,            \* the copies of it not yet visited
    within,          \* the app folder being walked, or Loose
    opening,         \* the copy being opened
    slots,           \* the names that have an entry
    handle,          \* the copy behind each entry, None if refused
    blocked,         \* set->blocked ...
    blockedLen,      \* ... and its length
    faulted,         \* set->faulted, what was blocked this boot
    words,           \* the modules whose words the interpreter holds
    \* History, for the properties only
    cuts,            \* power cuts so far
    faults,          \* times each module faulted while opened, since unblock
    cutIn            \* modules that were being opened when the power went

fileVars == <<loadingFile, blockedFile, blockedFileLen>>
walkVars == <<phase, scope, todo, within, opening>>
setVars  == <<slots, handle>>
listVars == <<blocked, blockedLen, faulted>>
histVars == <<cuts, faults, cutIn>>
vars == <<card, fileVars, walkVars, setVars, listVars, words, histVars>>

NoHandles == [m \in Modules |-> None]

-----------------------------------------------------------------------------
(* The name list *)

Listed(m) == m \in blocked

\* "%s%s" of a separator and the name, cut off where the buffer ends
Appended(len, m) == len + (IF len > 0 THEN 1 ELSE 0) + NameLen[m]

ListAdd(m) ==
    IF Listed(m) THEN UNCHANGED <<blocked, blockedLen>>
    ELSE IF Appended(blockedLen, m) < BLOCKED_MAX
    THEN /\ blocked' = blocked \cup {m}
         /\ blockedLen' = Appended(blockedLen, m)
    ELSE /\ UNCHANGED blocked
         /\ blockedLen' = BLOCKED_MAX - 1

-----------------------------------------------------------------------------
(* Start-up, up to the first scope *)

\* The process is gone, and with it everything but the files.
Gone ==
    /\ phase' = "off" /\ scope' = SYSTEM /\ todo' = {} /\ within' = Loose
    /\ opening' = None /\ slots' = {} /\ handle' = NoHandles
    /\ blocked' = {} /\ blockedLen' = 0 /\ faulted' = None /\ words' = {}

\* init starts the shell; calloc leaves an empty set of modules.
Boot ==
    /\ phase = "off"
    /\ phase' = "recover"
    /\ UNCHANGED <<card, fileVars, scope, todo, within, opening, setVars,
                   listVars, words, histVars>>

StartWalk(s) ==
    /\ phase' = "walk"
    /\ scope' = s
    /\ todo' = {c \in card : ScopeOf(c) = s}
    /\ within' = Loose

\* qdos_natives_recover, when the last start finished every opening it began
RecoverNothing ==
    /\ phase = "recover"
    /\ loadingFile = None
    /\ blocked' = blockedFile /\ blockedLen' = blockedFileLen
    /\ StartWalk(SYSTEM)
    /\ UNCHANGED <<card, fileVars, opening, setVars, faulted, words, histVars>>

\* ... and when it did not: the file is read,
RecoverRead ==
    /\ phase = "recover"
    /\ loadingFile # None
    /\ blocked' = blockedFile /\ blockedLen' = blockedFileLen
    /\ phase' = "add"
    /\ UNCHANGED <<card, fileVars, scope, todo, within, opening, setVars,
                   faulted, words, histVars>>

\* the crumb's name added, and the file opened for writing, which empties it;
RecoverTruncate ==
    /\ phase = "add"
    /\ ListAdd(loadingFile)
    /\ blockedFile' = {} /\ blockedFileLen' = 0
    /\ phase' = "write"
    /\ UNCHANGED <<card, loadingFile, scope, todo, within, opening, setVars,
                   faulted, words, histVars>>

\* the list written whole and synced;
RecoverWrite ==
    /\ phase = "write"
    /\ blockedFile' = blocked /\ blockedFileLen' = blockedLen
    /\ phase' = "clear"
    /\ UNCHANGED <<card, loadingFile, scope, todo, within, opening, setVars,
                   listVars, words, histVars>>

\* and only then the crumb taken up.
RecoverClear ==
    /\ phase = "clear"
    /\ loadingFile' = None
    /\ faulted' = loadingFile
    /\ StartWalk(SYSTEM)
    /\ UNCHANGED <<card, blockedFile, blockedFileLen, opening, setVars,
                   blocked, blockedLen, words, histVars>>

-----------------------------------------------------------------------------
(* qdos_natives_load: the walk over one scope, and load_one *)

\* readdir gives the entries in any order, but a folder is walked to its end.
Visitable ==
    LET here == {c \in todo : FolderOf(c) = within}
    IN  IF within # Loose /\ here # {} THEN here ELSE todo

HasSlot(m) == m \in slots \/ Cardinality(slots) < NATIVE_MAX

\* slot_for found no room: the walk of this directory ends here.
LoadNoRoom(c) ==
    /\ phase = "walk" /\ c \in Visitable
    /\ ~HasSlot(NameOf(c))
    /\ todo' = IF FolderOf(c) = Loose THEN {}
               ELSE {d \in todo : FolderOf(d) # FolderOf(c)}
    /\ within' = Loose
    /\ UNCHANGED <<card, fileVars, phase, scope, opening, setVars, listVars,
                   words, histVars>>

\* Mutant of Release: the entry keeps the farther copy until one opens.
ReleaseKeeping(c) ==
    /\ phase = "walk" /\ c \in Visitable
    /\ HasSlot(NameOf(c))
    /\ slots' = slots \cup {NameOf(c)}
    /\ todo' = todo \ {c}
    /\ within' = FolderOf(c)
    /\ UNCHANGED handle

\* release(entry): whatever a farther scope left there is closed first.
Release(c) ==
    /\ phase = "walk" /\ c \in Visitable
    /\ HasSlot(NameOf(c))
    /\ slots' = slots \cup {NameOf(c)}
    /\ handle' = [handle EXCEPT ![NameOf(c)] = None]
    /\ todo' = todo \ {c}
    /\ within' = FolderOf(c)

LoadBlocked(c) ==
    /\ Release(c)
    /\ Listed(NameOf(c))
    /\ UNCHANGED <<card, fileVars, phase, scope, opening, listVars, words,
                   histVars>>

\* Mutant of LoadBegin: no crumb.
LoadBeginUnmarked(c) ==
    /\ Release(c)
    /\ ~Listed(NameOf(c))
    /\ phase' = "opening"
    /\ opening' = c
    /\ UNCHANGED <<card, fileVars, scope, listVars, words, histVars>>

\* The crumb goes down before anything of the module runs.
LoadBegin(c) ==
    /\ Release(c)
    /\ ~Listed(NameOf(c))
    /\ loadingFile' = NameOf(c)
    /\ phase' = "opening"
    /\ opening' = c
    /\ UNCHANGED <<card, blockedFile, blockedFileLen, scope, listVars, words,
                   histVars>>

\* close() of the copy being replaced takes the process down.
ReleaseFaults(c) ==
    /\ phase = "walk" /\ c \in Visitable
    /\ HasSlot(NameOf(c))
    /\ handle[NameOf(c)] \in CloseFaulty
    /\ Gone
    /\ UNCHANGED <<card, fileVars, histVars>>

\* Mutant of LoadRefused: an early return that leaves the crumb down.
LoadRefusedMarked ==
    /\ phase = "opening"
    /\ phase' = "walk"
    /\ opening' = None
    /\ UNCHANGED <<card, fileVars, scope, todo, within, setVars, listVars,
                   words, histVars>>

\* Mutant of LoadRefused: a copy that said no is tried again.
LoadRefusedRetried ==
    /\ phase = "opening"
    /\ loadingFile' = None
    /\ todo' = todo \cup {opening}
    /\ phase' = "walk"
    /\ opening' = None
    /\ UNCHANGED <<card, blockedFile, blockedFileLen, scope, within, setVars,
                   listVars, words, histVars>>

\* dlopen, accept() or open() said no.
LoadRefused ==
    /\ phase = "opening"
    /\ loadingFile' = None
    /\ phase' = "walk"
    /\ opening' = None
    /\ UNCHANGED <<card, blockedFile, blockedFileLen, scope, todo, within,
                   setVars, listVars, words, histVars>>

LoadOpened ==
    /\ phase = "opening"
    /\ loadingFile' = None
    /\ handle' = [handle EXCEPT ![NameOf(opening)] = opening]
    /\ phase' = "walk"
    /\ opening' = None
    /\ UNCHANGED <<card, blockedFile, blockedFileLen, scope, todo, within,
                   slots, listVars, words, histVars>>

\* Its constructors or its open() take the process down, crumb and all.
LoadFaults ==
    /\ phase = "opening"
    /\ opening \in OpenFaulty
    /\ LET m == NameOf(opening)
       IN  faults' = [faults EXCEPT ![m] = IF @ < FaultCap THEN @ + 1 ELSE @]
    /\ Gone
    /\ UNCHANGED <<card, fileVars, cuts, cutIn>>

\* Mutant of NextScope: each scope's words registered as soon as it is read.
NextScopeRegistering ==
    /\ phase = "walk" /\ todo = {} /\ scope < USER
    /\ StartWalk(scope + 1)
    /\ words' = {m \in slots : handle[m] # None}
    /\ UNCHANGED <<card, fileVars, opening, setVars, listVars, histVars>>

NextScope ==
    /\ phase = "walk" /\ todo = {} /\ scope < USER
    /\ StartWalk(scope + 1)
    /\ UNCHANGED <<card, fileVars, opening, setVars, listVars, words, histVars>>

\* qdos_natives_register, once every scope has been loaded
Register ==
    /\ phase = "walk" /\ todo = {} /\ scope = USER
    /\ words' = {m \in slots : handle[m] # None}
    /\ phase' = "up"
    /\ UNCHANGED <<card, fileVars, scope, todo, within, opening, setVars,
                   listVars, histVars>>

-----------------------------------------------------------------------------
(* The machine in use *)

\* A module faults in the middle of a calculation.
WordFaults(m) ==
    /\ phase = "up" /\ m \in words
    /\ Gone
    /\ UNCHANGED <<card, fileVars, histVars>>

\* The MODULES row of the settings, which is there while something is blocked
Unblock ==
    /\ phase = "up" /\ blockedLen > 0
    /\ blocked' = {} /\ blockedLen' = 0 /\ faulted' = None
    /\ blockedFile' = {} /\ blockedFileLen' = 0
    /\ faults' = [m \in Modules |-> 0]
    /\ cutIn' = {}
    /\ UNCHANGED <<card, loadingFile, walkVars, setVars, words, cuts>>

\* qdos_shell_destroy: the interpreter first,
DestroyInterp ==
    /\ phase = "up"
    /\ words' = {}
    /\ phase' = "unload"
    /\ UNCHANGED <<card, fileVars, scope, todo, within, opening, setVars,
                   listVars, histVars>>

\* then every module.  One that faults in close() ends the process too.
Unload ==
    /\ phase = "unload"
    /\ Gone
    /\ UNCHANGED <<card, fileVars, histVars>>

\* Modules are put on the card and taken off it while the shell is down.
CardChanges ==
    /\ phase = "off"
    /\ card' \in SUBSET Copies
    /\ UNCHANGED <<fileVars, walkVars, setVars, listVars, words, histVars>>

\* The power goes, at any step; an opening that was under way leaves its crumb.
PowerCut ==
    /\ phase # "off" /\ cuts < MaxCuts
    /\ cuts' = cuts + 1
    /\ cutIn' = IF phase = "opening" THEN cutIn \cup {NameOf(opening)} ELSE cutIn
    /\ Gone
    /\ UNCHANGED <<card, fileVars, faults>>

-----------------------------------------------------------------------------

Init ==
    /\ card \in SUBSET Copies
    /\ loadingFile = None /\ blockedFile = {} /\ blockedFileLen = 0
    /\ phase = "off" /\ scope = SYSTEM /\ todo = {} /\ within = Loose
    /\ opening = None /\ slots = {} /\ handle = NoHandles
    /\ blocked = {} /\ blockedLen = 0 /\ faulted = None /\ words = {}
    /\ cuts = 0 /\ faults = [m \in Modules |-> 0] /\ cutIn = {}

\* What the machine does by itself
Progress ==
    \/ Boot
    \/ RecoverNothing \/ RecoverRead \/ RecoverTruncate \/ RecoverWrite
    \/ RecoverClear
    \/ \E c \in todo : \/ LoadNoRoom(c) \/ LoadBlocked(c) \/ LoadBegin(c)
                       \/ ReleaseFaults(c)
    \/ LoadRefused \/ LoadOpened \/ LoadFaults
    \/ NextScope \/ Register
    \/ Unload

\* What is done to it
Environment ==
    \/ \E m \in Modules : WordFaults(m)
    \/ Unblock \/ DestroyInterp \/ CardChanges \/ PowerCut

Next == Progress \/ Environment

Spec == Init /\ [][Next]_vars

\* The process runs whenever it can; nothing is asked of its user.
FairSpec == Spec /\ WF_vars(Progress)
-----------------------------------------------------------------------------
(* Properties *)

Phases == {"off", "recover", "add", "write", "clear", "walk", "opening", "up",
           "unload"}

\* Every variable has its type; the list never outgrows its buffer, nor the
\* entries their array.
TypeOK ==
    /\ card \subseteq Copies
    /\ loadingFile \in Modules \cup {None}
    /\ blockedFile \subseteq Modules
    /\ blockedFileLen \in 0..(BLOCKED_MAX - 1)
    /\ phase \in Phases
    /\ scope \in Scopes
    /\ todo \subseteq Copies
    /\ within \in {FolderOf(c) : c \in Copies} \cup {Loose}
    /\ opening \in Copies \cup {None}
    /\ slots \subseteq Modules /\ Cardinality(slots) <= NATIVE_MAX
    /\ handle \in [Modules -> Copies \cup {None}]
    /\ blocked \subseteq Modules
    /\ blockedLen \in 0..(BLOCKED_MAX - 1)
    /\ faulted \in Modules \cup {None}
    /\ words \subseteq Modules
    /\ cuts \in 0..MaxCuts
    /\ faults \in [Modules -> Nat]
    /\ cutIn \subseteq Modules

\* A module takes the machine down while being opened at most once, and once
\* more for each power cut: a cut may empty native.blocked while
\* qdos_natives_recover rewrites it, and everything on it is then found out
\* again.  Holds where the names fit the list's buffer.
OneFaultEach == \A m \in Modules : faults[m] <= 1 + cuts

\* A module is only ever blocked, or about to be at the next start, for having
\* faulted while being opened or for having been open half-way when the power
\* went: one that was refused, replaced or never reached is not.
InnocentNotBlocked ==
    LET accused == blockedFile \cup blocked
                     \cup (IF phase = "opening" THEN {} ELSE {loadingFile} \ {None})
    IN  \A m \in accused : faults[m] > 0 \/ m \in cutIn

\* Once loading is over, what answers to a name is a copy from the nearest
\* scope that has that name: a farther one that a nearer replaced is closed
\* even if the nearer would not open.  So long as there is a slot for every
\* name on the card: without one the walk of a store ends early.
NearestWins ==
    phase = "up" /\ Cardinality({NameOf(c) : c \in card}) <= NATIVE_MAX =>
        \A m \in words :
            \A c \in card : NameOf(c) = m => ScopeOf(c) <= ScopeOf(handle[m])

\* The interpreter never holds a word of a module that has been closed.
WordsLive == \A m \in words : handle[m] # None

\* However the modules on the card behave while being opened, the machine
\* always comes up again, unless one of them faults when it is closed.
EventuallyUp == []<>(phase = "up" \/ card \cap CloseFaulty # {})

\* The machine always comes up again: one bad module costs one message.
AlwaysUp == []<>(phase = "up")
=============================================================================
