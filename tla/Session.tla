------------------------------ MODULE Session ------------------------------
(***************************************************************************)
(* The saved session: how the stack goes to the store and comes back       *)
(* (qdos_storage_save_session, qdos_storage_restore_session in             *)
(* src/shell/storage.c over qdos_filestore_write in src/hal/filestore.c),  *)
(* and when the shell does either (qdos_shell_create, qdos_shell_run,      *)
(* handle_key in src/shell/shell.c, call_word_binary in native.c).         *)
(*                                                                         *)
(* A session is a header file with the number of values, one file for each *)
(* value, bottom first, and a file with the number of values left behind.  *)
(* A file is emptied when it is opened for writing and whole once it has   *)
(* been synced; the power may go in between.                               *)
(***************************************************************************)
EXTENDS Naturals, Sequences, FiniteSetsExt

CONSTANTS
    Plain,         \* values that come back as they were saved
    Long, Cut,     \* a string longer than a stored value, and what is kept of it
    Array,         \* a pointer: an address into this run, with no encoding
    Unreadable,    \* the content of a file that is absent, empty or damaged
    SESSION_MAX,   \* most values a saved session carries
    StartupCalls,  \* whether a stored file runs a module's word as it is read
    MaxDepth,      \* bound: depth of the stack
    MaxMishaps     \* bound: power cuts and refused writes in one behaviour

ASSUME SessionAssumption ==
    /\ SESSION_MAX \in Nat \ {0} /\ MaxDepth \in Nat
    /\ MaxMishaps \in Nat
    /\ StartupCalls \in BOOLEAN
    /\ {Long, Cut, Array, Unreadable} \cap Plain = {}
    /\ Long # Cut /\ Long # Array /\ Cut # Array
    /\ Unreadable \notin Nat \cup {Long, Cut, Array}

Values == Plain \cup {Long, Cut, Array}
Index == 0..(SESSION_MAX - 1)

VARIABLES
    \* The store
    header,     \* the file "session"
    slot,       \* the files "session00", "session01", ...
    lostFile,   \* the file "session.lost"
    \* The shell
    phase,      \* off, programs, restored, idle, eval
    stack,      \* the interpreter's stack, bottom first
    called,     \* g_called: a module's word has run since the last rearm
    hook,       \* hal->save is set
    told,       \* how many values the last start said were lost
    \* A save under way
    step,       \* the file to write next: 0 the header, i the i-th value
    torn,       \* that file has been opened, and is empty
    then,       \* where the shell goes on: a phase, or "no" when none is
    \* History
    target,     \* the stack as the last save to begin would give it back
    saved,      \* the stack as the last save to finish would give it back
    savedFrom,  \* the depth of the stack it was taken from
    whole,      \* no save has been broken off since
    fresh,      \* that save began in the keypress that is being handled
    cause,      \* what ended the last run
    ever,       \* everything saved at each depth
    mishaps

storeVars == <<header, slot, lostFile>>
shellVars == <<phase, stack, called, hook, told>>
saveVars == <<step, torn, then, target>>
histVars == <<saved, savedFrom, whole, fresh, cause, ever>>
vars == <<storeVars, shellVars, saveVars, histVars, mishaps>>

-----------------------------------------------------------------------------
(* What of a stack is saved *)

\* session_encode: what the store gives back for a value it can hold
Encoded(v) == IF v = Long THEN Cut ELSE v

\* Stopped at the first value with no encoding, or at SESSION_MAX
Wanted(s) == IF Len(s) < SESSION_MAX THEN Len(s) ELSE SESSION_MAX
Count(s) == Max({n \in 0..Wanted(s) : \A i \in 1..n : s[i] # Array})
Saveable(s) == [i \in 1..Count(s) |-> Encoded(s[i])]

-----------------------------------------------------------------------------
(* qdos_storage_save_session, a file at a time *)

Saving == then # "no"

\* The save starts; the shell waits for it and goes on at p.
SaveBegin(p) ==
    /\ step' = 0 /\ torn' = FALSE /\ then' = p
    /\ target' = Saveable(stack)
    /\ UNCHANGED storeVars

\* The stack the save is of does not change while it runs.
LastStep == Count(stack) + 1

\* fopen(path, "wb")
SaveOpen ==
    /\ Saving /\ ~torn
    /\ torn' = TRUE
    /\ header' = IF step = 0 THEN Unreadable ELSE header
    /\ slot' = IF step \in 1..Count(stack)
               THEN [slot EXCEPT ![step - 1] = Unreadable] ELSE slot
    /\ lostFile' = IF step = LastStep THEN Unreadable ELSE lostFile
    /\ whole' = FALSE
    /\ UNCHANGED <<shellVars, step, then, target, saved, savedFrom, fresh, cause,
                   ever, mishaps>>

\* fwrite, fsync, fclose; and on to the next file
SaveWrite ==
    /\ Saving /\ torn /\ step < LastStep
    /\ header' = IF step = 0 THEN Count(stack) ELSE header
    /\ slot' = IF step = 0 THEN slot
               ELSE [slot EXCEPT ![step - 1] = Encoded(stack[step])]
    /\ ever' = IF step = 0 THEN ever
               ELSE [ever EXCEPT ![step - 1] = @ \cup {Encoded(stack[step])}]
    /\ step' = step + 1 /\ torn' = FALSE
    /\ UNCHANGED <<lostFile, shellVars, then, target, saved, savedFrom, whole, fresh,
                   cause, mishaps>>

Left == Wanted(stack) - Count(stack)

\* The process is gone, and with it everything but the store.
Gone(why) ==
    /\ phase' = "off" /\ stack' = <<>> /\ called' = FALSE /\ hook' = FALSE
    /\ told' = 0 /\ step' = 0 /\ torn' = FALSE /\ then' = "no"
    /\ cause' = why

\* The last file, and the shell goes on.  A save on the way out ends the run.
SaveEnd ==
    /\ Saving /\ torn /\ step = LastStep
    /\ lostFile' = Left
    /\ saved' = Saveable(stack) /\ savedFrom' = Len(stack) /\ whole' = TRUE
    /\ IF then = "off" THEN Gone("off") /\ fresh' = FALSE
       ELSE /\ phase' = then /\ step' = 0 /\ torn' = FALSE /\ then' = "no"
            /\ fresh' = TRUE
            /\ UNCHANGED <<stack, called, hook, told, cause>>
    /\ UNCHANGED <<header, slot, target, ever, mishaps>>

\* The store refuses a write, perhaps with the file already emptied: the save is
\* given up, and nobody is told.
SaveFails ==
    /\ Saving /\ mishaps < MaxMishaps
    /\ mishaps' = mishaps + 1
    /\ whole' = FALSE
    /\ IF then = "off" THEN Gone("off") /\ fresh' = FALSE
       ELSE /\ phase' = then /\ step' = 0 /\ torn' = FALSE /\ then' = "no"
            /\ UNCHANGED <<stack, called, hook, told, cause, fresh>>
    /\ UNCHANGED <<storeVars, target, saved, savedFrom, ever>>

-----------------------------------------------------------------------------
(* qdos_shell_create *)

Boot ==
    /\ phase = "off"
    /\ phase' = "programs"
    /\ UNCHANGED <<storeVars, stack, called, hook, told, saveVars, histVars,
                   mishaps>>

\* A stored file that runs rather than declares leaves values on the stack ...
ProgramPushes(v) ==
    /\ phase = "programs" /\ ~Saving /\ Len(stack) < MaxDepth
    /\ StartupCalls
    /\ stack' = Append(stack, v)
    /\ UNCHANGED <<storeVars, phase, called, hook, told, saveVars, histVars,
                   mishaps>>

\* ... and may call a module, which saves the session before its first word.
ProgramCalls ==
    /\ phase = "programs" /\ ~Saving /\ StartupCalls /\ ~called
    /\ called' = TRUE
    /\ SaveBegin("programs")
    /\ UNCHANGED <<phase, stack, hook, told, histVars, mishaps>>

\* qdos_value_decode: a record that is cut, foreign or overruns itself gives no value.
Decodes(i) == slot[i - 1] # Unreadable

\* Mutant of Readable: the header's count is not minded.
ReadableAll == Max({n \in 0..SESSION_MAX : \A i \in 1..n : Decodes(i)})

\* Values pushed above one that cannot be read are not put back.
Readable ==
    IF header = Unreadable THEN 0
    ELSE Max({n \in 0..header : \A i \in 1..n : Decodes(i)})

\* Mutant of Restored: an unreadable value is passed over.
RestoredSkipping ==
    IF header = Unreadable THEN <<>>
    ELSE SelectSeq([i \in 1..header |-> slot[i - 1]],
                   LAMBDA v : v # Unreadable)

Restored == [i \in 1..Readable |-> slot[i - 1]]

\* What the stored files pushed is trimmed off, the session is put back, and
\* only then may the HAL ask for a save.
Restore ==
    /\ phase = "programs" /\ ~Saving
    /\ stack' = Restored
    /\ told' = IF lostFile = Unreadable THEN 0 ELSE lostFile
    /\ hook' = TRUE
    /\ phase' = "restored"
    /\ UNCHANGED <<storeVars, called, saveVars, saved, savedFrom, whole, fresh,
                   cause, ever, mishaps>>

-----------------------------------------------------------------------------
(* qdos_shell_run *)

\* "restored" is idle before anything has been done.
Between == phase \in {"restored", "idle"} /\ ~Saving

KeyDown ==
    /\ Between
    /\ called' = FALSE /\ phase' = "eval" /\ fresh' = FALSE
    /\ UNCHANGED <<storeVars, stack, hook, told, saveVars, saved, savedFrom,
                   whole, cause, ever, mishaps>>

Evaluating == phase = "eval" /\ ~Saving

\* A step of the evaluation: a value pushed or dropped
EvalStep ==
    /\ Evaluating
    /\ \/ \E v \in Values \ {Cut} : Len(stack) < MaxDepth /\ stack' = Append(stack, v)
       \/ stack # <<>> /\ stack' = SubSeq(stack, 1, Len(stack) - 1)
    /\ UNCHANGED <<storeVars, phase, called, hook, told, saveVars, histVars,
                   mishaps>>

\* call_word_binary: the first module's word since the key saves the session.
CallWord ==
    /\ Evaluating /\ ~called
    /\ called' = TRUE
    /\ SaveBegin("eval")
    /\ UNCHANGED <<phase, stack, hook, told, histVars, mishaps>>

\* A module's word that has been called takes the process down.
WordFaults ==
    /\ phase \in {"programs", "eval"} /\ ~Saving /\ called
    /\ Gone("fault")
    /\ UNCHANGED <<storeVars, target, saved, savedFrom, whole, fresh, ever, mishaps>>

EvalDone ==
    /\ Evaluating
    /\ phase' = "idle"
    /\ UNCHANGED <<storeVars, stack, called, hook, told, saveVars, saved,
                   savedFrom, whole, fresh, cause, ever, mishaps>>

\* The host asks for a save from poll_key or wait: between keys, ...
HookBetween ==
    /\ Between /\ hook
    /\ SaveBegin("idle")
    /\ phase' = "idle"
    /\ UNCHANGED <<stack, called, hook, told, histVars, mishaps>>

\* ... or in the middle of an evaluation that is waiting for a key itself.
HookEvaluating ==
    /\ Evaluating /\ hook
    /\ SaveBegin("eval")
    /\ UNCHANGED <<shellVars, histVars, mishaps>>

\* PWR, the auto-off, or the end of the run loop
PowerOff ==
    /\ Between
    /\ SaveBegin("off")
    /\ phase' = "idle"
    /\ UNCHANGED <<stack, called, hook, told, histVars, mishaps>>

PowerCut ==
    /\ phase # "off" /\ mishaps < MaxMishaps
    /\ mishaps' = mishaps + 1
    /\ Gone("cut")
    /\ UNCHANGED <<storeVars, target, saved, savedFrom, whole, fresh, ever>>

-----------------------------------------------------------------------------

Init ==
    /\ header = Unreadable /\ slot = [i \in Index |-> Unreadable]
    /\ lostFile = Unreadable
    /\ phase = "off" /\ stack = <<>> /\ called = FALSE /\ hook = FALSE /\ told = 0
    /\ step = 0 /\ torn = FALSE /\ then = "no"
    /\ target = <<>>
    /\ saved = <<>> /\ savedFrom = 0 /\ whole = TRUE /\ fresh = FALSE
    /\ cause = "off" /\ ever = [i \in Index |-> {}]
    /\ mishaps = 0

Next ==
    \/ SaveOpen \/ SaveWrite \/ SaveEnd \/ SaveFails
    \/ Boot \/ ProgramCalls \/ Restore
    \/ \E v \in Values : ProgramPushes(v)
    \/ KeyDown \/ EvalStep \/ CallWord \/ WordFaults \/ EvalDone
    \/ HookBetween \/ HookEvaluating \/ PowerOff \/ PowerCut

Spec == Init /\ [][Next]_vars

-----------------------------------------------------------------------------
(* Properties *)

TypeOK ==
    /\ header \in 0..SESSION_MAX \cup {Unreadable}
    /\ slot \in [Index -> (Values \ {Long, Array}) \cup {Unreadable}]
    /\ lostFile \in 0..SESSION_MAX \cup {Unreadable}
    /\ phase \in {"off", "programs", "restored", "idle", "eval"}
    /\ stack \in Seq(Values) /\ Len(stack) <= MaxDepth
    /\ told \in 0..SESSION_MAX
    /\ {called, hook, torn, whole, fresh} \subseteq BOOLEAN
    /\ then \in {"no", "off", "programs", "idle", "eval"}
    /\ step \in 0..(SESSION_MAX + 1)
    /\ mishaps \in 0..MaxMishaps

\* A start after a save that finished puts back exactly what that save took,
\* whatever longer or shorter sessions were saved before it; and a stack that is
\* shorter than it was left is owned up to, by the number that is missing, where
\* it was no deeper than a session may be.  A module that faults costs a restart
\* and not the stack: that save was made within the keypress that faulted.
RestoredExact ==
    phase = "restored" /\ whole =>
        /\ stack = saved
        /\ savedFrom <= SESSION_MAX => told = savedFrom - Len(stack)
        /\ cause = "fault" => fresh

\* Whatever was cut short, a value only ever comes back at a depth it was saved
\* at: restoring stops at what it cannot read.
RightDepth ==
    phase = "restored" => \A i \in 1..Len(stack) : stack[i] \in ever[i - 1]

\* Every session that is restored is one that was saved: a power cut in the
\* middle of a save leaves the old one or the new one.
NoTornSession ==
    phase = "restored" => stack = saved \/ stack = target
=============================================================================
