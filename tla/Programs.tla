------------------------------ MODULE Programs -------------------------------
(***************************************************************************)
(* The programs on the machine and the words of the session.               *)
(*                                                                         *)
(* A program is a text under a name, in the firmware (system), on the card *)
(* the PC writes to (inbox) or in the user's store; the nearest one covers *)
(* the others.  A loose program is declared into the session's interpreter *)
(* at the start, when it is saved and when something lands on the card; an *)
(* app is a word that runs what is on the card at the time.  The APPS page *)
(* shows a snapshot of what there is, and drops, renames and copies from   *)
(* it.                                                                     *)
(*                                                                         *)
(* A text is a number; the word it declares is the one it is named after.  *)
(* Names are numbers, in the order of strcmp.  The rows of native modules, *)
(* which come before these, are left out.                                  *)
(***************************************************************************)
EXTENDS Naturals, FiniteSets, Sequences

CONSTANTS
    Names,           \* names a program can have
    AppNames,        \* the ones that are folders on the card
    System,          \* the firmware's programs: the text under each name, or 0
    UserTexts,       \* texts the user writes
    CardTexts,       \* texts that land on the card
    Bad,             \* the ones that do not evaluate
    QDOS_LINE_WORDS, \* words declared at the prompt that are remembered
    MaxTouched       \* bound on the names the card changes between two starts

ASSUME ProgramsAssumption ==
    /\ Names \subseteq Nat \ {0} /\ IsFiniteSet(Names) /\ AppNames \subseteq Names
    /\ UserTexts \cup CardTexts \cup Bad \subseteq Nat \ {0}
    /\ System \in [Names -> Nat]
    /\ QDOS_LINE_WORDS \in Nat /\ MaxTouched \in Nat

VARIABLES
    user, inbox,  \* the text under each name in the two writable scopes, or 0
    words,        \* the text each declared word was declared with, or 0
    appWords,     \* the apps registered as words, which are never taken back
    here,         \* line_word: declared at the prompt and not stored
    page,         \* "home", the APPS "list", a page "over" it, or the "edit"or
    editing,      \* the editor's name, and where ESC leads from it
    rows,         \* the APPS page's snapshot: name, and the scopes it was in
    sel,          \* the selected row, from 1
    armed,        \* delete_armed
    landed,       \* something was written to the card and has not been read
    usb,          \* the inbox is the PC's
    job,          \* a rename under way: between the copy and the drop
    asked,        \* the name DEL has asked about on the page shown, or 0
    touched,      \* the names whose text on the card has changed since the start
    behind        \* the card was read while a page was open over the list

vars == <<user, inbox, words, appWords, here, page, editing, rows, sel, armed, landed, usb, job,
          asked, touched, behind>>

NoJob == [from |-> 0, to |-> 0]
NoEdit == [name |-> 0, back |-> "home"]
NothingThere == [n \in Names |-> 0]

-----------------------------------------------------------------------------
(* What is where.                                                          *)

\* load_program_anywhere
Nearest(u, i, n) == IF u[n] # 0 THEN u[n] ELSE IF i[n] # 0 THEN i[n] ELSE System[n]

IsReadonly(n) == System[n] # 0 \/ inbox[n] # 0

\* Evaluating a text declares its word, and a bad one declares nothing.
Declared(w, n, t) == IF t = 0 \/ t \in Bad \/ n \in AppNames THEN w ELSE [w EXCEPT ![n] = t]

\* qdos_programs_restore: every loose program of a scope, over what is declared.
Restored(w, scope) ==
    [n \in Names |-> IF n \in AppNames \/ scope[n] = 0 \/ scope[n] \in Bad THEN w[n] ELSE scope[n]]

\* Mutant: the user's programs before the card's.
BootWordsSwapped(u, i) == Restored(Restored(Restored(NothingThere, System), u), i)

\* qdos_shell_create, in scope order so that each covers the one before it.
BootWords(u, i) == Restored(Restored(Restored(NothingThere, System), i), u)

AppsThere(u, i) == {n \in AppNames : Nearest(u, i, n) # 0}

-----------------------------------------------------------------------------
(* The APPS page's rows: nearest scope first, then by name.                *)

Rank(e) == IF e.user THEN 0 ELSE IF e.inbox THEN 1 ELSE 2

\* Mutant: by name alone.
EntryOrderByName(a, b) == a.name < b.name

EntryOrder(a, b) == Rank(a) < Rank(b) \/ (Rank(a) = Rank(b) /\ a.name < b.name)

There(u, i) == {n \in Names : Nearest(u, i, n) # 0}
Entry(u, i, n) == [name |-> n, user |-> u[n] # 0, inbox |-> i[n] # 0, system |-> System[n] # 0]
Before(u, i, n) == {m \in There(u, i) : EntryOrder(Entry(u, i, m), Entry(u, i, n))}

\* qdos_programs_gather and its qsort: a row has as many before it as come before it in the order.
Gather(u, i) ==
    [k \in 1..Cardinality(There(u, i)) |->
        Entry(u, i, CHOOSE n \in There(u, i) : Cardinality(Before(u, i, n)) = k - 1)]

RowOf(rs, n) == {k \in DOMAIN rs : rs[k].name = n}
Clamped(s, rs) == IF s <= Len(rs) THEN s ELSE IF Len(rs) > 0 THEN Len(rs) ELSE 1

\* list_refresh, keeping to a name where it is still there; reload_card keeps the row.
Refresh(u, i, n) ==
    LET rs == Gather(u, i) IN
    /\ rows' = rs /\ behind' = FALSE
    /\ sel' = IF RowOf(rs, n) # {} THEN CHOOSE k \in RowOf(rs, n) : TRUE ELSE Clamped(sel, rs)

Init ==
    /\ user = NothingThere /\ inbox = NothingThere
    /\ words = BootWords(user, inbox) /\ appWords = AppsThere(user, inbox) /\ here = {}
    /\ page = "home" /\ editing = NoEdit /\ rows = <<>> /\ sel = 1 /\ armed = FALSE
    /\ landed = FALSE /\ usb = FALSE /\ job = NoJob /\ asked = 0 /\ touched = {} /\ behind = FALSE

Stores == <<user, inbox, touched>>
Session == <<words, appWords, here>>
Screen == <<page, editing, rows, sel, armed>>
Card == <<landed, usb>>

\* The machine does one thing at a time: between the two halves of a rename nothing else.
Free == job = NoJob

-----------------------------------------------------------------------------
(* The APPS page.                                                          *)

\* list_open_scoped and list_load: delete_armed is left as it was.
ListOpen ==
    /\ Free /\ page = "home" /\ page' = "list"
    /\ rows' = Gather(user, inbox) /\ sel' = 1 /\ behind' = FALSE
    /\ UNCHANGED <<Stores, Session, Card, editing, armed, job, asked>>

\* The rows are taken again whenever the page is opened.
GoesHome == page' = "home" /\ rows' = <<>> /\ sel' = 1 /\ behind' = FALSE

ListKey ==
    /\ Free /\ page = "list" /\ armed' = FALSE /\ asked' = 0
    /\ \/ GoesHome
       \/ sel' \in 1..Len(rows) /\ UNCHANGED <<page, rows, behind>>
    /\ UNCHANGED <<Stores, Session, Card, editing, job>>

\* SET, LOG, INFO and PLOT are not the page's own keys, and go back to it as it was.
ListCovered ==
    /\ Free /\ page = "list" /\ page' = "over" /\ asked' = 0
    /\ UNCHANGED <<Stores, Session, Card, editing, rows, sel, armed, job, behind>>

ListUncovered ==
    /\ Free /\ page = "over"
    /\ (page' = "list" /\ UNCHANGED <<rows, sel, behind>>) \/ GoesHome
    /\ UNCHANGED <<Stores, Session, Card, editing, armed, job, asked>>

Selected == rows[sel]
OnProgram == Free /\ page = "list" /\ sel \in DOMAIN rows

-----------------------------------------------------------------------------
(* Dropping: what was covered comes back, card before firmware.            *)

\* Mutant: the firmware's before the card's.
RedeclareSystemFirst(w, i, n) ==
    Declared(w, n, IF System[n] # 0 THEN System[n] ELSE i[n])

RedeclareShadowed(w, i, n) ==
    Declared(w, n, IF i[n] # 0 THEN i[n] ELSE System[n])

\* The store may refuse to take the file away; nobody is told.
ProgramDrop(n) ==
    /\ words' = RedeclareShadowed([words EXCEPT ![n] = 0], inbox, n)
    /\ here' = here \ {n}
    /\ user' = [user EXCEPT ![n] = 0]
    /\ UNCHANGED <<inbox, touched, appWords>>

ListDropAsks ==
    /\ OnProgram /\ Selected.user /\ ~armed
    /\ armed' = TRUE /\ asked' = Selected.name
    /\ UNCHANGED <<Stores, Session, Card, page, editing, rows, sel, job, behind>>

ListDrop ==
    /\ OnProgram /\ Selected.user /\ armed
    /\ armed' = FALSE /\ asked' = 0
    /\ ProgramDrop(Selected.name)
    /\ Refresh([user EXCEPT ![Selected.name] = 0], inbox,
               IF Selected.system \/ Selected.inbox THEN Selected.name ELSE 0)
    /\ UNCHANGED <<Card, page, editing, job>>

\* `forget` at the prompt
NativeForget(n) ==
    /\ Free /\ page = "home"
    /\ n \in here \/ ~IsReadonly(n) \/ user[n] # 0
    /\ words[n] # 0
    /\ ProgramDrop(n)
    /\ UNCHANGED <<Card, Screen, job, asked, behind>>

-----------------------------------------------------------------------------
(* Copying and renaming.  A new name is one nothing has.                   *)

NameRefused(n) == Nearest(user, inbox, n) # 0 \/ words[n] # 0 \/ n \in appWords

\* A program just put on the card becomes a word, as it would at the start.
ProgramDeclares(w, u, n) ==
    /\ words' = Declared(w, n, Nearest(u, inbox, n))
    /\ appWords' = IF n \in AppNames THEN appWords \cup AppsThere(u, inbox) ELSE appWords

\* qdos_program_copy, or the first half of a rename; the name inside a loose program
\* changes too (SourceText).  A copy may be refused by the store.
Copy(n, rename) ==
    /\ OnProgram /\ ~NameRefused(n)
    /\ rename => Selected.user
    /\ LET text == Nearest(user, inbox, Selected.name) IN
       /\ text # 0 /\ (n \in AppNames <=> Selected.name \in AppNames)
       /\ user' = [user EXCEPT ![n] = text]
       /\ IF rename
          THEN /\ job' = [from |-> Selected.name, to |-> n]
               /\ UNCHANGED <<words, appWords, rows, sel, behind>>
          ELSE /\ ProgramDeclares(words, user', n)
               /\ Refresh(user', inbox, n) /\ UNCHANGED job
    /\ armed' = FALSE /\ asked' = 0
    /\ UNCHANGED <<inbox, touched, here, Card, page, editing>>

\* The second half: the old one dropped, the new one declared, the list taken again.
RenameDrop ==
    /\ job # NoJob
    /\ LET u == [user EXCEPT ![job.from] = 0]
           w == RedeclareShadowed([words EXCEPT ![job.from] = 0], inbox, job.from)
       IN
       /\ user' = u
       /\ ProgramDeclares(w, u, job.to)
       /\ Refresh(u, inbox, job.to)
    /\ here' = here \ {job.from}
    /\ job' = NoJob
    /\ UNCHANGED <<inbox, touched, Card, page, editing, armed, asked>>

-----------------------------------------------------------------------------
(* The editor, and the prompt.                                             *)

EditOpen(n) ==
    /\ Free /\ page \in {"home", "list"}
    /\ page = "list" => sel \in DOMAIN rows /\ n = Selected.name
    /\ page' = "edit" /\ editing' = [name |-> n, back |-> page]
    /\ IF page = "list" THEN armed' = FALSE /\ asked' = 0 ELSE UNCHANGED <<armed, asked>>
    /\ UNCHANGED <<Stores, Session, Card, rows, sel, job, behind>>

\* edit_save: evaluated first, so a bad text stays in the editor; an app is only compiled.
EditSave(t) ==
    /\ Free /\ page = "edit" /\ t \notin Bad
    /\ LET n == editing.name IN
       /\ words' = Declared(words, n, t)
       /\ user' = [user EXCEPT ![n] = t]
       /\ here' = here \ {n}
    /\ UNCHANGED <<inbox, touched, appWords, Card, Screen, job, asked, behind>>

\* The store refuses the write: the word has the new text, the card the old one.
EditSaveFails(t) ==
    /\ Free /\ page = "edit" /\ t \notin Bad
    /\ words' = Declared(words, editing.name, t)
    /\ touched' = touched \cup {editing.name}
    /\ UNCHANGED <<user, inbox, appWords, here, Card, Screen, job, asked, behind>>

\* Mutant: the list is shown as it was.
EditLeaveStale ==
    /\ Free /\ page = "edit" /\ page' = editing.back /\ editing' = NoEdit
    /\ UNCHANGED <<Stores, Session, Card, rows, sel, armed, job, asked, behind>>

EditLeave ==
    /\ Free /\ page = "edit" /\ page' = editing.back /\ editing' = NoEdit
    /\ IF editing.back = "list" THEN Refresh(user, inbox, editing.name) ELSE UNCHANGED <<rows, sel, behind>>
    /\ UNCHANGED <<Stores, Session, Card, armed, job, asked>>

\* report_declaration: a word written at the prompt, remembered while there is room.
LineDeclares(n, t) ==
    /\ Free /\ page = "home" /\ t \notin Bad /\ n \notin AppNames
    /\ words' = [words EXCEPT ![n] = t]
    /\ here' = IF Cardinality(here) < QDOS_LINE_WORDS THEN here \cup {n} ELSE here
    /\ touched' = IF n \in here' THEN touched ELSE touched \cup {n}
    /\ UNCHANGED <<user, inbox, appWords, Card, Screen, job, asked, behind>>

-----------------------------------------------------------------------------
(* The card.  Something lands on it over the wire, or from a PC it has been *)
(* handed to; it is read between two keys, or when it is taken back.        *)

CardWritten(n, t) ==
    /\ t # inbox[n] /\ Cardinality(touched \cup {n}) <= MaxTouched
    /\ inbox' = [inbox EXCEPT ![n] = t]
    /\ touched' = touched \cup {n}
    /\ landed' = IF usb THEN landed ELSE TRUE
    /\ UNCHANGED <<user, Session, Screen, usb, job, asked, behind>>

\* What a program held by the user covers is declared over it all the same.
Reread ==
    /\ words' = Restored(words, inbox)
    /\ touched' = touched \cup {n \in Names : inbox[n] # 0}

ReloadCard ==
    /\ Free /\ landed /\ ~usb /\ landed' = FALSE
    /\ Reread
    /\ appWords' = appWords \cup AppsThere(user, inbox)
    /\ IF page = "list" THEN Refresh(user, inbox, 0)
       ELSE behind' = (behind \/ page = "over") /\ UNCHANGED <<rows, sel>>
    /\ UNCHANGED <<user, inbox, here, page, editing, armed, usb, job, asked>>

\* SET over the list, or from elsewhere.
UsbHand == Free /\ page \in {"over", "home"} /\ ~usb /\ usb' = TRUE
           /\ UNCHANGED <<Stores, Session, Screen, landed, job, asked, behind>>

UsbTake ==
    /\ Free /\ page \in {"over", "home"} /\ usb /\ usb' = FALSE
    /\ Reread /\ behind' = (behind \/ page = "over")
    /\ UNCHANGED <<user, inbox, appWords, here, Screen, landed, job, asked>>

\* Power is lost at any point, or turned off: what is stored is what there is.
Restart ==
    /\ words' = BootWords(user, inbox) /\ appWords' = AppsThere(user, inbox) /\ here' = {}
    /\ page' = "home" /\ editing' = NoEdit /\ rows' = <<>> /\ sel' = 1 /\ armed' = FALSE
    /\ landed' = FALSE /\ usb' = FALSE /\ job' = NoJob /\ asked' = 0 /\ touched' = {} /\ behind' = FALSE
    /\ UNCHANGED <<user, inbox>>

Next ==
    \/ ListOpen \/ ListKey \/ ListCovered \/ ListUncovered
    \/ ListDropAsks \/ ListDrop \/ (\E n \in Names : NativeForget(n))
    \/ (\E n \in Names, rename \in BOOLEAN : Copy(n, rename)) \/ RenameDrop
    \/ (\E n \in Names : EditOpen(n)) \/ (\E t \in UserTexts : EditSave(t) \/ EditSaveFails(t)) \/ EditLeave
    \/ (\E n \in Names, t \in UserTexts : LineDeclares(n, t))
    \/ (\E n \in Names, t \in CardTexts \cup {0} : CardWritten(n, t))
    \/ ReloadCard \/ UsbHand \/ UsbTake \/ Restart

Spec == Init /\ [][Next]_vars

-----------------------------------------------------------------------------
(* A word runs what it would run after a restart: dropping, forgetting,    *)
(* renaming, copying and saving leave the session's words as boot would    *)
(* declare them (redeclare_shadowed, program_declare, edit_save).  Left    *)
(* out are words written at the prompt, names whose text on the card has   *)
(* changed since the start or does not evaluate, and a save the store      *)
(* refused.                                                                *)
WordsAsAtBoot ==
    Free => \A n \in Names \ (here \cup touched \cup AppNames) :
                inbox[n] \notin Bad => words[n] = BootWords(user, inbox)[n]

(* A text of the user's goes only by being forgotten by name, by being the   *)
(* one DEL asked about while the page that asked is on the screen, whatever  *)
(* landed on the card in between, or by a rename once the same text is under *)
(* the new name, so that power lost half way leaves it (list_drop,           *)
(* entry_order, reload_card, name_commit).                                   *)
GivenUpAsAsked ==
    [][\A n \in Names : user[n] # 0 /\ user'[n] = 0 =>
          \/ NativeForget(n)
          \/ ListDrop /\ asked \in {0, n}
          \/ n = job.from /\ user[job.to] = user[n]]_vars

(* Not so: a program is dropped only by a second press, the first having    *)
(* asked about that program ("asking once, there being no way back").  The  *)
(* question stays open when SET, LOG, INFO or PLOT takes the page away.     *)
DropIsAskedFor == [][ListDrop => asked = Selected.name]_vars

(* The APPS page shows what there is, once what landed on the card has     *)
(* been read, and unless it was read under a page opened over it           *)
(* (edit_leave, list_refresh, reload_card).                                *)
RowsAreTrue == (page = "list" /\ Free /\ ~landed /\ ~usb /\ ~behind) => rows = Gather(user, inbox)

(* Not so: the same, whatever page it was read under.                       *)
RowsAlwaysTrue == (page = "list" /\ Free /\ ~landed /\ ~usb) => rows = Gather(user, inbox)

(* A user copy shadows the others (README): a program the user has written *)
(* is what its word runs.  Reading the card again declares what is on it   *)
(* over the user's (reload_card, toggle_usb).                               *)
UserWordIsUsers ==
    Free => \A n \in Names \ (here \cup AppNames) : user[n] # 0 => words[n] = user[n]
=============================================================================
