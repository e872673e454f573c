------------------------------- MODULE Inbox --------------------------------
(***************************************************************************)
(* What the serial console promises of the inbox, whatever the link, the   *)
(* host, the store and the power do: at a path there is one of the files   *)
(* whole or there is nothing.  A file gives its place up only when it is   *)
(* removed or when the whole of another is there to take it; the place is  *)
(* then empty for the moment between the two, FAT not renaming over a      *)
(* file, and that moment ends.                                             *)
(***************************************************************************)
CONSTANTS
    Paths,     \* where a file may be put
    Contents,  \* what may be in one
    None

VARIABLES
    at,    \* what is at each path
    next   \* what is taking a place, and which, or None

inboxVars == <<at, next>>

InboxInit == at = [p \in Paths |-> None] /\ next = None

\* A file that is there whole is about to take the place of what is at p.
MakeRoom(p, c) ==
    /\ next = None /\ next' = [path |-> p, what |-> c]
    /\ at' = [at EXCEPT ![p] = None]

TakePlace ==
    /\ next # None /\ next' = None
    /\ at' = [at EXCEPT ![next.path] = next.what]

\* The rename or the power fails in between.
LosePlace ==
    /\ next # None /\ next' = None
    /\ UNCHANGED at

\* A file is removed, or what would go of a folder.
Remove(ps) ==
    /\ next = None /\ UNCHANGED next
    /\ at' = [p \in Paths |-> IF p \in ps THEN None ELSE at[p]]

InboxNext ==
    \/ \E p \in Paths, c \in Contents : MakeRoom(p, c)
    \/ TakePlace \/ LosePlace
    \/ \E ps \in SUBSET Paths : Remove(ps)

InboxSafe == InboxInit /\ [][InboxNext]_inboxVars

InboxSpec == InboxSafe /\ WF_inboxVars(TakePlace \/ LosePlace)
=============================================================================
