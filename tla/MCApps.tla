------------------------------- MODULE MCApps --------------------------------
(***************************************************************************)
(* Two apps, one inside the other at most, and a stack of up to two values *)
(* of the user's.  The settings, the stack and the folders meet only in the *)
(* slot that calls an app: the states explored have one of the three on    *)
(* the move, and the slots with any.                                       *)
(***************************************************************************)
EXTENDS Apps

StackQuiet ==
    /\ Len(stack) < Len(runs) \/ stack = <<>>
    /\ \A i \in DOMAIN runs : runs[i].read = <<>> /\ runs[i].gave = <<>>

SettingsQuiet ==
    /\ \A p \in Parts \ {"slot"} : mem[p] = 0 /\ store[p] = 0
    /\ keep = {}

\* Two kinds of setting at a time are away from where they began.
InPlay == {p \in Parts : mem[p] # 0 \/ store[p] # 0 \/ \E i \in DOMAIN runs : runs[i].found[p] # 0}

Apart ==
    /\ StackQuiet \/ SettingsQuiet
    /\ (StackQuiet /\ SettingsQuiet) \/ \A a \in AppNames : kept[a] = 0
    /\ Cardinality(InPlay) <= 2
=============================================================================
