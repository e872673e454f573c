-------------------------- MODULE MCNativeModules --------------------------
(***************************************************************************)
(* Instances of NativeModules for TLC.                                     *)
(***************************************************************************)
EXTENDS NativeModules

CONSTANTS a, b, c, game

\* a in all three scopes, b loose and inside an app: shadowing across scopes,
\* two copies in one scope, and a folder walked inside the walk.
MCCopies == {<<SYSTEM, Loose, a>>, <<INBOX, Loose, a>>, <<USER, game, a>>,
             <<INBOX, Loose, b>>, <<INBOX, game, b>>, <<USER, Loose, c>>}

MCOpenFaulty == MCCopies

\* Names of 3 characters: three of them fit a buffer of 13
MCNameLen == [m \in Modules |-> 3]

\* A copy whose close() faults, shadowed by one that is fine
MCCloseFaulty == {<<SYSTEM, Loose, a>>}
=============================================================================
