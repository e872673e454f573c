--------------------------- MODULE MCCalculator ----------------------------
(***************************************************************************)
(* Instances of Calculator for TLC.                                        *)
(***************************************************************************)
EXTENDS Calculator, TLC

CONSTANTS n, m, r

\* The earlier snapshot is written before it is read again, except within an
\* evaluation, so two states that differ in it alone go on alike.
View == <<stack, undo, IF running = "no" THEN NoSnapshot ELSE undoPrev,
          keyVars, modeVars, histVars>>

\* No operation looks at a number.
Symmetric == Permutations(Numbers)
=============================================================================
