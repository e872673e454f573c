----------------------------- MODULE MCPrograms ------------------------------
(* Two loose programs, the second also in the firmware, and an app. *)
EXTENDS Programs

Firmware == [n \in Names |-> IF n = 2 THEN 1 ELSE 0]
=============================================================================
