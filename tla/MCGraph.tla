------------------------------ MODULE MCGraph ------------------------------
(* Two slots and one program: a curve and an angle-dependent one, a curve in  *)
(* t, a surface and nothing.  The view drops what will be set again before it *)
(* is read: the graph's own state once it has been left, calc where no        *)
(* question is being asked, samples that are to be taken again.               *)
EXTENDS Graph
MCSlots == <<"Y1", "Y2">>
MCPrograms == {"f"}
MCBodies == {"none", "sin", "sq", "circle", "saddle", "bad"}
MCTyped == [w \in {"Y1", "Y2", "f"} |->
  CASE w = "Y1" -> {"sin"} [] w = "Y2" -> {"none", "sq", "circle", "saddle"} [] OTHER -> {"sq", "sin"}]
MCShapeOf == [b \in MCBodies |->
  CASE b = "none" -> "none" [] b = "circle" -> "points" [] b = "saddle" -> "surface" [] OTHER -> "curve"]
GraphLive == page = "GRAPH" \/ (page = "WINDOW" /\ under = "GRAPH")
MCView == <<page, setup, words, result, window,
  IF page = "WINDOW" THEN under ELSE "",
  IF GraphLive \/ page = "GRAPH3" THEN <<graphReturn, stale>> ELSE <<>>,
  IF GraphLive
  THEN <<statplot, gstate, curve, IF gstate = "ASK" THEN calc ELSE NoCalc, view, pstale, fit, untold,
         IF stale /\ pstale THEN <<>> ELSE samples>>
  ELSE <<>>>>
=============================================================================
