------------------------------ MODULE MCPages ------------------------------
(* The pages, every order of keys. A return that no page on the way back    *)
(* reads is dead until it is written again, and is left out of the view.    *)
EXTENDS Pages

View ==
    LET way == After \cup IF app \in {"page", "asks"} THEN AfterFrom(home) ELSE {}
        Read(r) == \/ r \in way
                   \/ r = "page" /\ way \cap {"settings", "debug"} # {}
                   \/ r = "graph" /\ "graph3" \in way
    IN <<mode, [r \in Returns |-> IF Read(r) THEN from[r] ELSE "calc"],
         IF "menu" \in way THEN menu ELSE "zoom", field,
         IF "list" \in way THEN all ELSE FALSE, dirty, armed, app,
         IF app \in {"page", "asks"} THEN home ELSE "calc", IF "result" \in way THEN rows ELSE FALSE>>
=============================================================================
