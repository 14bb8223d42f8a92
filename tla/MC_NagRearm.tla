---------------------------- MODULE MC_NagRearm ----------------------------
(***************************************************************************)
(* One task, off or set for one of two times, with one or two nags as the  *)
(* settings have it, and two re-arms at a time.                            *)
(***************************************************************************)
EXTENDS NagRearm

CONSTANTS morning, evening

Times == {morning, evening}
Rows == {None} \union Times
Slots == {1, 2}
Caps == {1, 2}

Plans == [p \in Rows \X Caps |->
            [s \in Slots |-> IF s <= p[2] THEN p[1] ELSE None]]

============================================================================
