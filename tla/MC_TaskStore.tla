---------------------------- MODULE MC_TaskStore ----------------------------
(***************************************************************************)
(* TaskStore with an overdue repeating task, the same task deleted, and    *)
(* one that repeats without a date as what other devices may hold.         *)
(***************************************************************************)
EXTENDS TaskStore, TLC

CONSTANTS tap, action

Slots == Permutations(Slot)

MCOthers ==
  LET overdue == [Created(0) EXCEPT !.repeats = TRUE, !.notes = Lines]
  IN {overdue,
      [overdue EXCEPT !.deleted = TRUE],
      [overdue EXCEPT !.fire = Undated]}

MCDeltas == {-1, 1}
=============================================================================
