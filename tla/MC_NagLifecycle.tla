-------------------------- MODULE MC_NagLifecycle --------------------------
(***************************************************************************)
(* One or two tasks of a browser tab over a handful of ticks.              *)
(***************************************************************************)
EXTENDS NagLifecycle

CONSTANTS pill, walk

Capped == [fireAt |-> 1, interval |-> 2, maxCount |-> 2, until |-> Null,
           shrink |-> FALSE, snoozed |-> 0, priority |-> 0, lead |-> 0,
           rounds |-> Null, roundsMax |-> Null, roundsFor |-> Null]
\* Tightening, with no end of its own, a heads-up, and rounds for a while.
Full == [Capped EXCEPT !.fireAt = 2, !.interval = 3, !.maxCount = Null,
                        !.shrink = TRUE, !.lead = 1, !.rounds = 2,
                        !.roundsFor = 4]

OneProfile == {Capped}
TwoTasks == {Capped, Full}

OneOff == [j \in Job |-> Null]
Repeating == [j \in Job |-> IF j = pill THEN 2 ELSE Null]

BackAndForth == {-2, 1}
NoDates == {Null}
DateOrNone == {Null, 2}

=============================================================================
