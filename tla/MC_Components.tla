---------------------------- MODULE MC_Components ----------------------------
(***************************************************************************)
(* The components that share no state in the models, side by side: one of  *)
(* them runs, the focus, and the others rest in one of their initial       *)
(* states.  The reachable states are those of each component on its own,   *)
(* one after the other.                                                    *)
(***************************************************************************)
EXTENDS NotificationBudget, StoreBoot, MC_TaskStore, Calendar, Editor,
        AppSettings, MC_Codec, CopyService

CONSTANTS walkDog, takePill, callMum,   \* jobs
          ask, askAgain                 \* rewrites under way

VARIABLE focus

-----------------------------------------------------------------------------
(* Planner: three jobs, each one of a handful of tasks that between them   *)
(* have every option, planned at tick 10 with budgets from none to plenty. *)

Jobs == {walkDog, takePill, callMum}

Plain == [fireAt |-> 12, interval |-> 2, maxCount |-> Null, until |-> Null,
          shrink |-> FALSE, snoozed |-> 0, priority |-> 0, lead |-> 0,
          rounds |-> Null, roundsMax |-> Null, roundsFor |-> Null]

\* Long overdue and tightening; it has no end of its own.
Overdue == [Plain EXCEPT !.fireAt = 1, !.interval = 4, !.shrink = TRUE]
\* Snoozed once, with an even shorter interval than the floor of shrinking.
Snoozed == [Plain EXCEPT !.fireAt = 11, !.interval = 1, !.maxCount = 3,
                         !.snoozed = 1, !.shrink = TRUE, !.lead = 1]
\* Ends at a given time; its heads-up is past; rounds for a while.
Ending == [Plain EXCEPT !.fireAt = 9, !.until = 13, !.lead = 2, !.rounds = 3,
                        !.roundsFor = 6]
\* Urgent, one nag, two rounds, a heads-up.
Urgent == [Plain EXCEPT !.priority = 1, !.maxCount = 1, !.lead = 2,
                        !.rounds = 5, !.roundsMax = 2]
\* A round interval whose caps are both absent: planned up to the task's limit.
Capless == [Plain EXCEPT !.maxCount = 1, !.rounds = 3]

Profiles == {Plain, Overdue, Snoozed, Ending, Urgent, Capless}

InputsOf(jobs, profiles, caps, budgets) ==
  [task : [jobs -> profiles], cap : caps, budget : budgets, now : {10}]

MCInputs == InputsOf(Jobs, Profiles, {1, 3}, {0, 1, 4, 20})
              \union InputsOf({}, Profiles, {3}, {5})

BudgetRests == input \in InputsOf({}, Profiles, {3}, {5})

-----------------------------------------------------------------------------
(* The phone's store opens on a new user's database and on every release's.*)

BootRests == table = NoTable

StoreRests == row = Created(Undated)

Interchangeable == Slots \union Permutations({ask, askAgain})

-----------------------------------------------------------------------------
(* The calendar: the ends of months and of February in a leap year, the    *)
(* skipped hour and the one that happens twice, in Central Europe in 2024; *)
(* the clock around 20:30, where tonight becomes tomorrow, and before and  *)
(* after midnight and the changes.                                         *)

MCAt(y, m, d, h, mi) == (MonthStart(y, m) + d - 1) * DayLength + h * Hour + mi * 6

ASSUME ClocksChange == /\ Spring = MCAt(2024, 3, 31, 2, 0)
                       /\ Autumn = MCAt(2024, 10, 27, 2, 0)

MCFires == {MCAt(2024, 1, 31, 9, 0), MCAt(2024, 2, 29, 21, 0),
            MCAt(2024, 3, 30, 2, 30), MCAt(2024, 3, 31, 22, 30),
            MCAt(2023, 12, 31, 12, 0), MCAt(2024, 10, 28, 0, 0)}

MCMoments == {MCAt(2024, 1, 30, 20, 29), MCAt(2024, 1, 30, 20, 31),
              MCAt(2024, 3, 30, 23, 30), MCAt(2024, 10, 26, 22, 59),
              MCAt(2024, 10, 26, 23, 0)}

CalendarRests == at = MCAt(2024, 1, 31, 9, 0) /\ rule = "daily"
                 /\ clock = MCAt(2024, 1, 30, 20, 29)

-----------------------------------------------------------------------------
(* The editor rests on an undated task of the phone.  The settings are     *)
(* none at all, or damaged ones of an earlier release, one of them close   *)
(* to its limit.                                                           *)

EditorRests == client = "phone" /\ saved = Composed(<<Floor, 5, FALSE>>, Null)

MCFound ==
  {<<>>,
   [swipeEnabled |-> FALSE, swapDirections |-> Odd, snoozeMinutes |-> 179,
    maxPerTask |-> 0, globalBudget |-> 500, tone |-> "brutal", pack |-> "drill"]}

SettingsRest == stored = <<>>

CodecRests == snapshot = <<>>

CopyRests == tone = "standard"

-----------------------------------------------------------------------------
Components == {"budget", "boot", "store", "calendar", "editor", "settings",
               "codec", "copy"}

MCInit ==
  /\ focus \in Components
  /\ (focus # "budget" => BudgetRests) /\ Init
  /\ (focus # "boot" => BootRests) /\ BootInit
  /\ (focus # "store" => StoreRests) /\ StoreInit
  /\ (focus # "calendar" => CalendarRests) /\ CalendarInit
  /\ (focus # "editor" => EditorRests) /\ EditorInit
  /\ (focus # "settings" => SettingsRest) /\ SettingsInit
  /\ (focus # "codec" => CodecRests) /\ CodecInit
  /\ (focus # "copy" => CopyRests) /\ CopyInit

Rest(components) ==
  /\ "budget" \in components => UNCHANGED vars
  /\ "boot" \in components => UNCHANGED bootVars
  /\ "store" \in components => UNCHANGED storeVars
  /\ "calendar" \in components => UNCHANGED calendarVars
  /\ "editor" \in components => UNCHANGED editorVars
  /\ "settings" \in components => UNCHANGED settingsVars
  /\ "codec" \in components => UNCHANGED codecVars
  /\ "copy" \in components => UNCHANGED copyVars

MCNext ==
  /\ UNCHANGED focus
  /\ Rest(Components \ {focus})
  /\ \/ focus = "budget" /\ Next
     \/ focus = "boot" /\ BootNext
     \/ focus = "store" /\ StoreNext
     \/ focus = "calendar" /\ CalendarNext
     \/ focus = "editor" /\ EditorNext
     \/ focus = "settings" /\ SettingsNext
     \/ focus = "codec" /\ CodecNext
     \/ focus = "copy" /\ CopyNext

MCVars == <<focus, vars, bootVars, storeVars, calendarVars, editorVars,
            settingsVars, codecVars, copyVars>>

MCSpec == MCInit /\ [][MCNext]_MCVars
=============================================================================
