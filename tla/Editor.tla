------------------------------- MODULE Editor -------------------------------
(***************************************************************************)
(* The composer and the edit sheet of both clients (apps/mobile/App.tsx,   *)
(* apps/web/src/App.tsx): what the sheet makes of a task, what each of its *)
(* controls does to the draft, the preview of the fires it shows           *)
(* (describe.ts) and what it saves.  NagPlan says what the planner will    *)
(* then schedule.                                                          *)
(*                                                                         *)
(* A tick is 30 seconds divided by Floor, which is the 30 seconds that     *)
(* SHRINK_FLOOR_SECONDS stands for.                                        *)
(***************************************************************************)
EXTENDS NagPlan

CONSTANTS
  Today,          \* the time
  PickDates,      \* times the user may pick
  ClocksBack,     \* when the clocks go back an hour
  MaxEdits        \* bound on uses of a control

ASSUME TimesAssumption ==
  Today \in Nat /\ PickDates \subseteq Int /\ ClocksBack \in Int

VARIABLES
  client,         \* phone or web
  saved,          \* the task in the store
  draft,          \* the sheet's fields, Null while it is closed
  edits

editorVars == <<client, saved, draft, edits>>

Minutes(n) == 2 * Floor * n
Hours(n) == Minutes(60 * n)

\* MAX_BURST_PER_TASK, which bounds a preview as it does a plan.
Burst20 == 20

\* The composer's presets: interval, count and whether it tightens.
Presets == {<<Floor, 5, FALSE>>, <<Hours(1), 6, FALSE>>, <<Minutes(1), 6, TRUE>>}

\* NAG_PRESETS of the sheet, and the chips of its other choices.
NagPresets == {<<Minutes(5), 1>>, <<Minutes(1), Null>>, <<Minutes(5), 6>>,
               <<Minutes(15), 6>>, <<Minutes(30), 6>>, <<Hours(1), 6>>,
               <<Hours(24), Null>>}
IntervalChoices == {Floor, Minutes(5), Minutes(30), Hours(1), Hours(3)}
RoundsChoices == {Minutes(30), Hours(1), Hours(2), Hours(4)}
LeadChoices == {Null, Minutes(5), Minutes(15), Minutes(30), Hours(1), Hours(24)}
RepeatChoices == {Null, "daily", "weekly", "monthly", "yearly"}
CapModes == {"off", "count", "duration"}

\* matchNagPreset.
MatchesPreset(interval, count) == <<interval, count>> \in NagPresets

\* addPreset and createTask: a task as the composer makes it.
Composed(preset, fire) ==
  [fire |-> fire, interval |-> preset[1], count |-> preset[2],
   shrink |-> preset[3], lead |-> Null, repeat |-> Null,
   rounds |-> Null, roundsMax |-> Null, roundsFor |-> Null]

EditorInit ==
  /\ client \in {"phone", "web"}
  /\ \E preset \in Presets, fire \in PickDates \union {Null} :
       saved = Composed(preset, fire)
  /\ draft = Null
  /\ edits = 0

-----------------------------------------------------------------------------
(* The draft.                                                              *)

\* The hour that the clocks show twice, when it comes for the second time.
RepeatedHour == ClocksBack .. ClocksBack + Hours(1) - 1

\* toLocalInputValue and new Date of what it writes: the web's date field has no
\* seconds, and what it says of the repeated hour means the first time.
InField(fire) ==
  CASE client = "phone" -> fire
    [] client = "web" /\ fire \in RepeatedHour -> fire - (fire % Minutes(1)) - Hours(1)
    [] OTHER -> fire - (fire % Minutes(1))

Default(value, fallback) == IF value = Null THEN fallback ELSE value

ModeOf(t) == CASE t.roundsMax # Null -> "count"
               [] t.roundsMax = Null /\ t.roundsFor # Null -> "duration"
               [] OTHER -> "off"

\* Faulty variant of DraftOf: a field of the task is not taken over.
DraftOfFresh(t) ==
  [dated |-> t.fire # Null, fire |-> InField(Default(t.fire, Today + Hours(1))),
   interval |-> t.interval, count |-> t.count, shrink |-> t.shrink,
   lead |-> t.lead, repeat |-> t.repeat, mode |-> ModeOf(t),
   rounds |-> Hours(1), roundsMax |-> Default(t.roundsMax, 2),
   roundsFor |-> Default(t.roundsFor, Hours(2)),
   custom |-> ~MatchesPreset(t.interval, t.count)]

\* The useState calls of the sheet; what a task does not have gets a value for
\* when it is switched on.
DraftOf(t) ==
  [dated |-> t.fire # Null, fire |-> InField(Default(t.fire, Today + Hours(1))),
   interval |-> t.interval, count |-> t.count, shrink |-> t.shrink,
   lead |-> t.lead, repeat |-> t.repeat, mode |-> ModeOf(t),
   rounds |-> Default(t.rounds, Hours(1)),
   roundsMax |-> Default(t.roundsMax, 2),
   roundsFor |-> Default(t.roundsFor, Hours(2)),
   custom |-> ~MatchesPreset(t.interval, t.count)]

\* Faulty variant of SavedFrom: the draft's caps are kept whatever the mode is.
SavedFromBoth(d) ==
  [fire |-> IF d.dated THEN Default(d.fire, saved.fire) ELSE Null,
   interval |-> d.interval, count |-> d.count,
   shrink |-> d.shrink /\ d.count # 1,
   lead |-> IF d.dated THEN d.lead ELSE Null,
   repeat |-> IF d.dated THEN d.repeat ELSE Null,
   rounds |-> IF d.dated /\ d.mode # "off" THEN d.rounds ELSE Null,
   roundsMax |-> IF d.dated /\ d.mode # "off" THEN d.roundsMax ELSE Null,
   roundsFor |-> IF d.dated /\ d.mode # "off" THEN d.roundsFor ELSE Null]

\* What updateTask makes of what Save hands over: a date field that was cleared
\* leaves the task's date as it was, whether it has one or not.
SavedFrom(d) ==
  [fire |-> IF d.dated THEN Default(d.fire, saved.fire) ELSE Null,
   interval |-> d.interval, count |-> d.count,
   shrink |-> d.shrink /\ d.count # 1,
   lead |-> IF d.dated THEN d.lead ELSE Null,
   repeat |-> IF d.dated THEN d.repeat ELSE Null,
   rounds |-> IF d.dated /\ d.mode # "off" THEN d.rounds ELSE Null,
   roundsMax |-> IF d.dated /\ d.mode = "count" THEN d.roundsMax ELSE Null,
   roundsFor |-> IF d.dated /\ d.mode = "duration" THEN d.roundsFor ELSE Null]

-----------------------------------------------------------------------------
(* The previews.                                                           *)

PastDue(d) == d.dated /\ d.fire # Null /\ d.fire < Today

From(d) == IF PastDue(d) THEN Today ELSE d.fire

\* computeNagBurst as firePreview calls it.  The phone looks at the count before
\* it lets the preview tighten, the web does not; one nag cannot tighten.
NagPreview(d) ==
  Burst([start |-> From(d), interval |-> d.interval, maxCount |-> d.count,
         until |-> Null, prior |-> 0,
         shrink |-> d.shrink /\ (client = "phone" => d.count # 1)],
        Burst20, Today)

\* computeRoundsBurst as roundsFirePreview calls it.
RoundsPreview(d) ==
  Burst([start |-> From(d), interval |-> d.rounds, prior |-> 0, shrink |-> FALSE,
         maxCount |-> IF d.mode = "count" THEN d.roundsMax ELSE Null,
         until |-> IF d.mode = "duration" THEN From(d) + d.roundsFor ELSE Null],
        Burst20, Today)

\* describeFireTimes: the first three, and how many more.
Shown(burst) == <<SubSeq(burst, 1, Smaller(3, Len(burst))), Len(burst)>>

-----------------------------------------------------------------------------
(* The controls.                                                           *)

OpenEditor ==
  /\ draft = Null
  /\ draft' = DraftOf(saved)
  /\ UNCHANGED <<client, saved, edits>>

Use(changed) ==
  /\ edits < MaxEdits /\ edits' = edits + 1
  /\ draft' = changed
  /\ UNCHANGED <<client, saved>>

ToggleDated == draft # Null /\ Use([draft EXCEPT !.dated = ~@])

PickDate ==
  /\ draft # Null /\ draft.dated
  /\ \E fire \in PickDates : Use([draft EXCEPT !.fire = InField(fire)])

\* The web's date field can be emptied.
ClearDate ==
  /\ client = "web" /\ draft # Null /\ draft.dated
  /\ Use([draft EXCEPT !.fire = Null])

ChoosePreset ==
  /\ draft # Null
  /\ \E p \in NagPresets : Use([draft EXCEPT !.custom = FALSE,
                                             !.interval = p[1], !.count = p[2]])

ChooseCustom == draft # Null /\ Use([draft EXCEPT !.custom = TRUE])

\* What follows is only there under Custom.
Customising == draft # Null /\ draft.custom

PickInterval ==
  /\ Customising
  /\ \E i \in IntervalChoices : Use([draft EXCEPT !.interval = i])

\* Stepper: minus and plus, held between min and max.
Stepped(value, min, max) ==
  {Larger(min, value - 1), Smaller(max, value + 1)} \ {value}

StepCount ==
  /\ Customising
  /\ \E n \in Stepped(Default(draft.count, 20), 1, 20) :
       Use([draft EXCEPT !.count = n])

ToggleUntilDone ==
  /\ Customising
  /\ Use([draft EXCEPT !.count = IF @ = Null THEN 6 ELSE Null])

ToggleShrink == Customising /\ Use([draft EXCEPT !.shrink = ~@])

\* And this only for a task with a date, under More options.
Dated == draft # Null /\ draft.dated

PickLead == Dated /\ \E l \in LeadChoices : Use([draft EXCEPT !.lead = l])

PickRepeat == Dated /\ \E r \in RepeatChoices : Use([draft EXCEPT !.repeat = r])

PickRounds ==
  Dated /\ \E i \in RoundsChoices : Use([draft EXCEPT !.rounds = i])

PickMode == Dated /\ \E m \in CapModes : Use([draft EXCEPT !.mode = m])

StepRounds ==
  /\ Dated /\ draft.mode = "count"
  /\ \E n \in Stepped(draft.roundsMax, 2, 20) :
       Use([draft EXCEPT !.roundsMax = n])

StepHours ==
  /\ Dated /\ draft.mode = "duration"
  /\ \E n \in Stepped(draft.roundsFor \div Hours(1), 1, 24) :
       Use([draft EXCEPT !.roundsFor = Hours(n)])

SaveEditor ==
  /\ draft # Null
  /\ saved' = SavedFrom(draft) /\ draft' = Null
  /\ UNCHANGED <<client, edits>>

CloseEditor ==
  /\ draft # Null /\ draft' = Null
  /\ UNCHANGED <<client, saved, edits>>

EditorNext ==
  \/ OpenEditor \/ ToggleDated \/ PickDate \/ ClearDate \/ ChoosePreset
  \/ ChooseCustom \/ PickInterval \/ StepCount \/ ToggleUntilDone \/ ToggleShrink \/ PickLead
  \/ PickRepeat \/ PickRounds \/ PickMode \/ StepRounds \/ StepHours
  \/ SaveEditor \/ CloseEditor

EditorSpec == EditorInit /\ [][EditorNext]_editorVars

-----------------------------------------------------------------------------

\* A task as the planner gets it, never snoozed and with nothing to end it.
Planned(t) ==
  [fireAt |-> t.fire, interval |-> t.interval, maxCount |-> t.count,
   until |-> Null, shrink |-> t.shrink, snoozed |-> 0, priority |-> 0,
   lead |-> Default(t.lead, 0), rounds |-> t.rounds,
   roundsMax |-> t.roundsMax, roundsFor |-> t.roundsFor]

\* What the sheet shows of the nags and the rounds is what is planned.
ShownIsPlanned ==
  LET t == Planned(SavedFrom(draft))
  IN /\ Shown(NagPreview(draft)) = Shown(Burst(NagWalk(t), Burst20, Today))
     /\ draft.mode # "off" =>
          Shown(RoundsPreview(draft)) = Shown(Burst(RoundsWalk(t), Burst20, Today))

(***************************************************************************)
(* "The preview cannot drift from what the scheduler will actually do"     *)
(* (describe.ts:150-156): whatever the user does to the draft, saving it   *)
(* is planned as shown, unless its time is past, its date field is empty,  *)
(* or the task was snoozed.                                                *)
(***************************************************************************)
PreviewIsPlan ==
  draft # Null /\ draft.dated /\ draft.fire # Null /\ ~PastDue(draft)
    => ShownIsPlanned

DateFields == {"lead", "repeat", "rounds", "roundsMax", "roundsFor"}

WithoutDate(t) == [f \in DOMAIN t |-> IF f \in DateFields THEN Null ELSE t[f]]

(***************************************************************************)
(* The sheet keeps what it is not asked to change: opened on a task it or  *)
(* the composer has saved and saved again, it leaves every field as it     *)
(* was, but for what a task without a date cannot use, and for what the    *)
(* web's date field cannot say: there the date loses its seconds, and one  *)
(* in the hour that is repeated when the clocks go back moves to the first *)
(* time, an hour earlier (web App.tsx:119-124, 939, 1058-1063).  "A task   *)
(* matching no preset opens in Custom rather than snapping to the nearest  *)
(* one and silently changing its schedule" (mobile App.tsx:824-825).       *)
(***************************************************************************)
UntouchedSaveKeeps ==
  LET again == SavedFrom(DraftOf(saved))
      seconds == IF client = "web" THEN 0 .. Minutes(1) - 1 ELSE {0}
      moved == IF client = "web" /\ saved.fire \in RepeatedHour THEN Hours(1) ELSE 0
  IN IF saved.fire = Null THEN again = WithoutDate(saved)
     ELSE /\ \A f \in DOMAIN saved \ {"fire"} : again[f] = saved[f]
          /\ saved.fire - moved - again.fire \in seconds
=============================================================================
