----------------------------- MODULE AppSettings -----------------------------
(***************************************************************************)
(* The user's settings on the phone (packages/core/src/settings.ts,        *)
(* apps/mobile/src/settings/store.ts): what is stored, which may come from *)
(* any release or be damaged; what the app holds in memory, the defaults   *)
(* until the stored ones have been read; the controls that change them;    *)
(* and the options under which the notifications were last planned, which  *)
(* are taken from memory once the tasks are listed (syncFromDb of          *)
(* apps/mobile/App.tsx).                                                   *)
(*                                                                         *)
(* The storage works off its calls in order.  Numbers are whole.           *)
(***************************************************************************)
EXTENDS Integers, Sequences

CONSTANTS
  Packs,                            \* NAG_PACKS
  Odd,                              \* a value of another type than expected
  Found,                            \* what may be stored, by knob
  MaxTweaks, MaxRelists, MaxEnds    \* bounds: changes, re-arms, ends of the app

ASSUME PacksAssumption == "classic" \in Packs

VARIABLES
  stored,     \* the stored settings, by knob; nothing if there are none
  memory,     \* settingsRef.current
  load,       \* loadSettings: asked, read, taken
  answer,     \* what it has read and not handed over yet
  writes,     \* saves under way
  rearms,     \* calls of syncFromDb that wait for their list of tasks
  planned,    \* the options of the latest plan
  tweaks, ends,
  lost        \* history: since its launch the app lost a change or a call

settingsVars ==
  <<stored, memory, load, answer, writes, rearms, planned, tweaks, ends, lost>>

Flags == {"swipeEnabled", "swapDirections", "aiRewrites", "paused"}
Limits == [snoozeMinutes |-> <<1, 180>>, maxPerTask |-> <<1, 20>>,
           globalBudget |-> <<4, 60>>]
NagTones == {"gentle", "standard", "savage"}
Knobs == Flags \union DOMAIN Limits \union {"tone", "pack"}

DefaultSettings ==
  [swipeEnabled |-> TRUE, swapDirections |-> FALSE, aiRewrites |-> TRUE,
   paused |-> FALSE, snoozeMinutes |-> 10, maxPerTask |-> 20,
   globalBudget |-> 60, tone |-> "standard", pack |-> "classic"]

\* Anything may be stored, but what is not of the expected type is Odd.
Storable(raw) ==
  \A k \in DOMAIN raw : k \in DOMAIN Limits => raw[k] \in Int \union {Odd}

ASSUME FoundAssumption == \A raw \in Found : Storable(raw)
ASSUME OddAssumption == Odd \notin BOOLEAN \union Int \union NagTones \union Packs

Clamped(v, limits) == IF v < limits[1] THEN limits[1]
                      ELSE IF v > limits[2] THEN limits[2] ELSE v

\* What a switch or a list of choices offers.
Offered(k) == IF k \in Flags THEN BOOLEAN ELSE IF k = "tone" THEN NagTones ELSE Packs

\* What becomes of a stored value: a number is brought within its limits, and
\* what is no value of the knob is replaced by its default.
Admitted(k, v) ==
  IF k \in DOMAIN Limits
    THEN IF v = Odd THEN DefaultSettings[k] ELSE Clamped(v, Limits[k])
    ELSE IF v \in Offered(k) THEN v ELSE DefaultSettings[k]

\* normalizeSettings, knob by knob.
Normalize(raw) ==
  [k \in Knobs |->
     IF k \in DOMAIN raw THEN Admitted(k, raw[k]) ELSE DefaultSettings[k]]

\* planOptionsFrom.
PlanOptions(settings) ==
  <<settings.globalBudget, settings.maxPerTask, settings.tone, settings.pack>>

\* The app was last used under the settings it finds, and it has launched.
SettingsInit ==
  /\ stored \in Found
  /\ memory = DefaultSettings
  /\ load = "asked" /\ answer = <<>>
  /\ writes = <<>>
  /\ rearms = 1
  /\ planned = PlanOptions(Normalize(stored))
  /\ tweaks = 0 /\ ends = 0
  /\ lost = FALSE

-----------------------------------------------------------------------------
(* The storage.                                                            *)

\* What goes wrong unnoticed.  Once per launch is enough: nothing is said of
\* the settings after it, other than that they are valid.
Mishap == ~lost /\ lost' = TRUE

\* getItem; a failure is taken for no settings.
ReadStored ==
  /\ load = "asked" /\ load' = "read"
  /\ \/ answer' = stored /\ UNCHANGED lost
     \/ answer' = <<>> /\ Mishap
  /\ UNCHANGED <<stored, memory, writes, rearms, planned, tweaks, ends>>

\* setItem; a failure is swallowed.
WriteStored ==
  /\ load # "asked" /\ writes # <<>>
  /\ \/ stored' = Head(writes) /\ UNCHANGED lost
     \/ Mishap /\ UNCHANGED stored
  /\ writes' = Tail(writes)
  /\ UNCHANGED <<memory, load, answer, rearms, planned, tweaks, ends>>

-----------------------------------------------------------------------------
(* The app.                                                                *)

\* Faulty variant of TakeLoaded: the defaults' plan is left as it is.
TakeLoadedQuietly ==
  /\ load = "read" /\ load' = "taken"
  /\ memory' = Normalize(answer) /\ answer' = <<>>
  /\ UNCHANGED <<stored, writes, rearms, planned, tweaks, ends, lost>>

\* The stored settings arrive and what was planned under others is re-armed.
TakeLoaded ==
  /\ load = "read" /\ load' = "taken"
  /\ memory' = Normalize(answer) /\ answer' = <<>>
  /\ rearms' = rearms + 1
  /\ UNCHANGED <<stored, writes, planned, tweaks, ends, lost>>

\* updateSettings.  A change before the stored settings have arrived is made
\* to the defaults, saved, and then replaced in memory.
UpdateSettings(next) ==
  /\ tweaks < MaxTweaks /\ tweaks' = tweaks + 1
  /\ memory' = next
  /\ writes' = Append(writes, next)
  /\ rearms' = rearms + 1
  /\ lost' = (lost \/ load # "taken")
  /\ UNCHANGED <<stored, load, answer, planned, ends>>

Set(k, v) == UpdateSettings([memory EXCEPT ![k] = v])

\* The switches of the quick sheet and of the settings sheet.
Toggle ==
  \E k \in Flags : /\ k = "swapDirections" => memory.swipeEnabled
                   /\ Set(k, ~memory[k])

Choose == \/ \E t \in NagTones : Set("tone", t)
          \/ \E p \in Packs : Set("pack", p)

StepSize(k) ==
  CASE k = "snoozeMinutes" -> IF memory[k] >= 30 THEN 15
                              ELSE IF memory[k] >= 10 THEN 5 ELSE 1
    [] k = "globalBudget"  -> 4
    [] k = "maxPerTask"    -> 1

\* A stepper stops at its ends.
StepBy ==
  \E k \in DOMAIN Limits, sign \in {-1, 1} :
    LET next == Clamped(memory[k] + sign * StepSize(k), Limits[k])
    IN next # memory[k] /\ Set(k, next)

ResetSettings == UpdateSettings(DefaultSettings)

\* The app returns to the foreground, or the permission is granted.
Relist ==
  /\ rearms < MaxRelists /\ rearms' = rearms + 1
  /\ UNCHANGED <<stored, memory, load, answer, writes, planned, tweaks, ends, lost>>

\* The tasks are listed, and planned under the settings of this moment; or the
\* list fails, and nothing is planned.
PlanAll ==
  /\ rearms > 0 /\ rearms' = rearms - 1
  /\ \/ planned' = PlanOptions(memory) /\ UNCHANGED lost
     \/ Mishap /\ UNCHANGED planned
  /\ UNCHANGED <<stored, memory, load, answer, writes, tweaks, ends>>

\* The app ends, with what was not yet written, and is launched again.
EndApp ==
  /\ ends < MaxEnds /\ ends' = ends + 1
  /\ memory' = DefaultSettings
  /\ load' = "asked" /\ answer' = <<>>
  /\ writes' = <<>>
  /\ rearms' = 1
  /\ lost' = FALSE
  /\ UNCHANGED <<stored, planned, tweaks>>

SettingsNext ==
  \/ ReadStored \/ WriteStored \/ TakeLoaded \/ Toggle \/ Choose \/ StepBy
  \/ ResetSettings \/ Relist \/ PlanAll \/ EndApp

SettingsSpec == SettingsInit /\ [][SettingsNext]_settingsVars

-----------------------------------------------------------------------------
Settled == load = "taken" /\ writes = <<>> /\ rearms = 0 /\ ~lost

(***************************************************************************)
(* Whatever was stored, the settings in force are valid ones               *)
(* (settings.ts:12-14), and once everything under way has come through,    *)
(* they are the ones the next launch will find, and the ones under which   *)
(* the notifications were planned (App.tsx:297-299): no plan made under    *)
(* other settings, such as the defaults of the launch, is the last one.    *)
(***************************************************************************)
SettingsInForce ==
  /\ memory = Normalize(memory)
  /\ Settled => /\ memory = Normalize(stored)
                /\ planned = PlanOptions(memory)
=============================================================================
