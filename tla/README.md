# A verification development for badgr.me

badgr.me is an offline-first reminder app: a phone app (Expo, SQLite, local
notifications) and a web app (React, localStorage, timers of a tab) over shared
TypeScript packages, optionally mirrored to Supabase and optionally exchanged as
encrypted snapshot files.  Its promise is simple to say: *a task nags until it
is dealt with, on whatever device, and no edit is lost on the way*.  What makes
that hard is that everything is asynchronous and best-effort.  Passes of sync,
re-arms of the notification schedule, copy requests and the user's taps
interleave at every `await`, and failures are swallowed.

This directory models that core in TLA+, checks it with TLC on small instances
and proves the central invariants with TLAPS for every value of the constants.
Paths below are relative to the repository root (`src/` in `PROJECT.json`).

## The system

| Component | State it keeps | Operations | Talks to | Modelled in |
|---|---|---|---|---|
| Coalesced runner (`packages/core/src/concurrency.ts`) | `inFlight`, `queued` | call, settle, callback | wraps one sync pass per app instance | `CoalescedRunner` |
| Sync engine (`packages/core/src/sync.ts`, both `sync/supabase.ts`) | none between passes; two snapshots and a plan within one | one pass: two reads, a plan, two upserts | local store, remote store, runner | `TaskSync` |
| Remote store (`packages/supabase`) | the `tasks` table, a session | `listAll`, `upsertMany`, anonymous sign-in | sync engine | steps of `TaskSync` |
| Notification planner (`nag.ts`, `notifications.ts` in core) | none; loop variables | plan all tasks within one budget | both schedulers | `NagPlan`, `NotificationBudget` |
| Phone scheduler (`apps/mobile/src/notifications/scheduler.ts`) | what the OS holds | list, cancel, schedule, each a native call | `syncFromDb` in `apps/mobile/App.tsx` | `NagRearm` |
| Tab scheduler (`apps/web/src/notifications/scheduler.ts`) | timers of the tab | clear, arm | `syncFromDb` in `apps/web/src/App.tsx` | `NagLifecycle` |
| Task store, web (`apps/web/src/db/database.ts`) | rows in localStorage | create, complete, reopen, snooze, update, pause, adjust, delete, sync's two | handlers of the app, other tabs through the `storage` event | `NagLifecycle`, `TaskSync` |
| Task store, phone (`apps/mobile/src/db/database.ts`) | SQLite rows | the same, each with awaits inside; migrations | handlers, notification actions | `StoreBoot` (opening, migrations), `TaskStore` (operations on a row), `TaskSync` (sync's two) |
| Snooze, the phrase ladder and its rewrites (`snooze.ts`, `copy.ts`, `snoozeCopy.ts`, `remoteCopy.ts`) | a request under way | ask, re-read, overlay | store, scheduler, nag-ai | timers in `NagLifecycle`, lines in `CopyService` |
| `services/nag-ai` | connections; whether it is shutting down | answer, refuse, drain, exit | clients over HTTP, a model behind it | `CopyService` |
| Settings (`settings.ts`, `settings/store.ts`) | a ref, and its stored copy | load, normalise, save, update, reset | planner options, `syncFromDb` | `AppSettings`; effect on re-arms in `NagRearm` |
| Portable snapshots (`packages/portable-sync`, `sync/portableFile.ts`) | none of its own; the number seen, within one operation | export, import, join, recover | store, keystore, files carried by the user | `PortableVault` |
| Vault (`packages/crypto`, both `crypto/keystore.ts`, `VaultPanel.tsx`) | a vault record with its key, a sequence high-water mark; whether the panel shows a vault | create, unlock, recover, change passphrase, clear | portable snapshots | `PortableVault` |
| Text forms of a vault (`recovery.ts`, `canonical.ts`, `framing.ts`, `armor.ts`) | none | print, parse, armor, dearmor | paper, mail, the user | `Codec` |
| Composer and edit sheet (`App.tsx` of both clients, `describe.ts`) | a draft of a task | open, change a field, preview, save | store; the planner's functions for the preview | `Editor` |
| Repeat rules, dates, drawers (`repeat.ts`, `composer.ts`, `adjust.ts`, `sections.ts`) | none | the next fire time, the drawer of a task | stores, views | `Calendar` |
| Views, gestures, tokens, wording, scripts | none of interest | - | - | not modelled |

Components meet in three places.  `runMutation` runs a store operation, re-arms
(`syncFromDb`) and triggers `backgroundSync`.  `backgroundSync` runs a coalesced
pass and re-arms again when it has ended.  Launch, foreground, tab visibility,
permission, settings, other tabs and pull-to-refresh call the same functions
from outside.  Nothing orders these calls among each other except the runner,
and that only for passes of one app instance.

### What is hard, and what must hold

* **Sync.**  A pass acts on snapshots while the user edits.  Two devices push
  unconditionally.  Requests are lost, or land late.  *The newest edit survives
  and replicas converge to it.*  It turns out to hold exactly for edits made
  outside a window of the pass, which is what is checked and proved.
* **Runner.**  Triggers arrive at every moment, also between a pass's end and
  its callback.  *None is forgotten, runs do not overlap, callers are released
  only by a run that covers them.*
* **Planner.**  Many tasks, one budget of slots, five kinds of limits that all
  bite at an edge.  *The budget is never exceeded, slots go by priority, snoozes
  spend the cap, an overdue task cannot make the walk spin.*
* **Life of a task.**  Long sequences of snoozes, pauses, edits, re-arms and
  closed tabs.  *Nothing nags that is off, nothing before its time, re-arming
  loses nothing, no schedule nags beyond its cap.*
* **Phone re-arms.**  Overlapping calls, kills, failed native calls.  *What is
  settled is the plan; every change is armed for.*
* **Snapshots.**  Files arrive late, twice, damaged or out of order; two stores
  (mark and rows) are written one after the other; two tabs share one keystore.
  *No older snapshot is taken, no number sealed twice, nothing comes from a
  damaged file, a forgotten vault leaves no mark.*

* **The phone's store.**  Every operation reads a row, awaits and writes some of
  its columns; taps, notification buttons, the edit sheet and sync do so side by
  side; a migration is several statements and the app may be killed between any
  two.  *Nothing is resurrected by a late write, no overlap makes a repeat
  without a date, no row is destroyed.*
* **Dates.**  Months of 28 to 31 days, days of 23 to 25 hours.  *A repetition
  moves one period per completion, a drawer means a calendar day.*
* **What is shown is what happens.**  The sheet previews a plan that another
  function computes, and converts fields it does not show.  *The preview is the
  plan; an untouched save changes nothing that the controls can say.*
* **Settings.**  Read and written asynchronously, changed meanwhile, from any
  release or damaged.  *The settings in force are valid, stored and planned for.*
* **Text on paper and in mail.**  *What is read is what was written, or nothing.*
* **Rewrites.**  Answers come late, the tone changes meanwhile, and the service
  stops at any time.  *No late answer softens the line, none that waits for the
  service when it is told to stop is cut off.*

`PROJECT.json` lists the hazards one by one with the line where each bites and
the property that would catch it.

## Modules

| Module | Role |
|---|---|
| `CoveringRuns` | abstract: what a coalesced runner promises its callers |
| `CoalescedRunner` | `createCoalescedRunner`, one action per JavaScript job; refines `CoveringRuns` |
| `CoalescedRunnerProofs` | its invariants and the refinement, proved |
| `TaskSync` | `syncTasks` of every client against edits, failures and crashes |
| `TaskSyncProofs` | type correctness and `NewestEditKept`, proved |
| `NagPlan` | declarative reference for `nag.ts`: fire times, wishes, the best plan |
| `NotificationBudget` | the loops of `nag.ts`, one step per trip |
| `NagPlanProofs` | induction on numbers, and with it what the recursive functions of `NagPlan` compute, proved |
| `NotificationBudgetProofs` | the loops make the best plan; budget, cap and bounded walks, proved |
| `NagLifecycle` | tasks in a browser tab over time; uses the planner's reference from `NagPlan` |
| `NagLifecycleProofs` | what is armed is right through any sequence of operations, proved |
| `NagRearm` | re-arms of the phone, one step per native call; the planner is a constant |
| `NagRearmProofs` | settled means planned, proved |
| `PortableVault` | `exportSnapshot`, `importSnapshot`, the vault and the panels, await by await |
| `PortableVaultProofs` | no rollback, numbers sealed once, damage harmless, the mark is the vault's, imports are held, proved |
| `StoreBoot` | `initDatabase` and the migrations, statement by statement, with kills |
| `TaskStore` | calls on one row of the phone, each a read and a write, with the edit sheet and sync |
| `Calendar` | dates and the wall clock; everything that moves a fire time; the drawers |
| `Editor` | the edit sheet of both clients: draft, controls, previews, save; uses `NagPlan` |
| `AppSettings` | the phone's settings: stored, in memory, planned under |
| `Codec` | the recovery code and the armored snapshot, and what happens to them on the way |
| `CopyService` | the ladder's line, the requests for a better one, the nag-ai service |
| `ComponentProofs` | the properties of `StoreBoot`, `TaskStore`, `CopyService`, `AppSettings`, `Editor`, `Calendar` and `Codec`, proved |
| `MC_*` | instances for TLC; `MC_Components` has eight modules side by side |

They fit together as the code does.  `NotificationBudget` shows that the loops
compute what `NagPlan` says, so `NagLifecycle` may use `NagPlan` in place of the
loops.  `NagRearm` takes any function for the planner, so it needs to know
nothing about plans.  `CoalescedRunner` shows what a runner is; `TaskSync` has
the runner's two variables per client (`pc`, `queued`) within the pass.
`PortableVault` shares only the task store with the rest: it has its own copy of
`reconcileTasks`, on rows that are timestamps.  `TaskSync` takes an edit for one
step; `TaskStore` takes that step apart, on one row, and has of sync only that a
row is replaced.  `Editor` says of a draft what `NagPlan` makes of it.  `Codec`
is what a file of `PortableVault` looks like on the way.

Eight components have no steps in common with others.  `MC_Components` holds
them in one state space without multiplying it: a variable `focus`, chosen at
the start, names the one that runs, and all others rest in one initial state.
The reachable states are therefore the sum of those of each on its own, and a
property of a component is checked exactly as in a run of its own.

An action is the code between two awaits.  In a browser tab a store operation
and the re-arm after it contain no macrotask boundary, so `NagLifecycle` takes
them as one action; on the phone each native call is awaited, so `NagRearm` has
a step for each and lets them be answered in any order.

### How state corresponds to code

* `CoalescedRunner`: `phase = "idle"` is `inFlight === null`; `"settled"` is the
  window between the task's promise settling and the callback that clears
  `inFlight`.  `call` is history: how far each outstanding call has been served.
* `TaskSync`: a row is its `updatedAt` and the number of the edit that wrote it.
  `unread`, `seenLocal`, `seenRemote` are the two reads of `Promise.all`;
  `pushing` and `applying` the two upserts; `leftover` and `late` what goes on
  of them after `Promise.all` has rejected.  On the web a local read or upsert
  has no await inside and is one step; on the phone the upsert is a step per
  row.  `last` and `raced` are history.
* `NotificationBudget`: the variables are those of `allocateNotificationBudget`
  and of the `computeNagBurst` call under way.
* `NagLifecycle`: `armed` is the `timers` map with the time of each timer;
  `rewriting` the copy requests under way; `shown` and `sinceSet` are history.
* `NagRearm`: `pending` is what the OS holds; `stage`, `loaded`, `asked`, `todo`
  are the locals of each `syncFromDb` under way; `stray` the native calls of one
  that was rejected; `tainted` is history: a reading from before a change, or a
  failed call, may still shape what is pending.
* `StoreBoot`: `table` and `spare` are `tasks` and `tasks_new`, `version` is
  `PRAGMA user_version`; `progress`, `pos` and `part` are where `initDatabase`
  is.  It starts on nothing, or on what any release left behind.
* `TaskStore`: `row` is the row in SQLite, `shown` the row in React's state,
  `sheet` the draft of `EditSheet`; `call[s]` the locals of an operation under
  way, `at` naming the await it is at.  A write sets the columns of its UPDATE
  and leaves the others, as the code does.
* `Calendar`: an instant is a count of ten seconds; `Local` and `InstantOf` are
  what the Date object does in a zone with summer time.
* `Editor`: a field of `draft` is a `useState` of the sheet; times are in thirty
  seconds.  `InField` is a date after its way through the text of the web's
  field, `RepeatedHour` the hour whose text says another one.
* `AppSettings`: `memory` is `settingsRef.current`, `answer` what `loadSettings`
  has read, `writes` the calls of `saveSettings` the storage has yet to do,
  `rearms` the calls of `syncFromDb` that wait for their rows, `planned` the
  options of the last plan.
* `Codec`: a character is its value and how it is written; bytes are numbers; the
  bit layouts are those of the code on smaller keys and lines.
* `CopyService`: `line` is what the next notification says and `place` its index
  in the burst; `request[s]` is a snooze that was tapped, with the tone that its
  handler has read, and then the call of the remote generator, with the seconds
  its timer has left and how the service took it (`served` if before the signal,
  `late` if after it).  `drain` is the timer of the signal handler, `idle` the
  connections kept alive beyond the signal.  `voices` and `stranded` are history.
* `PortableVault`: `vault` and `mark` are the two entries of each keystore;
  `shown` is a panel's `configured`; `op` holds the locals of the operation under
  way in each panel, with `stage` naming the await it is at (`reading`, `saving`
  and `publishing` of an export; `context`, `checking`, `opening`, `applying` and
  `committing` of an import; `rewrapping`; `clearing`).  `files` are snapshots
  that left their device, which anyone may import at any later time and any
  number of times.  A data key has the name of the vault it was made for.
  `sealed`, `accepted`, `replaced` (a vault was set up over another one) and
  `disturbed` are history.

## Runs

| Run | Question | Instance and bounds |
|---|---|---|
| `CoalescedRunner` | overlap, refinement, liveness | four callers; unbounded time |
| `TaskSync` | does the newest edit survive on its device? | phone and tab, two tasks, two edits, one fault, the tab's clock one ahead |
| `TaskSync_Live` | do replicas converge, does an edit travel by itself? | phone and tab, one task, three edits |
| `NagLifecycle` | is what is armed right through a task's life? | two tasks (one repeating), two profiles, four ticks, one snooze each, two further edits |
| `NagRearm` | do overlapping re-arms settle on the plan? | two calls at a time, three contents of the table, two settings, one change, one fault |
| `PortableVault` | does the mark protect, and fit, the vault it is for? | phone, browser with two tabs, two vaults, two tasks, one edit, five operations, one broken off, damaged files |
| `Components` | the planner: do the loops serve the right wishes within the budget? | three jobs, each one of six task profiles; caps 1 and 3; budgets 0, 1, 4, 5, 20 |
| | opening the store: does a kill destroy anything? | a new store and those of five releases; two rows; three kills |
| | the phone's row: do calls undo each other? | two calls at a time, two in all, one sync (of an overdue repetition, deleted or undated), one ticked line, two snoozes, one field changed in the sheet |
| | the calendar: do repetitions and drawers follow it? | six dates around the ends of months, a leap day and both changes of the clock; five moments; three completions |
| | the sheet: is what it shows and keeps right? | both clients, the composer's presets, four dates, one of them in the hour that comes twice, two uses of any control |
| | the settings: are they valid and in force? | none stored, or damaged ones at their limits; two changes, one end of the app |
| | the codec: is anything misread? | two keys, snapshots of up to two tasks, two slips |
| | the copy service: does a line soften, is a client cut off? | two requests at a time, three snoozes, two nags of a burst, every tone at first, gentle and savage to change to |

Five further runs each show a statement of a comment or document of the
repository that the code does not keep; TLC's counterexample is the point of the
run (`findings` in `PROJECT.json`):

| Run | Statement | What the code does |
|---|---|---|
| `TaskSync_EditLost` | an edit bumps `updatedAt` and so wins | not when it is saved between a pass's snapshot and its local write |
| `NagLifecycle_LifetimeCap` | a 6× task nags six times in total | a snooze charges one nag, not those already shown |
| `NagRearm_Overlap` | re-arming is safe after any change | an overlapping re-arm schedules what it read before the change |
| `TaskStore_Save` | saving the sheet "applies whichever fields changed" | it writes every field as it was when the sheet was opened |
| `Codec_Confusables` | O, I and L are read as the digits they look like | not among the last four characters, which are compared as written |

Further disagreements are visible in the models without a run of their own:

* A pass's local upsert goes on beside the next pass when its push was rejected
  (`leftover` in `TaskSync`), although the comment on `runSync` says passes never
  overlap; `NewestEditKept` holds all the same.
* Rounds with neither cap are planned up to the per-task limit (`Capless` in
  `MC_Components`); `types.ts:48-51` and the editor call them off.
* A copy refresh adds a notification when the snooze used up the cap
  (`OverlayLands` in `NagLifecycle`); `snoozeCopy.ts:30-34` says it only upgrades
  one.
* `changePassphrase` (`envelope.ts:268-273`) says its callers re-seal after a
  change; none does, the panel asks the user to.  And an import never writes the
  vault record, so a fresh snapshot does not bring the other devices the new
  passphrase, as the panel says it will (`VaultPanel.tsx:148` on the web).
* Each device numbers its exports on its own.  One that exported more often
  refuses a newer, unseen snapshot as "an older copy" (`rollback.ts:43`).
* The rebuild of the phone's table is "safe to re-run" (`database.ts:82-86`)
  except when it is cut itself (`CreateSpare` of `StoreBoot`): a kill after
  `CREATE TABLE tasks_new` makes every later launch fail, one between `DROP` and
  `RENAME` leaves the rows in `tasks_new` and an empty list.
* A past date is previewed from now, "because that is what the scheduler will
  actually do" (web `App.tsx:1016-1018`); the planner starts from the past date
  and drops what is past, so the phase of the nags and a cap's count differ.
* An emptied date field of the web's sheet is previewed as undated, while saving
  keeps the old date (web `App.tsx:1021`, `1059-1063`).  A task without a date
  can be given a repeat, a heads-up and rounds that way, and sync brings such
  rows to the phone, where the ticking of a line that has read one puts it back
  over an edit (`PutsBack` in `TaskStore`).
* The web's date field holds a local time, so that a date in the hour that comes
  twice in autumn is moved an hour back by a save that touches nothing
  (`RepeatedHour` in `Editor`).
* A panel that fails to read the keystore of the web shows no vault
  (web `VaultPanel.tsx:65-75`), and so does one that another tab has overtaken.
  Creating or joining a vault there leaves the mark of the vault that was there
  before, and the new one's first snapshots are refused as older (`replaced` in
  `PortableVault`).
* After SIGTERM the idle connections are closed once
  (`services/nag-ai/src/index.ts:36-38`).  A connection that was busy then may
  be kept alive and bring another request, which is served; after five seconds it
  is cut off although its client would have waited longer (`late` in
  `CopyService`).
* A setting changed before the stored ones have arrived is replaced in memory,
  and what is stored is the defaults with that change (`App.tsx:236-243`,
  `300-307`).  Two tabs of the web keep their settings until a storage event
  and write them whole, so one may undo the other's change.
* A re-arm counts the escalation level from the snoozes anew, so a re-arm in the
  middle of a sequence may soften the tone (`Rearm` in `CopyService`).  A rewrite
  is asked for, and its fallback taken, at the level of the tone when Snooze was
  tapped, though the setting was raised meanwhile (`snoozeCopy.ts:47-57`): the
  next notification then keeps the milder line until the next re-arm.  And the
  fallback speaks in the "classic" pack whatever the user's (`copy.ts:266-270`).
* A monthly task of the 31st stays on the 28th after February; a daily one at
  02:30 stays at 03:30 after the clock has gone forward (`Calendar`).
* The sheet's preview knows of neither `snoozeCount`, `nagUntil` nor the user's
  per-task cap; choosing a nag preset leaves a hidden `shrink` as it was.

### What the properties say

* `ImplementsCoveringRuns` is the refinement.  `EveryTriggerCovered` needs no
  quiet; `ReleasedOnceQuiet` does, as triggers that land on a busy runner extend
  the chain all callers wait for.
* `NewestEditKept`: the device that made the newest edit of a task still holds
  it, unless the edit fell between a pass's snapshot of that store and the last
  write of that pass.  `NewestEverywhere`: with apps opened again and again all
  replicas become equal for good.  `EditReachesMirror`: an edit outside such
  windows reaches the mirror by the pass its own mutation triggers.
* `ServesWishesInOrder`: at every step the plan is an initial part of the
  declarative one.  `WithinBudget`, `SnoozesSpendTheCap` and `WalkBounded` are
  the limits.
* `SilentWhenOff`, `NothingBeforeItsTime`, `RearmLosesNothing`, `CapPerSchedule`
  relate the armed timers to the rows; the last counts what was shown.
* `SettledMatches`: when no re-arm is under way and no earlier reading taints
  it, the OS holds exactly the plan, a kill in the middle of an earlier re-arm
  included.  `ChangeIsArmed`: every change is armed for with nobody opening the
  app.
* `NeverAcceptsOlder`: what an import is about to write is no older than
  anything of that vault the device has sealed or imported.  `SealedOnce`: no
  two snapshots of a device share a number, which is why the number is saved
  before the file is shown to anyone.  `MarkBelongs`: with nothing under way the
  mark is that of a snapshot of the present vault, unless that one was set up
  over another by a panel that did not know of it (`replaced`).
  `ImportedIsHeld`: after an import the device has every row at least as new as
  the file.  These four speak of devices whose operations do not overlap; two
  tabs, or a panel closed and opened again in the middle (which forgets that it
  was busy), are in the model, and there the code does seal numbers twice and
  set the mark back (`disturbed`).  `NothingFromDamaged` holds in any case.
* `RowsSurvive`, `BootKeepsRows`: the first with any kill, the second with kills
  outside the rebuild, which is where the code is not safe to re-run.
* `NoResurrection`: a done, deleted or paused task becomes open again only by a
  call that means it or by another device, whatever is written late.  It rests
  on each UPDATE setting its own columns only.  `UndatedIsBare`: the sheet and
  the ticking of a line write date and repeat together, so that no overlap of
  calls makes a repeat without a date.  Only sync brings one, as the web saves
  such rows, and the ticking of a line puts one back that it has read.
* `RepeatsMarchOn`, `DrawersMeanDates` speak of calendar days and months, where
  the code computes with instants.
* `PreviewIsPlan`: saving the draft and planning it yields the times shown, for
  a future date, where the user's cap per task leaves the twenty of a preview,
  and neither a snooze nor `nagUntil` cuts the burst.  `UntouchedSaveKeeps`:
  opening and saving is the identity, but for the seconds that the web's date
  field lacks and for the hour that comes twice, whose second time it takes for
  the first.
* `SettingsInForce`: always valid; and once all is quiet, memory, storage and the
  last plan agree, unless a failure or an early change was swallowed (`lost`).
* `NothingMisread`: a code that is accepted spells its key and no other way;
  a snapshot that is read is the one that was written.
* `ToneNeverSoftens`: whatever comes late or fails, a line of the ladder is the
  one for its place in the burst under a tone in force since the latest snooze;
  one milder than the last comes only when the burst begins again or the tone
  was changed.  It relates the snooze count and the tone at the time of asking
  to those at the time of the answer.  `NoWaiterCutOff` rests on the client's
  timeout being shorter than the service's grace; it speaks of requests let in
  before the signal, as later ones are cut off in the code.

### Why the bounds are enough

Every hazard has its cast: two readers of one mirror, a reader and a writer, a
re-arm and its successor.  Four callers cover a run in flight, a trailing one, a
call in the window before the callback and one being released; served callers
may be forgotten and replaced (`Untrack`), so four stand for any number.  Three
edits are what a lost edit takes: one that both devices hold, one elsewhere, one
raced.  Three jobs let a budget run out in each of a task's three parts.  In
`NagLifecycle` four ticks are past every interval, the snooze (two ticks) and
the far end of `MaxDelay` (three), and two edits after a snooze reach what takes
a completion and its reversal, or a pause and a new date.  One change and one
fault in `NagRearm` suffice to taint; two calls are the least that overlap.  In
`PortableVault` five operations are a vault, an export, a join elsewhere, and
then a second export, import, clear or vault, with any of them broken off.  In
`TaskStore` an overlap takes a call under way and one more, or the sheet and a
sync; three kills reach each statement of the rebuild and one more boot after
it.  Three completions pass a February or a change of the clock; two uses of a
control are what an effect on another needs; two slips make a wrong key from a
right one if anything does.  In `CopyService` a request that outlives its snooze
needs a second one, and a third is what could go back; two requests are one that
is served when the signal comes and one that its connection, kept alive, brings
after it; the first nag of a burst and a later one are what a re-arm or a late
answer may return to.  The safety properties are proved for all values: the
bounds matter for liveness only, and for the five runs that exhibit a
disagreement.

A property that could not be broken would say nothing: each has a faulty variant
of a definition in its module (`Faulty variant` in the comments, `mutants` in
`PROJECT.json`) under which TLC finds it violated.

### Fairness

* `CoalescedRunner`, `TaskSync`: the event loop runs every ready job, and every
  request is answered or fails, so steps of a pass are weakly fair.  A mutation
  whose store call is back goes on to `backgroundSync`.  Users are not fair:
  only `NewestEverywhere` assumes that apps are opened again and again, and it
  says so in its formula.
* `NagRearm`: native calls are answered.  `RearmOwed` is strongly fair only
  because the instance has a bounded number of places for calls that are under
  way; in the code a call always finds one.  `ChangeIsArmed` excepts endless
  refreshes, which may cancel each other's notifications for ever.
* `NagLifecycle`, `PortableVault` and the modules of `Components` have safety
  properties only, under no fairness.  They stop at `MaxTime`, `MaxStarts`,
  `MaxCalls` and so on, which is why their configurations do not check for
  deadlock where that can happen.

## Proofs

TLAPS checks, for every value of the constants under the named assumptions on
them (which TLC evaluates on each run), that each safety property of a passing
run holds:

| Theorem | States |
|---|---|
| `CoalescedRunnerProofs!TypeCorrect`, `RunsNeverOverlap`, `TriggersRemembered` | the runner's invariants; the last, that an uncovered trigger is remembered by the flag, is what the refinement rests on |
| `CoalescedRunnerProofs!Refinement` | `Spec => ImplementsCoveringRuns` |
| `TaskSyncProofs!TypeCorrect`, `EditsSurviveSync` | `NewestEditKept`, for any devices, tabs, tasks, clocks and faults |
| `NotificationBudgetProofs!TypeCorrect`, `BudgetNeverExceeded`, `CapIncludesSnoozes`, `WalksAreBounded` | the planner's limits, for every input |
| `NotificationBudgetProofs!LoopsMakeTheBestPlan` | `ServesWishesInOrder`: the loops of `nag.ts` compute the declarative plan of `NagPlan`, for every input |
| `NagLifecycleProofs!LifecycleTyped`, `OffIsSilent`, `NoneBeforeItsTime`, `RearmingLosesNothing`, `CapHoldsPerSchedule` | what is armed and shown in a tab, for any tasks, profiles, caps, delays and sequences of operations |
| `NagRearmProofs!TypeCorrect`, `RearmsSettle` | `SettledMatches`, for any planner, rows, settings and number of re-arms |
| `PortableVaultProofs!Invariant`, `TypeCorrect` | the inductive invariant, and its types |
| `PortableVaultProofs!NoRollback`, `NumbersSealedOnce`, `DamagedFilesHarmless`, `MarkIsTheVaults`, `ImportsAreHeld` | `NeverAcceptsOlder`, `SealedOnce`, `NothingFromDamaged`, `MarkBelongs`, `ImportedIsHeld`, for any devices, panels, vaults and failures |
| `ComponentProofs!BootTypeCorrect`, `NoRowDestroyed`, `KillsOutsideRebuild` | `RowsSurvive`, `BootKeepsRows`, for any rows and any number of kills |
| `ComponentProofs!StoreTypeCorrect`, `UndatedStaysBare`, `NothingIsResurrected` | `UndatedIsBare`, `NoResurrection`, for any number of calls at once and any rows of other devices |
| `ComponentProofs!NobodyCutOff`, `LadderNeverSoftens` | `NoWaiterCutOff`, `ToneNeverSoftens`, for any number of requests, snoozes, nags and changes of the tone |
| `ComponentProofs!LatestSettingsGovern` | `SettingsInForce`, for whatever is found stored and any number of changes and launches |
| `ComponentProofs!PreviewsAreKept`, `NothingChangesUnasked` | `PreviewIsPlan`, `UntouchedSaveKeeps`, for any dates and use of the controls |
| `ComponentProofs!RepeatsKeepTheirDate`, `DrawersAreRight` | `RepeatsMarchOn`, `DrawersMeanDates`, for any span of years, dates and changes of the clock |
| `ComponentProofs!TextsComeBack` | `NothingMisread`, for any keys, snapshots and number of slips |

Each follows the same line: an inductive strengthening in named parts (`IInv`, or
`BootIInv`, `SettingsIInv` and so on), a lemma per group of actions and per part,
and a theorem that it always holds.

* *Runner.*  `active` is one exactly while the phase is running, only a running
  phase has started calls, an idle runner owes nothing.
* *Sync.*  Every row anywhere is at most as new as some user's latest edit
  (`RowsKnown`).  A plan made after the newest edit of a task therefore holds
  nothing that replaces it, and plans made before it are gone or the edit was in
  their window (`Kept`, `NothingPending`).  This is an argument about what rows
  *may be in flight*, and why the invariant must speak of snapshots, pending
  rows, leftovers and late requests together.
* *Planner.*  Each scheduled notification has cost a slot or will when its walk
  ends (`SlotsAddUp`, `WalkFits`); the cursor moves a tick or more per fire
  (`CursorMoves`).
* *The loops and the plan.* `Served` in `NotificationBudgetProofs`: with the
  tasks in the loops' order and `L[i]` wishes in the first `i` of them, the plan
  is the beginning of the wishes that goes as far as the stage says
  (`ServedUpTo`, `Begins`), and a walk under way has passed `k` fires of its
  task, none of them barred, and taken those that are due (`WalkInOrder`).  `L`
  is a witness and not a variable: the loops have no such count.
* *Life of a task.*  Timers are unique per identifier, silent when the task is
  off, and none before its time (`TimersOK`).  Without rewrites each is one that
  the plan of this moment has (`TimersArePlanned`), which survives the passing of
  time because a plan keeps what is later (`BestPlanKeeps`); and a schedule has
  shown no more nags than come before any fire still ahead (`CountsOK`), which is
  why a nag that was shown is never planned again.
* *Re-arms.*  Untainted, every call acts on the present rows and settings
  (`ReadingsAreCurrent`), and an identifier that holds something else than
  planned is one that a call has yet to cancel or schedule (`WrongIsTemporary`).
* *Snapshots.*  On an undisturbed device one operation is under way at a time
  (`Alone`); so the mark it has read is still the mark when it is used
  (`ReadingIsCurrent`), and no known snapshot exceeds the mark (`MarkIsNewest`).
  Without the first the second fails, and with it the third: the code compares
  and writes numbers it has read some awaits ago.  `RowsAreGenuine` says apart
  from this that only authenticated content travels past `Open`.
* *Marks and vaults.* `MarkKept`: the mark is that of a known snapshot of the
  vault, except while both are being forgotten, so that a device without a vault
  has no mark (`Belongs`).  That lets `JoinVault` and `CreateVault` leave the
  mark alone as long as there is no vault, or the same one (`SetUpKeepsMark`); a
  vault set up over another one is `replaced` until it is forgotten with its
  mark (`ForgottenIsFaithful`).  `HeldSoFar`: what an import has yet to write
  plus what is there already covers the file.
* *Opening.*  While the rebuild copies, the rows are in the table or in the copy,
  and the copy has them all before the table is dropped (`Copying`); without a
  cut there is no copy outside the rebuild, and the columns there are are those
  of the migrations passed (`Undisturbed`).
* *The phone's row.*  What the sheet hands over is bare (`PatchIsBare`), and a
  write changes its own columns only (`ChangedRow`).  So a bare row stays bare
  under any call, but for the ticking of a line that writes the date and the
  repeat it has read; which rows it may read is left open.
* *Copy service.* A request let in before the signal has less time left than the
  service (`PatienceFits`).  A request for the latest snooze asks under a tone
  that counts (`AsksInVoice`), so that the line is a rewrite or the ladder's for
  its place under such a tone (`LineInVoice`); with one tone only it can but
  climb within a burst, as the ladder climbs with its level (`LadderClimbs`),
  which is a lemma about its tiers.
* *Settings.*  While nothing has been swallowed, no write waits before the stored
  settings are taken; from then on the last write waiting, or what is stored, is
  memory, and a plan under other options has a re-arm coming (`SettingsKept`).
  That memory *equals* its normal form rests on `NormalizeKeeps`, and on each
  control offering only values that are normal.
* *The sheet.* `UntouchedSaveKeeps` is false of an arbitrary task: one nagged
  once but told to tighten, or with rounds and both of their caps, is changed by
  an untouched save.  `EditorIInv` is that the composer and the sheet make no
  such task (`Saveable`).
* *The calendar.* Years and months partition the days (`YearExists`,
  `MonthsInOrder`), so that each day has one date (`DateOfIs`); every date has
  one midnight, or the first of two instants (`OnDayIs`, `DayBegins`).  `March`
  is the property of a first date, a present one and a number of completions;
  the step is that it goes on (`MarchGoesOn`), whatever day the month was
  clamped to and whichever side of a change of the clock the date has come to.
* *Texts.* Any sheet at all that is taken spells the key it yields: four digits
  of five bits whose last four bits are zero are those of one number
  (`OneSpelling`), whatever the check character says.  While nothing that counts
  was changed, the sheet without its dashes has the values of the code of `key`,
  each in some form (`PaperInv`), and the text without its spaces is the
  encoding of the framed payload (`TextInv`).  Encoding and decoding are inverse
  (`DecodesBack`: three bytes are four symbols, by the place of a byte among its
  three), so are framing and unframing, and rows read back are the tasks with
  the later key unset (`RowsBack`), as no id occurs twice.  `Without` is a
  recursive function of a text's length, for which the sets of the next
  paragraph serve.

**Induction.**  The library states induction over an operator parameter, which
the installed provers cannot instantiate.  `NagPlanProofs` therefore states it of
*sets*: `LeastNatural` comes from the well-foundedness of `<`, `InductionOnNat`
says that a set that holds 0 and successors holds every number, and `Recursion`
that a function may be defined by its value before.  From these follow the
defining equations of the planner's recursive functions (`FireTimesDef`,
`FlattenDef`), and what they compute (`FireTimesIncrease`, `BurstDef`,
`WishesDef`, `FlattenPlaces`).  No module declares a RECURSIVE operator.

**Assumptions** are types, and what the code validates, but for two.
`ClocksAssumption` of `Calendar`: the clocks change neither at midnight nor in
the last hours before it.  Where they go forward *at* midnight, as in some
countries, `startOfDay` is one o'clock on that day, `addDays` goes on from
there, and the drawers of that day and of the day before are off by an hour; the
proof does not go through without the assumption, and should not.  And
`InCalendar`: a date is a year or more before the end of the calendar's table,
which the `Date` object has no counterpart of.  `TimesAssumption` of `Editor`
has the present time after the epoch.  `CodecAssumption` gives the sizes of the
model's text: keys of 16 bits, check characters that are digits, bytes for ids
and contents, and a payload whose length fits its frame's one byte.  Of
`CheckOf` it says nothing else: that a code has one spelling does not rest on
the check.

**Only model-checked:** the liveness properties (`EveryTriggerCovered`,
`ReleasedOnceQuiet`, `NewestEverywhere`, `EditReachesMirror`, `ChangeIsArmed`),
as ENABLED and fairness are beyond the provers.  That the layouts of the code's
own sizes (256 bits in 52 + 4 characters, four bytes of length) behave as the
model's do is by their having the same form, and is not proved.

## What the models leave out

* In `TaskSync` an edit is one step.  That is so in the web app; on the phone it
  is a read, an await and a write, which `TaskStore` has, on one row.
  Sync is taken to be configured and not paused.  `listAll` is one read, where
  the code pages by a thousand rows.  A web store whose quota is exceeded is not
  modelled, and neither is `runMutation` giving up before `backgroundSync` when
  a re-arm throws.
* Rows that a rejected pass still writes land without a re-arm; `NagRearm` has
  every change followed by one.
* In `NotificationBudget` intervals are positive, as the stores validate them,
  so the throw of `computeNagBurst` is not reached.  Ticks are whole numbers and
  shrinking rounds down.
* `NagLifecycle` has one tab and a clock that always runs; a machine that
  sleeps, and nags dropped by the re-arm on waking, are not modelled.  Whether a
  copy generator is configured (`rewrites`) is fixed over a run.  A repetition is
  a fixed period.  A copy request never outlives the snooze it belongs to
  (`SnoozeTicks >= 2`: the request has a timeout of seconds, a snooze takes at
  least a minute).  An occurrence at the present tick counts as past for the
  planner: the timer for it has just run.  In particular a task dated in the past
  is planned from its next fire on, as the code does; the plan document
  `docs/plans/due-parity-build-plan.md` expects a past date to fire at once.
* `NagRearm` stands still in time and has no copy overlay.
* In `PortableVault` a wrong passphrase or recovery code, and a file of which not
  even the header can be read, have no step, as they change nothing.  Deriving
  keys and sealing take time but touch no state, so they belong to the step that
  follows.  An import reads the rows and decrypts in one step and writes them in
  later ones: an edit in between may be overwritten, as in `TaskSync_EditLost`.
  The mark is dropped with its vault, and numbers start anew when the same vault
  is joined again; `sealed` and `accepted` are counted from there.
* `StoreBoot` has no index and no PRAGMA but `user_version`; a statement succeeds
  or the app is killed.
* `TaskStore` has one task with a checklist for notes; titles, priorities and
  counts that no operation computes with are left out, as are heads-up and
  rounds, which `repeats` stands for.  That a line of the checklist is named by
  its number when it was rendered, so that a sync in between has another line
  ticked, is left out, and so are the rows that `Mark all done` has rendered and
  that are no longer past.  Several quick taps on the adjust panel may lose one;
  the model has that, no property speaks of it.
* `Calendar` has one time zone with summer time, in whole ticks; invalid dates
  and zones that change at midnight are left out (see *Assumptions*).
* `Editor` has neither title nor notes, and a task as the composer or the sheet
  made it: `nagUntil`, `snoozeCount` and fields of other clients are absent.  The
  clocks go back once, and the hour that they skip in spring is not a date of the
  field (`Calendar` has both).
* `AppSettings` has numbers that are whole; rounding is left out.  The web's
  settings are read and written synchronously and have no module.
* `Codec` has 16-bit keys, check characters of one symbol, and rows of two
  fields;  JSON is not taken apart.  The seal is a comparison.
* `CopyService` has one task and one pack, and a plan is made in one step
  (`NagRearm` takes that apart, `NagLifecycle` has the timers and the guards on
  tasks that are done, deleted, paused or undated).  Whether a connection is kept
  alive after a response is external, and any choice is allowed.  Retries of the
  SDK, which may stretch its eight seconds, are external too.
* Titles and bodies of notifications otherwise, views, gestures, row-level
  security, ciphers.

Not modelled, since there is little in it that a model could get wrong:
rendering and search, gestures (a swipe is the button it stands for), tokens,
wording (`formatDuration`, `describeRelativeFireTime`), validation of formats,
the scripts for screenshots, and the primitives of `packages/crypto`, which are
taken as ideal.

## What remains

Every safety property that a run checks is a theorem.  What could be added: a
machine that sleeps in `NagLifecycle`; the number of notifications the OS keeps
in `NagRearm`; the pages of `listAll` in `TaskSync`; an abstract specification
of a snapshot exchange (a register per vault whose number only rises) that
`PortableVault` implements.

## Running it

`tlc -config X.cfg MC_Y.tla` for a run of the table (`X` is the run's name, `Y`
its module), `tlapm ZProofs.tla` for the proofs.  The longest run takes about
two minutes on two workers, each proof module two minutes or less, but
`ComponentProofs`, which takes five.
