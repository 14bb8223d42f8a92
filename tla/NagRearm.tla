------------------------------ MODULE NagRearm ------------------------------
(***************************************************************************)
(* Re-arming the phone: syncFromDb (apps/mobile/App.tsx) and               *)
(* rescheduleAllNotifications (apps/mobile/src/notifications/scheduler.ts) *)
(* against the store, the settings and each other.  Every step of a re-arm *)
(* is a native call that is awaited, and nothing keeps two re-arms apart:  *)
(* launch alone starts three.                                              *)
(*                                                                         *)
(* A pending notification is its identifier and a content, which stands    *)
(* for its time and words.  What to arm is a function of the rows and the  *)
(* settings (NotificationBudget has the planner); time stands still, so a  *)
(* notification neither fires nor falls out of the plan here.              *)
(***************************************************************************)
EXTENDS Naturals

CONSTANTS
  Db,             \* contents of the task table
  Knobs,          \* settings that matter to the plan
  DefaultKnobs,   \* DEFAULT_SETTINGS
  Id,             \* notification identifiers
  Content,
  None,           \* no notification under an identifier
  PlanOf,         \* planNagNotifications
  Call,           \* syncFromDb calls that may be under way together
  MaxChanges, MaxFaults     \* bounds

Armed == [Id -> Content \union {None}]

ASSUME PlanAssumption == /\ PlanOf \in [Db \X Knobs -> Armed]
                         /\ DefaultKnobs \in Knobs
                         /\ None \notin Content
ASSUME BoundAssumption == MaxChanges \in Nat /\ MaxFaults \in Nat

VARIABLES
  alive,        \* is the app running?
  db,           \* the rows
  knobs,        \* settingsRef.current
  stored,       \* the settings in AsyncStorage
  restoring,    \* loadSettings has not come back
  owed,         \* mutations whose syncFromDb has yet to be called
  stage,        \* where each call of syncFromDb stands
  loaded,       \* the rows it has read
  asked,        \* the settings it has read with them
  todo,         \* identifiers it has still to cancel, or to schedule
  stray,        \* native calls under way that no re-arm waits for any more
  pending,      \* what the OS will deliver
  tainted,      \* history: an earlier reading may still shape what is pending
  changes, faults

appVars == <<db, knobs, stored, restoring, owed, alive>>
callVars == <<stage, loaded, asked, todo>>
vars == <<appVars, callVars, stray, pending, tainted, changes, faults>>

-----------------------------------------------------------------------------
Stage == {"idle", "loading", "listing", "cancelling", "scheduling"}

TypeOK ==
  /\ alive \in BOOLEAN /\ restoring \in BOOLEAN /\ tainted \in BOOLEAN
  /\ db \in Db /\ knobs \in Knobs /\ stored \in Knobs
  /\ owed \in Nat /\ changes \in Nat /\ faults \in Nat
  /\ stage \in [Call -> Stage]
  /\ loaded \in [Call -> Db] /\ asked \in [Call -> Knobs]
  /\ todo \in [Call -> SUBSET Id]
  /\ stray \subseteq Id \X (Content \union {None})
  /\ pending \in Armed

\* The call acts on rows it has read already.
Holds(c) == stage[c] \notin {"idle", "loading"}

\* Some call but those of S does, or its native calls are still under way.
Held(S) == stray # {} \/ \E c \in Call \ S : Holds(c)

PlanFor(c) == PlanOf[<<loaded[c], asked[c]>>]

Init ==
  /\ alive = FALSE
  /\ db \in Db
  /\ knobs = DefaultKnobs
  /\ stored \in Knobs
  /\ restoring = FALSE
  /\ owed = 0
  /\ stage = [c \in Call |-> "idle"]
  /\ loaded = [c \in Call |-> db]
  /\ asked = [c \in Call |-> knobs]
  /\ todo = [c \in Call |-> {}]
  /\ stray = {}
  /\ pending = [i \in Id |-> None]
  /\ tainted = TRUE
  /\ changes = 0
  /\ faults = 0

-----------------------------------------------------------------------------
(* What calls syncFromDb.                                                  *)

Begin(c) ==
  /\ stage[c] = "idle"
  /\ stage' = [stage EXCEPT ![c] = "loading"]
  /\ UNCHANGED <<loaded, asked, todo>>

\* The init effect, which re-arms under the default settings for a start.
Launch(c) ==
  /\ ~alive
  /\ alive' = TRUE
  /\ knobs' = DefaultKnobs
  /\ restoring' = TRUE
  /\ Begin(c)
  /\ UNCHANGED <<db, stored, owed, stray, pending, tainted, changes, faults>>

\* loadSettings comes back: the ref is set and the phone armed anew.
SettingsRestored(c) ==
  /\ restoring
  /\ restoring' = FALSE
  /\ knobs' = stored
  /\ tainted' = (tainted \/ Held({}))
  /\ Begin(c)
  /\ UNCHANGED <<alive, db, stored, owed, stray, pending, changes, faults>>

\* The app returns to the foreground, permission has been granted, a sync
\* pass has ended, or the list is pulled to refresh.
Refresh(c) ==
  /\ alive
  /\ Begin(c)
  /\ UNCHANGED <<appVars, stray, pending, tainted, changes, faults>>

\* updateSettings.  Saving is not waited for and may fail.
UpdateSettings(c, next) ==
  /\ alive
  /\ changes < MaxChanges
  /\ changes' = changes + 1
  /\ knobs' = next
  /\ stored' \in {stored, next}
  /\ tainted' = (tainted \/ Held({}))
  /\ Begin(c)
  /\ UNCHANGED <<alive, db, restoring, owed, stray, pending, faults>>

\* The database call of runMutation, or the rows a sync pass brings.
Change(rows) ==
  /\ alive
  /\ changes < MaxChanges
  /\ changes' = changes + 1
  /\ db' = rows
  /\ owed' = owed + 1
  /\ tainted' = (tainted \/ Held({}))
  /\ UNCHANGED <<alive, knobs, stored, restoring, callVars, stray, pending,
                 faults>>

\* Faulty variant: the view is refreshed without a re-arm.
RearmAfterChangeSkipped(c) ==
  /\ owed > 0
  /\ owed' = owed - 1
  /\ stage[c] = "idle"
  /\ UNCHANGED <<alive, db, knobs, stored, restoring, callVars, stray, pending,
                 tainted, changes, faults>>

\* Faulty variant: a re-arm is taken off the account that nobody owes.
RearmUnasked(c) ==
  /\ alive
  /\ owed' = owed - 1
  /\ Begin(c)
  /\ UNCHANGED <<alive, db, knobs, stored, restoring, stray, pending, tainted,
                 changes, faults>>

\* What runMutation, or backgroundSync, does next.
RearmAfterChange(c) ==
  /\ owed > 0
  /\ owed' = owed - 1
  /\ Begin(c)
  /\ UNCHANGED <<alive, db, knobs, stored, restoring, stray, pending, tainted,
                 changes, faults>>

-----------------------------------------------------------------------------
(* One call of syncFromDb.                                                 *)

\* listTasks has the rows.  With them come the settings of this moment, and
\* the OS is asked for what is pending.
Load(c) ==
  /\ stage[c] = "loading"
  /\ stage' = [stage EXCEPT ![c] = "listing"]
  /\ loaded' = [loaded EXCEPT ![c] = db]
  /\ asked' = [asked EXCEPT ![c] = knobs]
  /\ tainted' = (tainted /\ Held({c}))
  /\ UNCHANGED <<appVars, todo, stray, pending, changes, faults>>

\* cancelAllNagNotifications: one cancellation per pending nag is started.
List(c) ==
  /\ stage[c] = "listing"
  /\ stage' = [stage EXCEPT ![c] = "cancelling"]
  /\ todo' = [todo EXCEPT ![c] = {i \in Id : pending[i] # None}]
  /\ UNCHANGED <<appVars, loaded, asked, stray, pending, tainted, changes, faults>>

Cancel(c, i) ==
  /\ stage[c] = "cancelling"
  /\ i \in todo[c]
  /\ todo' = [todo EXCEPT ![c] = @ \ {i}]
  /\ pending' = [pending EXCEPT ![i] = None]
  /\ UNCHANGED <<appVars, stage, loaded, asked, stray, tainted, changes, faults>>

\* Faulty variant: the cancellations are not waited for.
StartSchedulingEarly(c) ==
  /\ stage[c] = "cancelling"
  /\ stage' = [stage EXCEPT ![c] = "scheduling"]
  /\ todo' = [todo EXCEPT ![c] = {i \in Id : PlanFor(c)[i] # None}]
  /\ stray' = stray \union {<<i, None>> : i \in todo[c]}
  /\ UNCHANGED <<appVars, loaded, asked, pending, tainted, changes, faults>>

\* All are answered.  The plan is made and all of it is asked for at once.
StartScheduling(c) ==
  /\ stage[c] = "cancelling"
  /\ todo[c] = {}
  /\ stage' = [stage EXCEPT ![c] = "scheduling"]
  /\ todo' = [todo EXCEPT ![c] = {i \in Id : PlanFor(c)[i] # None}]
  /\ UNCHANGED <<appVars, loaded, asked, stray, pending, tainted, changes, faults>>

\* scheduleNag: what is pending under the identifier is replaced.
Schedule(c, i) ==
  /\ stage[c] = "scheduling"
  /\ i \in todo[c]
  /\ todo' = [todo EXCEPT ![c] = @ \ {i}]
  /\ pending' = [pending EXCEPT ![i] = PlanFor(c)[i]]
  /\ UNCHANGED <<appVars, stage, loaded, asked, stray, tainted, changes, faults>>

Return(c) ==
  /\ stage[c] = "scheduling"
  /\ todo[c] = {}
  /\ stage' = [stage EXCEPT ![c] = "idle"]
  /\ UNCHANGED <<appVars, loaded, asked, todo, stray, pending, tainted, changes,
                 faults>>

-----------------------------------------------------------------------------
(* Failures.                                                               *)

Fault == faults < MaxFaults /\ faults' = faults + 1

\* What the call has asked the OS for and had no answer to.
Asked(c) ==
  {<<i, IF stage[c] = "cancelling" THEN None ELSE PlanFor(c)[i]>> : i \in todo[c]}

(***************************************************************************)
(* A read, or one of the native calls, is rejected, and with it syncFromDb.*)
(* The others that were started go on; that one may or may not have been   *)
(* carried out.                                                            *)
(***************************************************************************)
Fails(c) ==
  /\ Fault
  /\ stage[c] \in {"loading", "listing"} \/ todo[c] # {}
  /\ stray' \in {stray \union Asked(c)} \union
                {stray \union (Asked(c) \ {a}) : a \in Asked(c)}
  /\ stage' = [stage EXCEPT ![c] = "idle"]
  /\ todo' = [todo EXCEPT ![c] = {}]
  /\ tainted' = TRUE
  /\ UNCHANGED <<appVars, loaded, asked, pending, changes>>

StrayLands(a) ==
  /\ a \in stray
  /\ stray' = stray \ {a}
  /\ pending' = [pending EXCEPT ![a[1]] = a[2]]
  /\ UNCHANGED <<appVars, callVars, tainted, changes, faults>>

\* The app is killed, at any point of a re-arm.  The OS keeps what it has.
Kill ==
  /\ Fault
  /\ alive
  /\ alive' = FALSE
  /\ restoring' = FALSE
  /\ owed' = 0
  /\ stage' = [c \in Call |-> "idle"]
  /\ todo' = [c \in Call |-> {}]
  /\ stray' = {}
  /\ tainted' = TRUE
  /\ UNCHANGED <<db, knobs, stored, loaded, asked, pending, changes>>

-----------------------------------------------------------------------------
CallStep(c) == \/ Load(c) \/ List(c) \/ StartScheduling(c) \/ Return(c)
               \/ \E i \in Id : Cancel(c, i) \/ Schedule(c, i)

StrayStep == \E a \in stray : StrayLands(a)

RearmOwed == \E c \in Call : RearmAfterChange(c)

Next == \/ \E c \in Call : \/ Launch(c) \/ SettingsRestored(c) \/ Refresh(c)
                           \/ \E k \in Knobs : UpdateSettings(c, k)
                           \/ RearmAfterChange(c)
                           \/ CallStep(c)
                           \/ Fails(c)
        \/ \E rows \in Db : Change(rows)
        \/ StrayStep
        \/ Kill

Spec == Init /\ [][Next]_vars

\* Every native call is answered, and runMutation goes on once its call of the
\* database is; strongly fair, as here it takes a place among the calls that is
\* free only now and then.  Nobody has to open the app.
Fairness == /\ \A c \in Call : WF_vars(CallStep(c))
            /\ WF_vars(StrayStep)
            /\ SF_vars(RearmOwed)

FairSpec == Spec /\ Fairness

-----------------------------------------------------------------------------
Quiet == /\ alive /\ owed = 0 /\ stray = {}
         /\ \A c \in Call : stage[c] = "idle"

Matches == pending = PlanOf[<<db, knobs>>]

\* Any number of re-arms may overlap in any order of their native calls: once
\* all have returned, the OS holds exactly the plan for the present rows and
\* settings, provided none of those changed, and no native call failed, while
\* a re-arm acted on an earlier reading.  A re-arm that reads the rows when no
\* other acts on any makes up for all that went before, a kill included.
SettledMatches == Quiet /\ ~tainted => Matches

\* "Re-arms the device to match", "idempotent and safe to call after any task
\* change and on every app foreground" (rescheduleAllNotifications): when all
\* re-arms have returned the OS holds the plan, failures aside.
SafeAfterAnyChange == Quiet /\ faults = 0 => Matches

\* Every change is armed for in the end with nobody opening the app, unless a
\* change, a failure or a kill came into its re-arm, or refreshes without end
\* cancel each other's notifications.
ChangeIsArmed ==
  \/ []<><<\E c \in Call : Refresh(c)>>_vars
  \/ owed > 0 ~> Matches \/ tainted

-----------------------------------------------------------------------------
(***************************************************************************)
(* Why SettledMatches holds.  Without taint every call that acts on a      *)
(* reading acts on the present rows and settings; and an identifier that   *)
(* holds something else than planned is one a call will come to.           *)
(***************************************************************************)
ReadingsAreCurrent ==
  ~tainted => /\ stray = {}
              /\ \A c \in Call : Holds(c) => loaded[c] = db /\ asked[c] = knobs

Planned(i) == PlanOf[<<db, knobs>>][i]

\* The call will cancel or schedule what is pending under i, the last time
\* as planned.
WillFix(c, i) ==
  \/ stage[c] \in {"loading", "listing"}
  \/ stage[c] = "cancelling" /\ (i \in todo[c] \/ Planned(i) # None)
  \/ stage[c] = "scheduling" /\ i \in todo[c]

WrongIsTemporary ==
  ~tainted /\ owed = 0 =>
    \A i \in Id : pending[i] = Planned(i) \/ \E c \in Call : WillFix(c, i)

\* With the app go its calls, not what it has left with the OS.
DeadIsStill ==
  ~alive => /\ tainted /\ ~restoring /\ owed = 0 /\ stray = {}
            /\ \A c \in Call : stage[c] = "idle" /\ todo[c] = {}

IInv == TypeOK /\ ReadingsAreCurrent /\ WrongIsTemporary /\ DeadIsStill

=============================================================================
