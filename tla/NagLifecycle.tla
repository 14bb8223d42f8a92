---------------------------- MODULE NagLifecycle ----------------------------
(***************************************************************************)
(* The life of tasks in one open browser tab: the operations of            *)
(* apps/web/src/db/database.ts, each followed by the re-arm of syncFromDb  *)
(* (apps/web/src/App.tsx and notifications/scheduler.ts), against the      *)
(* clock that fires the armed timers and the copy refresh that a snooze    *)
(* leaves running (packages/core/src/snoozeCopy.ts).                       *)
(*                                                                         *)
(* In the tab a mutation and its re-arm follow each other without a timer  *)
(* in between, so they are one action here.  A timer for tick k fires when *)
(* the clock reaches k; whatever is computed during tick k comes after it, *)
(* so an occurrence at k is already past (the planner's >= is between      *)
(* milliseconds, which a tick has many of).                                *)
(***************************************************************************)
EXTENDS NagPlan, FiniteSets

CONSTANTS
  Job,          \* task ids
  Profile,      \* what the composer and the editor fill in; fireAt is a delay
  Period,       \* per job: its repeat period in ticks, or Null
  Deltas,       \* quick-adjust steps
  Dates,        \* fire times the editor may set, Null for undated
  SnoozeTicks, PerTaskCap, Budget,
  MaxDelay,     \* MAX_TIMEOUT_MS
  MaxTime, MaxSnoozes, MaxEdits     \* bounds

\* A row's schedule and options: a SchedulableTask, but it may be undated.
Row == [fireAt : Opt(Nat), interval : Nat \ {0}, maxCount : Opt(Nat),
        until : Opt(Int), shrink : BOOLEAN, snoozed : Nat, priority : Int,
        lead : Nat, rounds : Opt(Nat \ {0}), roundsMax : Opt(Nat),
        roundsFor : Opt(Nat)]

ASSUME LifecycleAssumption ==
  /\ IsFiniteSet(Job)
  /\ Period \in [Job -> Opt(Nat \ {0})]
  /\ Profile # {} /\ \A p \in Profile : p \in Row /\ p.snoozed = 0
  /\ Deltas \subseteq Int /\ Dates \subseteq Opt(Nat)
  /\ SnoozeTicks \in Nat \ {0, 1}     \* a request never outlives the snooze
  /\ PerTaskCap \in Nat /\ Budget \in Nat
  /\ MaxDelay \in Nat
  /\ MaxTime \in Nat /\ MaxSnoozes \in Nat /\ MaxEdits \in Nat

VARIABLES
  now,
  rewrites,     \* is a copy generator configured and turned on?
  task,         \* the rows: schedule and options
  status,       \* completedAt and deletedAt
  paused,       \* dismissedAt
  armed,        \* timers of the tab, as plan entries
  rewriting,    \* snoozes whose copy refresh has not come back
  edits,        \* number of edits so far
  shown,        \* history: nags shown in this occurrence of the task
  sinceSet      \* history: of these, since the schedule was last set

rowVars == <<task, status, paused>>
histVars == <<shown, sinceSet>>
vars == <<now, rewrites, rowVars, armed, rewriting, edits, histVars>>

-----------------------------------------------------------------------------
Naggable(j) == status[j] = "open" /\ ~paused[j] /\ task[j].fireAt # Null

NaggableTasks == [j \in {i \in Job : Naggable(i)} |-> task[j]]

\* Timers too far out for setTimeout are left for a later re-arm.
Armable(e) == e.at - now <= MaxDelay

\* Faulty variant: an overdue task's sequence starts again at the re-arm.
PlanForRestarted(tasks) ==
  LET moved == [j \in DOMAIN tasks |->
                  [tasks[j] EXCEPT !.fireAt = Larger(@, now + 1)]]
      order == CHOOSE o \in Orders(tasks) : TRUE
      plan == BestPlan(moved, order, PerTaskCap, Budget, now + 1)
  IN {e \in ToSet(plan) : Armable(e)}

\* planNagNotifications, and what of it setTimeout can take.
PlanFor(tasks) ==
  LET order == CHOOSE o \in Orders(tasks) : TRUE
      plan == BestPlan(tasks, order, PerTaskCap, Budget, now + 1)
  IN {e \in ToSet(plan) : Armable(e)}

Id(e) == <<e.job, e.kind, e.index>>

\* Faulty variant: the old timers are not cleared first.
RescheduleOver ==
  \E plan \in {PlanFor(tasks) : tasks \in {NaggableTasks'}} :
    armed' = plan \union {a \in armed : \A e \in plan : Id(a) # Id(e)}

\* rescheduleAllNotifications, when the rows of the next state are known.
Reschedule == \E tasks \in {NaggableTasks'} : armed' = PlanFor(tasks)

\* armNotification: the timer of the same identifier is replaced.
Arm(e) == armed' = {a \in armed : Id(a) # Id(e)} \union (IF Armable(e) THEN {e} ELSE {})

NewSchedule(j) == sinceSet' = [sinceSet EXCEPT ![j] = 0]

Edit == edits < MaxEdits /\ edits' = edits + 1

Init ==
  /\ now = 0
  /\ rewrites \in BOOLEAN
  /\ task = [j \in Job |-> CHOOSE p \in Profile : TRUE]    \* of no account yet
  /\ status = [j \in Job |-> "absent"]
  /\ paused = [j \in Job |-> FALSE]
  /\ armed = {}
  /\ rewriting = {}
  /\ edits = 0
  /\ shown = [j \in Job |-> 0]
  /\ sinceSet = [j \in Job |-> 0]

-----------------------------------------------------------------------------
(* The clock.                                                              *)

\* A copy request is over, by answer or by its timeout, before the tick ends
\* that follows the snooze.
RequestsInTime == \A r \in rewriting : now < r.deadline

Tick ==
  LET due == {e \in armed : e.at <= now + 1}
      nags(j) == Cardinality({e \in due : e.job = j /\ e.kind = "nag"})
  IN /\ now < MaxTime
     /\ RequestsInTime
     /\ now' = now + 1
     /\ armed' = armed \ due
     /\ shown' = [j \in Job |-> shown[j] + nags(j)]
     /\ sinceSet' = [j \in Job |-> sinceSet[j] + nags(j)]
     /\ UNCHANGED <<rewrites, rowVars, rewriting, edits>>

\* Timers live in the tab.  Whatever happens next in it opens it first, and
\* what opening arms is armed anew by that step, or by Rearm alone.
CloseTab ==
  /\ armed' = {}
  /\ rewriting' = {}
  /\ UNCHANGED <<now, rewrites, rowVars, edits, histVars>>

\* The tab becomes visible, or another one wrote the store: syncFromDb.
Rearm ==
  /\ UNCHANGED <<now, rewrites, rowVars, rewriting, edits, histVars>>
  /\ Reschedule

-----------------------------------------------------------------------------
(* The operations.                                                         *)

\* createTask, whose fire time is counted from now.
CreateTask(j, p) ==
  /\ status[j] = "absent"
  /\ status' = [status EXCEPT ![j] = "open"]
  /\ task' = [task EXCEPT ![j] =
                 [p EXCEPT !.fireAt = IF @ = Null THEN Null ELSE now + @]]
  /\ UNCHANGED <<now, rewrites, paused, rewriting, edits, histVars>>
  /\ Reschedule

SnoozeTask(j) ==
  /\ task[j].snoozed < MaxSnoozes
  /\ status[j] = "open"
  /\ task' = [task EXCEPT ![j].fireAt = now + SnoozeTicks,
                          ![j].snoozed = @ + 1]
  /\ rewriting' = IF rewrites
                  THEN rewriting \union
                       {[job |-> j, snoozed |-> task'[j].snoozed,
                         deadline |-> now + 1]}
                  ELSE rewriting
  /\ NewSchedule(j)
  /\ UNCHANGED <<now, rewrites, status, paused, edits, shown>>
  /\ Reschedule

\* completeTask: a repeating task moves on by a period instead.  There is no
\* check that the task is still open.
Repeats(j) == Period[j] # Null /\ task[j].fireAt # Null

CompleteTask(j) ==
  /\ Edit
  /\ status[j] # "absent"
  /\ IF Repeats(j)
     THEN /\ task' = [task EXCEPT ![j].fireAt = @ + Period[j], ![j].snoozed = 0]
          /\ shown' = [shown EXCEPT ![j] = 0]
          /\ NewSchedule(j)
          /\ UNCHANGED status
     ELSE /\ status' = [status EXCEPT ![j] = IF @ = "open" THEN "done" ELSE @]
          /\ UNCHANGED <<task, histVars>>
  /\ UNCHANGED <<now, rewrites, paused, rewriting>>
  /\ Reschedule

\* A deleted row keeps its deletedAt.  Completions are bounded already.
ReopenTask(j) ==
  /\ status[j] = "done"
  /\ status' = [status EXCEPT ![j] = "open"]
  /\ UNCHANGED <<now, rewrites, task, paused, rewriting, edits, histVars>>
  /\ Reschedule

DeleteTask(j) ==
  /\ Edit
  /\ status[j] \notin {"absent", "deleted"}
  /\ status' = [status EXCEPT ![j] = "deleted"]
  /\ UNCHANGED <<now, rewrites, task, paused, rewriting, histVars>>
  /\ Reschedule

SetTaskPaused(j) ==
  /\ Edit
  /\ status[j] = "open"
  /\ paused' = [paused EXCEPT ![j] = ~@]
  /\ UNCHANGED <<now, rewrites, task, status, rewriting, histVars>>
  /\ Reschedule

\* shiftFireAt: later counts from now when overdue, earlier stops at now.
ShiftFireAt(at, delta) ==
  LET current == IF at = Null THEN now ELSE at
      base == IF delta >= 0 THEN Larger(current, now) ELSE current
  IN Larger(base + delta, now)

AdjustTaskFireAt(j, delta) ==
  /\ Edit
  /\ status[j] = "open"
  /\ task' = [task EXCEPT ![j].fireAt = ShiftFireAt(@, delta)]
  /\ NewSchedule(j)
  /\ UNCHANGED <<now, rewrites, status, paused, rewriting, shown>>
  /\ Reschedule

\* updateTask: the editor's sheet sends a date and every option, all but
\* nagUntil and priority, which no patch holds.
UpdateTask(j, at, p) ==
  LET row == [p EXCEPT !.fireAt = at, !.snoozed = task[j].snoozed,
                       !.until = task[j].until, !.priority = task[j].priority]
  IN /\ Edit
     /\ status[j] \in {"open", "done"}
     /\ row # task[j]
     /\ task' = [task EXCEPT ![j] = row]
     /\ NewSchedule(j)
     /\ UNCHANGED <<now, rewrites, status, paused, rewriting, shown>>
     /\ Reschedule

-----------------------------------------------------------------------------
(* refreshNextOccurrenceCopy.                                              *)

\* Faulty variant: only a later snooze makes the line unwanted.
StillWantedUnlessSnoozed(r) == /\ task[r.job].fireAt # Null
                               /\ task[r.job].snoozed = r.snoozed

StillWanted(r) == /\ Naggable(r.job)
                  /\ task[r.job].snoozed = r.snoozed

\* The line has come, the task has been read again and is still as snoozed:
\* its first notification is armed anew, at the row's fire time.
OverlayLands(r) ==
  /\ r \in rewriting
  /\ StillWanted(r)
  /\ Arm(Entry(r.job, "nag", 0, task[r.job].fireAt))
  /\ rewriting' = rewriting \ {r}
  /\ UNCHANGED <<now, rewrites, rowVars, edits, histVars>>

OverlayDropped(r) ==
  /\ r \in rewriting
  /\ ~StillWanted(r)
  /\ rewriting' = rewriting \ {r}
  /\ UNCHANGED <<now, rewrites, rowVars, armed, edits, histVars>>

Next == \/ Tick
        \/ CloseTab
        \/ Rearm
        \/ \E j \in Job : \/ \E p \in Profile : CreateTask(j, p)
                          \/ SnoozeTask(j) \/ CompleteTask(j) \/ ReopenTask(j)
                          \/ DeleteTask(j) \/ SetTaskPaused(j)
                          \/ \E d \in Deltas : AdjustTaskFireAt(j, d)
                          \/ \E at \in Dates, p \in Profile : UpdateTask(j, at, p)
        \/ \E r \in rewriting : OverlayLands(r) \/ OverlayDropped(r)

Spec == Init /\ [][Next]_vars

-----------------------------------------------------------------------------
(* Properties.                                                             *)

\* Types of the variables: the rows, the timers of apps/web's scheduler and
\* the copy refreshes a snooze starts.  A timer is found by its identifier.
TypeOK ==
  /\ now \in 0 .. MaxTime /\ rewrites \in BOOLEAN
  /\ edits \in 0 .. MaxEdits
  /\ task \in [Job -> Row]
  /\ \A j \in Job : task[j].snoozed <= MaxSnoozes
  /\ status \in [Job -> {"absent", "open", "done", "deleted"}]
  /\ paused \in [Job -> BOOLEAN]
  /\ armed \subseteq [job : Job, kind : {"nag", "round", "prealarm"},
                     index : Nat, at : Nat]
  /\ \A a, b \in armed : Id(a) = Id(b) => a = b
  /\ rewriting \subseteq [job : Job, snoozed : 1 .. MaxSnoozes, deadline : Nat]
  /\ shown \in [Job -> Nat] /\ sinceSet \in [Job -> Nat]

\* A task that is done, deleted, paused or undated has nothing armed, also
\* when a copy refresh of an earlier snooze comes back (isNaggable and the
\* re-check of snoozeCopy.ts).
SilentWhenOff == \A e \in armed : Naggable(e.job)

\* No nag or round is armed for a time before its task's present fire time: a
\* snooze or a new date takes every timer of the old schedule with it
\* (clearAllTimers, applySnooze), however late a copy refresh lands.
NothingBeforeItsTime ==
  \A e \in armed : e.kind # "prealarm" =>
    task[e.job].fireAt # Null /\ e.at >= task[e.job].fireAt

\* What is armed, a re-arm at this moment would arm too, for the same time: to
\* re-arm at any time and any number of times loses no notification, even as
\* tasks compete for the slots (doc of rescheduleAllNotifications).  A copy
\* refresh is another matter: it may arm what a used-up cap no longer allows.
RearmLosesNothing ==
  ~rewrites => \A e \in armed :
    \E f \in PlanFor(NaggableTasks) :
      <<f.job, f.kind, f.at>> = <<e.job, e.kind, e.at>>

\* From one setting of its schedule to the next a task shows no more nags than
\* its cap leaves after its snoozes, through pauses, re-arms, closed tabs and
\* completions taken back (priorOccurrences of computeNagBurst).
CapPerSchedule ==
  ~rewrites => \A j \in Job : task[j].maxCount # Null =>
    sinceSet[j] <= Larger(0, task[j].maxCount - task[j].snoozed)

\* As snooze.ts:18-21 has it, a task nags no more than its cap in total, no
\* matter how often it is snoozed.  A snooze charges one nag against the cap,
\* not those it has shown.
LifetimeCap ==
  \A j \in Job : task[j].maxCount # Null /\ edits = 0 =>
    shown[j] <= task[j].maxCount

=============================================================================
