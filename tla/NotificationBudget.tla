------------------------- MODULE NotificationBudget -------------------------
(***************************************************************************)
(* allocateNotificationBudget with computeNagBurst and computeRoundsBurst  *)
(* (packages/core/src/nag.ts), loop iteration by loop iteration: tasks     *)
(* take slots of one shared budget in turn, first for their nags, then for *)
(* their rounds, last for a heads-up.  One step is one trip round a loop.  *)
(***************************************************************************)
EXTENDS NagPlan

CONSTANTS
  Inputs    \* records [task, cap, budget, now] to plan for

ASSUME InputAssumption ==
  \A in \in Inputs : /\ DOMAIN in = {"task", "cap", "budget", "now"}
                     /\ IsFiniteSet(DOMAIN in.task)
                     /\ in.task \in [DOMAIN in.task -> Task]
                     /\ in.cap \in Nat
                     /\ in.budget \in Nat
                     /\ in.now \in Nat

VARIABLES
  input,        \* the arguments
  order,        \* sorted: the jobs in the order they are served
  turn,         \* index in order of the job being served
  stage,        \* what is being allocated
  walk,         \* parameters of the walk under way
  limit,        \* its maxNotifications
  nextFire,     \* its cursor
  interval,
  occurrence,
  taken,        \* notifications it has scheduled: burst.length
  remaining,    \* slots left
  plan          \* notifications scheduled so far, in order of allocation

inputVars == <<input, order>>
walkVars == <<walk, limit, nextFire, interval, occurrence, taken>>
vars == <<inputVars, turn, stage, walkVars, remaining, plan>>

job == order[turn]
current == input.task[job]

Stage == {"task", "nag", "round", "prealarm", "done"}

Init ==
  /\ input \in Inputs
  /\ order \in Orders(input.task)
  /\ turn = 1
  /\ stage = "task"
  /\ walk = Null
  /\ limit = 0
  /\ nextFire = 0
  /\ interval = 0
  /\ occurrence = 0
  /\ taken = 0
  /\ remaining = input.budget
  /\ plan = <<>>

-----------------------------------------------------------------------------
(* computeNagBurst.                                                        *)

\* The call: the cursor is put on the first fire.
StartWalk(w, slots) ==
  /\ walk' = w
  /\ limit' = slots
  /\ nextFire' = w.start
  /\ interval' = w.interval
  /\ occurrence' = w.prior
  /\ taken' = 0

\* The loop's condition and its two breaks.
GoesOn == taken < limit /\ Allowed(walk, occurrence, nextFire)

\* Faulty variants: an interval may shrink to nothing; past fires are scheduled.
NextIntervalNoFloor == IF walk.shrink THEN (3 * interval) \div 4 ELSE interval

NextInterval == IF walk.shrink THEN Shrunk(interval) ELSE interval

ScheduledEvenPast == TRUE

Scheduled == nextFire >= input.now

WalkStep ==
  /\ stage \in {"nag", "round"}
  /\ GoesOn
  /\ IF Scheduled
     THEN /\ plan' = Append(plan, Entry(job, stage, taken, nextFire))
          /\ taken' = taken + 1
     ELSE UNCHANGED <<plan, taken>>
  /\ occurrence' = occurrence + 1
  /\ interval' = NextInterval
  /\ nextFire' = nextFire + NextInterval
  /\ UNCHANGED <<inputVars, turn, stage, walk, limit, remaining>>

-----------------------------------------------------------------------------
(* allocateNotificationBudget.                                             *)

StartBurst ==
  /\ stage = "task"
  /\ turn <= Len(order)
  /\ remaining > 0
  /\ stage' = "nag"
  /\ StartWalk(NagWalk(current), Smaller(input.cap, remaining))
  /\ UNCHANGED <<inputVars, turn, remaining, plan>>

\* With nothing left the task gets an empty result.
SkipTask ==
  /\ stage = "task"
  /\ turn <= Len(order)
  /\ remaining <= 0
  /\ turn' = turn + 1
  /\ UNCHANGED <<inputVars, stage, walkVars, remaining, plan>>

\* Faulty variant: Rounds gets the cap of a task whatever is left.
RoundsSlotsUncharged(left) == input.cap

RoundsSlots(left) == Smaller(input.cap, left)

\* Faulty variant: Rounds is planned although it is off.
BurstEndsAlways ==
  LET left == remaining - taken IN
  /\ stage = "nag"
  /\ ~GoesOn
  /\ remaining' = left
  /\ stage' = "round"
  /\ StartWalk(RoundsWalk(current), RoundsSlots(left))
  /\ UNCHANGED <<inputVars, turn, plan>>

BurstEnds ==
  LET left == remaining - taken IN
  /\ stage = "nag"
  /\ ~GoesOn
  /\ remaining' = left
  /\ IF current.rounds # Null /\ RoundsSlots(left) > 0
     THEN stage' = "round" /\ StartWalk(RoundsWalk(current), RoundsSlots(left))
     ELSE stage' = "prealarm" /\ UNCHANGED walkVars
  /\ UNCHANGED <<inputVars, turn, plan>>

RoundsEnd ==
  /\ stage = "round"
  /\ ~GoesOn
  /\ remaining' = remaining - taken
  /\ stage' = "prealarm"
  /\ UNCHANGED <<inputVars, turn, walkVars, plan>>

AllocatePreAlarm ==
  LET at == current.fireAt - current.lead IN
  /\ stage = "prealarm"
  /\ IF current.lead > 0 /\ at >= input.now /\ remaining > 0
     THEN /\ plan' = Append(plan, Entry(job, "prealarm", 0, at))
          /\ remaining' = remaining - 1
     ELSE UNCHANGED <<plan, remaining>>
  /\ stage' = "task"
  /\ turn' = turn + 1
  /\ UNCHANGED <<inputVars, walkVars>>

Return ==
  /\ stage = "task"
  /\ turn > Len(order)
  /\ stage' = "done"
  /\ UNCHANGED <<inputVars, turn, walkVars, remaining, plan>>

Next == \/ StartBurst \/ SkipTask \/ WalkStep \/ BurstEnds \/ RoundsEnd
        \/ AllocatePreAlarm \/ Return

Spec == Init /\ [][Next]_vars

-----------------------------------------------------------------------------
WalkState == Walk \union {Null}

PlanEntry == [job : DOMAIN input.task, kind : {"nag", "round", "prealarm"},
              index : Nat, at : Nat]

TypeOK == /\ input \in Inputs
          /\ order \in Seq(DOMAIN input.task)
          /\ turn \in 1 .. Len(order) + 1
          /\ stage \in Stage
          /\ walk \in WalkState
          /\ limit \in Nat
          /\ nextFire \in Nat
          /\ interval \in Nat
          /\ occurrence \in Nat
          /\ taken \in Nat
          /\ remaining \in Int
          /\ plan \in Seq(PlanEntry)

\* U6, "no new per-task option may exceed the notification budget": nags,
\* rounds and heads-ups of all tasks together never pass globalBudget.
WithinBudget == Len(plan) <= input.budget

\* The loops serve exactly the wishes that come first: at every step what is
\* scheduled is an initial part of the best plan, and in the end all of it.
ServesWishesInOrder ==
  LET best == BestPlan(input.task, order, input.cap, input.budget, input.now)
  IN /\ IsPrefix(plan, best)
     /\ stage = "done" => plan = best

\* "Snoozing can't reset the cap": however a task was snoozed, its snoozes and
\* the nags planned for it together stay within nagMaxCount.
SnoozesSpendTheCap ==
  \A i \in DOMAIN plan :
    LET e == plan[i]
        t == input.task[e.job]
    IN e.kind = "nag" /\ t.maxCount # Null => t.snoozed + e.index < t.maxCount

\* A walk passes a bounded number of fires before the present, however small
\* its interval becomes: re-arming a task long overdue cannot spin.
WalkBounded ==
  stage \in {"nag", "round"} =>
    occurrence - walk.prior <= Larger(0, input.now - walk.start) + taken

-----------------------------------------------------------------------------
(***************************************************************************)
(* Why the invariants hold.  Every scheduled notification has cost a slot, *)
(* or will when the walk that scheduled it ends; a walk is given no more   *)
(* slots than are left; and its cursor moves on at least a tick per fire.  *)
(***************************************************************************)
Walking == stage \in {"nag", "round"}

\* Slots used by the walk under way and not yet subtracted.
Uncharged == IF Walking THEN taken ELSE 0

SlotsAddUp == Len(plan) + remaining - Uncharged = input.budget

WalkFits == /\ remaining >= 0
            /\ Walking => taken <= limit /\ limit <= remaining

WalkInStep ==
  /\ stage \in {"nag", "round", "prealarm"} => turn <= Len(order)
  /\ stage = "nag" => walk = NagWalk(current)
  /\ Walking => /\ walk \in Walk
                /\ interval > 0
                /\ occurrence - walk.prior >= taken

CursorMoves ==
  Walking => /\ walk.start <= nextFire
             /\ occurrence - walk.prior <=
                  Larger(0, Smaller(nextFire, input.now) - walk.start) + taken

IInv == /\ TypeOK
        /\ SlotsAddUp
        /\ WalkFits
        /\ WalkInStep
        /\ CursorMoves
        /\ SnoozesSpendTheCap

=============================================================================
