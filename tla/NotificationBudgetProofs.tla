---------------------- MODULE NotificationBudgetProofs ----------------------
(***************************************************************************)
(* Proofs about NotificationBudget for any tasks, caps and budgets.        *)
(***************************************************************************)
EXTENDS NotificationBudget, NagPlanProofs

\* A sorted order is a sequence of jobs.
LEMMA OrdersAreSequences ==
  ASSUME NEW in \in Inputs, NEW o \in Orders(in.task)
  PROVE  o \in Seq(DOMAIN in.task)
BY InputAssumption, OrdersType

\* Nothing is planned yet and the whole budget is there.
LEMMA InitIInv == Init => IInv
<1> SUFFICES ASSUME Init PROVE IInv
  OBVIOUS
<1>1. input \in Inputs /\ input.budget \in Nat
  BY InputAssumption DEF Init
<1>2. order \in Seq(DOMAIN input.task)
  BY <1>1, OrdersAreSequences DEF Init
<1>3. TypeOK
  BY <1>1, <1>2 DEF Init, TypeOK, Stage, WalkState
<1>4. SlotsAddUp /\ WalkFits /\ WalkInStep /\ CursorMoves
  BY <1>1 DEF Init, SlotsAddUp, WalkFits, WalkInStep, CursorMoves, Uncharged,
              Walking
<1>5. SnoozesSpendTheCap
  BY DEF Init, SnoozesSpendTheCap
<1>6. QED
  BY <1>3, <1>4, <1>5 DEF IInv

\* An interval stays positive when it shrinks.
LEMMA IntervalPositive ==
  ASSUME IInv, Walking
  PROVE  NextInterval \in Nat /\ NextInterval > 0
  BY FloorAssumption DEF IInv, TypeOK, WalkInStep, NextInterval, Shrunk, Larger

\* The arguments have their types.
LEMMA InputTypes ==
  ASSUME TypeOK
  PROVE  /\ input.cap \in Nat /\ input.budget \in Nat /\ input.now \in Nat
         /\ turn <= Len(order) => job \in DOMAIN input.task /\ current \in Task
<1>1. input \in Inputs
  BY DEF TypeOK
<1>2. input.cap \in Nat /\ input.budget \in Nat /\ input.now \in Nat
  BY <1>1, InputAssumption
<1>3. ASSUME turn <= Len(order) PROVE job \in DOMAIN input.task
  BY <1>3 DEF TypeOK, job
<1>4. ASSUME turn <= Len(order) PROVE current \in Task
  BY <1>1, <1>3, <1>4, InputAssumption DEF current
<1>5. QED
  BY <1>2, <1>3, <1>4

\* A walk that begins with no more slots than are left satisfies the part of
\* the invariant that concerns walks.
LEMMA WalkBegins ==
  ASSUME IInv, NEW w \in Walk, NEW slots \in Nat, StartWalk(w, slots),
         slots <= remaining', turn <= Len(order), UNCHANGED <<inputVars, turn>>,
         stage' = "nag" => w = NagWalk(current)
  PROVE  /\ walk' \in WalkState /\ limit' \in Nat /\ nextFire' \in Nat
         /\ interval' \in Nat /\ occurrence' \in Nat /\ taken' = 0
         /\ taken' <= limit' /\ limit' <= remaining'
         /\ WalkInStep'
         /\ CursorMoves'
<1>1. input.now \in Nat
  BY InputTypes DEF IInv
<1>2. /\ walk' = w /\ nextFire' = w.start /\ interval' = w.interval
      /\ occurrence' = w.prior /\ taken' = 0 /\ limit' = slots
  BY DEF StartWalk
<1>3. /\ w.start \in Nat /\ w.interval \in Nat /\ w.interval > 0
      /\ w.prior \in Nat
  BY DEF Walk
<1>4. current' = current /\ turn' <= Len(order')
  BY DEF inputVars, current, job
<1>5. WalkInStep'
  BY <1>2, <1>3, <1>4 DEF WalkInStep, Walking
<1>6. CursorMoves'
  BY <1>1, <1>2, <1>3 DEF CursorMoves, Walking, Larger, Smaller, inputVars
<1>7. QED
  BY <1>2, <1>3, <1>5, <1>6 DEF WalkState

\* The plan and the arguments stay: what was said of the plan still holds.
LEMMA PlanUntouched ==
  ASSUME IInv, UNCHANGED <<inputVars, plan>>
  PROVE  SnoozesSpendTheCap'
  BY DEF IInv, SnoozesSpendTheCap, inputVars

-----------------------------------------------------------------------------
LEMMA StepStartBurst == IInv /\ StartBurst => IInv'
<1> SUFFICES ASSUME IInv, StartBurst PROVE IInv'
  OBVIOUS
<1>1. /\ stage = "task" /\ stage' = "nag" /\ turn <= Len(order)
      /\ remaining > 0
      /\ UNCHANGED <<input, order, turn, remaining, plan>>
  BY DEF StartBurst, inputVars
<1>2. current \in Task /\ input.cap \in Nat
  BY <1>1, InputTypes DEF IInv
<1>3. NagWalk(current) \in Walk
  BY <1>2, WalkTypes
<1> DEFINE slots == Smaller(input.cap, remaining)
<1>4. slots \in Nat /\ slots <= remaining' /\ StartWalk(NagWalk(current), slots)
  BY <1>1, <1>2 DEF Smaller, IInv, TypeOK, StartBurst
<1> HIDE DEF slots
<1>5. /\ walk' \in WalkState /\ limit' \in Nat /\ nextFire' \in Nat
      /\ interval' \in Nat /\ occurrence' \in Nat /\ taken' = 0
      /\ taken' <= limit' /\ limit' <= remaining'
      /\ WalkInStep' /\ CursorMoves'
  BY <1>1, <1>3, <1>4, WalkBegins DEF inputVars
<1>6. TypeOK'
  BY <1>1, <1>5 DEF IInv, TypeOK, Stage, PlanEntry
<1>7. SlotsAddUp'
  BY <1>1, <1>5 DEF IInv, SlotsAddUp, Uncharged, Walking, TypeOK
<1>8. WalkFits'
  BY <1>1, <1>5 DEF IInv, WalkFits
<1>9. QED
  BY <1>1, <1>5, <1>6, <1>7, <1>8, PlanUntouched DEF IInv, inputVars

LEMMA StepBurstEnds == IInv /\ BurstEnds => IInv'
<1> SUFFICES ASSUME IInv, BurstEnds PROVE IInv'
  OBVIOUS
<1>1. /\ stage = "nag" /\ turn <= Len(order) /\ Walking
      /\ UNCHANGED <<input, order, turn, plan>>
      /\ remaining' = remaining - taken
  BY DEF BurstEnds, inputVars, IInv, WalkInStep, Walking
<1>2. current \in Task /\ input.cap \in Nat
  BY <1>1, InputTypes DEF IInv
<1>3. remaining' \in Nat /\ taken \in Nat
  BY <1>1 DEF IInv, TypeOK, WalkFits
<1>4. Len(plan) + remaining' = input.budget
  BY <1>1, <1>3 DEF IInv, TypeOK, SlotsAddUp, Uncharged
<1>5. CASE current.rounds # Null /\ RoundsSlots(remaining - taken) > 0
  <2> DEFINE slots == RoundsSlots(remaining - taken)
  <2>1. /\ stage' = "round"
        /\ StartWalk(RoundsWalk(current), slots)
    BY <1>5 DEF BurstEnds
  <2>2. slots \in Nat /\ slots <= remaining'
    BY <1>1, <1>2, <1>3 DEF RoundsSlots, Smaller
  <2>3. RoundsWalk(current) \in Walk
    BY <1>2, <1>5, WalkTypes
  <2> HIDE DEF slots
  <2>4. /\ walk' \in WalkState /\ limit' \in Nat /\ nextFire' \in Nat
        /\ interval' \in Nat /\ occurrence' \in Nat /\ taken' = 0
        /\ taken' <= limit' /\ limit' <= remaining'
        /\ WalkInStep' /\ CursorMoves'
    BY <1>1, <2>1, <2>2, <2>3, WalkBegins DEF inputVars
  <2>5. TypeOK'
    BY <1>1, <1>3, <2>1, <2>4 DEF IInv, TypeOK, Stage, PlanEntry
  <2>6. SlotsAddUp' /\ WalkFits'
    BY <1>1, <1>3, <1>4, <2>1, <2>4 DEF SlotsAddUp, WalkFits, Uncharged, Walking
  <2>7. QED
    BY <1>1, <2>4, <2>5, <2>6, PlanUntouched DEF IInv, inputVars
<1>6. CASE ~(current.rounds # Null /\ RoundsSlots(remaining - taken) > 0)
  <2>1. stage' = "prealarm" /\ UNCHANGED walkVars
    BY <1>6 DEF BurstEnds
  <2>2. TypeOK'
    BY <1>1, <1>3, <2>1 DEF IInv, TypeOK, Stage, walkVars, PlanEntry
  <2>3. SlotsAddUp' /\ WalkFits' /\ WalkInStep' /\ CursorMoves'
    BY <1>1, <1>3, <1>4, <2>1
       DEF SlotsAddUp, WalkFits, WalkInStep, CursorMoves, Uncharged, Walking
  <2>4. QED
    BY <1>1, <2>2, <2>3, PlanUntouched DEF IInv, inputVars
<1>7. QED
  BY <1>5, <1>6

LEMMA StepRoundsEnd == IInv /\ RoundsEnd => IInv'
<1> SUFFICES ASSUME IInv, RoundsEnd PROVE IInv'
  OBVIOUS
<1>1. /\ stage = "round" /\ turn <= Len(order) /\ Walking
      /\ stage' = "prealarm"
      /\ UNCHANGED <<input, order, turn, plan, walkVars>>
      /\ remaining' = remaining - taken
  BY DEF RoundsEnd, inputVars, IInv, WalkInStep, Walking
<1>2. remaining' \in Nat /\ Len(plan) + remaining' = input.budget
  BY <1>1 DEF IInv, TypeOK, WalkFits, SlotsAddUp, Uncharged
<1>3. TypeOK'
  BY <1>1, <1>2 DEF IInv, TypeOK, Stage, walkVars, PlanEntry
<1>4. SlotsAddUp' /\ WalkFits' /\ WalkInStep' /\ CursorMoves'
  BY <1>1, <1>2
     DEF SlotsAddUp, WalkFits, WalkInStep, CursorMoves, Uncharged, Walking
<1>5. QED
  BY <1>1, <1>3, <1>4, PlanUntouched DEF IInv, inputVars

\* A fire that is past takes the cursor at least one tick nearer the present;
\* one that is not is scheduled.
LEMMA StepWalk == IInv /\ WalkStep => IInv'
<1> SUFFICES ASSUME IInv, WalkStep PROVE IInv'
  OBVIOUS
<1>1. /\ stage \in {"nag", "round"} /\ turn <= Len(order) /\ Walking /\ GoesOn
      /\ occurrence' = occurrence + 1 /\ nextFire' = nextFire + NextInterval
      /\ interval' = NextInterval
      /\ UNCHANGED <<input, order, turn, stage, walk, limit, remaining>>
  BY DEF WalkStep, inputVars, IInv, WalkInStep, Walking
<1>2. /\ current \in Task /\ job \in DOMAIN input.task /\ input.now \in Nat
      /\ current' = current
  BY <1>1, InputTypes DEF IInv, current, job
<1>3. NextInterval \in Nat /\ NextInterval > 0
  BY <1>1, IntervalPositive
<1>4. /\ walk \in Walk /\ walk.start \in Nat /\ walk.prior \in Nat
      /\ nextFire \in Nat /\ occurrence \in Nat /\ taken \in Nat
      /\ limit \in Nat /\ remaining \in Nat /\ taken < limit
  BY <1>1 DEF IInv, TypeOK, WalkFits, WalkInStep, Walk, GoesOn
<1> DEFINE entry == Entry(job, stage, taken, nextFire)
<1>5. \/ /\ Scheduled /\ plan' = Append(plan, entry) /\ taken' = taken + 1
      \/ /\ ~Scheduled /\ plan' = plan /\ taken' = taken
  BY DEF WalkStep
<1>6. /\ entry \in PlanEntry
      /\ entry.job = job /\ entry.kind = stage /\ entry.index = taken
  BY <1>1, <1>2, <1>4 DEF Entry, PlanEntry
<1> HIDE DEF entry
<1>7. TypeOK'
  <2>1. PlanEntry' = PlanEntry /\ plan \in Seq(PlanEntry)
    BY <1>1 DEF PlanEntry, IInv, TypeOK
  <2>2. plan' \in Seq(PlanEntry)
    BY <1>5, <1>6, <2>1
  <2>3. /\ occurrence' \in Nat /\ nextFire' \in Nat /\ interval' \in Nat
        /\ taken' \in Nat
    BY <1>1, <1>3, <1>4, <1>5
  <2>4. QED
    BY <1>1, <2>1, <2>2, <2>3 DEF IInv, TypeOK
<1>8. SlotsAddUp'
  BY <1>1, <1>4, <1>5 DEF IInv, TypeOK, SlotsAddUp, Uncharged, Walking
<1>9. WalkFits'
  BY <1>1, <1>4, <1>5 DEF IInv, WalkFits, Walking
<1>10. WalkInStep'
  BY <1>1, <1>2, <1>3, <1>4, <1>5 DEF IInv, WalkInStep, Walking
<1>11. CursorMoves'
  <2>1. /\ walk.start <= nextFire
        /\ occurrence - walk.prior <=
             Larger(0, Smaller(nextFire, input.now) - walk.start) + taken
    BY <1>1 DEF IInv, CursorMoves
  <2>2. occurrence + 1 - walk.prior <=
          Larger(0, Smaller(nextFire + NextInterval, input.now) - walk.start)
            + taken'
    <3>1. taken' \in Nat
      BY <1>4, <1>5
    <3>2. \/ nextFire >= input.now /\ taken' = taken + 1
          \/ nextFire < input.now /\ taken' = taken
      BY <1>2, <1>4, <1>5 DEF Scheduled
    <3>3. QED
      BY <1>2, <1>3, <1>4, <2>1, <3>1, <3>2 DEF Larger, Smaller
  <2>3. walk.start <= nextFire + NextInterval
    BY <1>3, <1>4, <2>1
  <2>4. QED
    <3>1. walk.start' = walk.start /\ walk.prior' = walk.prior /\ input.now' = input.now
      BY <1>1
    <3>2. /\ walk.start' <= nextFire'
          /\ occurrence' - walk.prior' <=
               Larger(0, Smaller(nextFire', input.now') - walk.start') + taken'
      BY <1>1, <1>2, <1>3, <1>4, <2>2, <2>3, <3>1 DEF Larger, Smaller
    <3>3. QED
      BY <3>2 DEF CursorMoves, Larger, Smaller
<1>12. SnoozesSpendTheCap'
  <2>1. ASSUME entry.kind = "nag", input.task[entry.job].maxCount # Null
        PROVE  input.task[entry.job].snoozed + entry.index
                 < input.task[entry.job].maxCount
    <3>1. walk = NagWalk(current) /\ occurrence - walk.prior >= taken
      BY <1>1, <1>6, <2>1 DEF IInv, WalkInStep
    <3>2. input.task[entry.job] = current
      BY <1>6 DEF current
    <3>3. walk.maxCount = current.maxCount /\ walk.prior = current.snoozed
      BY <3>1 DEF NagWalk
    <3>4. occurrence < walk.maxCount
      BY <1>1, <2>1, <3>2, <3>3 DEF GoesOn, Allowed
    <3>5. walk.maxCount \in Nat
      BY <1>2, <2>1, <3>2, <3>3 DEF Task, Opt
    <3>6. QED
      BY <1>4, <1>6, <3>1, <3>2, <3>3, <3>4, <3>5
  <2>2. plan \in Seq(PlanEntry)
    BY DEF IInv, TypeOK
  <2>3. \A i \in DOMAIN plan' : \/ i \in DOMAIN plan /\ plan'[i] = plan[i]
                                \/ plan'[i] = entry
    BY <1>5, <2>2
  <2>4. QED
    BY <1>1, <2>1, <2>3 DEF IInv, SnoozesSpendTheCap
<1>13. QED
  BY <1>7, <1>8, <1>9, <1>10, <1>11, <1>12 DEF IInv

LEMMA StepPreAlarm == IInv /\ AllocatePreAlarm => IInv'
<1> SUFFICES ASSUME IInv, AllocatePreAlarm PROVE IInv'
  OBVIOUS
<1> DEFINE at == current.fireAt - current.lead
           entry == Entry(job, "prealarm", 0, at)
<1>1. /\ stage = "prealarm" /\ stage' = "task" /\ turn <= Len(order)
      /\ turn' = turn + 1
      /\ UNCHANGED <<input, order, walkVars>>
  BY DEF AllocatePreAlarm, inputVars, IInv, WalkInStep
<1>2. current \in Task /\ job \in DOMAIN input.task /\ input.now \in Nat
  BY <1>1, InputTypes DEF IInv
<1>3. \/ /\ at >= input.now /\ remaining > 0
         /\ plan' = Append(plan, entry) /\ remaining' = remaining - 1
      \/ UNCHANGED <<plan, remaining>>
  BY DEF AllocatePreAlarm
<1>4. at \in Int
  BY <1>2 DEF Task
<1>5. at >= input.now => entry \in PlanEntry
  BY <1>2, <1>4 DEF Entry, PlanEntry
<1>6. entry.kind = "prealarm"
  BY DEF Entry
<1> HIDE DEF at, entry
<1>7. TypeOK'
  <2>1. PlanEntry' = PlanEntry /\ plan \in Seq(PlanEntry)
    BY <1>1 DEF PlanEntry, IInv, TypeOK
  <2>2. plan' \in Seq(PlanEntry) /\ remaining' \in Int
    BY <1>3, <1>5, <2>1 DEF IInv, TypeOK
  <2>3. QED
    BY <1>1, <2>1, <2>2 DEF IInv, TypeOK, Stage, walkVars, PlanEntry
<1>8. SlotsAddUp' /\ WalkFits'
  <2>1. plan \in Seq(PlanEntry) /\ remaining \in Int /\ remaining >= 0
    BY DEF IInv, TypeOK, WalkFits
  <2>2. ~Walking /\ ~Walking' /\ Uncharged = 0 /\ Uncharged' = 0
    BY <1>1 DEF Walking, Uncharged
  <2>3. Len(plan) + remaining = input.budget
    <3>1. Len(plan) + remaining - Uncharged = input.budget
      BY DEF IInv, SlotsAddUp
    <3>2. QED
      BY <2>1, <2>2, <3>1
  <2>4. remaining' >= 0 /\ Len(plan') + remaining' = Len(plan) + remaining
    <3>1. CASE UNCHANGED <<plan, remaining>>
      BY <2>1, <3>1
    <3>2. CASE /\ remaining > 0 /\ plan' = Append(plan, entry)
               /\ remaining' = remaining - 1
      <4>1. Len(plan') = Len(plan) + 1 /\ Len(plan) \in Nat
        BY <2>1, <3>2
      <4>2. QED
        BY <2>1, <3>2, <4>1
    <3>3. QED
      BY <1>3, <3>1, <3>2
  <2>5. SlotsAddUp'
    <3>1. Len(plan') + remaining' - Uncharged' = input'.budget
      BY <1>1, <2>1, <2>2, <2>3, <2>4, <1>3
    <3>2. QED
      BY <3>1 DEF SlotsAddUp
  <2>6. WalkFits'
    BY <2>2, <2>4 DEF WalkFits
  <2>7. QED
    BY <2>5, <2>6
<1>9. WalkInStep' /\ CursorMoves'
  BY <1>1 DEF WalkInStep, CursorMoves, Walking
<1>10. SnoozesSpendTheCap'
  <2>1. \A i \in DOMAIN plan' : \/ i \in DOMAIN plan /\ plan'[i] = plan[i]
                                \/ plan'[i] = entry
    <3>1. plan \in Seq(PlanEntry)
      BY DEF IInv, TypeOK
    <3>2. QED
      BY <1>3, <3>1
  <2>2. QED
    BY <1>1, <1>6, <2>1 DEF IInv, SnoozesSpendTheCap
<1>11. QED
  BY <1>7, <1>8, <1>9, <1>10 DEF IInv

\* Skipping a task and returning touch neither slots nor the plan.
LEMMA StepRest == IInv /\ (SkipTask \/ Return \/ UNCHANGED vars) => IInv'
<1> SUFFICES ASSUME IInv, SkipTask \/ Return \/ UNCHANGED vars PROVE IInv'
  OBVIOUS
<1>1. CASE SkipTask \/ Return
  <2>1. /\ stage = "task" /\ stage' \in {"task", "done"}
        /\ UNCHANGED <<input, order, walkVars, remaining, plan>>
        /\ turn' \in 1 .. Len(order) + 1
    BY <1>1 DEF SkipTask, Return, inputVars, IInv, TypeOK
  <2>2. TypeOK'
    BY <2>1 DEF IInv, TypeOK, Stage, walkVars, PlanEntry
  <2>3. SlotsAddUp' /\ WalkFits' /\ WalkInStep' /\ CursorMoves'
    BY <2>1 DEF IInv, SlotsAddUp, WalkFits, WalkInStep, CursorMoves, Uncharged,
                Walking
  <2>4. QED
    BY <2>1, <2>2, <2>3, PlanUntouched DEF IInv, inputVars
<1>2. CASE UNCHANGED vars
  <2>1. UNCHANGED <<input, order, turn, stage, walk, limit, nextFire, interval,
                    occurrence, taken, remaining, plan>>
    BY <1>2 DEF vars, inputVars, walkVars
  <2>2. QED
    BY <2>1 DEF IInv, TypeOK, SlotsAddUp, WalkFits, WalkInStep, CursorMoves,
                Uncharged, Walking, SnoozesSpendTheCap, current, job, PlanEntry
<1>3. QED
  BY <1>1, <1>2

-----------------------------------------------------------------------------
\* The strengthening holds in every reachable state.
THEOREM Inductive == Spec => []IInv
<1>1. IInv /\ [Next]_vars => IInv'
  BY StepStartBurst, StepWalk, StepBurstEnds, StepRoundsEnd, StepPreAlarm,
     StepRest DEF Next
<1>2. QED
  BY InitIInv, <1>1, PTL DEF Spec

\* The variables of the allocation keep their types.
THEOREM TypeCorrect == Spec => []TypeOK
<1>1. IInv => TypeOK
  BY DEF IInv
<1>2. QED
  BY <1>1, Inductive, PTL

\* U6 for any tasks, any cap and any budget: the plan never holds more
\* notifications than the budget allows, at any point of the allocation.
THEOREM BudgetNeverExceeded == Spec => []WithinBudget
<1>1. IInv => WithinBudget
  <2> SUFFICES ASSUME IInv PROVE WithinBudget
    OBVIOUS
  <2>1. input.budget \in Nat /\ Len(plan) \in Nat /\ taken \in Nat
    BY InputTypes DEF IInv, TypeOK
  <2>2. remaining - Uncharged >= 0
    BY <2>1 DEF IInv, TypeOK, WalkFits, Uncharged
  <2>3. QED
    BY <2>1, <2>2 DEF IInv, TypeOK, SlotsAddUp, WithinBudget, Uncharged
<1>2. QED
  BY <1>1, Inductive, PTL

\* However often a task was snoozed, its snoozes and the nags planned for it
\* stay within its nagMaxCount.
THEOREM CapIncludesSnoozes == Spec => []SnoozesSpendTheCap
<1>1. IInv => SnoozesSpendTheCap
  BY DEF IInv
<1>2. QED
  BY <1>1, Inductive, PTL

\* A walk never makes more steps than there are ticks between its start and
\* the present, plus one per notification it schedules.
THEOREM WalksAreBounded == Spec => []WalkBounded
<1>1. IInv => WalkBounded
  <2> SUFFICES ASSUME IInv, Walking PROVE WalkBounded
    BY DEF WalkBounded, Walking
  <2>1. /\ input.now \in Nat /\ walk.start \in Nat /\ nextFire \in Nat
        /\ taken \in Nat /\ occurrence \in Nat /\ walk.prior \in Nat
    BY InputTypes DEF IInv, TypeOK, WalkInStep, Walk
  <2>2. QED
    BY <2>1 DEF IInv, CursorMoves, WalkBounded, Larger, Smaller
<1>2. QED
  BY <1>1, Inductive, PTL

-----------------------------------------------------------------------------
(* The loops serve the wishes in order.                                    *)

\* The fire a walk schedules is the next of its burst.
LEMMA WalkTakes ==
  ASSUME NEW w \in Walk, NEW cap \in Nat, NEW now \in Nat, NEW k \in Nat,
         k >= FirstDue(w, now), k - FirstDue(w, now) < cap,
         Allowed(w, w.prior + k, FireTimes(w)[k])
  PROVE  LET before == k - FirstDue(w, now)
         IN /\ before + 1 <= Len(Burst(w, cap, now))
            /\ Burst(w, cap, now)[before + 1] = FireTimes(w)[k]
<1> DEFINE first == FirstDue(w, now)
           at == FireTimes(w)
           burst == Burst(w, cap, now)
           N == Len(burst)
<1>1. first \in Nat /\ w.prior \in Nat
  BY FirstDueDef DEF Walk
<1>2. /\ N \in Nat
      /\ \A i \in 1 .. N : burst[i] = at[first + i - 1]
      /\ N < cap => ~Allowed(w, w.prior + first + N, at[first + N])
  BY BurstDef
<1>3. ASSUME N <= k - first PROVE FALSE
  <2> DEFINE m == first + N
  <2>1. m \in Nat /\ m <= k
    BY <1>1, <1>2, <1>3
  <2> HIDE DEF m
  <2>2. Allowed(w, w.prior + m, at[m])
    BY <2>1, AllowedOnce
  <2>3. w.prior + m = w.prior + first + N /\ m = first + N
    BY <1>1, <1>2 DEF m
  <2> HIDE DEF first, at, burst, N
  <2>4. ~Allowed(w, w.prior + first + N, at[first + N])
    BY <1>1, <1>2, <1>3 DEF first
  <2>5. QED
    BY <2>2, <2>3, <2>4
<1>4. k - first + 1 \in 1 .. N /\ first + (k - first + 1) - 1 = k
  BY <1>1, <1>2, <1>3
<1>5. QED
  BY <1>2, <1>4

\* A walk that stops has scheduled its burst, or as much of it as it may.
LEMMA WalkEnds ==
  ASSUME NEW w \in Walk, NEW cap \in Nat, NEW now \in Nat, NEW k \in Nat,
         NEW slots \in Nat, slots <= cap,
         NEW count \in Nat, count = Larger(0, k - FirstDue(w, now)),
         count <= slots,
         k > 0 => Allowed(w, w.prior + (k - 1), FireTimes(w)[k - 1]),
         count >= slots \/ ~Allowed(w, w.prior + k, FireTimes(w)[k])
  PROVE  count = Smaller(slots, Len(Burst(w, cap, now)))
<1> DEFINE first == FirstDue(w, now)
           at == FireTimes(w)
           burst == Burst(w, cap, now)
           N == Len(burst)
           May(n) == Allowed(w, w.prior + n, at[n])
<1>1. first \in Nat /\ w.prior \in Nat
  BY FirstDueDef DEF Walk
<1>2. N \in Nat /\ N <= cap
  BY BurstDef
<1>3. \A i \in 1 .. N : May(first + i - 1)
  <2>1. \A i \in 1 .. N : Allowed(w, w.prior + first + i - 1, at[first + i - 1])
    BY BurstDef
  <2>2. \A i \in 1 .. N : w.prior + first + i - 1 = w.prior + (first + i - 1)
    BY <1>1, <1>2
  <2> HIDE DEF first, at, N
  <2>3. QED
    BY <2>1, <2>2
<1>4. N < cap => ~May(first + N)
  <2>1. N < cap => ~Allowed(w, w.prior + first + N, at[first + N])
    BY BurstDef
  <2>2. w.prior + first + N = w.prior + (first + N)
    BY <1>1, <1>2
  <2> HIDE DEF first, at, N
  <2>3. QED
    BY <2>1, <2>2
<1>5. ASSUME NEW a \in Nat, NEW b \in Nat, a <= b, May(b) PROVE May(a)
  BY <1>5, AllowedOnce
<1>6. count >= slots \/ ~May(k)
  OBVIOUS
<1>7. k > 0 => May(k - 1)
  OBVIOUS
<1>8. count = Larger(0, k - first)
  OBVIOUS
<1> HIDE DEF first, at, burst, N, May
<1>9. count <= N
  <2> SUFFICES ASSUME N < count PROVE FALSE
    BY <1>2
  <2>1. count = k - first /\ N < cap /\ first + N \in Nat /\ k - 1 \in Nat
        /\ first + N <= k - 1
    BY <1>1, <1>2, <1>8 DEF Larger
  <2>2. May(first + N)
    BY <1>1, <1>5, <1>7, <2>1
  <2>3. QED
    BY <1>4, <2>1, <2>2
<1>10. ASSUME count < slots PROVE count = N
  <2> SUFFICES ASSUME count < N PROVE FALSE
    BY <1>2, <1>9
  <2>1. ~May(k)
    BY <1>6, <1>10
  <2>2. May(first + count)
    <3>1. count + 1 \in 1 .. N /\ first + (count + 1) - 1 = first + count
      BY <1>1, <1>2
    <3>2. QED
      BY <1>3, <3>1
  <2>3. k <= first + count /\ first + count \in Nat
    BY <1>1, <1>8 DEF Larger
  <2>4. QED
    BY <1>5, <2>1, <2>2, <2>3
<1>11. QED
  BY <1>2, <1>9, <1>10 DEF Smaller, N, burst

Wanted == AllWishes(input.task, order, input.cap, input.now)

Nags == Burst(NagWalk(current), input.cap, input.now)

RoundsWanted == IF current.rounds = Null THEN <<>>
                ELSE Burst(RoundsWalk(current), input.cap, input.now)

Early == IF current.lead > 0 /\ current.fireAt - current.lead >= input.now
         THEN 1 ELSE 0

\* The cursor stands on the k-th fire of the walk, past k fires that were all
\* allowed, and those among them that were not past are scheduled.
OnTrack ==
  LET k == occurrence - walk.prior
  IN /\ k \in Nat
     /\ nextFire = FireTimes(walk)[k]
     /\ interval = IntervalOf(walk)[k]
     /\ k > 0 => Allowed(walk, walk.prior + (k - 1), FireTimes(walk)[k - 1])
     /\ taken = Larger(0, k - FirstDue(walk, input.now))

\* How far the list of all wishes is served at each stage; the first i tasks
\* have L[i] of them.
ServedUpTo(L) ==
  LET here == Len(plan)
      Upto(n) == here = Smaller(input.budget, n)
      base == L[turn - 1]
  IN /\ stage = "task" => Upto(base)
     /\ stage = "nag" => here = base + taken
     /\ stage = "round" => here = base + Len(Nags) + taken
     /\ stage = "prealarm" => Upto(base + Len(Nags) + Len(RoundsWanted))
     /\ stage = "done" => Upto(Len(Wanted))

Begins(s, t) == Len(s) <= Len(t) /\ \A p \in 1 .. Len(s) : s[p] = t[p]

WalkInOrder ==
  Walking => /\ OnTrack
             /\ limit = Smaller(input.cap, remaining)
             /\ stage = "round" => current.rounds # Null /\ walk = RoundsWalk(current)

Lengths(L) == /\ L \in [0 .. Len(order) -> Nat]
              /\ Places(L, input.task, order, input.cap, input.now)

InOrder(L) == ServedUpTo(L) /\ Begins(plan, Wanted) /\ WalkInOrder

Served == \E L : Lengths(L) /\ InOrder(L)

\* What the number of wishes of each task says at the task being served.
LEMMA AtTurn ==
  ASSUME TypeOK, NEW L, Lengths(L), turn <= Len(order)
  PROVE  /\ L[turn - 1] \in Nat /\ L[turn] \in Nat
         /\ Len(Nags) \in Nat /\ Len(RoundsWanted) \in Nat
         /\ L[turn] = L[turn - 1] + Len(Nags) + Len(RoundsWanted) + Early
         /\ L[turn] <= Len(Wanted)
         /\ \A q \in 1 .. Len(Nags) :
              Wanted[L[turn - 1] + q] = Entry(job, "nag", q - 1, Nags[q])
         /\ \A q \in 1 .. Len(RoundsWanted) :
              Wanted[L[turn - 1] + Len(Nags) + q]
                = Entry(job, "round", q - 1, RoundsWanted[q])
         /\ Early = 1 =>
              Wanted[L[turn - 1] + Len(Nags) + Len(RoundsWanted) + 1]
                = Entry(job, "prealarm", 0, current.fireAt - current.lead)
<1> DEFINE w == Wishes(job, current, input.cap, input.now)
           base == L[turn - 1]
<1>1. /\ job \in DOMAIN input.task /\ current \in Task
      /\ input.cap \in Nat /\ input.now \in Nat
  BY InputTypes
<1>2. turn \in 1 .. Len(order) /\ turn - 1 \in 0 .. Len(order) /\ turn \in 0 .. Len(order)
  BY DEF TypeOK
<1>3. base \in Nat /\ L[turn] \in Nat
  BY <1>2 DEF Lengths
<1>4. /\ L[turn] = base + Len(w) /\ L[turn] <= Len(Wanted)
      /\ \A q \in 1 .. Len(w) : Wanted[base + q] = w[q]
  BY <1>2 DEF Lengths, Places, Wanted, current, job
<1>5. /\ Len(Nags) \in Nat /\ Len(RoundsWanted) \in Nat
      /\ Len(w) = Len(Nags) + Len(RoundsWanted) + Early
      /\ \A q \in 1 .. Len(Nags) : w[q] = Entry(job, "nag", q - 1, Nags[q])
      /\ \A q \in 1 .. Len(RoundsWanted) :
           w[Len(Nags) + q] = Entry(job, "round", q - 1, RoundsWanted[q])
      /\ Early = 1 => w[Len(Nags) + Len(RoundsWanted) + 1] =
                        Entry(job, "prealarm", 0, current.fireAt - current.lead)
  BY <1>1, WishesDef DEF Nags, RoundsWanted, Early
<1>6. Early \in {0, 1}
  BY DEF Early
<1> HIDE DEF w, base
<1>7. L[turn] = base + Len(Nags) + Len(RoundsWanted) + Early
  BY <1>3, <1>4, <1>5, <1>6
<1>8. \A q \in 1 .. Len(Nags) : Wanted[base + q] = Entry(job, "nag", q - 1, Nags[q])
  <2>1. \A q \in 1 .. Len(Nags) : q \in 1 .. Len(w)
    BY <1>5, <1>6
  <2>2. QED
    BY <1>4, <1>5, <2>1
<1>9. \A q \in 1 .. Len(RoundsWanted) :
        Wanted[base + Len(Nags) + q] = Entry(job, "round", q - 1, RoundsWanted[q])
  <2>1. \A q \in 1 .. Len(RoundsWanted) :
          /\ Len(Nags) + q \in 1 .. Len(w)
          /\ base + (Len(Nags) + q) = base + Len(Nags) + q
    BY <1>3, <1>5, <1>6
  <2>2. QED
    BY <1>4, <1>5, <2>1
<1>10. Early = 1 => Wanted[base + Len(Nags) + Len(RoundsWanted) + 1] =
                      Entry(job, "prealarm", 0, current.fireAt - current.lead)
  <2>1. Early = 1 =>
          /\ Len(Nags) + Len(RoundsWanted) + 1 \in 1 .. Len(w)
          /\ base + (Len(Nags) + Len(RoundsWanted) + 1)
               = base + Len(Nags) + Len(RoundsWanted) + 1
    BY <1>3, <1>5, <1>6
  <2>2. QED
    BY <1>4, <1>5, <2>1
<1>11. QED
  BY <1>3, <1>4, <1>5, <1>7, <1>8, <1>9, <1>10 DEF base

\* The slots not yet used are those the plan does not fill.
LEMMA SlotsLeft ==
  ASSUME IInv
  PROVE  /\ Len(plan) \in Nat /\ taken \in Nat /\ remaining \in Nat
         /\ input.budget \in Nat /\ input.cap \in Nat /\ input.now \in Nat
         /\ Walking => Len(plan) + remaining - taken = input.budget
                       /\ taken <= limit /\ limit <= remaining /\ limit \in Nat
         /\ ~Walking => Len(plan) + remaining = input.budget
<1>1. input.budget \in Nat /\ input.cap \in Nat /\ input.now \in Nat
  BY InputTypes DEF IInv
<1>2. Len(plan) \in Nat /\ taken \in Nat /\ remaining \in Nat /\ limit \in Nat
  BY DEF IInv, TypeOK, WalkFits
<1>3. QED
  BY <1>1, <1>2 DEF IInv, SlotsAddUp, Uncharged, WalkFits

\* A walk that begins stands on its first fire.
LEMMA TrackBegins ==
  ASSUME NEW w \in Walk, NEW slots, StartWalk(w, slots), input' = input,
         input.now \in Nat
  PROVE  OnTrack'
<1>1. /\ walk' = w /\ nextFire' = w.start /\ interval' = w.interval
      /\ occurrence' = w.prior /\ taken' = 0 /\ w.prior \in Nat
  BY DEF StartWalk, Walk
<1>2. w.start = FireTimes(w)[0] /\ w.interval = IntervalOf(w)[0]
  BY FireTimesDef, IntervalDef
<1>3. FirstDue(w, input.now) \in Nat
  BY FirstDueDef
<1>4. w.prior - w.prior = 0 /\ 0 = Larger(0, 0 - FirstDue(w, input.now))
  BY <1>1, <1>3 DEF Larger
<1>5. QED
  BY <1>1, <1>2, <1>4 DEF OnTrack

\* A walk that stops has used what it may of its burst.
LEMMA TrackEnds ==
  ASSUME IInv, Walking, WalkInOrder, ~GoesOn
  PROVE  taken = Smaller(limit, Len(Burst(walk, input.cap, input.now)))
<1> DEFINE k == occurrence - walk.prior
<1>1. /\ walk \in Walk /\ k \in Nat /\ nextFire = FireTimes(walk)[k]
      /\ k > 0 => Allowed(walk, walk.prior + (k - 1), FireTimes(walk)[k - 1])
      /\ taken = Larger(0, k - FirstDue(walk, input.now))
  BY DEF IInv, WalkInStep, WalkInOrder, OnTrack
<1>2. /\ limit \in Nat /\ taken \in Nat /\ taken <= limit /\ limit <= input.cap
      /\ input.cap \in Nat /\ input.now \in Nat
  BY SlotsLeft DEF WalkInOrder, Smaller
<1>3. occurrence = walk.prior + k
  BY <1>1 DEF IInv, TypeOK, Walk
<1> HIDE DEF k
<1>4. taken >= limit \/ ~Allowed(walk, walk.prior + k, FireTimes(walk)[k])
  BY <1>1, <1>2, <1>3 DEF GoesOn
<1>5. QED
  BY <1>1, <1>2, <1>4, WalkEnds

LEMMA InitServed == Init => Served
<1> SUFFICES ASSUME Init PROVE Served
  OBVIOUS
<1>1. IInv
  BY InitIInv
<1>2. /\ input \in Inputs /\ IsFiniteSet(DOMAIN input.task)
      /\ input.task \in [DOMAIN input.task -> Task]
      /\ input.cap \in Nat /\ input.budget \in Nat /\ input.now \in Nat
      /\ order \in Seq(DOMAIN input.task)
  BY <1>1, InputAssumption DEF IInv, TypeOK
<1>3. PICK L \in [0 .. Len(order) -> Nat] :
        Places(L, input.task, order, input.cap, input.now)
  BY <1>2, PlacesExist
<1>4. Lengths(L)
  BY <1>3 DEF Lengths
<1>5. /\ turn = 1 /\ stage = "task" /\ plan = <<>> /\ L[0] = 0
      /\ L[Len(order)] = Len(Wanted) /\ L[Len(order)] \in Nat
  BY <1>2, <1>3 DEF Init, Places, Wanted
<1>6. InOrder(L)
  BY <1>2, <1>5 DEF InOrder, ServedUpTo, Begins, WalkInOrder, Walking, Smaller
<1>7. QED
  BY <1>4, <1>6 DEF Served

\* While the arguments stay, so does what is wanted.
LEMMA SameWanted ==
  ASSUME UNCHANGED inputVars, NEW L, Lengths(L)
  PROVE  /\ Lengths(L)' /\ Wanted' = Wanted
         /\ InOrder(L)' => Served'
  BY DEF inputVars, Lengths, Wanted, Served

LEMMA ServedStartBurst ==
  ASSUME IInv, NEW L, Lengths(L), InOrder(L), StartBurst
  PROVE  InOrder(L)'
<1>1. /\ stage = "task" /\ stage' = "nag" /\ turn <= Len(order) /\ remaining > 0
      /\ UNCHANGED <<input, order, turn, remaining, plan>>
  BY DEF StartBurst, inputVars
<1>2. StartWalk(NagWalk(current), Smaller(input.cap, remaining))
  BY DEF StartBurst
<1>3. taken' = 0 /\ limit' = Smaller(input.cap, remaining)
  BY <1>2 DEF StartWalk
<1>4. NagWalk(current) \in Walk /\ input.now \in Nat
  BY <1>1, InputTypes, WalkTypes DEF IInv
<1>5. OnTrack'
  BY <1>1, <1>2, <1>4, TrackBegins
<1>6. Len(plan) = L[turn - 1]
  <2>1. Len(plan) = Smaller(input.budget, L[turn - 1])
    BY <1>1 DEF InOrder, ServedUpTo
  <2>2. L[turn - 1] \in Nat
    BY <1>1, AtTurn DEF IInv
  <2>3. Len(plan) + remaining = input.budget
    BY <1>1, SlotsLeft DEF Walking
  <2>4. QED
    BY <1>1, <2>1, <2>2, <2>3, SlotsLeft DEF Smaller
<1>7. ServedUpTo(L)'
  <2>1. Len(plan) = L[turn - 1] + 0
    BY <1>6, SlotsLeft
  <2>2. Len(plan') = L[turn' - 1] + taken'
    BY <1>1, <1>3, <2>1
  <2>3. QED
    BY <1>1, <2>2 DEF ServedUpTo
<1>8. Begins(plan, Wanted)'
  BY <1>1 DEF InOrder, Begins, Wanted
<1>9. WalkInOrder'
  BY <1>1, <1>3, <1>5 DEF WalkInOrder
<1>10. QED
  BY <1>7, <1>8, <1>9 DEF InOrder

\* With no slot left the wishes of a task are past the end of the plan.
LEMMA ServedSkipTask ==
  ASSUME IInv, NEW L, Lengths(L), InOrder(L), SkipTask
  PROVE  InOrder(L)'
<1>1. /\ stage = "task" /\ stage' = "task" /\ turn <= Len(order) /\ remaining <= 0
      /\ turn' = turn + 1
      /\ UNCHANGED <<input, order, remaining, plan>>
  BY DEF SkipTask, inputVars
<1>2. Len(plan) = Smaller(input.budget, L[turn - 1])
  BY <1>1 DEF InOrder, ServedUpTo
<1>3. /\ L[turn - 1] \in Nat /\ L[turn] \in Nat /\ L[turn - 1] <= L[turn]
  <2>1. Early \in {0, 1}
    BY DEF Early
  <2>2. /\ L[turn - 1] \in Nat /\ L[turn] \in Nat
        /\ Len(Nags) \in Nat /\ Len(RoundsWanted) \in Nat
        /\ L[turn] = L[turn - 1] + Len(Nags) + Len(RoundsWanted) + Early
    BY <1>1, AtTurn DEF IInv
  <2>3. QED
    BY <2>1, <2>2
<1>4. Len(plan) + remaining = input.budget
  BY <1>1, SlotsLeft DEF Walking
<1>5. Len(plan) = Smaller(input.budget, L[turn])
  BY <1>1, <1>2, <1>3, <1>4, SlotsLeft DEF Smaller
<1>6. turn' - 1 = turn
  BY <1>1 DEF IInv, TypeOK
<1>7. ServedUpTo(L)'
  BY <1>1, <1>5, <1>6 DEF ServedUpTo
<1>8. Begins(plan, Wanted)' /\ WalkInOrder'
  BY <1>1 DEF InOrder, Begins, Wanted, WalkInOrder, Walking
<1>9. QED
  BY <1>7, <1>8 DEF InOrder

LEMMA ServedReturn ==
  ASSUME IInv, NEW L, Lengths(L), InOrder(L), Return
  PROVE  InOrder(L)'
<1>1. /\ stage = "task" /\ stage' = "done" /\ turn > Len(order)
      /\ UNCHANGED <<input, order, turn, remaining, plan>>
  BY DEF Return, inputVars
<1>2. turn - 1 = Len(order)
  BY <1>1 DEF IInv, TypeOK
<1>3. Len(plan) = Smaller(input.budget, Len(Wanted))
  BY <1>1, <1>2 DEF InOrder, ServedUpTo, Lengths, Places, Wanted
<1>4. ServedUpTo(L)'
  BY <1>1, <1>3 DEF ServedUpTo, Wanted
<1>5. Begins(plan, Wanted)' /\ WalkInOrder'
  BY <1>1 DEF InOrder, Begins, Wanted, WalkInOrder, Walking
<1>6. QED
  BY <1>4, <1>5 DEF InOrder

LEMMA ServedBurstEnds ==
  ASSUME IInv, NEW L, Lengths(L), InOrder(L), BurstEnds
  PROVE  InOrder(L)'
<1> DEFINE N == Len(Nags)
           R == Len(RoundsWanted)
           base == L[turn - 1]
           here == Len(plan)
           left == remaining - taken
<1>1. /\ stage = "nag" /\ turn <= Len(order) /\ Walking
      /\ UNCHANGED <<input, order, turn, plan>>
      /\ remaining' = left
  BY DEF BurstEnds, inputVars, IInv, WalkInStep, Walking
<1>2. /\ base \in Nat /\ N \in Nat /\ R \in Nat /\ base + N + R <= Len(Wanted)
  <2>1. Early \in {0, 1}
    BY DEF Early
  <2>2. /\ base \in Nat /\ N \in Nat /\ R \in Nat /\ L[turn] <= Len(Wanted)
        /\ L[turn] = base + N + R + Early
    BY <1>1, AtTurn DEF IInv
  <2>3. Len(Wanted) \in Nat
    BY <1>1 DEF Lengths, Places, Wanted, IInv, TypeOK
  <2> HIDE DEF base, N, R
  <2>4. QED
    BY <2>1, <2>2, <2>3
<1>3. walk = NagWalk(current) /\ current \in Task /\ RoundsWanted' = RoundsWanted /\ Nags' = Nags
  BY <1>1, InputTypes DEF IInv, WalkInStep, RoundsWanted, Nags, current, job
<1>4. taken = Smaller(limit, N)
  BY <1>1, <1>3, TrackEnds DEF InOrder, Nags, BurstEnds
<1>5. here = base + taken /\ limit = Smaller(input.cap, remaining)
  BY <1>1 DEF InOrder, ServedUpTo, WalkInOrder
<1>6. /\ here \in Nat /\ taken \in Nat /\ remaining \in Nat
      /\ input.budget \in Nat /\ input.cap \in Nat /\ input.now \in Nat
      /\ here + remaining - taken = input.budget
  BY <1>1, SlotsLeft
<1>7. N <= input.cap /\ R <= input.cap /\ (current.rounds = Null => R = 0)
  <2>1. N <= input.cap
    BY <1>3, <1>6, WalkTypes, BurstDef DEF Nags
  <2>2. CASE current.rounds = Null
    BY <1>6, <2>1, <2>2 DEF RoundsWanted
  <2>3. CASE current.rounds # Null
    BY <1>3, <1>6, <2>1, <2>3, WalkTypes, BurstDef DEF RoundsWanted
  <2>4. QED
    BY <2>2, <2>3
<1>8. Begins(plan, Wanted)'
  BY <1>1 DEF InOrder, Begins, Wanted
<1>9. CASE current.rounds # Null /\ RoundsSlots(left) > 0
  <2>1. stage' = "round" /\ StartWalk(RoundsWalk(current), RoundsSlots(left))
    BY <1>9 DEF BurstEnds
  <2>2. /\ walk' = RoundsWalk(current) /\ taken' = 0
        /\ limit' = Smaller(input.cap, left)
    BY <2>1 DEF StartWalk, RoundsSlots
  <2>3. OnTrack'
    BY <1>1, <1>3, <1>6, <1>9, <2>1, WalkTypes, TrackBegins
  <2>4. current' = current
    BY <1>1 DEF current, job
  <2>5. WalkInOrder'
    BY <1>1, <1>9, <2>1, <2>2, <2>3, <2>4 DEF WalkInOrder
  <2> HIDE DEF base, N, here
  <2>6. here = base + N + 0
    BY <1>2, <1>4, <1>5, <1>6, <1>7, <1>9 DEF RoundsSlots, Smaller
  <2>7. Len(plan') = L[turn' - 1] + Len(Nags') + taken'
    BY <1>1, <1>3, <2>2, <2>6 DEF base, N, here
  <2>8. ServedUpTo(L)'
    BY <2>1, <2>7 DEF ServedUpTo
  <2>9. QED
    BY <1>8, <2>5, <2>8 DEF InOrder
<1>10. CASE ~(current.rounds # Null /\ RoundsSlots(left) > 0)
  <2>1. stage' = "prealarm"
    BY <1>10 DEF BurstEnds
  <2>2. WalkInOrder'
    BY <2>1 DEF WalkInOrder, Walking
  <2> HIDE DEF base, N, R, here
  <2>3. here = Smaller(input.budget, base + N + R)
    BY <1>2, <1>4, <1>5, <1>6, <1>7, <1>10 DEF RoundsSlots, Smaller
  <2>4. Len(plan') = Smaller(input'.budget, L[turn' - 1] + Len(Nags') + Len(RoundsWanted'))
    BY <1>1, <1>3, <2>3 DEF base, N, R, here
  <2>5. ServedUpTo(L)'
    BY <2>1, <2>4 DEF ServedUpTo
  <2>6. QED
    BY <1>8, <2>2, <2>5 DEF InOrder
<1>11. QED
  BY <1>9, <1>10

LEMMA ServedRoundsEnd ==
  ASSUME IInv, NEW L, Lengths(L), InOrder(L), RoundsEnd
  PROVE  InOrder(L)'
<1> DEFINE N == Len(Nags)
           R == Len(RoundsWanted)
           base == L[turn - 1]
           here == Len(plan)
<1>1. /\ stage = "round" /\ stage' = "prealarm" /\ turn <= Len(order) /\ Walking
      /\ UNCHANGED <<input, order, turn, plan>>
  BY DEF RoundsEnd, inputVars, IInv, WalkInStep, Walking
<1>2. base \in Nat /\ N \in Nat /\ R \in Nat
  BY <1>1, AtTurn DEF IInv
<1>3. /\ walk = RoundsWalk(current) /\ current.rounds # Null
      /\ RoundsWanted = Burst(walk, input.cap, input.now)
      /\ RoundsWanted' = RoundsWanted /\ Nags' = Nags
  BY <1>1 DEF InOrder, WalkInOrder, RoundsWanted, Nags, current, job
<1>4. taken = Smaller(limit, R)
  BY <1>1, <1>3, TrackEnds DEF InOrder, RoundsEnd
<1>5. here = base + N + taken /\ limit = Smaller(input.cap, remaining)
  BY <1>1 DEF InOrder, ServedUpTo, WalkInOrder
<1>6. /\ here \in Nat /\ taken \in Nat /\ remaining \in Nat
      /\ input.budget \in Nat /\ input.cap \in Nat /\ input.now \in Nat
      /\ here + remaining - taken = input.budget
  BY <1>1, SlotsLeft
<1>7. R <= input.cap
  BY <1>1, <1>3, <1>6, BurstDef DEF IInv, WalkInStep
<1>8. Begins(plan, Wanted)' /\ WalkInOrder'
  BY <1>1 DEF InOrder, Begins, Wanted, WalkInOrder, Walking
<1> HIDE DEF base, N, R, here
<1>9. here = Smaller(input.budget, base + N + R)
  BY <1>2, <1>4, <1>5, <1>6, <1>7 DEF Smaller
<1>10. Len(plan') = Smaller(input'.budget, L[turn' - 1] + Len(Nags') + Len(RoundsWanted'))
  BY <1>1, <1>3, <1>9 DEF base, N, R, here
<1>11. ServedUpTo(L)'
  BY <1>1, <1>10 DEF ServedUpTo
<1>12. QED
  BY <1>8, <1>11 DEF InOrder

\* One more notification that is the next one wanted.
LEMMA BeginsLonger ==
  ASSUME NEW S, NEW s \in Seq(S), NEW e \in S, NEW t, Begins(s, t),
         Len(s) + 1 <= Len(t), t[Len(s) + 1] = e
  PROVE  Begins(Append(s, e), t)
<1>1. /\ Len(Append(s, e)) = Len(s) + 1 /\ Len(s) \in Nat
      /\ \A p \in 1 .. Len(s) + 1 : Append(s, e)[p] = IF p <= Len(s) THEN s[p] ELSE e
  OBVIOUS
<1>2. \A p \in 1 .. Len(s) + 1 : p <= Len(s) \/ p = Len(s) + 1
  BY <1>1
<1>3. QED
  BY <1>1, <1>2 DEF Begins

\* The cursor moves on to the next fire of the walk.
LEMMA TrackGoesOn ==
  ASSUME IInv, OnTrack, WalkStep
  PROVE  /\ OnTrack'
         /\ Scheduled => /\ occurrence - walk.prior >= FirstDue(walk, input.now)
                         /\ taken = occurrence - walk.prior - FirstDue(walk, input.now)
<1> DEFINE k == occurrence - walk.prior
           at == FireTimes(walk)
           gap == IntervalOf(walk)
           first == FirstDue(walk, input.now)
<1>1. /\ GoesOn /\ Walking
      /\ occurrence' = occurrence + 1 /\ nextFire' = nextFire + NextInterval
      /\ interval' = NextInterval
      /\ walk' = walk /\ input' = input
  BY DEF WalkStep, inputVars, Walking
<1>2. /\ walk \in Walk /\ walk.prior \in Nat /\ occurrence \in Nat
      /\ input.now \in Nat
  BY <1>1, InputTypes DEF IInv, TypeOK, WalkInStep, Walk
<1>3. /\ k \in Nat /\ nextFire = at[k] /\ interval = gap[k]
      /\ taken = Larger(0, k - first) /\ occurrence = walk.prior + k
  BY <1>2 DEF OnTrack
<1>4. first \in Nat /\ (nextFire >= input.now <=> k >= first)
  BY <1>2, <1>3, FirstDueDef
<1>5. gap[k + 1] = NextInterval
  BY <1>2, <1>3, IntervalDef DEF NextInterval
<1>6. at[k + 1] = nextFire'
  BY <1>1, <1>2, <1>3, <1>5, FireTimesDef
<1>7. Allowed(walk, walk.prior + k, at[k])
  BY <1>1, <1>3 DEF GoesOn
<1>8. \/ Scheduled /\ taken' = taken + 1
      \/ ~Scheduled /\ taken' = taken
  BY DEF WalkStep
<1>9. occurrence' - walk.prior = k + 1
  BY <1>1, <1>2
<1> HIDE DEF k, at, gap, first
<1>10. taken' = Larger(0, k + 1 - first)
  BY <1>3, <1>4, <1>8 DEF Scheduled, Larger
<1>11. Scheduled => k >= first /\ taken = k - first
  BY <1>3, <1>4 DEF Scheduled, Larger
<1>12. (k + 1) - 1 = k /\ k + 1 \in Nat
  BY <1>3
<1>13. OnTrack'
  <2> DEFINE j == occurrence' - walk'.prior
  <2>1. j = k + 1
    BY <1>1, <1>9
  <2> HIDE DEF j
  <2>2. /\ j \in Nat /\ nextFire' = FireTimes(walk')[j]
        /\ interval' = IntervalOf(walk')[j]
        /\ taken' = Larger(0, j - FirstDue(walk', input'.now))
    <3>1. j \in Nat
      BY <1>12, <2>1
    <3>2. nextFire' = FireTimes(walk')[j]
      BY <1>1, <1>6, <2>1 DEF at
    <3>3. interval' = IntervalOf(walk')[j]
      BY <1>1, <1>5, <2>1 DEF gap
    <3>4. taken' = Larger(0, j - first)
      BY <1>3, <1>4, <1>10, <2>1 DEF Larger
    <3>5. FirstDue(walk', input'.now) = first
      BY <1>1 DEF first
    <3>6. QED
      BY <3>1, <3>2, <3>3, <3>4, <3>5
  <2>3. Allowed(walk', walk'.prior + (j - 1), FireTimes(walk')[j - 1])
    BY <1>1, <1>7, <1>12, <2>1 DEF at
  <2>4. QED
    BY <2>2, <2>3 DEF OnTrack, j
<1>14. QED
  BY <1>11, <1>13 DEF k, first

LEMMA ServedWalkStep ==
  ASSUME IInv, NEW L, Lengths(L), InOrder(L), WalkStep
  PROVE  InOrder(L)'
<1> DEFINE base == L[turn - 1]
           here == Len(plan)
           entry == Entry(job, stage, taken, nextFire)
<1>1. /\ stage \in {"nag", "round"} /\ turn <= Len(order) /\ Walking /\ GoesOn
      /\ UNCHANGED <<input, order, turn, stage, walk, limit, remaining>>
  BY DEF WalkStep, inputVars, IInv, WalkInStep, Walking
<1>2. /\ OnTrack /\ limit = Smaller(input.cap, remaining)
      /\ stage = "round" => current.rounds # Null /\ walk = RoundsWalk(current)
      /\ stage = "nag" => walk = NagWalk(current)
      /\ walk \in Walk
  BY <1>1 DEF InOrder, WalkInOrder, IInv, WalkInStep
<1>3. /\ here \in Nat /\ taken \in Nat /\ taken < limit /\ limit <= input.cap
      /\ input.cap \in Nat /\ input.now \in Nat
  BY <1>1, <1>2, SlotsLeft DEF GoesOn, Smaller
<1>4. /\ base \in Nat /\ Len(Nags) \in Nat /\ Len(RoundsWanted) \in Nat
      /\ base + Len(Nags) + Len(RoundsWanted) <= Len(Wanted)
      /\ \A q \in 1 .. Len(Nags) : Wanted[base + q] = Entry(job, "nag", q - 1, Nags[q])
      /\ \A q \in 1 .. Len(RoundsWanted) :
           Wanted[base + Len(Nags) + q] = Entry(job, "round", q - 1, RoundsWanted[q])
  <2>1. Early \in {0, 1}
    BY DEF Early
  <2>2. /\ base \in Nat /\ Len(Nags) \in Nat /\ Len(RoundsWanted) \in Nat
        /\ L[turn] <= Len(Wanted)
        /\ L[turn] = base + Len(Nags) + Len(RoundsWanted) + Early
    BY <1>1, AtTurn DEF IInv
  <2>3. Len(Wanted) \in Nat
    BY <1>1 DEF Lengths, Places, Wanted, IInv, TypeOK
  <2> HIDE DEF base
  <2>4. base + Len(Nags) + Len(RoundsWanted) <= Len(Wanted)
    BY <2>1, <2>2, <2>3
  <2>5. QED
    BY <1>1, <2>2, <2>4, AtTurn DEF IInv, base
<1>5. /\ Wanted' = Wanted /\ Nags' = Nags /\ current' = current
  BY <1>1 DEF Wanted, Nags, current, job
<1>6. WalkInOrder'
  BY <1>1, <1>2, <1>5, TrackGoesOn DEF WalkInOrder, WalkStep
<1>7. plan \in Seq(PlanEntry)
  BY DEF IInv, TypeOK
<1>8. CASE ~Scheduled
  <2>1. plan' = plan /\ taken' = taken
    BY <1>8 DEF WalkStep
  <2>2. ServedUpTo(L)' /\ Begins(plan, Wanted)'
    BY <1>1, <1>5, <2>1 DEF InOrder, ServedUpTo, Begins
  <2>3. QED
    BY <1>6, <2>2 DEF InOrder
<1>9. CASE Scheduled
  <2> DEFINE k == occurrence - walk.prior
             first == FirstDue(walk, input.now)
             burst == Burst(walk, input.cap, input.now)
  <2>1. plan' = Append(plan, entry) /\ taken' = taken + 1
    BY <1>9 DEF WalkStep
  <2>2. /\ k \in Nat /\ nextFire = FireTimes(walk)[k] /\ k >= first
        /\ taken = k - first /\ occurrence = walk.prior + k
    BY <1>2, <1>9, TrackGoesOn DEF OnTrack, IInv, TypeOK, Walk
  <2>3. taken + 1 <= Len(burst) /\ burst[taken + 1] = nextFire
    <3> HIDE DEF k
    <3>1. Allowed(walk, walk.prior + k, FireTimes(walk)[k])
      BY <1>1, <2>2 DEF GoesOn
    <3>2. k - first < input.cap
      BY <1>3, <2>2 DEF Smaller, IInv, TypeOK
    <3>3. QED
      BY <1>2, <1>3, <2>2, <3>1, <3>2, WalkTakes
  <2>4. Len(plan') = here + 1
    BY <1>7, <2>1
  <2>5. /\ here + 1 <= Len(Wanted) /\ Wanted[here + 1] = entry
        /\ ServedUpTo(L)'
    <3>1. CASE stage = "nag"
      <4>1. burst = Nags /\ here = base + taken
        BY <1>2, <3>1 DEF Nags, InOrder, ServedUpTo
      <4>2. /\ taken + 1 \in 1 .. Len(Nags) /\ taken + 1 - 1 = taken
            /\ base + (taken + 1) = here + 1 /\ here + 1 <= Len(Wanted)
        <5>1. taken + 1 <= Len(Nags)
          BY <2>3, <4>1
        <5>2. Len(Wanted) \in Nat
          BY <1>1 DEF Lengths, Places, Wanted, IInv, TypeOK
        <5> HIDE DEF base, here
        <5>3. QED
          BY <1>3, <1>4, <4>1, <5>1, <5>2
      <4>3. Wanted[here + 1] = Entry(job, "nag", taken, Nags[taken + 1])
        <5> DEFINE q == taken + 1
        <5> HIDE DEF base, here
        <5>1. q \in 1 .. Len(Nags) /\ q - 1 = taken /\ base + q = here + 1
          BY <1>3, <4>2
        <5> HIDE DEF q
        <5>2. Wanted[base + q] = Entry(job, "nag", q - 1, Nags[q])
          BY <1>4, <5>1
        <5>3. QED
          BY <5>1, <5>2 DEF q
      <4>4. Wanted[here + 1] = entry
        BY <2>3, <3>1, <4>1, <4>3
      <4>5. Len(plan') = L[turn' - 1] + taken'
        <5>1. L[turn' - 1] = base
          BY <1>1
        <5> HIDE DEF base, here
        <5>2. QED
          BY <1>3, <1>4, <2>1, <2>4, <4>1, <5>1
      <4>6. ServedUpTo(L)'
        BY <1>1, <3>1, <4>5 DEF ServedUpTo
      <4>7. QED
        BY <4>2, <4>4, <4>6
    <3>2. CASE stage = "round"
      <4>1. burst = RoundsWanted /\ here = base + Len(Nags) + taken
        BY <1>2, <3>2 DEF RoundsWanted, InOrder, ServedUpTo
      <4>2. /\ taken + 1 \in 1 .. Len(RoundsWanted) /\ taken + 1 - 1 = taken
            /\ base + Len(Nags) + (taken + 1) = here + 1 /\ here + 1 <= Len(Wanted)
        <5>1. taken + 1 <= Len(RoundsWanted)
          BY <2>3, <4>1
        <5>2. Len(Wanted) \in Nat
          BY <1>1 DEF Lengths, Places, Wanted, IInv, TypeOK
        <5> HIDE DEF base, here
        <5>3. QED
          BY <1>3, <1>4, <4>1, <5>1, <5>2
      <4>3. Wanted[here + 1] = Entry(job, "round", taken, RoundsWanted[taken + 1])
        <5> DEFINE q == taken + 1
        <5> HIDE DEF base, here
        <5>1. q \in 1 .. Len(RoundsWanted) /\ q - 1 = taken /\ base + Len(Nags) + q = here + 1
          BY <1>3, <4>2
        <5> HIDE DEF q
        <5>2. Wanted[base + Len(Nags) + q] = Entry(job, "round", q - 1, RoundsWanted[q])
          BY <1>4, <5>1
        <5>3. QED
          BY <5>1, <5>2 DEF q
      <4>4. Wanted[here + 1] = entry
        BY <2>3, <3>2, <4>1, <4>3
      <4>5. Len(plan') = L[turn' - 1] + Len(Nags') + taken'
        <5>1. L[turn' - 1] = base /\ Nags' = Nags
          BY <1>1, <1>5
        <5> HIDE DEF base, here
        <5>2. QED
          BY <1>3, <1>4, <2>1, <2>4, <4>1, <5>1
      <4>6. ServedUpTo(L)'
        BY <1>1, <3>2, <4>5 DEF ServedUpTo
      <4>7. QED
        BY <4>2, <4>4, <4>6
    <3>3. QED
      BY <1>1, <3>1, <3>2
  <2>6. entry \in PlanEntry
    <3>1. job \in DOMAIN input.task
      BY <1>1, InputTypes DEF IInv
    <3>2. QED
      BY <1>1, <1>3, <3>1 DEF Entry, PlanEntry, IInv, TypeOK
  <2> HIDE DEF entry, here
  <2>7. Begins(plan', Wanted)
    BY <1>7, <2>1, <2>5, <2>6, BeginsLonger DEF InOrder, here
  <2>8. QED
    BY <1>5, <1>6, <2>5, <2>7 DEF InOrder
<1>10. QED
  BY <1>8, <1>9

LEMMA ServedPreAlarm ==
  ASSUME IInv, NEW L, Lengths(L), InOrder(L), AllocatePreAlarm
  PROVE  InOrder(L)'
<1> DEFINE at == current.fireAt - current.lead
           entry == Entry(job, "prealarm", 0, at)
           here == Len(plan)
           sofar == L[turn - 1] + Len(Nags) + Len(RoundsWanted)
<1>1. /\ stage = "prealarm" /\ stage' = "task" /\ turn <= Len(order)
      /\ turn' = turn + 1 /\ turn' - 1 = turn
      /\ UNCHANGED <<input, order>> /\ ~Walking
  BY DEF AllocatePreAlarm, inputVars, IInv, WalkInStep, Walking, TypeOK
<1>2. /\ here = Smaller(input.budget, sofar) /\ here \in Nat
      /\ input.budget \in Nat /\ here + remaining = input.budget
      /\ remaining \in Nat /\ input.now \in Nat
  BY <1>1, SlotsLeft DEF InOrder, ServedUpTo
<1>3. /\ sofar \in Nat /\ L[turn] \in Nat /\ L[turn] <= Len(Wanted)
      /\ L[turn] = sofar + Early
      /\ Early = 1 => Wanted[sofar + 1] = entry
  BY <1>1, AtTurn DEF IInv
<1>4. Early \in {0, 1} /\ (Early = 1 <=> current.lead > 0 /\ at >= input.now)
  BY DEF Early
<1>5. \/ /\ Early = 1 /\ remaining > 0
         /\ plan' = Append(plan, entry)
      \/ /\ ~(Early = 1 /\ remaining > 0)
         /\ plan' = plan
  BY <1>4 DEF AllocatePreAlarm
<1>6. plan \in Seq(PlanEntry) /\ Len(Wanted) \in Nat
  BY <1>1 DEF IInv, TypeOK, Lengths, Places, Wanted
<1>7. entry \in PlanEntry \/ Early = 0
  <2>1. current \in Task /\ job \in DOMAIN input.task
    BY <1>1, InputTypes DEF IInv
  <2>2. at \in Int
    BY <2>1 DEF Task
  <2>3. QED
    BY <1>2, <1>4, <2>1, <2>2 DEF Entry, PlanEntry
<1>8. Wanted' = Wanted
  BY <1>1 DEF Wanted
<1> HIDE DEF entry, sofar
<1>9. CASE Early = 1 /\ remaining > 0
  <2>1. plan' = Append(plan, entry)
    BY <1>5, <1>9
  <2>2. Len(plan') = here + 1
    BY <1>6, <2>1
  <2>3. here = sofar /\ here + 1 = L[turn] /\ here + 1 <= input.budget
    <3> HIDE DEF here
    <3>1. QED
      BY <1>2, <1>3, <1>9 DEF Smaller
  <2>4. here + 1 <= Len(Wanted) /\ Wanted[here + 1] = entry
    BY <1>3, <1>9, <2>3
  <2>5. Begins(plan', Wanted)
    BY <1>6, <1>7, <1>9, <2>1, <2>4, BeginsLonger DEF InOrder
  <2>6. Len(plan') = Smaller(input.budget, L[turn])
    <3> HIDE DEF here
    <3>1. QED
      BY <1>2, <1>3, <2>2, <2>3 DEF Smaller
  <2>7. QED
    BY <1>1, <1>8, <2>5, <2>6 DEF InOrder, ServedUpTo, WalkInOrder, Walking
<1>10. CASE ~(Early = 1 /\ remaining > 0)
  <2>1. plan' = plan
    BY <1>5, <1>10
  <2>2. here = Smaller(input.budget, L[turn])
    <3> HIDE DEF here
    <3>1. QED
      BY <1>2, <1>3, <1>4, <1>10 DEF Smaller
  <2>3. Begins(plan', Wanted)
    BY <2>1 DEF InOrder
  <2>4. QED
    BY <1>1, <1>8, <2>1, <2>2, <2>3 DEF InOrder, ServedUpTo, WalkInOrder, Walking
<1>11. QED
  BY <1>9, <1>10

LEMMA ServedStays == IInv /\ Served /\ [Next]_vars => Served'
<1> SUFFICES ASSUME IInv, Served, [Next]_vars PROVE Served'
  OBVIOUS
<1>1. PICK L : Lengths(L) /\ InOrder(L)
  BY DEF Served
<1>2. CASE UNCHANGED vars
  <2>1. UNCHANGED <<input, order, turn, stage, walk, limit, nextFire, interval,
                    occurrence, taken, remaining, plan>>
    BY <1>2 DEF vars, inputVars, walkVars
  <2>2. InOrder(L)'
    BY <1>1, <2>1 DEF InOrder, ServedUpTo, Begins, WalkInOrder, Walking, OnTrack,
                      Wanted, Nags, RoundsWanted, current, job
  <2>3. QED
    BY <1>1, <2>1, <2>2, SameWanted DEF inputVars
<1>3. CASE Next
  <2>1. UNCHANGED inputVars
    BY <1>3 DEF Next, StartBurst, SkipTask, WalkStep, BurstEnds, RoundsEnd,
                AllocatePreAlarm, Return
  <2>2. InOrder(L)'
    BY <1>1, <1>3, ServedStartBurst, ServedSkipTask, ServedWalkStep,
       ServedBurstEnds, ServedRoundsEnd, ServedPreAlarm, ServedReturn DEF Next
  <2>3. QED
    BY <1>1, <2>1, <2>2, SameWanted
<1>4. QED
  BY <1>2, <1>3

\* The loops that serve the tasks in turn, one slot at a time, schedule exactly
\* the best plan: at every step an initial part of it, and when they are done
\* all of it, for any tasks, cap, budget and time.
THEOREM LoopsMakeTheBestPlan == Spec => []ServesWishesInOrder
<1>1. IInv /\ Served => ServesWishesInOrder
  <2> SUFFICES ASSUME IInv, Served PROVE ServesWishesInOrder
    OBVIOUS
  <2> DEFINE n == Smaller(input.budget, Len(Wanted))
             best == BestPlan(input.task, order, input.cap, input.budget, input.now)
  <2>1. PICK L : Lengths(L) /\ InOrder(L)
    BY DEF Served
  <2>2. /\ Begins(plan, Wanted)
        /\ stage = "done" => Len(plan) = n
    BY <2>1 DEF InOrder, ServedUpTo
  <2>3. plan \in Seq(PlanEntry) /\ Len(plan) \in Nat /\ input.budget \in Nat
    BY SlotsLeft DEF IInv, TypeOK
  <2>4. Len(plan) <= input.budget
    <3>1. Walking \/ ~Walking
      OBVIOUS
    <3>2. QED
      BY <3>1, SlotsLeft
  <2>5. Len(Wanted) \in Nat
    <3>1. Len(order) \in 0 .. Len(order)
      BY DEF IInv, TypeOK
    <3>2. QED
      BY <2>1, <3>1 DEF Lengths, Places, Wanted
  <2>6. best = SubSeq(Wanted, 1, n)
    BY DEF BestPlan, Wanted
  <2>7. n \in Nat /\ Len(plan) <= n
    BY <2>2, <2>3, <2>4, <2>5 DEF Smaller, Begins
  <2> HIDE DEF n, best
  <2>8. best = [i \in 1 .. n |-> Wanted[i]]
    <3>1. best = [i \in 1 .. (n - 1 + 1) |-> Wanted[i + 1 - 1]]
      BY <2>6, <2>7
    <3>2. QED
      BY <2>7, <3>1
  <2>9. \A i \in 1 .. Len(plan) : plan[i] = best[i]
    BY <2>2, <2>3, <2>7, <2>8 DEF Begins
  <2>10. IsPrefix(plan, best)
    BY <2>3, <2>7, <2>8, <2>9 DEF IsPrefix
  <2>11. stage = "done" => plan = best
    <3> SUFFICES ASSUME stage = "done" PROVE plan = best
      OBVIOUS
    <3>1. Len(plan) = n
      BY <2>2
    <3>2. plan = [i \in 1 .. n |-> plan[i]]
      BY <2>3, <3>1
    <3>3. \A i \in 1 .. n : plan[i] = Wanted[i]
      BY <2>8, <2>9, <3>1
    <3>4. QED
      BY <2>8, <3>2, <3>3
  <2>12. QED
    BY <2>10, <2>11 DEF ServesWishesInOrder, best
<1>2. Spec => []Served
  BY InitServed, ServedStays, Inductive, PTL DEF Spec
<1>3. QED
  BY <1>1, <1>2, Inductive, PTL

=============================================================================
