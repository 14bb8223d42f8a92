------------------------- MODULE NagLifecycleProofs -------------------------
(***************************************************************************)
(* Proofs about the life of tasks in one browser tab, for any tasks,       *)
(* options, caps, budget and bounds.  What an armed timer stands for is    *)
(* read off the plan of the same moment, so most of the argument is in     *)
(* NagPlanProofs: what a plan may hold, and what a tick takes from it.     *)
(***************************************************************************)
EXTENDS NagLifecycle, NagPlanProofs

-----------------------------------------------------------------------------
(* The inductive invariant.                                                *)

\* What a re-arm at time n would arm for these tasks.
PlanAt(tasks, n) ==
  {e \in ToSet(BestPlan(tasks, CHOOSE o \in Orders(tasks) : TRUE,
                        PerTaskCap, Budget, n + 1)) : e.at - n <= MaxDelay}

\* TypeOK but for the timers.  Nothing is being rewritten without a generator.
RowsOK ==
  /\ now \in 0 .. MaxTime /\ rewrites \in BOOLEAN
  /\ edits \in 0 .. MaxEdits
  /\ task \in [Job -> Row]
  /\ \A j \in Job : task[j].snoozed <= MaxSnoozes
  /\ status \in [Job -> {"absent", "open", "done", "deleted"}]
  /\ paused \in [Job -> BOOLEAN]
  /\ rewriting \subseteq [job : Job, snoozed : 1 .. MaxSnoozes, deadline : Nat]
  /\ ~rewrites => rewriting = {}
  /\ shown \in [Job -> Nat] /\ sinceSet \in [Job -> Nat]

\* The timers are sound by themselves and against the rows.
TimersOK ==
  /\ armed \subseteq [job : Job, kind : {"nag", "round", "prealarm"},
                     index : Nat, at : Nat]
  /\ \A a, b \in armed : Id(a) = Id(b) => a = b
  /\ IsFiniteSet(armed)
  /\ SilentWhenOff
  /\ NothingBeforeItsTime

\* Without copy refreshes each timer is one the plan of this moment has, and
\* no two stand for the same nag.
TimersArePlanned ==
  ~rewrites =>
    /\ \A e \in armed : \E f \in PlanAt(NaggableTasks, now) : SameFire(f, e)
    /\ \A a, b \in armed : a.kind = "nag" /\ SameFire(a, b) => a = b

\* A task has shown no more nags than its cap leaves, nor more than it had
\* fires so far: as many as come before any that is still to come.
CountsOK ==
  ~rewrites => \A j \in Job :
    /\ status[j] = "absent" => sinceSet[j] = 0
    /\ task[j].maxCount # Null =>
         sinceSet[j] <= Larger(0, task[j].maxCount - task[j].snoozed)
    /\ task[j].fireAt # Null =>
         \A m \in Nat : FireTimes(NagWalk(task[j]))[m] > now => sinceSet[j] <= m

IInv == RowsOK /\ TimersOK /\ TimersArePlanned /\ CountsOK


-----------------------------------------------------------------------------
(* What is armed from a plan.                                              *)

LEMMA NaggableTasksType ==
  ASSUME RowsOK
  PROVE  /\ NaggableTasks \in [{i \in Job : Naggable(i)} -> Task]
         /\ \A i \in Job : Naggable(i) => NaggableTasks[i] = task[i]
         /\ IsFiniteSet({i \in Job : Naggable(i)})
<1>1. ASSUME NEW i \in Job, Naggable(i) PROVE task[i] \in Task
  <2>1. task[i] \in Row /\ task[i].fireAt # Null
    BY <1>1 DEF RowsOK, Naggable
  <2>2. task[i].fireAt \in Nat
    BY <2>1 DEF Row, Opt
  <2>3. QED
    BY <2>1, <2>2 DEF Row, Task
<1>2. IsFiniteSet({i \in Job : Naggable(i)})
  BY LifecycleAssumption, FS_Subset
<1>3. QED
  BY <1>1, <1>2 DEF NaggableTasks

\* An entry's identifier gives the entry, and so does the time of a nag.
LEMMA PossibleOnce ==
  ASSUME NEW S, NEW tasks \in [S -> Task], NEW n \in Nat,
         NEW a \in Possible(tasks, n), NEW b \in Possible(tasks, n),
         a.job = b.job, a.kind = b.kind
  PROVE  /\ a.index = b.index => a = b
         /\ a.kind = "nag" /\ a.at = b.at => a = b
<1> DEFINE t == tasks[a.job]
           E == [job : S, kind : {"nag", "round", "prealarm"}, index : Nat, at : Nat]
<1>1. a \in E /\ b \in E /\ t \in Task
  BY DEF Possible
<1>2. a.index = b.index /\ a.at = b.at => a = b
  BY <1>1
<1>3. a.index = b.index => a.at = b.at
  <2> SUFFICES ASSUME a.index = b.index PROVE a.at = b.at
    OBVIOUS
  <2>1. CASE a.kind = "nag"
    BY <2>1 DEF Possible, IsFire
  <2>2. CASE a.kind = "round"
    BY <2>2 DEF Possible, IsFire
  <2>3. CASE a.kind = "prealarm"
    BY <2>3 DEF Possible
  <2>4. QED
    BY <1>1, <2>1, <2>2, <2>3
<1>4. a.kind = "nag" /\ a.at = b.at => a.index = b.index
  <2> SUFFICES ASSUME a.kind = "nag", a.at = b.at PROVE a.index = b.index
    OBVIOUS
  <2> DEFINE w == NagWalk(t)
             at == FireTimes(w)
             m == FirstDue(w, n) + a.index
             k == FirstDue(w, n) + b.index
  <2>1. w \in Walk
    BY <1>1, WalkTypes
  <2>2. at[m] = at[k]
    BY DEF Possible, IsFire
  <2>3. FirstDue(w, n) \in Nat /\ a.index \in Nat /\ b.index \in Nat
    BY <1>1, <2>1, FirstDueDef
  <2>4. \A x, y \in Nat : x < y => at[x] < at[y]
    BY <2>1, FireTimesIncrease
  <2>5. at \in [Nat -> Nat]
    BY <2>1, FireTimesDef
  <2>6. m \in Nat /\ k \in Nat /\ at[m] \in Nat
    BY <2>3, <2>5
  <2>7. ~ (m < k) /\ ~ (k < m)
    BY <2>2, <2>4, <2>6
  <2>8. QED
    BY <2>3, <2>6, <2>7
<1>5. QED
  BY <1>2, <1>3, <1>4

LEMMA PlanAtType ==
  ASSUME NEW S, IsFiniteSet(S), NEW tasks \in [S -> Task], NEW n \in Nat
  PROVE  /\ PlanAt(tasks, n) \subseteq Possible(tasks, n + 1)
         /\ IsFiniteSet(PlanAt(tasks, n))
<1> DEFINE order == CHOOSE o \in Orders(tasks) : TRUE
           plan == BestPlan(tasks, order, PerTaskCap, Budget, n + 1)
           P == Possible(tasks, n + 1)
<1>1. order \in Seq(S)
  BY OrderExists, OrdersType
<1>2. PerTaskCap \in Nat /\ Budget \in Nat /\ n + 1 \in Nat
  BY LifecycleAssumption
<1>3. plan \in Seq(P)
  <2> HIDE DEF order
  <2>1. QED
    BY <1>1, <1>2, BestPlanPossible
<1> HIDE DEF plan, P
<1>4. ToSet(plan) \subseteq P
  BY <1>3 DEF ToSet
<1>5. IsFiniteSet(ToSet(plan))
  <2>1. IsFiniteSet(1 .. Len(plan)) /\ DOMAIN plan = 1 .. Len(plan)
    BY <1>3, FS_Interval
  <2>2. plan \in Surjection(1 .. Len(plan), ToSet(plan))
    BY <1>3, <2>1 DEF ToSet, Surjection
  <2>3. QED
    BY <2>1, <2>2, FS_Surjection
<1>6. PlanAt(tasks, n) \subseteq ToSet(plan)
  BY DEF PlanAt, plan
<1>7. QED
  BY <1>4, <1>5, <1>6, FS_Subset DEF P

\* As a tick passes, what is still to come stays in the plan.
LEMMA PlanAtKeeps ==
  ASSUME NEW S, IsFiniteSet(S), NEW tasks \in [S -> Task], NEW n \in Nat,
         NEW e \in PlanAt(tasks, n), e.at > n + 1
  PROVE  \E f \in PlanAt(tasks, n + 1) : SameFire(f, e)
<1> DEFINE order == CHOOSE o \in Orders(tasks) : TRUE
           Plan(m) == BestPlan(tasks, order, PerTaskCap, Budget, m + 1)
           s == Plan(n)
           t == Plan(n + 1)
<1>1. order \in Seq(S)
  BY OrderExists, OrdersType
<1>2. PerTaskCap \in Nat /\ Budget \in Nat /\ n + 1 \in Nat /\ MaxDelay \in Nat
      /\ n + 1 + 1 \in Nat
  BY LifecycleAssumption
<1> HIDE DEF order
<1>3. KeepsLater(s, t, n + 1 + 1)
  BY <1>1, <1>2, BestPlanKeeps
<1>4. s \in Seq(Possible(tasks, n + 1)) /\ t \in Seq(Possible(tasks, n + 1 + 1))
  BY <1>1, <1>2, BestPlanPossible
<1>5. e \in ToSet(s) /\ e.at - n <= MaxDelay
  BY DEF PlanAt, order
<1> HIDE DEF s, t
<1>6. PICK q \in 1 .. Len(s) : s[q] = e
  BY <1>4, <1>5 DEF ToSet
<1>7. e.at \in Nat
  BY <1>4, <1>6 DEF Possible
<1>8. s[q].at >= n + 1 + 1
  BY <1>6, <1>7
<1>9. PICK p \in 1 .. q : p <= Len(t) /\ SameFire(t[p], s[q])
  BY <1>3, <1>8 DEF KeepsLater
<1>10. t[p] \in ToSet(t)
  BY <1>4, <1>9 DEF ToSet
<1>11. t[p].at = e.at /\ e.at - (n + 1) <= MaxDelay
  BY <1>2, <1>5, <1>6, <1>7, <1>9 DEF SameFire
<1>12. t[p] \in PlanAt(tasks, n + 1)
  BY <1>10, <1>11 DEF PlanAt, t, order
<1>13. QED
  BY <1>6, <1>9, <1>12

\* Right after a re-arm the timers are as they should be.
LEMMA FreshTimers ==
  RowsOK /\ armed = PlanAt(NaggableTasks, now) => TimersOK /\ TimersArePlanned
<1> SUFFICES ASSUME RowsOK, armed = PlanAt(NaggableTasks, now)
             PROVE  TimersOK /\ TimersArePlanned
  OBVIOUS
<1> DEFINE S == {i \in Job : Naggable(i)}
           P == Possible(NaggableTasks, now + 1)
<1>1. /\ NaggableTasks \in [S -> Task] /\ IsFiniteSet(S)
      /\ \A i \in S : NaggableTasks[i] = task[i]
  BY NaggableTasksType
<1>2. now \in Nat /\ now + 1 \in Nat
  BY DEF RowsOK
<1>3. armed \subseteq P /\ IsFiniteSet(armed)
  <2> HIDE DEF S
  <2>1. QED
    BY <1>1, <1>2, PlanAtType
<1>4. ASSUME NEW e \in armed
      PROVE  /\ e \in [job : S, kind : {"nag", "round", "prealarm"},
                       index : Nat, at : Nat]
             /\ e.kind # "prealarm" =>
                  task[e.job].fireAt # Null /\ e.at >= task[e.job].fireAt
  <2> DEFINE t == task[e.job]
  <2>1. /\ e \in [job : S, kind : {"nag", "round", "prealarm"}, index : Nat, at : Nat]
        /\ e.kind = "nag" => IsFire(NagWalk(t), now + 1, e)
        /\ e.kind = "round" => t.rounds # Null /\ IsFire(RoundsWalk(t), now + 1, e)
    BY <1>1, <1>3 DEF Possible
  <2>2. t \in Task /\ t.fireAt # Null
    <3>1. e.job \in S
      BY <2>1
    <3>2. NaggableTasks[e.job] = t /\ NaggableTasks[e.job] \in Task
      BY <1>1, <3>1
    <3>3. QED
      BY <3>1, <3>2 DEF Naggable
  <2>3. ASSUME NEW w \in Walk, w.start = t.fireAt, IsFire(w, now + 1, e)
        PROVE  e.at >= t.fireAt
    <3> DEFINE m == FirstDue(w, now + 1) + e.index
    <3>1. m \in Nat
      BY <1>2, <2>1, FirstDueDef
    <3>2. e.at = FireTimes(w)[m]
      BY <2>3 DEF IsFire
    <3> HIDE DEF m
    <3>3. FireTimes(w)[m] >= w.start + m /\ w.start \in Nat
      BY <3>1, FireTimesIncrease DEF Walk
    <3>4. e.at \in Nat
      BY <2>1
    <3>5. QED
      BY <2>3, <3>1, <3>2, <3>3, <3>4
  <2>4. NagWalk(t).start = t.fireAt /\ RoundsWalk(t).start = t.fireAt
    BY DEF NagWalk, RoundsWalk
  <2>5. e.kind = "nag" => e.at >= t.fireAt
    BY <2>1, <2>2, <2>3, <2>4, WalkTypes
  <2>6. e.kind = "round" => e.at >= t.fireAt
    BY <2>1, <2>2, <2>3, <2>4, WalkTypes
  <2>7. QED
    BY <2>1, <2>2, <2>5, <2>6
<1>5. armed \subseteq [job : Job, kind : {"nag", "round", "prealarm"},
                       index : Nat, at : Nat]
  BY <1>4
<1>6. ASSUME NEW a \in armed, NEW b \in armed, Id(a) = Id(b)
      PROVE  a = b
  <2>1. a.job = b.job /\ a.kind = b.kind /\ a.index = b.index
    BY <1>6 DEF Id
  <2> HIDE DEF S
  <2>2. QED
    BY <1>1, <1>2, <1>3, <2>1, PossibleOnce
<1>7. ASSUME NEW a \in armed, NEW b \in armed, a.kind = "nag", SameFire(a, b)
      PROVE  a = b
  <2> HIDE DEF S
  <2>1. QED
    BY <1>1, <1>2, <1>3, <1>7, PossibleOnce DEF SameFire
<1>8. SilentWhenOff
  BY <1>4 DEF SilentWhenOff
<1>9. NothingBeforeItsTime
  BY <1>4 DEF NothingBeforeItsTime
<1>10. \A e \in armed : \E f \in PlanAt(NaggableTasks, now) : SameFire(f, e)
  BY DEF SameFire
<1>11. TimersOK
  BY <1>3, <1>5, <1>6, <1>8, <1>9 DEF TimersOK
<1>12. TimersArePlanned
  BY <1>7, <1>10 DEF TimersArePlanned
<1>13. QED
  BY <1>11, <1>12


-----------------------------------------------------------------------------
(* The invariant holds at first.                                           *)

LEMMA InitInv == Init => IInv
<1> SUFFICES ASSUME Init PROVE IInv
  OBVIOUS
<1>1. \A j \in Job : task[j] \in Row /\ task[j].snoozed = 0
  BY LifecycleAssumption DEF Init
<1>2. RowsOK
  <2>1. task \in [Job -> Row]
    BY <1>1 DEF Init
  <2>2. \A j \in Job : task[j].snoozed <= MaxSnoozes
    BY <1>1, LifecycleAssumption
  <2>3. now \in 0 .. MaxTime /\ edits \in 0 .. MaxEdits
    BY LifecycleAssumption DEF Init
  <2>4. QED
    BY <2>1, <2>2, <2>3 DEF Init, RowsOK
<1>3. TimersOK
  BY FS_EmptySet DEF Init, TimersOK, SilentWhenOff, NothingBeforeItsTime
<1>4. TimersArePlanned
  BY DEF Init, TimersArePlanned
<1>5. CountsOK
  <2>1. \A j \in Job : sinceSet[j] = 0
    BY DEF Init
  <2>2. \A j \in Job : task[j].maxCount # Null => task[j].maxCount \in Nat
    BY <1>1 DEF Row, Opt
  <2>3. \A j \in Job : task[j].maxCount # Null =>
          0 <= Larger(0, task[j].maxCount - task[j].snoozed)
    BY <1>1, <2>2 DEF Larger
  <2>4. QED
    BY <2>1, <2>3 DEF CountsOK
<1>6. QED
  BY <1>2, <1>3, <1>4, <1>5 DEF IInv

-----------------------------------------------------------------------------
(* What the operations have in common.                                     *)

LEMMA RowEdits ==
  ASSUME NEW r \in Row, NEW at \in Opt(Nat)
  PROVE  /\ [r EXCEPT !.fireAt = at] \in Row
         /\ \A n \in Nat : [r EXCEPT !.fireAt = at, !.snoozed = n] \in Row
BY DEF Row

\* Every operation ends with a re-arm, and that sets the timers right.
LEMMA RearmStep ==
  ASSUME RowsOK', now' = now, Reschedule
  PROVE  TimersOK' /\ TimersArePlanned'
<1>1. armed' = PlanAt(NaggableTasks', now')
  BY DEF Reschedule, PlanFor, PlanAt, Armable
<1>2. (RowsOK /\ armed = PlanAt(NaggableTasks, now) => TimersOK /\ TimersArePlanned)'
  BY FreshTimers, PTL
<1>3. QED
  BY <1>1, <1>2

\* A task's count stays right when it starts anew or nothing it depends on
\* changes.
LEMMA CountsStep ==
  ASSUME RowsOK', CountsOK, now' = now, rewrites' = rewrites,
         ~rewrites => \A j \in Job :
           \/ sinceSet'[j] = 0
           \/ /\ sinceSet'[j] = sinceSet[j] /\ task'[j] = task[j]
              /\ status'[j] = "absent" => status[j] = "absent"
  PROVE  CountsOK'
<1> SUFFICES ASSUME ~rewrites, NEW j \in Job
             PROVE  /\ status'[j] = "absent" => sinceSet'[j] = 0
                    /\ task'[j].maxCount # Null =>
                         sinceSet'[j] <= Larger(0, task'[j].maxCount - task'[j].snoozed)
                    /\ task'[j].fireAt # Null =>
                         \A m \in Nat : FireTimes(NagWalk(task'[j]))[m] > now'
                                        => sinceSet'[j] <= m
  BY DEF CountsOK
<1>1. CASE sinceSet'[j] = 0
  <2>1. task'[j] \in Row
    BY DEF RowsOK
  <2>2. task'[j].snoozed \in Nat /\ (task'[j].maxCount # Null => task'[j].maxCount \in Nat)
    BY <2>1 DEF Row, Opt
  <2>3. task'[j].maxCount # Null => 0 <= Larger(0, task'[j].maxCount - task'[j].snoozed)
    BY <2>2 DEF Larger
  <2>4. QED
    BY <1>1, <2>3
<1>2. CASE /\ sinceSet'[j] = sinceSet[j] /\ task'[j] = task[j]
           /\ status'[j] = "absent" => status[j] = "absent"
  BY <1>2 DEF CountsOK
<1>3. QED
  BY <1>1, <1>2

-----------------------------------------------------------------------------
(* The invariant holds from step to step.                                  *)

LEMMA TickInv == IInv /\ Tick => IInv'
<1> SUFFICES ASSUME IInv, Tick PROVE IInv'
  OBVIOUS
<1> DEFINE due == {e \in armed : e.at <= now + 1}
           Nags(j) == {e \in due : e.job = j /\ e.kind = "nag"}
           S == {i \in Job : Naggable(i)}
<1>1. /\ now' = now + 1 /\ armed' = armed \ due
      /\ shown' = [j \in Job |-> shown[j] + Cardinality(Nags(j))]
      /\ sinceSet' = [j \in Job |-> sinceSet[j] + Cardinality(Nags(j))]
      /\ UNCHANGED <<rewrites, task, status, paused, rewriting, edits>>
      /\ now < MaxTime
  BY DEF Tick, rowVars
<1>2. RowsOK /\ TimersOK /\ TimersArePlanned /\ CountsOK
  BY DEF IInv
<1>3. \A j \in Job : IsFiniteSet(Nags(j)) /\ Cardinality(Nags(j)) \in Nat
  <2>1. \A j \in Job : Nags(j) \in SUBSET armed
    OBVIOUS
  <2>2. IsFiniteSet(armed)
    BY <1>2 DEF TimersOK
  <2> HIDE DEF Nags
  <2>3. QED
    BY <2>1, <2>2, FS_Subset, FS_CardinalityType
<1> HIDE DEF Nags
<1>4. now \in Nat /\ now + 1 \in Nat /\ now' \in 0 .. MaxTime
  BY <1>1, <1>2, LifecycleAssumption DEF RowsOK
<1>5. RowsOK'
  <2>1. shown' \in [Job -> Nat] /\ sinceSet' \in [Job -> Nat]
    BY <1>1, <1>2, <1>3 DEF RowsOK
  <2>2. QED
    BY <1>1, <1>2, <1>4, <2>1 DEF RowsOK
<1>6. NaggableTasks' = NaggableTasks /\ \A j \in Job : Naggable(j)' = Naggable(j)
  BY <1>1 DEF NaggableTasks, Naggable
<1>7. armed' \subseteq armed
  BY <1>1
<1>8. TimersOK'
  <2>1. IsFiniteSet(armed')
    BY <1>2, <1>7, FS_Subset DEF TimersOK
  <2>2. SilentWhenOff'
    BY <1>2, <1>6, <1>7 DEF TimersOK, SilentWhenOff
  <2>3. NothingBeforeItsTime'
    BY <1>1, <1>2, <1>7 DEF TimersOK, NothingBeforeItsTime
  <2>4. QED
    BY <1>2, <1>7, <2>1, <2>2, <2>3 DEF TimersOK, Id
<1>9. NaggableTasks \in [S -> Task] /\ IsFiniteSet(S) /\ \A i \in S : NaggableTasks[i] = task[i]
  BY <1>2, NaggableTasksType
<1>10. TimersArePlanned'
  <2> SUFFICES ASSUME ~rewrites
               PROVE  /\ \A e \in armed' : \E f \in PlanAt(NaggableTasks, now + 1) : SameFire(f, e)
                      /\ \A a, b \in armed' : a.kind = "nag" /\ SameFire(a, b) => a = b
    BY <1>1, <1>6 DEF TimersArePlanned
  <2>1. ASSUME NEW e \in armed'
        PROVE  \E f \in PlanAt(NaggableTasks, now + 1) : SameFire(f, e)
    <3>1. e \in armed /\ ~ (e.at <= now + 1) /\ e.at \in Nat
      BY <1>1, <1>2 DEF TimersOK
    <3>2. PICK f \in PlanAt(NaggableTasks, now) : SameFire(f, e)
      BY <1>2, <3>1 DEF TimersArePlanned
    <3>3. f.at > now + 1
      BY <1>4, <3>1, <3>2 DEF SameFire
    <3> HIDE DEF S
    <3>4. PICK g \in PlanAt(NaggableTasks, now + 1) : SameFire(g, f)
      BY <1>4, <1>9, <3>3, PlanAtKeeps
    <3>5. QED
      BY <3>2, <3>4 DEF SameFire
  <2>2. QED
    BY <1>2, <1>7, <2>1 DEF TimersArePlanned
<1>11. CountsOK'
  <2> SUFFICES ASSUME ~rewrites, NEW j \in Job
               PROVE  /\ status[j] = "absent" => sinceSet'[j] = 0
                      /\ task[j].maxCount # Null =>
                           sinceSet'[j] <= Larger(0, task[j].maxCount - task[j].snoozed)
                      /\ task[j].fireAt # Null =>
                           \A m \in Nat : FireTimes(NagWalk(task[j]))[m] > now + 1
                                          => sinceSet'[j] <= m
    BY <1>1 DEF CountsOK
  <2>1. /\ status[j] = "absent" => sinceSet[j] = 0
        /\ task[j].maxCount # Null =>
             sinceSet[j] <= Larger(0, task[j].maxCount - task[j].snoozed)
        /\ task[j].fireAt # Null =>
             \A m \in Nat : FireTimes(NagWalk(task[j]))[m] > now => sinceSet[j] <= m
    BY <1>2 DEF CountsOK
  <2> DEFINE w == NagWalk(task[j])
  <2>2. task[j] \in Row /\ sinceSet[j] \in Nat
    BY <1>2 DEF RowsOK
  <2>3. task[j].fireAt # Null => task[j] \in Task /\ w \in Walk
    <3>1. task[j].fireAt # Null => task[j] \in Task
      BY <2>2 DEF Row, Task, Opt
    <3>2. QED
      BY <3>1, WalkTypes
  <2>4. CASE Nags(j) = {}
    <3>1. sinceSet'[j] = sinceSet[j]
      BY <1>1, <2>2, <2>4, FS_EmptySet
    <3>2. ASSUME task[j].fireAt # Null, NEW m \in Nat, FireTimes(w)[m] > now + 1
          PROVE  FireTimes(w)[m] > now
      <4>1. FireTimes(w)[m] \in Nat
        BY <2>3, <3>2, FireTimesDef
      <4>2. QED
        BY <1>4, <3>2, <4>1
    <3>3. QED
      BY <2>1, <3>1, <3>2
  <2>5. CASE Nags(j) # {}
    <3>1. PICK e \in Nags(j) : TRUE
      BY <2>5
    <3>2. e \in armed /\ e.at <= now + 1 /\ e.job = j /\ e.kind = "nag"
      BY <3>1 DEF Nags
    <3>3. PICK f \in PlanAt(NaggableTasks, now) : SameFire(f, e)
      BY <1>2, <3>2 DEF TimersArePlanned
    <3>4. f \in Possible(NaggableTasks, now + 1)
      <4> HIDE DEF S
      <4>1. QED
        BY <1>4, <1>9, <3>3, PlanAtType
    <3>5. f.job = j /\ f.kind = "nag" /\ f.at = e.at
      BY <3>2, <3>3 DEF SameFire
    <3>6. /\ f.job \in S /\ f.index \in Nat /\ f.at \in Nat /\ f.at >= now + 1
          /\ IsFire(NagWalk(NaggableTasks[f.job]), now + 1, f)
      BY <1>9, <3>4, <3>5 DEF Possible
    <3>7. j \in S /\ NaggableTasks[j] = task[j] /\ task[j].fireAt # Null
          /\ status[j] # "absent"
      BY <1>9, <3>5, <3>6 DEF Naggable
    <3>8. e.at = now + 1
      BY <1>4, <3>2, <3>5, <3>6
    <3> DEFINE n == FirstDue(w, now + 1) + f.index
    <3>9. n \in Nat
      BY <1>4, <2>3, <3>6, <3>7, FirstDueDef
    <3>10. FireTimes(w)[n] = now + 1 /\ Allowed(w, w.prior + n, now + 1)
      BY <3>5, <3>6, <3>7, <3>8 DEF IsFire
    <3> HIDE DEF n
    <3>11. sinceSet[j] <= n
      <4>1. FireTimes(w)[n] > now
        BY <1>4, <3>10
      <4>2. QED
        BY <2>1, <3>7, <3>9, <4>1
    <3>12. sinceSet'[j] = sinceSet[j] + 1
      <4>1. ASSUME NEW a \in Nags(j) PROVE a = e
        <5>1. a \in armed /\ a.at <= now + 1 /\ a.job = j /\ a.kind = "nag"
          BY DEF Nags
        <5>2. PICK g \in PlanAt(NaggableTasks, now) : SameFire(g, a)
          BY <1>2, <5>1 DEF TimersArePlanned
        <5>3. g \in Possible(NaggableTasks, now + 1)
          <6> HIDE DEF S
          <6>1. QED
            BY <1>4, <1>9, <5>2, PlanAtType
        <5>4. g.at >= now + 1 /\ g.at \in Nat /\ g.at = a.at
          BY <5>2, <5>3 DEF Possible, SameFire
        <5>5. a.at = now + 1
          BY <1>4, <5>1, <5>4
        <5>6. SameFire(a, e)
          BY <3>2, <3>8, <5>1, <5>5 DEF SameFire
        <5>7. QED
          BY <1>2, <3>2, <5>1, <5>6 DEF TimersArePlanned
      <4>2. Nags(j) = {e}
        BY <3>1, <4>1
      <4>3. Cardinality(Nags(j)) = 1
        BY <4>2, FS_Singleton
      <4>4. QED
        BY <1>1, <4>3
    <3>13. task[j].maxCount # Null =>
             sinceSet'[j] <= Larger(0, task[j].maxCount - task[j].snoozed)
      <4> SUFFICES ASSUME task[j].maxCount # Null
                   PROVE  sinceSet'[j] <= Larger(0, task[j].maxCount - task[j].snoozed)
        OBVIOUS
      <4>1. task[j].maxCount \in Nat /\ task[j].snoozed \in Nat
        BY <2>2 DEF Row, Opt
      <4>2. w.maxCount = task[j].maxCount /\ w.prior = task[j].snoozed
        BY DEF NagWalk
      <4>3. task[j].snoozed + n < task[j].maxCount
        BY <3>10, <4>2 DEF Allowed
      <4>4. QED
        BY <2>2, <3>9, <3>11, <3>12, <4>1, <4>3 DEF Larger
    <3>14. ASSUME NEW m \in Nat, FireTimes(w)[m] > now + 1
           PROVE  sinceSet'[j] <= m
      <4>1. FireTimes(w)[m] > FireTimes(w)[n]
        BY <3>10, <3>14
      <4>2. ~ (m < n) /\ m # n
        <5>1. \A x, y \in Nat : x < y => FireTimes(w)[x] < FireTimes(w)[y]
          BY <2>3, <3>7, FireTimesIncrease
        <5>2. FireTimes(w)[m] \in Nat /\ FireTimes(w)[n] \in Nat
          BY <2>3, <3>7, <3>9, FireTimesDef
        <5>3. QED
          BY <3>9, <4>1, <5>1, <5>2
      <4>3. QED
        BY <2>2, <3>9, <3>11, <3>12, <4>2
    <3>15. QED
      BY <3>7, <3>13, <3>14
  <2>6. QED
    BY <2>4, <2>5
<1>12. QED
  BY <1>5, <1>8, <1>10, <1>11 DEF IInv


LEMMA CloseTabInv == IInv /\ CloseTab => IInv'
<1> SUFFICES ASSUME IInv, CloseTab PROVE IInv'
  OBVIOUS
<1>1. /\ armed' = {} /\ rewriting' = {}
      /\ UNCHANGED <<now, rewrites, task, status, paused, edits, shown, sinceSet>>
  BY DEF CloseTab, rowVars, histVars
<1>2. RowsOK'
  BY <1>1 DEF IInv, RowsOK
<1>3. TimersOK'
  BY <1>1, FS_EmptySet DEF TimersOK, SilentWhenOff, NothingBeforeItsTime
<1>4. TimersArePlanned'
  BY <1>1 DEF TimersArePlanned
<1>5. CountsOK'
  BY <1>1 DEF IInv, CountsOK
<1>6. QED
  BY <1>2, <1>3, <1>4, <1>5 DEF IInv

LEMMA RearmInv == IInv /\ Rearm => IInv'
<1> SUFFICES ASSUME IInv, Rearm PROVE IInv'
  OBVIOUS
<1>1. /\ Reschedule
      /\ UNCHANGED <<now, rewrites, task, status, paused, rewriting, edits, shown, sinceSet>>
  BY DEF Rearm, rowVars, histVars
<1>2. RowsOK'
  BY <1>1 DEF IInv, RowsOK
<1>3. CountsOK'
  BY <1>1 DEF IInv, CountsOK
<1>4. QED
  BY <1>1, <1>2, <1>3, RearmStep DEF IInv

LEMMA CreateTaskInv ==
  ASSUME NEW j \in Job, NEW p \in Profile, IInv, CreateTask(j, p)
  PROVE  IInv'
<1> DEFINE at == IF p.fireAt = Null THEN Null ELSE now + p.fireAt
           row == [p EXCEPT !.fireAt = at]
<1>1. /\ Reschedule /\ status[j] = "absent"
      /\ status' = [status EXCEPT ![j] = "open"]
      /\ task' = [task EXCEPT ![j] = row]
      /\ UNCHANGED <<now, rewrites, paused, rewriting, edits, shown, sinceSet>>
  BY DEF CreateTask, histVars
<1>2. p \in Row /\ p.snoozed = 0 /\ now \in Nat
  BY LifecycleAssumption DEF IInv, RowsOK
<1>3. at \in Opt(Nat)
  <2>1. p.fireAt # Null => p.fireAt \in Nat
    BY <1>2 DEF Row, Opt
  <2>2. QED
    BY <1>2, <2>1 DEF Opt
<1>4. row \in Row /\ row.snoozed = 0
  BY <1>2, <1>3, RowEdits DEF Row
<1> HIDE DEF row
<1>5. RowsOK'
  <2>1. task' \in [Job -> Row]
    BY <1>1, <1>4 DEF IInv, RowsOK
  <2>2. \A i \in Job : task'[i].snoozed <= MaxSnoozes
    BY <1>1, <1>4, LifecycleAssumption DEF IInv, RowsOK
  <2>3. QED
    BY <1>1, <2>1, <2>2 DEF IInv, RowsOK
<1>6. CountsOK'
  <2>1. ~rewrites => sinceSet[j] = 0
    BY <1>1 DEF IInv, CountsOK
  <2>2. \A i \in Job \ {j} : task'[i] = task[i] /\ status'[i] = status[i]
    BY <1>1 DEF IInv, RowsOK
  <2>3. ~rewrites => \A i \in Job :
           \/ sinceSet'[i] = 0
           \/ /\ sinceSet'[i] = sinceSet[i] /\ task'[i] = task[i]
              /\ status'[i] = "absent" => status[i] = "absent"
    BY <1>1, <2>1, <2>2
  <2>4. CountsOK
    BY DEF IInv
  <2>5. QED
    BY <1>1, <1>5, <2>3, <2>4, CountsStep
<1>7. QED
  BY <1>1, <1>5, <1>6, RearmStep DEF IInv

LEMMA SnoozeTaskInv ==
  ASSUME NEW j \in Job, IInv, SnoozeTask(j)
  PROVE  IInv'
<1> DEFINE row == [task[j] EXCEPT !.fireAt = now + SnoozeTicks, !.snoozed = task[j].snoozed + 1]
           request == [job |-> j, snoozed |-> task'[j].snoozed, deadline |-> now + 1]
<1>1. /\ Reschedule /\ status[j] = "open" /\ task[j].snoozed < MaxSnoozes
      /\ task' = [task EXCEPT ![j].fireAt = now + SnoozeTicks, ![j].snoozed = @ + 1]
      /\ rewriting' = IF rewrites THEN rewriting \union {request} ELSE rewriting
      /\ sinceSet' = [sinceSet EXCEPT ![j] = 0]
      /\ UNCHANGED <<now, rewrites, status, paused, edits, shown>>
  BY DEF SnoozeTask, NewSchedule
<1>2. RowsOK /\ now \in Nat /\ task[j] \in Row /\ task[j].snoozed \in Nat
  BY DEF IInv, RowsOK, Row
<1>3. task' = [task EXCEPT ![j] = row]
  BY <1>1, <1>2 DEF RowsOK
<1>4. row \in Row /\ row.snoozed = task[j].snoozed + 1
  <2>1. now + SnoozeTicks \in Opt(Nat) /\ task[j].snoozed + 1 \in Nat
    BY <1>2, LifecycleAssumption DEF Opt
  <2>2. row \in Row
    BY <1>2, <2>1, RowEdits
  <2>3. QED
    BY <1>2, <2>2 DEF Row
<1> HIDE DEF row
<1>5. RowsOK'
  <2>1. task' \in [Job -> Row] /\ task'[j] = row
    BY <1>2, <1>3, <1>4 DEF RowsOK
  <2>2. \A i \in Job : task'[i].snoozed <= MaxSnoozes
    BY <1>1, <1>2, <1>3, <1>4, LifecycleAssumption DEF RowsOK
  <2>3. request \in [job : Job, snoozed : 1 .. MaxSnoozes, deadline : Nat]
    BY <1>1, <1>2, <1>4, <2>1, LifecycleAssumption
  <2> HIDE DEF request
  <2>4. /\ rewriting' \subseteq [job : Job, snoozed : 1 .. MaxSnoozes, deadline : Nat]
        /\ ~rewrites => rewriting' = {}
    BY <1>1, <1>2, <2>3 DEF RowsOK
  <2>5. sinceSet' \in [Job -> Nat]
    BY <1>1, <1>2 DEF RowsOK
  <2>6. QED
    BY <1>1, <1>2, <2>1, <2>2, <2>4, <2>5 DEF RowsOK
<1>6. CountsOK'
  <2>1. \A i \in Job : \/ sinceSet'[i] = 0
                       \/ /\ sinceSet'[i] = sinceSet[i] /\ task'[i] = task[i]
                          /\ status'[i] = "absent" => status[i] = "absent"
    BY <1>1, <1>2, <1>3 DEF RowsOK
  <2>2. CountsOK
    BY DEF IInv
  <2>3. QED
    BY <1>1, <1>5, <2>1, <2>2, CountsStep
<1>7. QED
  BY <1>1, <1>5, <1>6, RearmStep DEF IInv

LEMMA CompleteTaskInv ==
  ASSUME NEW j \in Job, IInv, CompleteTask(j)
  PROVE  IInv'
<1>1. /\ Reschedule /\ status[j] # "absent" /\ edits < MaxEdits /\ edits' = edits + 1
      /\ UNCHANGED <<now, rewrites, paused, rewriting>>
  BY DEF CompleteTask, Edit
<1>2. RowsOK /\ now \in Nat /\ task[j] \in Row
  BY DEF IInv, RowsOK
<1>3. edits' \in 0 .. MaxEdits
  BY <1>1, <1>2, LifecycleAssumption DEF RowsOK
<1>4. RowsOK' /\ \A i \in Job : \/ sinceSet'[i] = 0
                                \/ /\ sinceSet'[i] = sinceSet[i] /\ task'[i] = task[i]
                                   /\ status'[i] = "absent" => status[i] = "absent"
  <2>1. CASE Repeats(j)
    <3> DEFINE row == [task[j] EXCEPT !.fireAt = task[j].fireAt + Period[j], !.snoozed = 0]
    <3>1. /\ task' = [task EXCEPT ![j].fireAt = @ + Period[j], ![j].snoozed = 0]
          /\ shown' = [shown EXCEPT ![j] = 0]
          /\ sinceSet' = [sinceSet EXCEPT ![j] = 0]
          /\ status' = status
      BY <2>1 DEF CompleteTask, NewSchedule
    <3>2. task' = [task EXCEPT ![j] = row]
      BY <1>2, <3>1 DEF RowsOK
    <3>3. row \in Row /\ row.snoozed = 0
      <4>1. task[j].fireAt \in Nat /\ Period[j] \in Nat
        BY <1>2, <2>1, LifecycleAssumption DEF Repeats, Row, Opt
      <4>2. task[j].fireAt + Period[j] \in Opt(Nat)
        BY <4>1 DEF Opt
      <4>3. row \in Row
        BY <1>2, <4>2, RowEdits
      <4>4. QED
        BY <1>2, <4>3 DEF Row
    <3> HIDE DEF row
    <3>4. task' \in [Job -> Row]
      BY <1>2, <3>2, <3>3 DEF RowsOK
    <3>5. \A i \in Job : task'[i].snoozed <= MaxSnoozes
      BY <1>2, <3>2, <3>3, LifecycleAssumption DEF RowsOK
    <3>6. shown' \in [Job -> Nat] /\ sinceSet' \in [Job -> Nat]
      BY <1>2, <3>1 DEF RowsOK
    <3>7. RowsOK'
      BY <1>1, <1>2, <1>3, <3>1, <3>4, <3>5, <3>6 DEF RowsOK
    <3>8. QED
      BY <1>2, <3>1, <3>2, <3>7 DEF RowsOK
  <2>2. CASE ~Repeats(j)
    <3>1. /\ status' = [status EXCEPT ![j] = IF @ = "open" THEN "done" ELSE @]
          /\ UNCHANGED <<task, shown, sinceSet>>
      BY <2>2 DEF CompleteTask, histVars
    <3>2. status' \in [Job -> {"absent", "open", "done", "deleted"}]
      BY <1>2, <3>1 DEF RowsOK
    <3>3. RowsOK'
      BY <1>1, <1>2, <1>3, <3>1, <3>2 DEF RowsOK
    <3>4. \A i \in Job : status'[i] = "absent" => status[i] = "absent"
      BY <1>1, <1>2, <3>1 DEF RowsOK
    <3>5. QED
      BY <3>1, <3>3, <3>4
  <2>3. QED
    BY <2>1, <2>2
<1>5. CountsOK'
  <2>1. CountsOK
    BY DEF IInv
  <2>2. QED
    BY <1>1, <1>4, <2>1, CountsStep
<1>6. QED
  BY <1>1, <1>4, <1>5, RearmStep DEF IInv

\* Where only the status or the pause changes.
LEMMA StatusInv ==
  ASSUME IInv, Reschedule, edits' \in 0 .. MaxEdits,
         UNCHANGED <<now, rewrites, task, rewriting, shown, sinceSet>>,
         status' \in [Job -> {"absent", "open", "done", "deleted"}],
         paused' \in [Job -> BOOLEAN],
         \A i \in Job : status'[i] = "absent" => status[i] = "absent"
  PROVE  IInv'
<1>1. RowsOK'
  BY DEF IInv, RowsOK
<1>2. CountsOK'
  <2>1. CountsOK
    BY DEF IInv
  <2>2. QED
    BY <1>1, <2>1, CountsStep
<1>3. QED
  BY <1>1, <1>2, RearmStep DEF IInv

\* Where a row gets a new schedule.
LEMMA ScheduleInv ==
  ASSUME NEW j \in Job, NEW row \in Row, IInv, Reschedule, Edit,
         row.snoozed = task[j].snoozed,
         task' = [task EXCEPT ![j] = row], NewSchedule(j),
         UNCHANGED <<now, rewrites, status, paused, rewriting, shown>>
  PROVE  IInv'
<1>1. RowsOK
  BY DEF IInv
<1>2. edits' \in 0 .. MaxEdits
  BY <1>1, LifecycleAssumption DEF RowsOK, Edit
<1>3. RowsOK'
  <2>1. task' \in [Job -> Row]
    BY <1>1 DEF RowsOK
  <2>2. \A i \in Job : task'[i].snoozed <= MaxSnoozes
    BY <1>1 DEF RowsOK
  <2>3. sinceSet' \in [Job -> Nat]
    BY <1>1 DEF RowsOK, NewSchedule
  <2>4. QED
    BY <1>1, <1>2, <2>1, <2>2, <2>3 DEF RowsOK
<1>4. CountsOK'
  <2>1. \A i \in Job : \/ sinceSet'[i] = 0
                       \/ /\ sinceSet'[i] = sinceSet[i] /\ task'[i] = task[i]
                          /\ status'[i] = "absent" => status[i] = "absent"
    BY <1>1 DEF RowsOK, NewSchedule
  <2>2. CountsOK
    BY DEF IInv
  <2>3. QED
    BY <1>3, <2>1, <2>2, CountsStep
<1>5. QED
  BY <1>3, <1>4, RearmStep DEF IInv


LEMMA AdjustInv ==
  ASSUME NEW j \in Job, NEW delta \in Deltas, IInv, AdjustTaskFireAt(j, delta)
  PROVE  IInv'
<1> DEFINE at == ShiftFireAt(task[j].fireAt, delta)
           row == [task[j] EXCEPT !.fireAt = at]
<1>1. /\ Reschedule /\ Edit /\ NewSchedule(j)
      /\ task' = [task EXCEPT ![j].fireAt = ShiftFireAt(@, delta)]
      /\ UNCHANGED <<now, rewrites, status, paused, rewriting, shown>>
  BY DEF AdjustTaskFireAt
<1>2. task \in [Job -> Row] /\ task[j] \in Row /\ now \in Nat /\ delta \in Int
  BY LifecycleAssumption DEF IInv, RowsOK
<1>3. at \in Opt(Nat)
  <2>1. task[j].fireAt # Null => task[j].fireAt \in Nat
    BY <1>2 DEF Row, Opt
  <2>2. QED
    BY <1>2, <2>1 DEF ShiftFireAt, Larger, Opt
<1>4. task' = [task EXCEPT ![j] = row]
  BY <1>1, <1>2
<1> HIDE DEF at
<1>5. row \in Row /\ row.snoozed = task[j].snoozed
  BY <1>2, <1>3, RowEdits DEF Row
<1> HIDE DEF row
<1>6. QED
  BY <1>1, <1>4, <1>5, ScheduleInv

LEMMA UpdateTaskInv ==
  ASSUME NEW j \in Job, NEW at \in Dates, NEW p \in Profile, IInv, UpdateTask(j, at, p)
  PROVE  IInv'
<1> DEFINE row == [p EXCEPT !.fireAt = at, !.snoozed = task[j].snoozed,
                            !.until = task[j].until, !.priority = task[j].priority]
<1>1. /\ Reschedule /\ Edit /\ NewSchedule(j)
      /\ task' = [task EXCEPT ![j] = row]
      /\ UNCHANGED <<now, rewrites, status, paused, rewriting, shown>>
  BY DEF UpdateTask
<1>2. p \in Row /\ at \in Opt(Nat) /\ task[j] \in Row
  BY LifecycleAssumption DEF IInv, RowsOK
<1>3. row \in Row /\ row.snoozed = task[j].snoozed
  <2>1. /\ task[j].snoozed \in Nat /\ task[j].until \in Opt(Int)
        /\ task[j].priority \in Int
    BY <1>2 DEF Row
  <2>2. QED
    BY <1>2, <2>1 DEF Row
<1> HIDE DEF row
<1>4. QED
  BY <1>1, <1>3, ScheduleInv

LEMMA ReopenInv == ASSUME NEW j \in Job, IInv, ReopenTask(j) PROVE IInv'
<1>1. /\ Reschedule /\ status[j] = "done"
      /\ status' = [status EXCEPT ![j] = "open"]
      /\ UNCHANGED <<now, rewrites, task, paused, rewriting, edits, shown, sinceSet>>
  BY DEF ReopenTask, histVars
<1>2. RowsOK
  BY DEF IInv
<1>3. /\ status' \in [Job -> {"absent", "open", "done", "deleted"}]
      /\ paused' \in [Job -> BOOLEAN] /\ edits' \in 0 .. MaxEdits
      /\ \A i \in Job : status'[i] = "absent" => status[i] = "absent"
  BY <1>1, <1>2 DEF RowsOK
<1>4. QED
  BY <1>1, <1>3, StatusInv

LEMMA DeleteInv == ASSUME NEW j \in Job, IInv, DeleteTask(j) PROVE IInv'
<1>1. /\ Reschedule /\ Edit
      /\ status' = [status EXCEPT ![j] = "deleted"]
      /\ UNCHANGED <<now, rewrites, task, paused, rewriting, shown, sinceSet>>
  BY DEF DeleteTask, histVars
<1>2. RowsOK
  BY DEF IInv
<1>3. /\ status' \in [Job -> {"absent", "open", "done", "deleted"}]
      /\ paused' \in [Job -> BOOLEAN]
      /\ \A i \in Job : status'[i] = "absent" => status[i] = "absent"
  BY <1>1, <1>2 DEF RowsOK
<1>4. edits' \in 0 .. MaxEdits
  BY <1>1, <1>2, LifecycleAssumption DEF RowsOK, Edit
<1>5. QED
  BY <1>1, <1>3, <1>4, StatusInv

LEMMA PauseInv == ASSUME NEW j \in Job, IInv, SetTaskPaused(j) PROVE IInv'
<1>1. /\ Reschedule /\ Edit
      /\ paused' = [paused EXCEPT ![j] = ~@]
      /\ UNCHANGED <<now, rewrites, task, status, rewriting, shown, sinceSet>>
  BY DEF SetTaskPaused, histVars
<1>2. RowsOK
  BY DEF IInv
<1>3. /\ status' \in [Job -> {"absent", "open", "done", "deleted"}]
      /\ \A i \in Job : status'[i] = "absent" => status[i] = "absent"
  BY <1>1, <1>2 DEF RowsOK
<1>4. paused' \in [Job -> BOOLEAN]
  <2>1. paused \in [Job -> BOOLEAN]
    BY <1>2 DEF RowsOK
  <2>2. (~paused[j]) \in BOOLEAN
    OBVIOUS
  <2>3. QED
    BY <1>1, <2>1, <2>2
<1>5. edits' \in 0 .. MaxEdits
  BY <1>1, <1>2, LifecycleAssumption DEF RowsOK, Edit
<1>6. QED
  BY <1>1, <1>3, <1>4, <1>5, StatusInv

\* A copy that comes back in time replaces the timer of the task's first nag;
\* this happens only with a generator.
LEMMA OverlayLandsInv ==
  ASSUME NEW r \in rewriting, IInv, OverlayLands(r)
  PROVE  IInv'
<1> DEFINE e == Entry(r.job, "nag", 0, task[r.job].fireAt)
<1>1. /\ StillWanted(r) /\ Arm(e)
      /\ rewriting' = rewriting \ {r}
      /\ UNCHANGED <<now, rewrites, task, status, paused, edits, shown, sinceSet>>
  BY DEF OverlayLands, rowVars, histVars
<1>2. RowsOK /\ TimersOK /\ CountsOK
  BY DEF IInv
<1>3. r.job \in Job /\ Naggable(r.job)
  BY <1>1, <1>2 DEF RowsOK, StillWanted
<1>4. rewrites
  BY <1>2 DEF RowsOK
<1>5. RowsOK'
  BY <1>1, <1>2 DEF RowsOK
<1>6. CountsOK' /\ TimersArePlanned'
  BY <1>1, <1>4 DEF CountsOK, TimersArePlanned
<1>7. /\ e \in [job : Job, kind : {"nag", "round", "prealarm"}, index : Nat, at : Nat]
      /\ e.job = r.job /\ e.at = task[r.job].fireAt
  <2>1. task[r.job] \in Row /\ task[r.job].fireAt # Null
    BY <1>2, <1>3 DEF RowsOK, Naggable
  <2>2. task[r.job].fireAt \in Nat
    BY <2>1 DEF Row, Opt
  <2>3. QED
    BY <1>3, <2>2 DEF Entry
<1> HIDE DEF e
<1> DEFINE others == {a \in armed : Id(a) # Id(e)}
<1>8. armed' \subseteq others \union {e}
  BY <1>1 DEF Arm
<1>9. TimersOK'
  <2>1. armed' \subseteq armed \union {e}
    BY <1>8
  <2>2. IsFiniteSet(armed')
    <3>1. IsFiniteSet(armed \union {e})
      BY <1>2, FS_AddElement DEF TimersOK
    <3>2. QED
      BY <2>1, <3>1, FS_Subset
  <2>3. ASSUME NEW a \in armed', NEW b \in armed', Id(a) = Id(b) PROVE a = b
    <3>1. CASE a \in others /\ b \in others
      BY <1>2, <2>3, <3>1 DEF TimersOK
    <3>2. CASE a = e \/ b = e
      BY <1>8, <2>3, <3>2
    <3>3. QED
      BY <1>8, <3>1, <3>2
  <2>4. SilentWhenOff'
    <3>1. \A i \in Job : Naggable(i)' = Naggable(i)
      BY <1>1 DEF Naggable
    <3>2. \A a \in armed' : Naggable(a.job) /\ a.job \in Job
      BY <1>2, <1>3, <1>7, <2>1 DEF TimersOK, SilentWhenOff
    <3>3. QED
      BY <3>1, <3>2 DEF SilentWhenOff
  <2>5. NothingBeforeItsTime'
    <3>1. e.at >= task[e.job].fireAt /\ task[e.job].fireAt # Null
      BY <1>3, <1>7 DEF Naggable
    <3>2. QED
      BY <1>1, <1>2, <2>1, <3>1 DEF TimersOK, NothingBeforeItsTime
  <2>6. armed' \subseteq [job : Job, kind : {"nag", "round", "prealarm"},
                          index : Nat, at : Nat]
    BY <1>2, <1>7, <2>1 DEF TimersOK
  <2>7. QED
    BY <2>2, <2>3, <2>4, <2>5, <2>6 DEF TimersOK, Id
<1>10. QED
  BY <1>5, <1>6, <1>9 DEF IInv

LEMMA OverlayDroppedInv ==
  ASSUME NEW r \in rewriting, IInv, OverlayDropped(r)
  PROVE  IInv'
<1>1. /\ rewriting' = rewriting \ {r}
      /\ UNCHANGED <<now, rewrites, task, status, paused, armed, edits, shown, sinceSet>>
  BY DEF OverlayDropped, rowVars, histVars
<1>2. RowsOK'
  BY <1>1 DEF IInv, RowsOK
<1>3. NaggableTasks' = NaggableTasks /\ \A j \in Job : Naggable(j)' = Naggable(j)
  BY <1>1 DEF NaggableTasks, Naggable
<1>4. TimersOK'
  <2>1. SilentWhenOff'
    BY <1>1, <1>3 DEF IInv, TimersOK, SilentWhenOff
  <2>2. NothingBeforeItsTime'
    BY <1>1 DEF IInv, TimersOK, NothingBeforeItsTime
  <2>3. QED
    BY <1>1, <2>1, <2>2 DEF IInv, TimersOK, Id
<1>5. TimersArePlanned'
  BY <1>1, <1>3 DEF IInv, TimersArePlanned
<1>6. CountsOK'
  BY <1>1 DEF IInv, CountsOK
<1>7. QED
  BY <1>2, <1>4, <1>5, <1>6 DEF IInv

LEMMA StepInv == IInv /\ [Next]_vars => IInv'
<1> SUFFICES ASSUME IInv, [Next]_vars PROVE IInv'
  OBVIOUS
<1>1. CASE Tick
  BY <1>1, TickInv
<1>2. CASE CloseTab
  BY <1>2, CloseTabInv
<1>3. CASE Rearm
  BY <1>3, RearmInv
<1>4. ASSUME NEW j \in Job, NEW p \in Profile, CreateTask(j, p) PROVE IInv'
  BY <1>4, CreateTaskInv
<1>5. ASSUME NEW j \in Job, SnoozeTask(j) PROVE IInv'
  BY <1>5, SnoozeTaskInv
<1>6. ASSUME NEW j \in Job, CompleteTask(j) PROVE IInv'
  BY <1>6, CompleteTaskInv
<1>7. ASSUME NEW j \in Job, ReopenTask(j) PROVE IInv'
  BY <1>7, ReopenInv
<1>8. ASSUME NEW j \in Job, DeleteTask(j) PROVE IInv'
  BY <1>8, DeleteInv
<1>9. ASSUME NEW j \in Job, SetTaskPaused(j) PROVE IInv'
  BY <1>9, PauseInv
<1>10. ASSUME NEW j \in Job, NEW d \in Deltas, AdjustTaskFireAt(j, d) PROVE IInv'
  BY <1>10, AdjustInv
<1>11. ASSUME NEW j \in Job, NEW at \in Dates, NEW p \in Profile, UpdateTask(j, at, p)
       PROVE  IInv'
  BY <1>11, UpdateTaskInv
<1>12. ASSUME NEW r \in rewriting, OverlayLands(r) PROVE IInv'
  BY <1>12, OverlayLandsInv
<1>13. ASSUME NEW r \in rewriting, OverlayDropped(r) PROVE IInv'
  BY <1>13, OverlayDroppedInv
<1>14. CASE UNCHANGED vars
  <2>1. UNCHANGED <<now, rewrites, task, status, paused, armed, rewriting, edits,
                    shown, sinceSet>>
    BY <1>14 DEF vars, rowVars, histVars
  <2>2. NaggableTasks' = NaggableTasks /\ \A j \in Job : Naggable(j)' = Naggable(j)
    BY <2>1 DEF NaggableTasks, Naggable
  <2>3. RowsOK' /\ CountsOK' /\ TimersArePlanned'
    BY <2>1, <2>2 DEF IInv, RowsOK, CountsOK, TimersArePlanned
  <2>4. SilentWhenOff' /\ NothingBeforeItsTime'
    BY <2>1, <2>2 DEF IInv, TimersOK, SilentWhenOff, NothingBeforeItsTime
  <2>5. TimersOK'
    BY <2>1, <2>4 DEF IInv, TimersOK, Id
  <2>6. QED
    BY <2>3, <2>5 DEF IInv
<1>15. QED
  BY <1>1, <1>2, <1>3, <1>4, <1>5, <1>6, <1>7, <1>8, <1>9, <1>10, <1>11, <1>12,
     <1>13, <1>14 DEF Next

-----------------------------------------------------------------------------
(* What follows for the properties.                                        *)

LEMMA Invariant == Spec => []IInv
BY InitInv, StepInv, PTL DEF Spec

\* The variables of the tab's model keep their types, and a timer is found by
\* its identifier (armNotification of apps/web's scheduler).
THEOREM LifecycleTyped == Spec => []TypeOK
<1>1. IInv => TypeOK
  BY DEF IInv, RowsOK, TimersOK, TypeOK
<1>2. QED
  BY <1>1, Invariant, PTL

\* A task that is done, deleted, paused or undated has nothing armed, whatever
\* copy refresh comes back (isNaggable and the re-check of snoozeCopy.ts).
THEOREM OffIsSilent == Spec => []SilentWhenOff
<1>1. IInv => SilentWhenOff
  BY DEF IInv, TimersOK
<1>2. QED
  BY <1>1, Invariant, PTL

\* No nag or round is armed for a time before its task's present fire time:
\* the old schedule's timers go with it (clearAllTimers, applySnooze).
THEOREM NoneBeforeItsTime == Spec => []NothingBeforeItsTime
<1>1. IInv => NothingBeforeItsTime
  BY DEF IInv, TimersOK
<1>2. QED
  BY <1>1, Invariant, PTL

\* To re-arm at any moment loses no notification that is armed, for any tasks
\* competing for any number of slots (rescheduleAllNotifications).
THEOREM RearmingLosesNothing == Spec => []RearmLosesNothing
<1>1. IInv => RearmLosesNothing
  <2> SUFFICES ASSUME IInv, ~rewrites, NEW e \in armed
               PROVE  \E f \in PlanFor(NaggableTasks) :
                        <<f.job, f.kind, f.at>> = <<e.job, e.kind, e.at>>
    BY DEF RearmLosesNothing
  <2>1. PICK f \in PlanAt(NaggableTasks, now) : SameFire(f, e)
    BY DEF IInv, TimersArePlanned
  <2>2. PlanAt(NaggableTasks, now) = PlanFor(NaggableTasks)
    BY DEF PlanAt, PlanFor, Armable
  <2>3. QED
    BY <2>1, <2>2 DEF SameFire
<1>2. QED
  BY <1>1, Invariant, PTL

\* From one setting of its schedule to the next a task shows no more nags than
\* its cap leaves after its snoozes (priorOccurrences of computeNagBurst).
THEOREM CapHoldsPerSchedule == Spec => []CapPerSchedule
<1>1. IInv => CapPerSchedule
  BY DEF IInv, CountsOK, CapPerSchedule
<1>2. QED
  BY <1>1, Invariant, PTL
=============================================================================
