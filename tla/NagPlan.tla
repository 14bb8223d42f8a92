------------------------------ MODULE NagPlan ------------------------------
(***************************************************************************)
(* What a notification plan should be (packages/core/src/nag.ts), said     *)
(* without loops: the nominal fire times of a task, which of them are      *)
(* allowed, and the list of everything the tasks would like to schedule in *)
(* the order in which they may claim slots.  The plan is the part of that  *)
(* list the budget covers.  NotificationBudget models the loops.           *)
(*                                                                         *)
(* Times and intervals are whole ticks of an unnamed clock.                *)
(***************************************************************************)
EXTENDS Integers, Sequences, SequencesExt

CONSTANTS
  Null,     \* an absent value
  Floor     \* SHRINK_FLOOR_SECONDS

ASSUME NullAssumption == Null \notin Int
ASSUME FloorAssumption == Floor \in Nat \ {0}

Smaller(a, b) == IF a < b THEN a ELSE b
Larger(a, b) == IF a > b THEN a ELSE b

Opt(S) == S \union {Null}

\* SchedulableTask.
Task == [fireAt : Nat, interval : Nat \ {0}, maxCount : Opt(Nat),
         until : Opt(Int), shrink : BOOLEAN, snoozed : Nat, priority : Int,
         lead : Nat, rounds : Opt(Nat \ {0}), roundsMax : Opt(Nat),
         roundsFor : Opt(Nat)]

-----------------------------------------------------------------------------
(* One walk along the nominal sequence of fires.                           *)

Walk == [start : Nat, interval : Nat \ {0}, maxCount : Opt(Nat),
         until : Opt(Int), shrink : BOOLEAN, prior : Nat]

\* Faulty variant: snoozing gives the task a fresh cap.
NagWalkAfresh(t) ==
  [start |-> t.fireAt, interval |-> t.interval, maxCount |-> t.maxCount,
   until |-> t.until, shrink |-> t.shrink, prior |-> 0]

\* The Nag-Me sequence: past snoozes are charged against the cap.
NagWalk(t) ==
  [start |-> t.fireAt, interval |-> t.interval, maxCount |-> t.maxCount,
   until |-> t.until, shrink |-> t.shrink, prior |-> t.snoozed]

\* Rounds: a fixed interval, capped by a count or a duration from fireAt.
RoundsWalk(t) ==
  [start |-> t.fireAt, interval |-> t.rounds, maxCount |-> t.roundsMax,
   until |-> IF t.roundsFor = Null THEN Null ELSE t.fireAt + t.roundsFor,
   shrink |-> FALSE, prior |-> 0]

\* Three quarters of an interval, never below the floor (which an interval
\* that starts below it is raised to).
Shrunk(i) == Larger(Floor, (3 * i) \div 4)

\* The interval before the n-th fire, counted from the one at fireAt.
IntervalOf(w) ==
  LET f[n \in Nat] == IF n = 0 THEN w.interval
                      ELSE IF w.shrink THEN Shrunk(f[n - 1]) ELSE f[n - 1]
  IN f

FireTimes(w) ==
  LET gap == IntervalOf(w)
      f[n \in Nat] == IF n = 0 THEN w.start ELSE f[n - 1] + gap[n]
  IN f

\* The walk may go on to an occurrence of this number and time.
Allowed(w, occurrence, at) ==
  /\ w.maxCount # Null => occurrence < w.maxCount
  /\ w.until # Null => at <= w.until

\* The number of the first fire that is not past.  An interval is at least one
\* tick, so no more are past than ticks are.
FirstDue(w, now) ==
  LET at == FireTimes(w)
  IN CHOOSE m \in 0 .. Larger(0, now - w.start) :
       at[m] >= now /\ (m > 0 => at[m - 1] < now)

\* The fires from there on, as many as are allowed in a row and at most cap.
Burst(w, cap, now) ==
  LET at == FireTimes(w)
      first == FirstDue(w, now)
      MayFire(n) == Allowed(w, w.prior + first + n, at[first + n])
      count == CHOOSE n \in 0 .. cap : /\ \A i \in 0 .. n - 1 : MayFire(i)
                                       /\ n < cap => ~MayFire(n)
  IN [i \in 1 .. count |-> at[first + i - 1]]

-----------------------------------------------------------------------------
(* The plan for all tasks.                                                 *)

\* An entry stands for one pending notification; (job, kind, index) is its id.
Entry(job, kind, index, at) ==
  [job |-> job, kind |-> kind, index |-> index, at |-> at]

Entries(job, kind, times) ==
  [i \in 1 .. Len(times) |-> Entry(job, kind, i - 1, times[i])]

\* The heads-up, unless its time has passed.
PreAlarm(job, t, now) ==
  IF t.lead > 0 /\ t.fireAt - t.lead >= now
  THEN <<Entry(job, "prealarm", 0, t.fireAt - t.lead)>> ELSE <<>>

\* All a task would schedule with slots to spare: its nags, then its rounds,
\* then the heads-up, which is worth least when slots are short.
Wishes(job, t, cap, now) ==
  Entries(job, "nag", Burst(NagWalk(t), cap, now))
    \o (IF t.rounds = Null THEN <<>>
        ELSE Entries(job, "round", Burst(RoundsWalk(t), cap, now)))
    \o PreAlarm(job, t, now)

\* Higher priority first, then the earlier fire.
Before(a, b) == \/ a.priority > b.priority
                \/ a.priority = b.priority /\ a.fireAt <= b.fireAt

\* The orders sort() can leave the tasks in; equal ones keep an order of theirs.
Orders(task) ==
  {o \in SetToSeqs(DOMAIN task) :
     \A i, j \in DOMAIN o : i < j => Before(task[o[i]], task[o[j]])}

AllWishes(task, order, cap, now) ==
  FlattenSeq([i \in DOMAIN order |-> Wishes(order[i], task[order[i]], cap, now)])

\* The slots go to the wishes in order until none is left.
BestPlan(task, order, cap, budget, now) ==
  LET wishes == AllWishes(task, order, cap, now)
  IN SubSeq(wishes, 1, Smaller(budget, Len(wishes)))

============================================================================
