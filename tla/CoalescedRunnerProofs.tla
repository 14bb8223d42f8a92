----------------------- MODULE CoalescedRunnerProofs -----------------------
(***************************************************************************)
(* Proofs about CoalescedRunner for any set of callers.                    *)
(***************************************************************************)
EXTENDS CoalescedRunner, TLAPS

\* The initial state satisfies the inductive invariant: nothing is in flight
\* and nobody has called.
LEMMA InitIInv == Init => IInv
<1> SUFFICES ASSUME Init PROVE IInv
  OBVIOUS
<1>1. \A c \in Caller : call[c] = "none"
  BY DEF Init
<1>2. ~queued
  BY Zenon DEF Init
<1>3. TypeOK
  BY DEF Init, TypeOK, Phase, Abs!CallState
<1>4. FlightMatchesActive /\ StartedOnlyWhileRunning /\ NoTriggerForgotten
  BY <1>1 DEF Init, FlightMatchesActive, StartedOnlyWhileRunning,
              NoTriggerForgotten
<1>5. Pending(call) = {}
  BY <1>1 DEF Pending
<1>6. IdleOwesNothing /\ NoIdleTrailingRun
  BY <1>2, <1>5, Zenon DEF IdleOwesNothing, NoIdleTrailingRun
<1>7. QED
  BY <1>3, <1>4, <1>6 DEF IInv

\* Every job of the event loop preserves the inductive invariant.
LEMMA NextIInv == IInv /\ [Next]_vars => IInv'
<1> SUFFICES ASSUME IInv, [Next]_vars PROVE IInv'
  OBVIOUS
<1> USE DEF IInv, TypeOK, Phase, Abs!CallState, FlightMatchesActive,
        StartedOnlyWhileRunning, IdleOwesNothing, NoTriggerForgotten,
        NoIdleTrailingRun, Pending
<1>1. ASSUME NEW c \in Caller, CallWhileIdle(c) PROVE IInv'
  BY <1>1 DEF CallWhileIdle, Cycle, Abs!Covered
<1>2. ASSUME NEW c \in Caller, CallWhileInFlight(c) PROVE IInv'
  BY <1>2 DEF CallWhileInFlight
<1>3. ASSUME NEW c \in Caller, Resume(c) PROVE IInv'
  BY <1>3 DEF Resume
<1>4. CASE TaskSettles
  BY <1>4 DEF TaskSettles, Abs!Served
<1>5. CASE RunAgain
  <2>1. ~queued'
    BY <1>5, Zenon DEF RunAgain
  <2>2. \A c \in Caller : call'[c] # "waiting"
    BY <1>5 DEF RunAgain, Cycle, Abs!Covered
  <2>3. phase' = "running" /\ active' = 1
    BY <1>5 DEF RunAgain, Cycle
  <2>4. TypeOK' /\ FlightMatchesActive' /\ StartedOnlyWhileRunning'
    <3>1. queued' \in BOOLEAN
      BY <1>5, Zenon DEF RunAgain
    <3>2. call' \in [Caller -> Abs!CallState]
      BY <1>5 DEF RunAgain, Cycle, Abs!Covered
    <3>3. QED
      BY <2>3, <3>1, <3>2
  <2>5. IdleOwesNothing' /\ NoTriggerForgotten'
    BY <2>2, <2>3
  <2>6. NoIdleTrailingRun'
    BY <2>1, Zenon
  <2>7. QED
    BY <2>4, <2>5, <2>6
<1>6. CASE ReleaseCallers
  BY <1>6 DEF ReleaseCallers
<1>7. ASSUME NEW c \in Caller, Untrack(c) PROVE IInv'
  BY <1>7 DEF Untrack
<1>8. CASE UNCHANGED vars
  BY <1>8 DEF vars
<1>9. QED
  BY <1>1, <1>2, <1>3, <1>4, <1>5, <1>6, <1>7, <1>8 DEF Next

\* The strengthening holds in every reachable state.
THEOREM Inductive == Spec => []IInv
  BY InitIInv, NextIInv, PTL DEF Spec

\* The runner's variables keep their types.
THEOREM TypeCorrect == Spec => []TypeOK
<1>1. IInv => TypeOK
  BY DEF IInv
<1>2. QED
  BY <1>1, Inductive, PTL

\* At most one invocation of the task is outstanding, for any callers and any
\* interleaving of calls with settlements and callbacks.
THEOREM RunsNeverOverlap == Spec => []NoOverlap
<1>1. IInv => NoOverlap
  BY DEF IInv, FlightMatchesActive, NoOverlap
<1>2. QED
  BY <1>1, Inductive, PTL

\* A trigger not covered yet is always remembered by the run-again flag.
THEOREM TriggersRemembered == Spec => []NoTriggerForgotten
<1>1. IInv => NoTriggerForgotten
  BY DEF IInv
<1>2. QED
  BY <1>1, Inductive, PTL

-----------------------------------------------------------------------------
\* Each job of the runner is a step of CoveringRuns or leaves its variables
\* alone.
LEMMA StepRefines ==
  ASSUME IInv, [Next]_vars
  PROVE  [Abs!Next]_(Abs!absVars)
<1> USE DEF Abs!absVars, Abs!Next
<1>1. ASSUME NEW c \in Caller, CallWhileIdle(c) PROVE Abs!Next
  <2>1. active = 0 /\ active' = 1
    BY <1>1 DEF CallWhileIdle, Cycle, IInv, FlightMatchesActive
  <2>2. Abs!AskAndBegin(c)
    BY <1>1, <2>1 DEF CallWhileIdle, Cycle, Abs!AskAndBegin
  <2>3. QED
    BY <2>2
<1>2. ASSUME NEW c \in Caller, CallWhileInFlight(c) PROVE Abs!Next
  <2>1. Abs!Ask(c)
    BY <1>2 DEF CallWhileInFlight, Abs!Ask
  <2>2. QED
    BY <2>1
<1>3. ASSUME NEW c \in Caller, Resume(c) PROVE Abs!Next
  <2>1. Abs!Resume(c)
    BY <1>3 DEF Resume, Abs!Resume
  <2>2. QED
    BY <2>1
<1>4. CASE TaskSettles
  <2>1. active = 1 /\ active' = 0
    BY <1>4 DEF TaskSettles, IInv, TypeOK, FlightMatchesActive
  <2>2. Abs!Settle
    BY <1>4, <2>1 DEF TaskSettles, Abs!Settle
  <2>3. QED
    BY <2>2
<1>5. CASE RunAgain
  <2>1. active = 0 /\ active' = 1
    BY <1>5 DEF RunAgain, Cycle, IInv, FlightMatchesActive
  <2>2. Abs!Begin
    BY <1>5, <2>1 DEF RunAgain, Cycle, Abs!Begin
  <2>3. QED
    BY <2>2
<1>6. CASE ReleaseCallers
  <2>1. \A c \in Pending(call) : call[c] = "served"
    BY <1>6 DEF ReleaseCallers, Pending, IInv, NoTriggerForgotten,
                StartedOnlyWhileRunning
  <2>2. Pending(call) \in SUBSET Caller
    BY DEF Pending
  <2>3. CASE Pending(call) # {}
    <3>1. Abs!Answer(Pending(call))
      BY <1>6, <2>1, <2>3 DEF ReleaseCallers, Abs!Answer
    <3>2. QED
      BY <2>2, <3>1
  <2>4. CASE Pending(call) = {}
    <3>1. call' = call
      BY <1>6, <2>4 DEF ReleaseCallers, IInv, TypeOK
    <3>2. QED
      BY <1>6, <3>1 DEF ReleaseCallers
  <2>5. QED
    BY <2>3, <2>4
<1>7. ASSUME NEW c \in Caller, Untrack(c) PROVE Abs!Next
  <2>1. Abs!Untrack(c)
    BY <1>7 DEF Untrack, Abs!Untrack
  <2>2. QED
    BY <2>1
<1>8. CASE UNCHANGED vars
  BY <1>8 DEF vars
<1>9. QED
  BY <1>1, <1>2, <1>3, <1>4, <1>5, <1>6, <1>7, <1>8 DEF Next

\* The runner implements CoveringRuns: runs of the task never overlap, and a
\* caller is released only after a run that began at or after its call.
THEOREM Refinement == Spec => ImplementsCoveringRuns
<1>1. Init => Abs!Init
  BY DEF Init, Abs!Init
<1>2. IInv /\ [Next]_vars => [Abs!Next]_(Abs!absVars)
  BY StepRefines
<1>3. QED
  BY <1>1, <1>2, Inductive, PTL DEF Spec, ImplementsCoveringRuns, Abs!Spec

=============================================================================
