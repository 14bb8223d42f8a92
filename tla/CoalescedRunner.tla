-------------------------- MODULE CoalescedRunner --------------------------
(***************************************************************************)
(* createCoalescedRunner (packages/core/src/concurrency.ts): the closure   *)
(* that keeps at most one sync pass in flight and collapses every trigger  *)
(* that arrives meanwhile into one trailing pass.                          *)
(*                                                                         *)
(* JavaScript runs one job at a time, so an action here is one uninterrup- *)
(* ted job: the body of a call, the settling of the task's promise, or the *)
(* .then callback that clears inFlight.  Between two of them any other job *)
(* may run; the window between the task settling and the callback is a     *)
(* state of its own ("settled"), where inFlight is still set.              *)
(***************************************************************************)
EXTENDS Naturals

CONSTANT Caller     \* calls whose promise is followed at once

VARIABLES
  phase,      \* inFlight: "idle" is null, otherwise where its run stands
  queued,     \* the run-again flag
  active,     \* invocations of task() that have not settled
  call        \* history: how far each outstanding call has been served

vars == <<phase, queued, active, call>>

Abs == INSTANCE CoveringRuns WITH busy <- (active # 0)

Phase == {"idle", "running", "settled"}

TypeOK == /\ phase \in Phase
          /\ queued \in BOOLEAN
          /\ active \in Nat
          /\ call \in [Caller -> Abs!CallState]

Init == /\ phase = "idle"
        /\ queued = FALSE
        /\ active = 0
        /\ call = [c \in Caller |-> "none"]

(***************************************************************************)
(* cycle(): task() is invoked synchronously.  calls is the call history    *)
(* including the caller that got us here.  The run is over at once when    *)
(* task() throws: the catch turns the throw into a rejected promise, which *)
(* is handled like any other, one job later.                               *)
(***************************************************************************)
Cycle(calls) ==
  /\ active' = active + 1
  /\ phase' = "running"
  /\ call' = Abs!Covered(calls)

(***************************************************************************)
(* The returned function.  With a run in flight the call only sets the     *)
(* flag and shares the promise of that run; otherwise it starts a cycle.   *)
(***************************************************************************)
CallWhileIdle(c) ==
  /\ call[c] = "none"
  /\ phase = "idle"
  /\ Cycle([call EXCEPT ![c] = "waiting"])
  /\ UNCHANGED queued

\* Faulty variant: the call does not look at inFlight.
CallIgnoringFlight(c) ==
  /\ call[c] = "none"
  /\ phase # "idle"
  /\ Cycle([call EXCEPT ![c] = "waiting"])
  /\ UNCHANGED queued

CallWhileInFlight(c) ==
  /\ call[c] = "none"
  /\ phase # "idle"
  /\ queued' = TRUE
  /\ call' = [call EXCEPT ![c] = "waiting"]
  /\ UNCHANGED <<phase, active>>

\* The task's promise is fulfilled or rejected: both arms of the first .then
\* map it to undefined, so the outcome leaves no trace.
TaskSettles ==
  /\ active > 0
  /\ active' = active - 1
  /\ phase' = "settled"
  /\ call' = Abs!Served(call)
  /\ UNCHANGED queued

(***************************************************************************)
(* The second .then callback.  Returning cycle()'s promise chains the      *)
(* promise of the run that ended to the trailing run, so no caller is      *)
(* released; with nothing queued every promise of the chain resolves.      *)
(***************************************************************************)
\* Faulty variant: the trailing run is started but not returned, so the
\* promise of the first run resolves without it.
RunAgainUnchained ==
  /\ phase = "settled"
  /\ queued
  /\ queued' = FALSE
  /\ active' = active + 1
  /\ phase' = "running"
  /\ call' = [c \in Caller |-> IF call[c] = "none" THEN "none" ELSE "answered"]

\* Faulty variant: the flag is cleared and no trailing run is started.
RunAgainDropped ==
  /\ phase = "settled"
  /\ queued
  /\ queued' = FALSE
  /\ UNCHANGED <<phase, active, call>>

RunAgain ==
  /\ phase = "settled"
  /\ queued
  /\ queued' = FALSE
  /\ Cycle(call)

Pending(calls) == {c \in Caller : calls[c] \in {"waiting", "started", "served"}}

\* Faulty variant: inFlight keeps the promise that has resolved.
ReleaseCallersStale ==
  /\ phase = "settled"
  /\ ~queued
  /\ phase' = "resolved"
  /\ call' = [c \in Caller |-> IF c \in Pending(call) THEN "answered" ELSE call[c]]
  /\ UNCHANGED <<queued, active>>

\* Faulty variant: every caller has a promise of its own and only one resolves.
ReleaseCallersOne ==
  /\ phase = "settled"
  /\ ~queued
  /\ phase' = "idle"
  /\ \E c \in Pending(call) : call' = [call EXCEPT ![c] = "answered"]
  /\ UNCHANGED <<queued, active>>

ReleaseCallers ==
  /\ phase = "settled"
  /\ ~queued
  /\ phase' = "idle"
  /\ call' = [c \in Caller |-> IF c \in Pending(call) THEN "answered" ELSE call[c]]
  /\ UNCHANGED <<queued, active>>

\* The continuation a caller attached to its promise, for instance the
\* syncFromDb of backgroundSync, runs in a later job.
Resume(c) ==
  /\ call[c] = "answered"
  /\ call' = [call EXCEPT ![c] = "none"]
  /\ UNCHANGED <<phase, queued, active>>

(***************************************************************************)
(* Any number of calls can wait for one chain of runs.  So that a handful  *)
(* of them stands for any number, the history may stop following a call    *)
(* that has been served and follow a new one in its place.                 *)
(***************************************************************************)
Untrack(c) ==
  /\ call[c] = "served"
  /\ call' = [call EXCEPT ![c] = "none"]
  /\ UNCHANGED <<phase, queued, active>>

Next == \/ \E c \in Caller : \/ CallWhileIdle(c)
                             \/ CallWhileInFlight(c)
                             \/ Resume(c)
                             \/ Untrack(c)
        \/ TaskSettles
        \/ RunAgain
        \/ ReleaseCallers

(***************************************************************************)
(* The event loop runs every ready job, and a pass ends: it is a bounded   *)
(* number of requests, each of which is answered or fails.  Nothing makes  *)
(* a caller call.                                                          *)
(***************************************************************************)
Fairness == /\ WF_vars(TaskSettles)
            /\ WF_vars(RunAgain)
            /\ WF_vars(ReleaseCallers)
            /\ \A c \in Caller : WF_vars(Resume(c))

Spec == Init /\ [][Next]_vars
FairSpec == Spec /\ Fairness

-----------------------------------------------------------------------------
\* Two invocations of the task are never outstanding together (the "never
\* runs concurrently with itself" of the module comment).
NoOverlap == active <= 1

\* A trigger that no run has covered yet is remembered by the flag, whatever
\* the order of calls, settlements and callbacks: none is forgotten.
NoTriggerForgotten ==
  (\E c \in Caller : call[c] = "waiting") => (queued /\ phase # "idle")

\* Conversely the flag never causes a trailing run nobody asked for.
NoIdleTrailingRun ==
  queued => \E c \in Caller : call[c] = "waiting"

\* The runner keeps the promise of CoveringRuns: runs do not overlap and a
\* caller is released only after a run that began at or after its call.
ImplementsCoveringRuns == Abs!Spec

\* Every trigger is eventually covered by a run that settles, however many
\* more triggers keep arriving.
EveryTriggerCovered ==
  \A c \in Caller : call[c] = "waiting" ~> call[c] = "served"

\* A caller is released, unless triggers keep landing on a runner that is
\* busy: every one of them extends the chain all the callers wait for.
ReleasedOnceQuiet ==
  \/ []<><<\E c \in Caller : CallWhileInFlight(c)>>_vars
  \/ \A c \in Caller : call[c] # "none" ~> call[c] = "none"

-----------------------------------------------------------------------------
(***************************************************************************)
(* Why the invariants hold.  inFlight is set exactly while an invocation   *)
(* has not settled or its callback has not run; a call not covered yet is  *)
(* remembered by the flag, and an idle runner owes nobody anything.        *)
(***************************************************************************)
FlightMatchesActive == active = (IF phase = "running" THEN 1 ELSE 0)

StartedOnlyWhileRunning ==
  \A c \in Caller : call[c] = "started" => phase = "running"

IdleOwesNothing == phase = "idle" => ~queued /\ Pending(call) = {}

IInv == /\ TypeOK
        /\ FlightMatchesActive
        /\ StartedOnlyWhileRunning
        /\ IdleOwesNothing
        /\ NoTriggerForgotten
        /\ NoIdleTrailingRun

=============================================================================
