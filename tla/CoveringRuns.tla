---------------------------- MODULE CoveringRuns ----------------------------
(***************************************************************************)
(* What a coalesced runner promises its callers, with no mention of how it *)
(* keeps the promise: runs of one task follow each other and never overlap,*)
(* and a call is answered only after a run that began at or after the call *)
(* has settled.  CoalescedRunner implements this specification.            *)
(***************************************************************************)
CONSTANT Caller     \* the calls followed at the same time

VARIABLES
  busy,             \* is a run of the task under way?
  call              \* how far each outstanding call has been served

absVars == <<busy, call>>

(***************************************************************************)
(* A call is "waiting" until a run begins, "started" while that run is     *)
(* under way, "served" when it has settled, and "answered" once its promise*)
(* has resolved and its continuation has not run yet.                      *)
(***************************************************************************)
CallState == {"none", "waiting", "started", "served", "answered"}

TypeOK == /\ busy \in BOOLEAN
          /\ call \in [Caller -> CallState]

Init == /\ busy = FALSE
        /\ call = [c \in Caller |-> "none"]

\* Every call that has been waiting is covered by a run that begins now.
Covered(calls) ==
  [c \in Caller |-> IF calls[c] = "waiting" THEN "started" ELSE calls[c]]

\* Every call covered by the run under way has been served when it settles.
Served(calls) ==
  [c \in Caller |-> IF calls[c] = "started" THEN "served" ELSE calls[c]]

Ask(c) == /\ call[c] = "none"
          /\ call' = [call EXCEPT ![c] = "waiting"]
          /\ UNCHANGED busy

\* An idle runner starts work within the call itself.
AskAndBegin(c) == /\ call[c] = "none"
                  /\ ~busy
                  /\ busy' = TRUE
                  /\ call' = Covered([call EXCEPT ![c] = "waiting"])

Begin == /\ ~busy
         /\ busy' = TRUE
         /\ call' = Covered(call)

Settle == /\ busy
          /\ busy' = FALSE
          /\ call' = Served(call)

\* Only served calls are answered, any number of them at once.
Answer(S) == /\ S # {}
             /\ \A c \in S : call[c] = "served"
             /\ call' = [c \in Caller |-> IF c \in S THEN "answered" ELSE call[c]]
             /\ UNCHANGED busy

Resume(c) == /\ call[c] = "answered"
             /\ call' = [call EXCEPT ![c] = "none"]
             /\ UNCHANGED busy

\* Calls are without number: one that has been served may leave its place in
\* the history to another while its promise is still pending.
Untrack(c) == /\ call[c] = "served"
              /\ call' = [call EXCEPT ![c] = "none"]
              /\ UNCHANGED busy

Next == \/ \E c \in Caller : \/ Ask(c) \/ AskAndBegin(c)
                             \/ Resume(c) \/ Untrack(c)
        \/ Begin
        \/ Settle
        \/ \E S \in SUBSET Caller : Answer(S)

Spec == Init /\ [][Next]_absVars

=============================================================================
