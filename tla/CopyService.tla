----------------------------- MODULE CopyService -----------------------------
(***************************************************************************)
(* The line a snoozed task nags with: the phrase ladder that every         *)
(* notification carries (copy.ts), the rewrite that each snooze asks of    *)
(* the nag-ai service (snoozeCopy.ts, remoteCopy.ts), and that service,    *)
(* which may be told to stop at any time (services/nag-ai).                *)
(*                                                                         *)
(* One task without notes, the classic pack, rewrites turned on; a second  *)
(* per tick.  Plans are made in one step here (NagRearm takes it apart).   *)
(***************************************************************************)
EXTENDS Integers

CONSTANTS
  Asking,         \* snoozes and their requests that may be under way at once
  MaxAsks,        \* bound on snoozes
  MaxFires,       \* bound on the index in a burst
  NewTones,       \* tones that the settings are changed to
  Rewritten,      \* a line that the model wrote
  Free            \* no request

VARIABLES
  snoozes,        \* snoozeCount
  tone,           \* settings.copy.tone
  plannedTone,    \* the tone that the last plan was made with
  place,          \* index in its burst of the next notification
  line,           \* what that notification says
  request,        \* per slot, the snooze under way or the request that it sent
  server,         \* up, draining, down
  drain,          \* seconds until a draining server exits by force
  idle,           \* a draining server's connections between two requests
  voices,         \* history: the tone of the latest snooze, and those set since
  stranded        \* history: whether one served at the signal was cut off

clientVars == <<snoozes, tone, plannedTone, voices>>
serviceVars == <<server, drain, idle, stranded>>
copyVars == <<clientVars, place, line, request, serviceVars>>

\* Faulty variant of Patience: as long as the service waits for its model.
PatienceLong == 8

\* timeoutMs of createRemoteCopyGenerator; the timer of the signal handler.
Patience == 4
DrainFor == 5

Tones == {"gentle", "standard", "savage"}

ASSUME CopyAssumption ==
  MaxAsks \in Nat /\ MaxFires \in Nat /\ NewTones \subseteq Tones

\* toneLevelOffset.
Offset(t) == CASE t = "gentle" -> -2 [] t = "savage" -> 3 [] OTHER -> 0

\* Callers clamp the level at zero.
LevelAt(count, t) ==
  LET raised == count + Offset(t) IN IF raised < 0 THEN 0 ELSE raised

\* The tiers of every pack: their minLevel, and how many lines they have.
Tiers == {0, 1, 3, 5, 8}
LinesOf(tier) == IF tier = 0 THEN 1 ELSE 2

\* tierFor: the last one that the level has reached.
TierFor(level) ==
  CHOOSE t \in Tiers : t <= level /\ \A u \in Tiers : u <= level => u <= t

\* generateTemplateCopy: on through a tier, then hold its last line.
Rung(level) ==
  LET tier == TierFor(level)
      last == LinesOf(tier) - 1
  IN [tier |-> tier, within |-> IF level - tier < last THEN level - tier ELSE last]

Milder(a, b) == \/ a.tier < b.tier
                \/ a.tier = b.tier /\ a.within < b.within

\* What the plan has a notification say.
Ladder(count, index, t) == Rung(LevelAt(count + index, t))

CopyInit ==
  /\ snoozes = 0 /\ tone \in Tones /\ plannedTone = tone /\ voices = {tone}
  /\ place = 0 /\ line = Ladder(0, 0, tone)
  /\ request = [s \in Asking |-> Free]
  /\ server = "up" /\ drain = 0 /\ idle = 0 /\ stranded = FALSE

-----------------------------------------------------------------------------
(* The client.                                                             *)

Waiting(s) == request[s] # Free /\ request[s].at # "tapped"

\* A plan from now on: what is pending begins at index 0.
Arm(count, t) ==
  plannedTone' = t /\ place' = 0 /\ line' = Ladder(count, 0, t)

\* handleSnooze reads the settings, then waits for the row to be written.
TapSnooze(s) ==
  /\ request[s] = Free /\ snoozes < MaxAsks
  /\ request' = [request EXCEPT ![s] =
       [at |-> "tapped", tone |-> tone, count |-> snoozes, left |-> Patience]]
  /\ UNCHANGED <<clientVars, place, line, serviceVars>>

\* Written: a better line is asked for, at the level under the tone that was
\* read, and the plan is made with the tone of now.
SnoozeWritten(s) ==
  /\ request[s] # Free /\ request[s].at = "tapped"
  /\ snoozes' = snoozes + 1
  /\ request' = [request EXCEPT ![s].at = "sent", ![s].count = snoozes + 1]
  /\ Arm(snoozes + 1, tone)
  /\ voices' = {request[s].tone, tone}
  /\ UNCHANGED <<tone, serviceVars>>

\* updateSettings; the plan it asks for is a Rearm.
ChangeTone ==
  /\ tone' \in NewTones \ {tone}
  /\ voices' = voices \union {tone'}
  /\ UNCHANGED <<snoozes, plannedTone, place, line, request, serviceVars>>

\* Any other change, a sync, the app coming to the foreground.
Rearm ==
  /\ Arm(snoozes, tone)
  /\ UNCHANGED <<snoozes, tone, voices, request, serviceVars>>

\* A notification is shown; one of those still pending is next.
Fire ==
  /\ place' \in place + 1 .. MaxFires
  /\ line' = Ladder(snoozes, place', plannedTone)
  /\ UNCHANGED <<clientVars, request, serviceVars>>

\* Faulty variant of Apply: whatever comes back goes onto the notification.
ApplyLate(s, copy) == line' = copy /\ place' = 0

\* refreshNextOccurrenceCopy arms index 0 with it (again, when that one has
\* been shown) unless the task was snoozed again.
Apply(s, copy) ==
  IF request[s].count = snoozes THEN line' = copy /\ place' = 0
                                ELSE UNCHANGED <<line, place>>

Ended(s) == request' = [request EXCEPT ![s] = Free]

\* Any failure gives the ladder's line for the level that was asked for.
FallBack(s) ==
  Apply(s, Ladder(request[s].count, 0, request[s].tone)) /\ Ended(s)

\* The controller aborts the fetch, and its connection closes.
GiveUp(s) ==
  /\ Waiting(s) /\ request[s].left = 0
  /\ FallBack(s)
  /\ UNCHANGED <<clientVars, serviceVars>>

\* The fetch fails: its connection was cut.
Fail(s) ==
  /\ Waiting(s) /\ request[s].at = "cut"
  /\ FallBack(s)
  /\ UNCHANGED <<clientVars, serviceVars>>

-----------------------------------------------------------------------------
(* The service.                                                            *)

LetIn(s, as) ==
  request' = [request EXCEPT ![s].at = as] /\ UNCHANGED <<line, place>>

\* A server that listens serves every request; after that only those that
\* come on a connection kept alive.
Connect(s) ==
  /\ Waiting(s) /\ request[s].at = "sent"
  /\ \/ server = "up" /\ LetIn(s, "served") /\ UNCHANGED idle
     \/ idle > 0 /\ LetIn(s, "late") /\ idle' = idle - 1
     \/ server # "up" /\ FallBack(s) /\ UNCHANGED idle
  /\ UNCHANGED <<clientVars, server, drain, stranded>>

Serving(s) == Waiting(s) /\ request[s].at \in {"served", "late"}

\* After its response a connection closes or is kept alive, which matters once
\* the server no longer takes new ones.
Responded ==
  /\ idle' \in IF server = "draining" THEN {idle, idle + 1} ELSE {idle}
  /\ UNCHANGED <<clientVars, server, drain, stranded>>

\* 401, 413 and 400 for what it does not accept, 502 when the model fails, is
\* late or says nothing that fits.
Refuse(s) == Serving(s) /\ FallBack(s) /\ Responded

Answer(s) == Serving(s) /\ Apply(s, Rewritten) /\ Ended(s) /\ Responded

\* SIGTERM: no new connections, none idle, and five seconds for the rest.
Signal ==
  /\ server = "up"
  /\ server' = "draining" /\ drain' = DrainFor
  /\ UNCHANGED <<clientVars, place, line, request, idle, stranded>>

\* A connection kept alive reaches its time limit, or its client leaves.
DropIdle ==
  /\ idle > 0 /\ idle' = idle - 1
  /\ UNCHANGED <<clientVars, place, line, request, server, drain, stranded>>

Open == {s \in Asking : Serving(s)}

\* server.close has nothing to wait for.
Drained ==
  /\ server = "draining" /\ Open = {} /\ idle = 0
  /\ server' = "down" /\ drain' = 0
  /\ UNCHANGED <<clientVars, place, line, request, idle, stranded>>

\* closeAllConnections, whoever still waits.
ForceExit ==
  /\ server = "draining" /\ drain = 0
  /\ server' = "down" /\ idle' = 0
  /\ stranded' = (stranded \/ \E s \in Open : request[s].at = "served")
  /\ request' = [s \in Asking |->
       IF s \in Open THEN [request[s] EXCEPT !.at = "cut"] ELSE request[s]]
  /\ UNCHANGED <<clientVars, place, line, drain>>

\* The platform starts it again.
Restart ==
  /\ server = "down" /\ server' = "up"
  /\ UNCHANGED <<clientVars, place, line, request, drain, idle, stranded>>

\* A second passes; a timer that has run down goes off first.
Second ==
  /\ \A s \in Asking : Waiting(s) => request[s].left > 0
  /\ server = "draining" => drain > 0
  /\ \/ server = "draining"
     \/ \E s \in Asking : Waiting(s)
  /\ request' = [s \in Asking |-> IF Waiting(s)
                                THEN [request[s] EXCEPT !.left = @ - 1]
                                ELSE request[s]]
  /\ drain' = IF server = "draining" THEN drain - 1 ELSE drain
  /\ UNCHANGED <<clientVars, place, line, server, idle, stranded>>

CopyNext == \/ ChangeTone \/ Rearm \/ Fire
            \/ Signal \/ DropIdle \/ Drained \/ ForceExit \/ Restart \/ Second
            \/ \E s \in Asking : \/ TapSnooze(s) \/ SnoozeWritten(s)
                               \/ Connect(s) \/ Refuse(s) \/ Answer(s)
                               \/ GiveUp(s) \/ Fail(s)

CopySpec == CopyInit /\ [][CopyNext]_copyVars

-----------------------------------------------------------------------------
(***************************************************************************)
(* "Drain in-flight requests ... instead of dropping them mid-response"    *)
(* (nag-ai index.ts:32-44): a request that the service let in before it    *)
(* was told to stop is answered, or its client has stopped waiting, before *)
(* the service exits by force.  One that it lets in after that, on a       *)
(* connection kept alive, may be cut off with its client still waiting.    *)
(***************************************************************************)
NoWaiterCutOff == ~stranded

(***************************************************************************)
(* "Never milder than the last" (copy.ts:228-230): however late the        *)
(* answers to earlier snoozes come, and whichever of them fail, a line of  *)
(* the ladder is what the ladder has at its place in the burst, under the  *)
(* tone that the latest snooze read or one set since.  One milder than the *)
(* line before it comes only when the burst begins again (it was planned   *)
(* anew, snoozed, or its first nag was replaced) or the tone was changed.  *)
(***************************************************************************)
ToneNeverSoftens ==
  [][line' # Rewritten =>
       /\ \E t \in voices' : line' = Ladder(snoozes', place', t)
       /\ line # Rewritten /\ Milder(line', line) =>
            place' < place \/ voices \union voices' # {tone}]_copyVars
=============================================================================
