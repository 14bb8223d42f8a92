------------------------------ MODULE TaskSync ------------------------------
(***************************************************************************)
(* Task sync between the on-device stores and the Supabase mirror:         *)
(* syncTasks and reconcileTasks (packages/core/src/sync.ts), driven by the *)
(* coalesced runner of each app instance, against edits made meanwhile.    *)
(*                                                                         *)
(* A client is one running app: the phone app or one browser tab.  Tabs    *)
(* share the store of their origin (localStorage); a phone has its own     *)
(* SQLite file.  An action is the code between two awaits.                 *)
(*                                                                         *)
(* A row is reduced to what the engine looks at, its updatedAt, and the    *)
(* number of the edit that wrote it, which stands for its content.  A soft *)
(* delete or a completion is an edit like any other.  A row that is absent *)
(* is NoRow, whose timestamp lies before every real one; with it the four  *)
(* branches of reconcileTasks are the single comparison Newer.             *)
(***************************************************************************)
EXTENDS Naturals

CONSTANTS
  Client,           \* running app instances
  Store,            \* on-device stores
  StoreOf,          \* the store a client reads and writes
  Web,              \* the clients whose store is the synchronous localStorage
  Task,             \* task ids
  Skew,             \* how far each device's clock runs ahead
  SameMillisecond,  \* may two edits carry one timestamp?
  MaxEdits,         \* bound on edits
  MaxFaults         \* bound on failed requests and crashes

ASSUME ClientAssumption == /\ StoreOf \in [Client -> Store]
                           /\ Web \subseteq Client
ASSUME ClockAssumption == /\ Skew \in [Store -> Nat]
                          /\ SameMillisecond \in BOOLEAN
ASSUME BoundAssumption == MaxEdits \in Nat /\ MaxFaults \in Nat

VARIABLES
  local,        \* the rows of each on-device store
  remote,       \* the rows of the mirror
  pc,           \* where the pass in flight of a client stands; "idle" without one
  queued,       \* the client's runner has a trailing pass to run
  owed,         \* a mutation of this client has yet to call backgroundSync
  unread,       \* the snapshots the pass is still waiting for
  seenLocal,    \* localTasks of the pass
  seenRemote,   \* remoteTasks of the pass
  pushing,      \* rows of the upsert request under way to the mirror
  applying,     \* rows the pass has still to write to the local store
  leftover,     \* the same, of passes that have already been given up
  late,         \* upsert requests given up by their client, not by the network
  now,          \* wall-clock time, in the milliseconds edits are stamped with
  last,         \* history: the latest row each store's user wrote
  raced,        \* history: those of them made in a pass's window
  edits,        \* number of edits so far
  faults        \* number of faults so far

passVars == <<unread, seenLocal, seenRemote, pushing, applying>>
histVars == <<now, last, raced, edits>>
vars == <<local, remote, pc, queued, owed, passVars, leftover, late, histVars,
          faults>>

-----------------------------------------------------------------------------
Row == [at : Nat, rev : Nat]
NoRow == [at |-> 0, rev |-> 0]
Rows == [Task -> Row]
Nothing == [t \in Task |-> NoRow]

Newer(a, b) == a.at > b.at

\* Faulty variant: presence and difference decide instead of age.
PlanWithoutAge(mine, theirs) ==
  [t \in Task |-> IF mine[t] # theirs[t] THEN mine[t] ELSE NoRow]

\* reconcileTasks, one direction: the rows of mine that theirs should accept.
Plan(mine, theirs) ==
  [t \in Task |-> IF Newer(mine[t], theirs[t]) THEN mine[t] ELSE NoRow]

\* Faulty variant: rows are only inserted, never replaced.
UpsertInsertOnly(plan, table) ==
  [t \in Task |-> IF table[t] = NoRow THEN plan[t] ELSE table[t]]

\* upsertMany: every planned row replaces the stored one, whatever it holds.
Upsert(plan, table) ==
  [t \in Task |-> IF plan[t] = NoRow THEN table[t] ELSE plan[t]]

Phase == {"idle", "session", "reading", "writing", "settled"}
Side == {"local", "remote"}

TypeOK ==
  /\ local \in [Store -> Rows]
  /\ remote \in Rows
  /\ pc \in [Client -> Phase]
  /\ queued \in [Client -> BOOLEAN]
  /\ owed \in [Client -> BOOLEAN]
  /\ unread \in [Client -> SUBSET Side]
  /\ seenLocal \in [Client -> Rows]
  /\ seenRemote \in [Client -> Rows]
  /\ pushing \in [Client -> Rows]
  /\ applying \in [Client -> Rows]
  /\ leftover \in [Client -> SUBSET (Task \X Row)]
  /\ late \in SUBSET Rows
  /\ now \in Nat
  /\ last \in [Store -> Rows]
  /\ raced \in SUBSET (Store \X Task)
  /\ edits \in Nat
  /\ faults \in Nat

Init ==
  /\ local = [s \in Store |-> Nothing]
  /\ remote = Nothing
  /\ pc = [c \in Client |-> "idle"]
  /\ queued = [c \in Client |-> FALSE]
  /\ owed = [c \in Client |-> FALSE]
  /\ unread = [c \in Client |-> {}]
  /\ seenLocal = [c \in Client |-> Nothing]
  /\ seenRemote = [c \in Client |-> Nothing]
  /\ pushing = [c \in Client |-> Nothing]
  /\ applying = [c \in Client |-> Nothing]
  /\ leftover = [c \in Client |-> {}]
  /\ late = {}
  /\ now = 1
  /\ last = [s \in Store |-> Nothing]
  /\ raced = {}
  /\ edits = 0
  /\ faults = 0

-----------------------------------------------------------------------------
(* The user.                                                               *)

\* The client holds a snapshot of its store that it has yet to act on, or
\* rows computed from one.
HoldsSnapshot(c) == \/ pc[c] = "reading" /\ "local" \notin unread[c]
                    \/ applying[c] # Nothing
                    \/ leftover[c] # {}

InWindow(s) == \E c \in Client : StoreOf[c] = s /\ HoldsSnapshot(c)

\* createTask mints a fresh id; every other mutation needs the row in the store.
MayWrite(s, t) == local[s][t] # NoRow \/ \A o \in Store : last[o][t] = NoRow

(***************************************************************************)
(* A mutation of the task: the database call of runMutation.  It bumps     *)
(* updatedAt to the device's clock, and still owes the call of             *)
(* backgroundSync that follows the refresh of the view.                    *)
(***************************************************************************)
Edit(c, t) ==
  LET s == StoreOf[c]
      row == [at |-> now + Skew[s], rev |-> edits + 1]
  IN /\ edits < MaxEdits
     /\ MayWrite(s, t)
     /\ local' = [local EXCEPT ![s][t] = row]
     /\ last' = [last EXCEPT ![s][t] = row]
     /\ raced' = IF InWindow(s) THEN raced \union {<<s, t>>}
                 ELSE raced \ {<<s, t>>}
     /\ edits' = edits + 1
     /\ now' \in (IF SameMillisecond THEN {now, now + 1} ELSE {now + 1})
     /\ owed' = [owed EXCEPT ![c] = TRUE]
     /\ UNCHANGED <<remote, pc, queued, passVars, leftover, late, faults>>

\* Faulty variant: a trigger that finds a pass in flight is dropped.
CallRunSyncDropping(c) ==
  /\ pc' = [pc EXCEPT ![c] = IF @ = "idle" THEN "session" ELSE @]
  /\ UNCHANGED <<local, remote, queued, passVars, leftover, late, histVars,
                 faults>>

(***************************************************************************)
(* runSync(): the coalesced runner starts a pass, or notes that a trailing *)
(* one is needed.                                                          *)
(***************************************************************************)
CallRunSync(c) ==
  /\ IF pc[c] = "idle"
     THEN pc' = [pc EXCEPT ![c] = "session"] /\ UNCHANGED queued
     ELSE queued' = [queued EXCEPT ![c] = TRUE] /\ UNCHANGED pc
  /\ UNCHANGED <<local, remote, passVars, leftover, late, histVars, faults>>

\* The end of runMutation.
SyncAfterEdit(c) ==
  /\ owed[c]
  /\ owed' = [owed EXCEPT ![c] = FALSE]
  /\ CallRunSync(c)

\* The app is launched or brought to the foreground, the tab becomes visible,
\* or the list is pulled to refresh.
Foreground(c) ==
  /\ CallRunSync(c)
  /\ UNCHANGED owed

-----------------------------------------------------------------------------
(* One pass.                                                               *)

(***************************************************************************)
(* ensureAnonSession has a session, and syncTasks starts both reads.  On   *)
(* the web listAllForSync has no await: its snapshot is taken right here.  *)
(***************************************************************************)
SessionReady(c) ==
  /\ pc[c] = "session"
  /\ pc' = [pc EXCEPT ![c] = "reading"]
  /\ IF c \in Web
     THEN /\ unread' = [unread EXCEPT ![c] = {"remote"}]
          /\ seenLocal' = [seenLocal EXCEPT ![c] = local[StoreOf[c]]]
     ELSE /\ unread' = [unread EXCEPT ![c] = Side]
          /\ UNCHANGED seenLocal
  /\ UNCHANGED <<local, remote, queued, owed, seenRemote, pushing, applying,
                 leftover, late, histVars, faults>>

ReadLocal(c) ==
  /\ pc[c] = "reading"
  /\ "local" \in unread[c]
  /\ unread' = [unread EXCEPT ![c] = @ \ {"local"}]
  /\ seenLocal' = [seenLocal EXCEPT ![c] = local[StoreOf[c]]]
  /\ UNCHANGED <<local, remote, pc, queued, owed, seenRemote, pushing, applying,
                 leftover, late, histVars, faults>>

ReadRemote(c) ==
  /\ pc[c] = "reading"
  /\ "remote" \in unread[c]
  /\ unread' = [unread EXCEPT ![c] = @ \ {"remote"}]
  /\ seenRemote' = [seenRemote EXCEPT ![c] = remote]
  /\ UNCHANGED <<local, remote, pc, queued, owed, seenLocal, pushing, applying,
                 leftover, late, histVars, faults>>

(***************************************************************************)
(* Both snapshots are in: the plan is made and both upserts are started.   *)
(* On the web the local one is finished before the next job; on the phone  *)
(* it is a statement per row, each awaited.                                *)
(***************************************************************************)
Reconcile(c) ==
  LET s == StoreOf[c]
      up == Plan(seenLocal[c], seenRemote[c])
      down == Plan(seenRemote[c], seenLocal[c])
  IN /\ pc[c] = "reading"
     /\ unread[c] = {}
     /\ pc' = [pc EXCEPT ![c] = "writing"]
     /\ pushing' = [pushing EXCEPT ![c] = up]
     /\ IF c \in Web
        THEN /\ local' = [local EXCEPT ![s] = Upsert(down, @)]
             /\ UNCHANGED applying
        ELSE /\ applying' = [applying EXCEPT ![c] = down]
             /\ UNCHANGED local
     /\ seenLocal' = [seenLocal EXCEPT ![c] = Nothing]
     /\ seenRemote' = [seenRemote EXCEPT ![c] = Nothing]
     /\ UNCHANGED <<remote, queued, owed, unread, leftover, late, histVars,
                    faults>>

ApplyRow(c, t) ==
  /\ applying[c][t] # NoRow
  /\ local' = [local EXCEPT ![StoreOf[c]][t] = applying[c][t]]
  /\ applying' = [applying EXCEPT ![c][t] = NoRow]
  /\ UNCHANGED <<remote, pc, queued, owed, unread, seenLocal, seenRemote,
                 pushing, leftover, late, histVars, faults>>

PushLands(c) ==
  /\ pushing[c] # Nothing
  /\ remote' = Upsert(pushing[c], remote)
  /\ pushing' = [pushing EXCEPT ![c] = Nothing]
  /\ UNCHANGED <<local, pc, queued, owed, unread, seenLocal, seenRemote,
                 applying, leftover, late, histVars, faults>>

\* Promise.all of the two upserts has resolved.
PassSucceeds(c) ==
  /\ pc[c] = "writing"
  /\ pushing[c] = Nothing
  /\ applying[c] = Nothing
  /\ pc' = [pc EXCEPT ![c] = "settled"]
  /\ UNCHANGED <<local, remote, queued, owed, passVars, leftover, late, histVars,
                 faults>>

\* Faulty variant: the promise of the finished chain stays in inFlight.
RunnerCallbackStale(c) ==
  /\ pc[c] = "settled"
  /\ pc' = [pc EXCEPT ![c] = IF queued[c] THEN "session" ELSE "done"]
  /\ queued' = [queued EXCEPT ![c] = FALSE]
  /\ UNCHANGED <<local, remote, owed, passVars, leftover, late, histVars, faults>>

\* The runner's callback: run the trailing pass, or go idle.
RunnerCallback(c) ==
  /\ pc[c] = "settled"
  /\ pc' = [pc EXCEPT ![c] = IF queued[c] THEN "session" ELSE "idle"]
  /\ queued' = [queued EXCEPT ![c] = FALSE]
  /\ UNCHANGED <<local, remote, owed, passVars, leftover, late, histVars, faults>>

-----------------------------------------------------------------------------
(* Failures.                                                               *)

Fault == faults < MaxFaults /\ faults' = faults + 1

\* Signing in or one of the two reads is rejected, and with it the pass.
ReadFails(c) ==
  /\ Fault
  /\ \/ pc[c] = "session"
     \/ pc[c] = "reading" /\ unread[c] # {}
  /\ pc' = [pc EXCEPT ![c] = "settled"]
  /\ unread' = [unread EXCEPT ![c] = {}]
  /\ seenLocal' = [seenLocal EXCEPT ![c] = Nothing]
  /\ seenRemote' = [seenRemote EXCEPT ![c] = Nothing]
  /\ UNCHANGED <<local, remote, queued, owed, pushing, applying, leftover,
                 late, histVars>>

Pairs(plan) == {<<t, plan[t]>> : t \in {u \in Task : plan[u] # NoRow}}

(***************************************************************************)
(* The push is rejected, which rejects Promise.all at once; the local      *)
(* upsert goes on.  The request itself may be gone, or may still reach the *)
(* mirror after the client has stopped waiting.                            *)
(***************************************************************************)
PushFails(c) ==
  /\ Fault
  /\ pushing[c] # Nothing
  /\ late' \in {late, late \union {pushing[c]}}
  /\ pushing' = [pushing EXCEPT ![c] = Nothing]
  /\ leftover' = [leftover EXCEPT ![c] = @ \union Pairs(applying[c])]
  /\ applying' = [applying EXCEPT ![c] = Nothing]
  /\ pc' = [pc EXCEPT ![c] = "settled"]
  /\ UNCHANGED <<local, remote, queued, owed, unread, seenLocal, seenRemote,
                 histVars>>

\* A statement of the local upsert is rejected: its loop stops, the pass is
\* given up, and a push under way is nobody's any more.
ApplyFails(c) ==
  /\ Fault
  /\ applying[c] # Nothing
  /\ applying' = [applying EXCEPT ![c] = Nothing]
  /\ late' = IF pushing[c] = Nothing THEN late ELSE late \union {pushing[c]}
  /\ pushing' = [pushing EXCEPT ![c] = Nothing]
  /\ pc' = [pc EXCEPT ![c] = "settled"]
  /\ UNCHANGED <<local, remote, queued, owed, unread, seenLocal, seenRemote,
                 leftover, histVars>>

\* The local upsert of a pass already given up writes another of its rows.
LeftoverRow(c, t, row) ==
  /\ <<t, row>> \in leftover[c]
  /\ local' = [local EXCEPT ![StoreOf[c]][t] = row]
  /\ leftover' = [leftover EXCEPT ![c] = @ \ {<<t, row>>}]
  /\ UNCHANGED <<remote, pc, queued, owed, passVars, late, histVars, faults>>

LatePushLands(plan) ==
  /\ plan \in late
  /\ remote' = Upsert(plan, remote)
  /\ late' = late \ {plan}
  /\ UNCHANGED <<local, pc, queued, owed, passVars, leftover, histVars, faults>>

(***************************************************************************)
(* The app is killed or the tab closed, at any point of a pass.  The store *)
(* stays as it is, and a request already sent may still arrive.            *)
(***************************************************************************)
Crash(c) ==
  /\ Fault
  /\ pc' = [pc EXCEPT ![c] = "idle"]
  /\ queued' = [queued EXCEPT ![c] = FALSE]
  /\ owed' = [owed EXCEPT ![c] = FALSE]
  /\ late' \in {late} \union (IF pushing[c] = Nothing THEN {}
                              ELSE {late \union {pushing[c]}})
  /\ unread' = [unread EXCEPT ![c] = {}]
  /\ seenLocal' = [seenLocal EXCEPT ![c] = Nothing]
  /\ seenRemote' = [seenRemote EXCEPT ![c] = Nothing]
  /\ pushing' = [pushing EXCEPT ![c] = Nothing]
  /\ applying' = [applying EXCEPT ![c] = Nothing]
  /\ leftover' = [leftover EXCEPT ![c] = {}]
  /\ UNCHANGED <<local, remote, histVars>>

-----------------------------------------------------------------------------
PassStep(c) == \/ SessionReady(c) \/ ReadLocal(c) \/ ReadRemote(c)
               \/ Reconcile(c) \/ PushLands(c) \/ PassSucceeds(c)
               \/ RunnerCallback(c)
               \/ \E t \in Task : ApplyRow(c, t)

LeftoverStep(c) == \E p \in leftover[c] : LeftoverRow(c, p[1], p[2])

FaultStep(c) == ReadFails(c) \/ PushFails(c) \/ ApplyFails(c) \/ Crash(c)

Next == \/ \E c \in Client : \/ \E t \in Task : Edit(c, t)
                             \/ SyncAfterEdit(c)
                             \/ Foreground(c)
                             \/ PassStep(c)
                             \/ LeftoverStep(c)
                             \/ FaultStep(c)
        \/ \E plan \in late : LatePushLands(plan)

Spec == Init /\ [][Next]_vars

(***************************************************************************)
(* The event loop runs every ready job, and a request is answered or fails.*)
(* A client that owes a call of backgroundSync makes it.  Nothing forces a *)
(* user to come back to an app: FairSpec is what the devices do alone, and *)
(* Foregrounded says that every app is opened again and again.             *)
(***************************************************************************)
Progress == /\ \A c \in Client : /\ WF_vars(PassStep(c))
                                 /\ WF_vars(\E t \in Task : ApplyRow(c, t))
                                 /\ WF_vars(PushLands(c))
                                 /\ WF_vars(LeftoverStep(c))
                                 /\ WF_vars(SyncAfterEdit(c))
            /\ WF_vars(\E plan \in late : LatePushLands(plan))

FairSpec == Spec /\ Progress

Foregrounded == \A c \in Client : WF_vars(Foreground(c))

-----------------------------------------------------------------------------
\* The latest edit of the task at store s is not older than any other.
Newest(s, t) == /\ last[s][t] # NoRow
                /\ \A o \in Store : ~Newer(last[o][t], last[s][t])

\* The latest edit of the task at store s came between a pass's snapshot of
\* the store and the last of the pass's writes there.
Raced(s, t) == <<s, t>> \in raced

\* Edits made outside such windows survive: whatever passes, tabs, failures,
\* late requests and crashes do, the device that made the newest edit of a
\* task still has it (reconcileTasks never moves an older row over a newer).
NewestEditKept ==
  \A s \in Store, t \in Task :
    Newest(s, t) /\ ~Raced(s, t) => local[s][t] = last[s][t]

\* "Bumps updatedAt so the edit wins last-write-wins sync" (updateTask), which
\* excepts no moment an edit may be made at.
EditWins ==
  \A s \in Store, t \in Task : Newest(s, t) => local[s][t] = last[s][t]

\* All replicas hold the same rows.
InSync == \A s \in Store : local[s] = remote

\* Once edits and failures stop and every app is opened again and again, the
\* replicas become equal and stay so, also when passes raced with edits; and
\* what they agree on is the newest edit, unless that one was raced.
NewestEverywhere ==
  Foregrounded =>
    <>[](/\ InSync
         /\ \A s \in Store, t \in Task :
              Newest(s, t) /\ ~Raced(s, t) => remote[t] = last[s][t])

\* A newest edit reaches the mirror without anybody opening an app again: the
\* pass its own mutation triggers, or the trailing one, carries it there.
EditReachesMirror ==
  \A c \in Client, t \in Task :
    LET s == StoreOf[c]
        reached == \/ remote[t] = last[s][t]
                   \/ ~Newest(s, t) \/ Raced(s, t) \/ faults > 0
    IN (owed[c] /\ Newest(s, t)) ~> reached

-----------------------------------------------------------------------------
(***************************************************************************)
(* Why NewestEditKept holds.                                               *)
(* Every row anywhere is at most as new as some user's latest edit, so no  *)
(* plan made after the newest edit of a task can hold a row that replaces  *)
(* it; and plans made before it are gone, or the edit was in a window.     *)
(***************************************************************************)
ClocksAhead == \A s \in Store, t \in Task : last[s][t].at <= now + Skew[s]

Known(row, t) == row.at > 0 => \E o \in Store : row.at <= last[o][t].at

AllKnown(rows) == \A t \in Task : Known(rows[t], t)

RowsKnown ==
  /\ \A s \in Store : AllKnown(local[s])
  /\ AllKnown(remote)
  /\ \A c \in Client : /\ AllKnown(seenLocal[c])
                       /\ AllKnown(seenRemote[c])
                       /\ AllKnown(pushing[c])
                       /\ AllKnown(applying[c])
                       /\ \A p \in leftover[c] : Known(p[2], p[1])
  /\ \A plan \in late : AllKnown(plan)

\* No pass of the client is about to replace the row of task t at its store.
NothingPending(c, t, row) ==
  /\ applying[c][t] = NoRow
  /\ \A p \in leftover[c] : p[1] # t
  /\ (pc[c] = "reading" /\ "local" \notin unread[c]) => seenLocal[c][t] = row

Kept ==
  \A s \in Store, t \in Task :
    Newest(s, t) /\ ~Raced(s, t) =>
      /\ local[s][t] = last[s][t]
      /\ \A c \in Client :
           StoreOf[c] = s => NothingPending(c, t, last[s][t])

IInv == TypeOK /\ ClocksAhead /\ RowsKnown /\ Kept

=============================================================================
