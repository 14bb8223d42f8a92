------------------------------ MODULE TaskStore ------------------------------
(***************************************************************************)
(* One task in the phone's store (apps/mobile/src/db/database.ts) and the  *)
(* calls that taps, the notification's buttons and the edit sheet of       *)
(* apps/mobile/App.tsx start on it.  A call reads the row, awaits, and     *)
(* then updates some of its columns from what it read; nothing keeps two   *)
(* calls, or a call and a sync that replaces the row, from overlapping.    *)
(*                                                                         *)
(* `repeats' stands for repeatRule, and for the heads-up and the rounds,   *)
(* which the sheet clears with it; `notes' is the checklist, by the lines  *)
(* that are ticked.                                                        *)
(***************************************************************************)
EXTENDS Integers, FiniteSets

CONSTANTS
  Slot,       \* calls that may be under way at once
  Lines,      \* lines of the checklist
  Others,     \* what other devices may have made of the task
  Undated,    \* fire_at IS NULL
  None,
  Now, LastDate,                     \* the time, and a bound on fire times
  SnoozeFor, Period, Deltas,
  MaxCalls, MaxSyncs, MaxSnoozes,    \* bounds
  MaxChanges                         \* fields changed in one opening of the sheet

Dates == 0 .. LastDate

Row == [fire : Dates \union {Undated}, repeats : BOOLEAN, notes : SUBSET Lines,
        snoozes : 0 .. MaxSnoozes, done : BOOLEAN, paused : BOOLEAN,
        deleted : BOOLEAN]

\* What the edit sheet shows and saves.
Draft == [fire : Dates \union {Undated}, repeats : BOOLEAN, notes : SUBSET Lines]

\* A task without a date has nothing that needs one.
Bare(r) == r.fire = Undated => ~r.repeats

ASSUME StoreAssumption ==
  /\ LastDate \in Nat /\ Now \in Dates /\ Undated \notin Int
  /\ SnoozeFor \in Nat /\ Now + SnoozeFor \in Dates
  /\ Period \in Nat /\ Deltas \subseteq Int
  /\ MaxCalls \in Nat /\ MaxSyncs \in Nat /\ MaxSnoozes \in Nat
  /\ MaxChanges \in Nat
  /\ Others \subseteq Row
  /\ None \notin Row

VARIABLES
  row,
  shown,      \* the row as the list last loaded it, None if it is not listed
  sheet,      \* the edit sheet: its draft and the fields the user changed
  call,       \* per slot, the call under way
  calls, syncs

storeVars == <<row, shown, sheet, call, calls, syncs>>

Ops == {"complete", "reopen", "snooze", "delete", "pause", "adjust", "save",
        "toggle"}

StoreTypeOK ==
  /\ row \in Row
  /\ shown \in Row \union {None}
  /\ sheet = None \/ sheet.draft \in Draft
  /\ DOMAIN call = Slot
  /\ \A s \in Slot : call[s] # None =>
       call[s] \in [op : Ops, at : {"peek", "read", "write"}, seen : Row,
                   arg : {call[s].arg}]
  /\ calls \in 0 .. MaxCalls /\ syncs \in 0 .. MaxSyncs

\* listTasks leaves deleted rows out.
Listed(r) == IF r.deleted THEN None ELSE r

\* createTask as the composer calls it.
Created(fire) == [fire |-> fire, repeats |-> FALSE, notes |-> {}, snoozes |-> 0,
                  done |-> FALSE, paused |-> FALSE, deleted |-> FALSE]

StoreInit ==
  /\ row \in Others \union {Created(f) : f \in {Undated, LastDate}}
  /\ shown = Listed(row)
  /\ sheet = None
  /\ call = [s \in Slot |-> None]
  /\ calls = 0 /\ syncs = 0

-----------------------------------------------------------------------------
(* Calls begin.                                                            *)

\* deleteTask and reopenTask only write; a toggle reads the notes first.
Start(s, op, arg) ==
  /\ call[s] = None /\ calls < MaxCalls
  /\ calls' = calls + 1
  /\ call' = [call EXCEPT ![s] =
                [op |-> op, arg |-> arg, seen |-> row,
                 at |-> CASE op = "toggle" -> "peek"
                          [] op \in {"delete", "reopen"} -> "write"
                          [] OTHER -> "read"]]
  /\ UNCHANGED <<row, shown, syncs>>

\* The card shows other buttons for a done task than for an open one.  The
\* list's "Mark all done" and "Trim list" start the same calls one by one.
Tap(s) ==
  /\ shown # None
  /\ \/ \/ Start(s, "delete", None)
        \/ \E line \in Lines : Start(s, "toggle", line)
        \/ shown.done /\ Start(s, "reopen", None)
        \/ /\ ~shown.done
           /\ \/ Start(s, "complete", None)
              \/ Start(s, "snooze", None)
              \/ Start(s, "pause", ~shown.paused)
              \/ \E d \in Deltas : Start(s, "adjust", d)
  /\ UNCHANGED sheet

\* The notification's Done and Snooze know nothing of the list.
NotificationAction(s) ==
  /\ Start(s, "complete", None) \/ Start(s, "snooze", None)
  /\ UNCHANGED sheet

\* A sheet opens while there is a call left to save it with: a bound.
OpenSheet ==
  /\ calls < MaxCalls
  /\ sheet = None /\ shown # None /\ ~shown.done
  /\ sheet' = [draft |-> [fire |-> shown.fire, repeats |-> shown.repeats,
                          notes |-> shown.notes],
               touched |-> {}]
  /\ UNCHANGED <<row, shown, call, calls, syncs>>

\* The user changes one field of the draft, each at most once here.
Change ==
  /\ calls < MaxCalls
  /\ sheet # None /\ Cardinality(sheet.touched) < MaxChanges
  /\ \E f \in {"fire", "repeats", "notes"} \ sheet.touched, to \in Draft :
       /\ to # sheet.draft
       /\ \A g \in DOMAIN to \ {f} : to[g] = sheet.draft[g]
       /\ sheet' = [draft |-> to, touched |-> sheet.touched \union {f}]
  /\ UNCHANGED <<row, shown, call, calls, syncs>>

\* Faulty variant of Patch: what needs a date outlives it.
PatchKeeping(draft) == draft

\* What Save hands over: every field, and nothing that needs a date without one.
Patch(draft) == [draft EXCEPT !.repeats = @ /\ draft.fire # Undated]

Save(s) ==
  /\ sheet # None
  /\ Start(s, "save", [draft |-> Patch(sheet.draft), touched |-> sheet.touched])
  /\ sheet' = None

Cancel ==
  /\ sheet # None /\ sheet' = None
  /\ UNCHANGED <<row, shown, call, calls, syncs>>

-----------------------------------------------------------------------------
(* Calls read and write.                                                   *)

\* handleToggleChecklistItem's own getTask: the new notes are computed here.
Peek(s) ==
  /\ call[s] # None /\ call[s].at = "peek"
  /\ LET ticked == row.notes
         line == call[s].arg
     IN call' = [call EXCEPT ![s].at = "read",
                             ![s].arg = (ticked \ {line}) \union ({line} \ ticked)]
  /\ UNCHANGED <<row, shown, sheet, calls, syncs>>

\* A finished task is not snoozed, paused or moved, a deleted one not edited.
Refused(op) ==
  \/ row.deleted /\ op \in {"snooze", "pause", "adjust", "save", "toggle"}
  \/ row.done /\ op \in {"snooze", "pause", "adjust"}

\* getTask, and the early returns after it.
Read(s) ==
  /\ call[s] # None /\ call[s].at = "read"
  /\ IF Refused(call[s].op)
     THEN call' = [call EXCEPT ![s] = None]
     ELSE call' = [call EXCEPT ![s].at = "write", ![s].seen = row]
  /\ UNCHANGED <<row, shown, sheet, calls, syncs>>

LaterOf(a, b) == IF a >= b THEN a ELSE b

\* Faulty variant of Shifted: a step back may lead into the past.
ShiftedFreely(fire, delta) ==
  LET current == IF fire = Undated THEN Now ELSE fire
  IN (IF delta >= 0 THEN LaterOf(current, Now) ELSE current) + delta

\* shiftFireAt.
Shifted(fire, delta) ==
  LET current == IF fire = Undated THEN Now ELSE fire
      base == IF delta >= 0 THEN LaterOf(current, Now) ELSE current
  IN LaterOf(base + delta, Now)

\* Row r with the columns that call c sets, computed from the row it saw.
Changed(r, c) ==
  CASE c.op = "complete" ->
         IF c.seen.repeats /\ c.seen.fire # Undated
         THEN [r EXCEPT !.fire = c.seen.fire + Period, !.snoozes = 0]
         ELSE [r EXCEPT !.done = TRUE]
    [] c.op = "reopen" -> [r EXCEPT !.done = FALSE]
    [] c.op = "snooze" -> [r EXCEPT !.fire = Now + SnoozeFor,
                                    !.snoozes = c.seen.snoozes + 1]
    [] c.op = "delete" -> [r EXCEPT !.deleted = TRUE]
    [] c.op = "pause"  -> [r EXCEPT !.paused = c.arg]
    [] c.op = "adjust" -> [r EXCEPT !.fire = Shifted(c.seen.fire, c.arg)]
    [] c.op = "save"   -> [r EXCEPT !.fire = c.arg.draft.fire,
                                    !.repeats = c.arg.draft.repeats,
                                    !.notes = c.arg.draft.notes]
    [] c.op = "toggle" -> [r EXCEPT !.fire = c.seen.fire,
                                    !.repeats = c.seen.repeats,
                                    !.notes = c.arg]

\* Faulty variant of Updated: the whole row is written back as it was read.
UpdatedWhole(c) == Changed(c.seen, c)

\* UPDATE tasks SET ... WHERE id = ?
Updated(c) == Changed(row, c)

InBounds(r) == /\ r.fire # Undated => r.fire <= LastDate
               /\ r.snoozes <= MaxSnoozes

Write(s) ==
  /\ call[s] # None /\ call[s].at = "write"
  /\ InBounds(Updated(call[s]))
  /\ row' = Updated(call[s])
  /\ call' = [call EXCEPT ![s] = None]
  /\ UNCHANGED <<shown, sheet, calls, syncs>>

-----------------------------------------------------------------------------
(* Everyone else.                                                          *)

\* localTaskStore.upsertMany: the row of another device replaces this one.
Upsert ==
  /\ syncs < MaxSyncs /\ syncs' = syncs + 1
  /\ row' \in Others
  /\ UNCHANGED <<shown, sheet, call, calls>>

\* syncFromDb; the sheet of a task that is no longer listed closes.
Reload ==
  /\ shown' = Listed(row)
  /\ sheet' = IF row.deleted THEN None ELSE sheet
  /\ UNCHANGED <<row, call, calls, syncs>>

\* The app ends, and with it what has not been written; the next one loads.
AppEnds ==
  /\ shown' = Listed(row) /\ sheet' = None
  /\ call' = [s \in Slot |-> None]
  /\ UNCHANGED <<row, calls, syncs>>

StoreNext ==
  \/ OpenSheet \/ Change \/ Cancel \/ Upsert \/ Reload \/ AppEnds
  \/ \E s \in Slot : \/ Tap(s) \/ NotificationAction(s) \/ Save(s)
                     \/ Peek(s) \/ Read(s) \/ Write(s)

StoreSpec == StoreInit /\ [][StoreNext]_storeVars

-----------------------------------------------------------------------------

Writing(op) == \E s \in Slot : call[s] # None /\ call[s].op = op /\ Write(s)

\* The ticking of a line writes date and repeat as it has read them.
PutsBack(s) == /\ call[s] # None /\ call[s].op = "toggle" /\ Write(s)
               /\ ~Bare(call[s].seen)

(***************************************************************************)
(* No call that is still under way when a task is finished brings it back: *)
(* a deletion is undone only by another device, a completion only by that  *)
(* or by reopening, a pause by those who pause (database.ts:361-626).      *)
(***************************************************************************)
NoResurrection ==
  [][/\ row.deleted /\ ~row'.deleted => Upsert
     /\ row.done /\ ~row'.done => Upsert \/ Writing("reopen")
     /\ row.paused /\ ~row'.paused => Upsert \/ Writing("pause")]_storeVars

(***************************************************************************)
(* However calls overlap, none leaves a task without a date with a repeat, *)
(* heads-up or rounds that it did not have (App.tsx:1284-1296): whoever    *)
(* writes one column writes both.  Such rows come from other devices, as   *)
(* the web saves them when a date field is emptied (web App.tsx:1057-1083, *)
(* database.ts:316-341); and the ticking of a line that has read one puts  *)
(* it back.                                                                *)
(***************************************************************************)
UndatedIsBare ==
  [][Bare(row) /\ ~Bare(row') => Upsert \/ \E s \in Slot : PutsBack(s)]_storeVars

(***************************************************************************)
(* What database.ts:427-431 says of the sheet's save: it "applies          *)
(* whichever fields changed".                                              *)
(***************************************************************************)
SaveKeepsTheRest ==
  [][\A s \in Slot :
       call[s] # None /\ call[s].op = "save" /\ Write(s) =>
         \A f \in {"fire", "notes"} \ call[s].arg.touched : row'[f] = row[f]
    ]_storeVars
=============================================================================
