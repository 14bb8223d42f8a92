--------------------------- MODULE ComponentProofs ---------------------------
(***************************************************************************)
(* Proofs about the components that share no state in the models, in this  *)
(* order: the phone's store as it opens and as its calls interleave, the   *)
(* rewrites of copy, the phone's settings, the edit sheet, the calendar,   *)
(* and the recovery code and snapshot as text.  What they need of the      *)
(* planner's recursive functions is proved in NagPlanProofs.               *)
(***************************************************************************)
EXTENDS StoreBoot, TaskStore, CopyService, AppSettings, Editor, Calendar,
        Codec, NagPlanProofs

-----------------------------------------------------------------------------
(* The phone's store opens, on whatever a release has left (StoreBoot).    *)

\* The rebuild's own bookkeeping, wherever the app is killed.
Copying ==
  /\ table.there \/ table = NoTable
  /\ spare.there \/ spare = NoTable
  /\ table.strict => table.there /\ table.rows = mine
  /\ part \in {1, 2} => table.strict /\ spare.there
  /\ part \in {2, 3} => spare.there /\ spare.rows = mine
  /\ part = 3 => table = NoTable
  /\ progress \in {"off", "create", "version"} => pos = 1
  /\ table.there \/ part = 3 \/ progress \in {"off", "create"}
  /\ part > 0 => /\ progress = "migrating" /\ pos = 2 /\ found < 2
                 /\ ~spare.strict /\ spare.cols = {"snooze_count"}

\* The table as it will be once a rebuild under way is through.
Live == IF part = 3 THEN spare ELSE table

Applied(i) == IF Migrations[i].adds = "rebuild" THEN ~Live.strict
                                               ELSE Migrations[i].adds \in Live.cols

\* What holds as long as no rebuild has been cut short.
Undisturbed ==
  /\ part = 0 => ~spare.there
  /\ Live.rows = mine
  /\ Live.there \/ (version = 0 /\ progress \in {"off", "create"})
  /\ progress # "failed"
  /\ progress = "ready" => version = LatestVersion
  /\ progress = "migrating" => found = version
  /\ \A i \in 1 .. 6 :
       Migrations[i].to <= version \/ (progress = "migrating" /\ i < pos)
         => Applied(i)

BootIInv == /\ BootTypeOK /\ Copying /\ RowsSurvive
            /\ ~cut => Undisturbed

\* The migrations one by one: provers do not evaluate a sequence of records.
LEMMA MigrationFacts ==
  /\ Len(Migrations) = 6 /\ DOMAIN Migrations = 1 .. 6
  /\ Migrations[1].to = 1 /\ Migrations[1].adds = "snooze_count"
  /\ Migrations[2].to = 2 /\ Migrations[2].adds = "rebuild"
  /\ Migrations[3].to = 3 /\ Migrations[3].adds = "lead_time_seconds"
  /\ Migrations[4].to = 4 /\ Migrations[4].adds = "rounds_interval_seconds"
  /\ Migrations[5].to = 4 /\ Migrations[5].adds = "rounds_max_count"
  /\ Migrations[6].to = 4 /\ Migrations[6].adds = "rounds_duration_seconds"
  BY DEF Migrations

LEMMA NoTableIsTable == NoTable \in Table
  BY DEF NoTable, Table

LEMMA CreatedIsTable ==
  ASSUME NEW columns \in SUBSET AddedColumns PROVE TableWith(columns) \in Table
  BY DEF TableWith, Table

LEMMA BootInitHolds == BootInit => BootIInv
  <1> SUFFICES ASSUME BootInit PROVE BootIInv
    OBVIOUS
  <1>0. /\ spare = NoTable /\ progress = "off" /\ found = 0 /\ pos = 1
        /\ part = 0 /\ mine = table.rows /\ kills = 0 /\ cut = FALSE
    BY DEF BootInit
  <1>1. CASE table = NoTable /\ version = 0
    <2>1. BootTypeOK
      <3>1. mine \subseteq Rows /\ kills \in 0 .. MaxKills
        BY <1>0, <1>1, MaxKillsAssumption DEF NoTable
      <3>2. cut \in BOOLEAN
        BY <1>0
      <3> QED
        BY <1>0, <1>1, <3>1, <3>2, NoTableIsTable, MigrationFacts
           DEF BootTypeOK, Progress, LatestVersion
    <2>2. Copying /\ RowsSurvive
      BY <1>0, <1>1 DEF Copying, RowsSurvive, NoTable
    <2>3. Undisturbed
      BY <1>0, <1>1, MigrationFacts DEF Undisturbed, Live, NoTable, LatestVersion
    <2> QED
      BY <2>1, <2>2, <2>3 DEF BootIInv
  <1>2. ASSUME NEW v \in 0 .. LatestVersion, table = Released(v), version = v
        PROVE  BootIInv
    <2>1. /\ table.there = TRUE /\ (table.strict => v < 2) /\ table.rows = Rows
          /\ table.cols \subseteq AddedColumns
      BY <1>2 DEF Released
    <2>2. \A i \in 1 .. 6 : Migrations[i].to <= v => Applied(i)
      <3> SUFFICES ASSUME NEW i \in 1 .. 6, Migrations[i].to <= v
                   PROVE  Applied(i)
        OBVIOUS
      <3>1. CASE Migrations[i].adds = "rebuild"
        <4>1. v >= 2
          BY <3>1, MigrationFacts
        <4>2. ~table.strict
          BY <2>1, <4>1
        <4> QED
          BY <1>0, <3>1, <4>2 DEF Applied, Live
      <3>2. CASE Migrations[i].adds \in AddedColumns
        <4>1. table.cols = {Migrations[j].adds : j \in {k \in 1 .. 6 :
                               Migrations[k].to <= v /\ Migrations[k].adds \in AddedColumns}}
          BY <1>2, MigrationFacts DEF Released
        <4>2. Migrations[i].adds \in table.cols
          BY <3>2, <4>1
        <4>3. Migrations[i].adds # "rebuild"
          BY <3>2 DEF AddedColumns
        <4> QED
          BY <1>0, <4>2, <4>3 DEF Applied, Live
      <3> QED
        BY <3>1, <3>2, MigrationFacts DEF AddedColumns
    <2>3. BootTypeOK
      <3>1. table \in Table
        BY <1>2, <2>1 DEF Released, Table
      <3>2. mine \subseteq Rows /\ kills \in 0 .. MaxKills
        BY <1>0, <2>1, MaxKillsAssumption
      <3>3. cut \in BOOLEAN
        BY <1>0
      <3> QED
        BY <1>0, <1>2, <3>1, <3>2, <3>3, NoTableIsTable, MigrationFacts
           DEF BootTypeOK, Progress, LatestVersion
    <2>4. Copying /\ RowsSurvive
      BY <1>0, <1>2, <2>1 DEF Copying, RowsSurvive
    <2>5. Undisturbed
      BY <1>0, <1>2, <2>1, <2>2 DEF Undisturbed, Live, NoTable
    <2> QED
      BY <2>3, <2>4, <2>5 DEF BootIInv
  <1> QED
    BY <1>1, <1>2 DEF BootInit

LEMMA BootStepHolds == BootIInv /\ [BootNext]_bootVars => BootIInv'
  <1> SUFFICES ASSUME BootIInv, [BootNext]_bootVars PROVE BootIInv'
    OBVIOUS
  <1> USE MaxKillsAssumption, MigrationFacts
        DEF BootIInv, BootTypeOK, Table, NoTable, TableWith, Progress, AddedColumns,
            LatestVersion, At
  <1>1. CASE Launch
    BY <1>1 DEF Launch, Copying, RowsSurvive, Undisturbed, Live, Applied
  <1>2. CASE CreateBase
    BY <1>2 DEF CreateBase, Copying, RowsSurvive, Undisturbed, Live, Applied
  <1>3. CASE ReadVersion
    BY <1>3 DEF ReadVersion, Copying, RowsSurvive, Undisturbed, Live, Applied
  <1>4. CASE SkipApplied
    BY <1>4 DEF SkipApplied, Copying, RowsSurvive, Undisturbed, Live, Applied
  <1>5. CASE AddColumn
    <2> DEFINE c == Migrations[pos].adds
    <2>1. /\ c \in AddedColumns /\ part = 0 /\ pos \in 1 .. 6 /\ pos' = pos + 1
          /\ progress = "migrating"
          /\ UNCHANGED <<spare, version, progress, found, part, mine, kills, cut>>
      BY <1>5 DEF AddColumn, Copying
    <2>2. /\ table'.there = table.there /\ table'.strict = table.strict
          /\ table'.rows = table.rows /\ table'.cols = table.cols \union {c}
      BY <1>5, <2>1 DEF AddColumn
    <2>3. BootTypeOK' /\ RowsSurvive'
      <3>1. table' \in Table
        BY <1>5, <2>1 DEF AddColumn
      <3> HIDE DEF Table
      <3> QED
        BY <2>1, <2>2, <3>1 DEF RowsSurvive
    <2>4. Copying'
      BY <2>1, <2>2 DEF Copying
    <2>5. ~cut => Undisturbed'
      BY <2>1, <2>2 DEF Undisturbed, Live, Applied
    <2> QED
      BY <2>1, <2>3, <2>4, <2>5
  <1>6. CASE RebuildNotNeeded
    BY <1>6 DEF RebuildNotNeeded, Copying, RowsSurvive, Undisturbed, Live, Applied
  <1>7. CASE CreateSpare
    <2>1. pos = 2 /\ found < 2
      BY <1>7 DEF CreateSpare
    <2>2. CASE spare.there
      BY <1>7, <2>1, <2>2 DEF CreateSpare, Copying, RowsSurvive, Undisturbed
    <2>3. CASE ~spare.there
      <3>1. /\ spare'.there = TRUE /\ spare'.strict = FALSE /\ spare'.rows = {}
            /\ spare'.cols = {"snooze_count"} /\ part' = 1
            /\ UNCHANGED <<table, version, progress, found, pos, mine, kills, cut>>
        BY <1>7, <2>3 DEF CreateSpare
      <3>2. BootTypeOK'
        <4>1. spare' \in Table
          <5>1. spare' = TableWith({"snooze_count"})
            BY <1>7, <2>3 DEF CreateSpare
          <5> HIDE DEF TableWith, Table
          <5> QED
            BY <5>1, CreatedIsTable
        <4> HIDE DEF Table
        <4> QED
          BY <3>1, <4>1
      <3>4. Copying' /\ RowsSurvive'
        BY <1>7, <2>1, <3>1 DEF CreateSpare, Copying, RowsSurvive
      <3>3. ~cut => Undisturbed'
        BY <1>7, <3>1 DEF CreateSpare, Undisturbed, Live, Applied
      <3> QED
        BY <3>1, <3>2, <3>3, <3>4
    <2> QED
      BY <2>2, <2>3
  <1>8. CASE CopyRows
    BY <1>8 DEF CopyRows, Copying, RowsSurvive, Undisturbed, Live, Applied
  <1>9. CASE DropTable
    BY <1>9 DEF DropTable, Copying, RowsSurvive, Undisturbed, Live, Applied
  <1>10. CASE RenameSpare
    BY <1>10 DEF RenameSpare, Copying, RowsSurvive, Undisturbed, Live, Applied
  <1>11. CASE StampVersion
    BY <1>11 DEF StampVersion, Copying, RowsSurvive, Undisturbed, Live, Applied
  <1>12. CASE Kill
    BY <1>12 DEF Kill, Copying, RowsSurvive, Undisturbed, Live, Applied
  <1>13. CASE UNCHANGED bootVars
    BY <1>13 DEF bootVars, Copying, RowsSurvive, Undisturbed, Live, Applied
  <1> QED
    BY <1>1, <1>2, <1>3, <1>4, <1>5, <1>6, <1>7, <1>8, <1>9, <1>10, <1>11,
       <1>12, <1>13 DEF BootNext

(***************************************************************************)
(* Every state of the store is one the types allow (database.ts:27-178).   *)
(***************************************************************************)
THEOREM BootTypeCorrect == BootSpec => []BootTypeOK
  <1>1. BootIInv => BootTypeOK
    BY DEF BootIInv
  <1> QED
    BY BootInitHolds, BootStepHolds, <1>1, PTL DEF BootSpec

(***************************************************************************)
(* No row is destroyed while the store opens, however often and wherever   *)
(* the app is killed (database.ts:99-131).                                 *)
(***************************************************************************)
THEOREM NoRowDestroyed == BootSpec => []RowsSurvive
  <1>1. BootIInv => RowsSurvive
    BY DEF BootIInv
  <1> QED
    BY BootInitHolds, BootStepHolds, <1>1, PTL DEF BootSpec

(***************************************************************************)
(* With every kill outside the rebuild, no boot fails and an up-to-date    *)
(* store is whole (database.ts:82-178).                                    *)
(***************************************************************************)
THEOREM KillsOutsideRebuild == BootSpec => []BootKeepsRows
  <1>1. BootIInv => BootKeepsRows
    <2> SUFFICES ASSUME BootIInv, ~cut
                 PROVE  progress # "failed" /\ (version = LatestVersion => Whole)
      BY DEF BootKeepsRows
    <2>1. progress # "failed"
      BY DEF BootIInv, Undisturbed
    <2>2. ASSUME version = LatestVersion PROVE Whole
      <3>1. \A i \in 1 .. 6 : Applied(i)
        BY <2>2, MigrationFacts DEF BootIInv, Undisturbed, LatestVersion
      <3>2. part # 3
        BY <2>2 DEF BootIInv, Undisturbed, Copying, LatestVersion
      <3>3. ~table.strict /\ AddedColumns \subseteq table.cols
        BY <3>1, <3>2, MigrationFacts DEF Applied, Live, AddedColumns
      <3>4. table.cols \subseteq AddedColumns
        BY DEF BootIInv, BootTypeOK, Table
      <3>5. table.there /\ table.rows = mine
        BY <2>2, <3>2 DEF BootIInv, Undisturbed, Live, LatestVersion
      <3> QED
        BY <3>3, <3>4, <3>5 DEF Whole
    <2> QED
      BY <2>1, <2>2
  <1> QED
    BY BootInitHolds, BootStepHolds, <1>1, PTL DEF BootSpec

-----------------------------------------------------------------------------
(* Calls of the phone's store interleave (TaskStore).                      *)

\* What a call carries, whatever happens to the row meanwhile.
SoundCall(c) ==
  /\ c \in [op : Ops, at : {"peek", "read", "write"}, seen : Row, arg : {c.arg}]
  /\ c.at = "peek" => c.op = "toggle"
  /\ c.op = "pause" => c.arg \in BOOLEAN
  /\ c.op = "adjust" => c.arg \in Deltas
  /\ c.op = "save" => c.arg.draft \in Draft /\ Bare(c.arg.draft)
  /\ c.op = "toggle" => IF c.at = "peek" THEN c.arg \in Lines
                                         ELSE c.arg \in SUBSET Lines

StoreIInv ==
  /\ StoreTypeOK
  /\ \A s \in Slot : call[s] # None => SoundCall(call[s])

-----------------------------------------------------------------------------

LEMMA ShiftedIsNat ==
  ASSUME NEW fire \in Dates \union {Undated}, NEW delta \in Int
  PROVE  Shifted(fire, delta) \in Nat
  BY StoreAssumption DEF Shifted, LaterOf, Dates

\* A write leaves a row, and undoes only what its own call is there to undo.
LEMMA ChangedRow ==
  ASSUME NEW r \in Row, NEW c, SoundCall(c), c.at = "write",
         InBounds(Changed(r, c))
  PROVE  /\ Changed(r, c) \in Row
         /\ Bare(r) /\ (c.op = "toggle" => Bare(c.seen)) => Bare(Changed(r, c))
         /\ r.deleted => Changed(r, c).deleted
         /\ r.done /\ c.op # "reopen" => Changed(r, c).done
         /\ r.paused /\ c.op # "pause" => Changed(r, c).paused
  <1> DEFINE n == Changed(r, c)
  <1> USE StoreAssumption
  <1>1. CASE c.op = "complete" /\ c.seen.repeats /\ c.seen.fire # Undated
    <2>1. n = [r EXCEPT !.fire = c.seen.fire + Period, !.snoozes = 0]
      BY <1>1 DEF Changed
    <2>2. c.seen.fire + Period \in Nat
      <3>1. c.seen.fire \in Dates \union {Undated}
        BY DEF SoundCall, Row
      <3> QED
        BY <1>1, <3>1 DEF Dates
    <2>3. /\ n.fire = c.seen.fire + Period /\ n.snoozes = 0
          /\ n.deleted = r.deleted /\ n.done = r.done /\ n.paused = r.paused
      BY <2>1 DEF Row
    <2>4. n.fire \in Dates /\ n.snoozes \in 0 .. MaxSnoozes
      BY <2>2, <2>3 DEF InBounds, Dates
    <2>5. n \in Row
      BY <2>1, <2>3, <2>4 DEF Row
    <2> QED
      BY <2>3, <2>4, <2>5 DEF Bare, Dates
  <1>2. CASE c.op = "complete" /\ ~(c.seen.repeats /\ c.seen.fire # Undated)
    <2>1. n = [r EXCEPT !.done = TRUE]
      BY <1>2 DEF Changed
    <2> QED
      BY <1>2, <2>1 DEF Row, Bare
  <1>3. CASE c.op = "reopen"
    <2>1. n = [r EXCEPT !.done = FALSE]
      BY <1>3 DEF Changed
    <2> QED
      BY <1>3, <2>1 DEF Row, Bare
  <1>4. CASE c.op = "snooze"
    <2>1. n = [r EXCEPT !.fire = Now + SnoozeFor, !.snoozes = c.seen.snoozes + 1]
      BY <1>4 DEF Changed
    <2>2. c.seen.snoozes + 1 \in Nat /\ Now + SnoozeFor \in Nat
      <3>1. c.seen.snoozes \in 0 .. MaxSnoozes
        BY DEF SoundCall, Row
      <3> QED
        BY <3>1 DEF Dates
    <2>3. /\ n.fire = Now + SnoozeFor /\ n.snoozes = c.seen.snoozes + 1
          /\ n.deleted = r.deleted /\ n.done = r.done /\ n.paused = r.paused
      BY <2>1 DEF Row
    <2>4. n.fire \in Dates /\ n.snoozes \in 0 .. MaxSnoozes
      BY <2>2, <2>3 DEF InBounds, Dates
    <2>5. n \in Row
      BY <2>1, <2>3, <2>4 DEF Row
    <2> QED
      BY <2>3, <2>4, <2>5 DEF Bare, Dates
  <1>5. CASE c.op = "delete"
    <2>1. n = [r EXCEPT !.deleted = TRUE]
      BY <1>5 DEF Changed
    <2> QED
      BY <1>5, <2>1 DEF Row, Bare
  <1>6. CASE c.op = "pause"
    <2>1. n = [r EXCEPT !.paused = c.arg] /\ c.arg \in BOOLEAN
      BY <1>6 DEF Changed, SoundCall
    <2> QED
      BY <1>6, <2>1 DEF Row, Bare
  <1>7. CASE c.op = "adjust"
    <2>1. n = [r EXCEPT !.fire = Shifted(c.seen.fire, c.arg)]
      BY <1>7 DEF Changed
    <2>2. Shifted(c.seen.fire, c.arg) \in Nat
      BY <1>7, ShiftedIsNat DEF SoundCall, Row
    <2> QED
      BY <1>7, <2>1, <2>2 DEF InBounds, Row, Dates, Bare
  <1>8. CASE c.op = "save"
    <2>1. n = [r EXCEPT !.fire = c.arg.draft.fire,
                        !.repeats = c.arg.draft.repeats,
                        !.notes = c.arg.draft.notes]
      BY <1>8 DEF Changed
    <2>2. c.arg.draft \in Draft /\ Bare(c.arg.draft)
      BY <1>8 DEF SoundCall
    <2> QED
      BY <1>8, <2>1, <2>2 DEF Row, Draft, Bare
  <1>9. CASE c.op = "toggle"
    <2>1. n = [r EXCEPT !.fire = c.seen.fire, !.repeats = c.seen.repeats,
                        !.notes = c.arg]
      BY <1>9 DEF Changed
    <2>2. c.arg \in SUBSET Lines
      BY <1>9 DEF SoundCall
    <2> QED
      BY <1>9, <2>1, <2>2 DEF Row, SoundCall, Bare
  <1> QED
    BY <1>1, <1>2, <1>3, <1>4, <1>5, <1>6, <1>7, <1>8, <1>9 DEF SoundCall, Ops

LEMMA CreatedIsRow ==
  ASSUME NEW f \in Dates \union {Undated}
  PROVE  Created(f) \in Row
  BY StoreAssumption DEF Created, Row, Dates

LEMMA ListedIsRow ==
  ASSUME NEW r \in Row PROVE Listed(r) \in Row \union {None}
  BY DEF Listed

LEMMA StoreInitHolds == StoreInit => StoreIInv
  <1> SUFFICES ASSUME StoreInit PROVE StoreIInv
    OBVIOUS
  <1>1. row \in Row
    BY StoreAssumption, CreatedIsRow DEF StoreInit, Dates
  <1>2. StoreTypeOK
    BY <1>1, ListedIsRow, StoreAssumption DEF StoreInit, StoreTypeOK
  <1>3. \A s \in Slot : call[s] = None
    BY DEF StoreInit
  <1> QED
    BY <1>1, <1>2, <1>3 DEF StoreIInv

\* A call that begins is sound if what it is given is.
LEMMA StartHolds ==
  ASSUME StoreIInv, NEW s \in Slot, NEW op \in Ops, NEW arg, Start(s, op, arg),
         op = "pause" => arg \in BOOLEAN,
         op = "adjust" => arg \in Deltas,
         op = "save" => arg.draft \in Draft /\ Bare(arg.draft),
         op = "toggle" => arg \in Lines,
         sheet' = None \/ sheet' = sheet
  PROVE  StoreIInv'
  <1> DEFINE new == [op |-> op, arg |-> arg, seen |-> row,
                     at |-> CASE op = "toggle" -> "peek"
                              [] op \in {"delete", "reopen"} -> "write"
                              [] OTHER -> "read"]
  <1>1. SoundCall(new)
    <2>1. new.at \in {"peek", "read", "write"} /\ (op = "toggle" <=> new.at = "peek")
      BY DEF Ops
    <2> QED
      BY <2>1 DEF SoundCall, StoreIInv, StoreTypeOK
  <1>2. /\ DOMAIN call' = Slot
        /\ \A t \in Slot : call'[t] = IF t = s THEN new ELSE call[t]
    BY DEF Start, StoreIInv, StoreTypeOK
  <1> HIDE DEF new
  <1>3. \A t \in Slot : call'[t] # None => SoundCall(call'[t])
    BY <1>1, <1>2 DEF StoreIInv
  <1>4. StoreTypeOK'
    BY <1>2, <1>3, StoreAssumption DEF Start, StoreIInv, StoreTypeOK, SoundCall
  <1> QED
    BY <1>3, <1>4 DEF Start, StoreIInv, SoundCall

LEMMA PatchIsBare ==
  ASSUME NEW d \in Draft PROVE Patch(d) \in Draft /\ Bare(Patch(d))
  BY DEF Patch, Draft, Bare
LEMMA StoreStepHolds == StoreIInv /\ [StoreNext]_storeVars => StoreIInv'
  <1> SUFFICES ASSUME StoreIInv, [StoreNext]_storeVars PROVE StoreIInv'
    OBVIOUS
  <1> USE DEF StoreIInv
  <1>1. ASSUME NEW s \in Slot, Tap(s) PROVE StoreIInv'
    <2>1. CASE Start(s, "delete", None)
      BY <1>1, <2>1, StartHolds DEF Tap, Ops
    <2>2. ASSUME NEW entry \in Lines, Start(s, "toggle", entry) PROVE StoreIInv'
      BY <1>1, <2>2, StartHolds DEF Tap, Ops
    <2>3. CASE Start(s, "reopen", None)
      BY <1>1, <2>3, StartHolds DEF Tap, Ops
    <2>4. CASE Start(s, "complete", None)
      BY <1>1, <2>4, StartHolds DEF Tap, Ops
    <2>5. CASE Start(s, "snooze", None)
      BY <1>1, <2>5, StartHolds DEF Tap, Ops
    <2>6. CASE Start(s, "pause", ~shown.paused)
      BY <1>1, <2>6, StartHolds DEF Tap, Ops
    <2>7. ASSUME NEW d \in Deltas, Start(s, "adjust", d) PROVE StoreIInv'
      BY <1>1, <2>7, StartHolds DEF Tap, Ops
    <2> QED
      BY <1>1, <2>1, <2>2, <2>3, <2>4, <2>5, <2>6, <2>7 DEF Tap
  <1>2. ASSUME NEW s \in Slot, NotificationAction(s) PROVE StoreIInv'
    <2>1. CASE Start(s, "complete", None)
      BY <1>2, <2>1, StartHolds DEF NotificationAction, Ops
    <2>2. CASE Start(s, "snooze", None)
      BY <1>2, <2>2, StartHolds DEF NotificationAction, Ops
    <2> QED
      BY <1>2, <2>1, <2>2 DEF NotificationAction
  <1>3. ASSUME NEW s \in Slot, Save(s) PROVE StoreIInv'
    <2> DEFINE arg == [draft |-> Patch(sheet.draft), touched |-> sheet.touched]
    <2>1. arg.draft \in Draft /\ Bare(arg.draft)
      BY <1>3, PatchIsBare DEF Save, StoreTypeOK
    <2>2. Start(s, "save", arg) /\ sheet' = None
      BY <1>3 DEF Save
    <2> HIDE DEF arg
    <2> QED
      BY <2>1, <2>2, StartHolds DEF Ops
  <1>4. ASSUME NEW s \in Slot, Peek(s) PROVE StoreIInv'
    <2> DEFINE notes == (row.notes \ {call[s].arg}) \union ({call[s].arg} \ row.notes)
               new == [call[s] EXCEPT !.at = "read", !.arg = notes]
    <2>1. /\ DOMAIN call' = Slot
          /\ \A t \in Slot : call'[t] = IF t = s THEN new ELSE call[t]
      BY <1>4 DEF Peek, StoreTypeOK
    <2>2. SoundCall(call[s]) /\ call[s].at = "peek"
      BY <1>4 DEF Peek
    <2>3. SoundCall(new)
      BY <2>2 DEF SoundCall, StoreTypeOK, Row
    <2> HIDE DEF new
    <2>4. \A t \in Slot : call'[t] # None => SoundCall(call'[t])
      BY <2>1, <2>3
    <2> QED
      BY <1>4, <2>1, <2>4 DEF Peek, StoreTypeOK, SoundCall
  <1>5. ASSUME NEW s \in Slot, Read(s) PROVE StoreIInv'
    <2>1. CASE call' = [call EXCEPT ![s] = None]
      BY <1>5, <2>1 DEF Read, StoreTypeOK
    <2>2. CASE call' = [call EXCEPT ![s].at = "write", ![s].seen = row]
      <3> DEFINE new == [call[s] EXCEPT !.at = "write", !.seen = row]
      <3>1. /\ DOMAIN call' = Slot
            /\ \A t \in Slot : call'[t] = IF t = s THEN new ELSE call[t]
        BY <2>2 DEF StoreTypeOK
      <3>2. SoundCall(call[s]) /\ call[s].at = "read"
        BY <1>5 DEF Read
      <3>3. SoundCall(new)
        BY <3>2 DEF SoundCall, StoreTypeOK
      <3> HIDE DEF new
      <3>4. \A t \in Slot : call'[t] # None => SoundCall(call'[t])
        BY <3>1, <3>3
      <3> QED
        BY <1>5, <3>1, <3>4 DEF Read, StoreTypeOK, SoundCall
    <2> QED
      BY <1>5, <2>1, <2>2 DEF Read
  <1>6. ASSUME NEW s \in Slot, Write(s) PROVE StoreIInv'
    <2>1. /\ SoundCall(call[s]) /\ call[s].at = "write" /\ InBounds(Changed(row, call[s]))
          /\ row' = Changed(row, call[s])
      BY <1>6 DEF Write, Updated
    <2>2. row' \in Row
      BY <2>1, ChangedRow DEF StoreTypeOK
    <2> QED
      BY <1>6, <2>2 DEF Write, StoreTypeOK
  <1>7. CASE OpenSheet
    <2>1. sheet'.draft \in Draft
      BY <1>7 DEF OpenSheet, StoreTypeOK, Row, Draft
    <2> QED
      BY <1>7, <2>1 DEF OpenSheet, StoreTypeOK
  <1>8. CASE Change
    BY <1>8 DEF Change, StoreTypeOK
  <1>9. CASE Cancel
    BY <1>9 DEF Cancel, StoreTypeOK
  <1>10. CASE Upsert
    BY <1>10, StoreAssumption DEF Upsert, StoreTypeOK
  <1>11. CASE Reload
    BY <1>11, ListedIsRow DEF Reload, StoreTypeOK
  <1>12. CASE AppEnds
    BY <1>12, ListedIsRow DEF AppEnds, StoreTypeOK
  <1>13. CASE UNCHANGED storeVars
    BY <1>13 DEF storeVars, StoreTypeOK
  <1> QED
    BY <1>1, <1>2, <1>3, <1>4, <1>5, <1>6, <1>7, <1>8, <1>9, <1>10, <1>11,
       <1>12, <1>13 DEF StoreNext

\* What a step may undo in the row.
LEMMA StepUndoes ==
  StoreIInv /\ [StoreNext]_storeVars =>
    /\ row.deleted /\ ~row'.deleted => Upsert
    /\ row.done /\ ~row'.done => Upsert \/ Writing("reopen")
    /\ row.paused /\ ~row'.paused => Upsert \/ Writing("pause")
    /\ Bare(row) /\ ~Bare(row') => Upsert \/ \E s \in Slot : PutsBack(s)
  <1> SUFFICES ASSUME StoreIInv, [StoreNext]_storeVars, row' # row, ~Upsert
               PROVE  /\ row.deleted => row'.deleted
                      /\ row.done /\ ~row'.done => Writing("reopen")
                      /\ row.paused /\ ~row'.paused => Writing("pause")
                      /\ Bare(row) /\ ~Bare(row') => \E s \in Slot : PutsBack(s)
    OBVIOUS
  <1>1. PICK s \in Slot : Write(s)
    BY DEF StoreNext, storeVars, OpenSheet, Change, Cancel, Reload, AppEnds, Tap,
           NotificationAction, Save, Start, Peek, Read
  <1>2. /\ call[s] # None /\ SoundCall(call[s]) /\ call[s].at = "write"
        /\ InBounds(Changed(row, call[s])) /\ row' = Changed(row, call[s])
    BY <1>1 DEF Write, Updated, StoreIInv
  <1>3. /\ row.deleted => row'.deleted
        /\ row.done /\ call[s].op # "reopen" => row'.done
        /\ row.paused /\ call[s].op # "pause" => row'.paused
        /\ Bare(row) /\ (call[s].op = "toggle" => Bare(call[s].seen)) => Bare(row')
    BY <1>2, ChangedRow DEF StoreIInv, StoreTypeOK
  <1> QED
    BY <1>1, <1>2, <1>3 DEF Writing, PutsBack

-----------------------------------------------------------------------------

(***************************************************************************)
(* The row, the list, the sheet and the calls keep to their types          *)
(* (database.ts:180-242): no date is written that lies before all dates.   *)
(***************************************************************************)
THEOREM StoreTypeCorrect == StoreSpec => []StoreTypeOK
  <1>1. StoreIInv => StoreTypeOK
    BY DEF StoreIInv
  <1> QED
    BY StoreInitHolds, StoreStepHolds, <1>1, PTL DEF StoreSpec

(***************************************************************************)
(* With any number of calls and syncs at once, none gives an undated task  *)
(* what needs a date (App.tsx:1284-1296), other than a line's ticking that *)
(* has read such a row of another device.                                  *)
(***************************************************************************)
THEOREM UndatedStaysBare == StoreSpec => UndatedIsBare
  <1>1. StoreIInv /\ [StoreNext]_storeVars =>
          [Bare(row) /\ ~Bare(row') =>
             Upsert \/ \E s \in Slot : PutsBack(s)]_storeVars
    BY StepUndoes
  <1> QED
    BY StoreInitHolds, StoreStepHolds, <1>1, PTL DEF StoreSpec, UndatedIsBare

(***************************************************************************)
(* With any number of calls at once, none brings back a task that was      *)
(* deleted, completed or paused meanwhile (database.ts:361-560).           *)
(***************************************************************************)
THEOREM NothingIsResurrected == StoreSpec => NoResurrection
  <1>1. StoreIInv /\ [StoreNext]_storeVars =>
          [/\ row.deleted /\ ~row'.deleted => Upsert
           /\ row.done /\ ~row'.done => Upsert \/ Writing("reopen")
           /\ row.paused /\ ~row'.paused => Upsert \/ Writing("pause")]_storeVars
    BY StepUndoes
  <1> QED
    BY StoreInitHolds, StoreStepHolds, <1>1, PTL DEF StoreSpec, NoResurrection

-----------------------------------------------------------------------------
(* Rewrites of copy (CopyService).                                         *)

Request == [at : {"tapped", "sent", "served", "late", "cut"}, tone : Tones,
            count : Nat, left : 0 .. Patience]

CopyTypeOK ==
  /\ snoozes \in Nat /\ tone \in Tones /\ plannedTone \in Tones
  /\ voices \subseteq Tones /\ place \in Nat
  /\ DOMAIN request = Asking
  /\ \A s \in Asking : request[s] # Free => request[s] \in Request
  /\ server \in {"up", "draining", "down"} /\ drain \in 0 .. DrainFor
  /\ idle \in Nat

\* Whoever was let in before the signal gives up before the server does.
PatienceFits ==
  /\ \A s \in Open : server = "draining" /\ request[s].at = "served"
                      => request[s].left < drain
  /\ server = "down" => Open = {}
  /\ idle > 0 => server = "draining"

\* A request for the latest snooze asks for the level under a tone that counts,
\* and no request is for a snooze still to come.
AsksInVoice ==
  \A s \in Asking : Waiting(s) =>
    /\ request[s].count <= snoozes
    /\ request[s].count = snoozes => request[s].tone \in voices

\* The notification has a rewritten line or the ladder's for its place.
LineInVoice ==
  /\ tone \in voices /\ plannedTone \in voices
  /\ line = Rewritten \/ \E t \in voices : line = Ladder(snoozes, place, t)

InVoice == AsksInVoice /\ LineInVoice

CopyIInv == CopyTypeOK /\ PatienceFits /\ InVoice /\ NoWaiterCutOff

-----------------------------------------------------------------------------
(* The ladder.                                                             *)

LEMMA LevelIsNat ==
  ASSUME NEW n \in Nat, NEW t \in Tones PROVE LevelAt(n, t) \in Nat
  BY DEF LevelAt, Offset, Tones

LEMMA LevelGrows ==
  ASSUME NEW n \in Nat, NEW m \in Nat, n <= m, NEW t \in Tones
  PROVE  LevelAt(n, t) <= LevelAt(m, t)
  BY DEF LevelAt, Offset, Tones

LEMMA TierForLevel ==
  ASSUME NEW l \in Nat
  PROVE  /\ TierFor(l) \in Tiers
         /\ TierFor(l) <= l
         /\ \A u \in Tiers : u <= l => u <= TierFor(l)
  <1>1. \E t \in Tiers : t <= l /\ \A u \in Tiers : u <= l => u <= t
    <2>1. CASE l >= 8
      BY <2>1 DEF Tiers
    <2>2. CASE 5 <= l /\ l < 8
      BY <2>2 DEF Tiers
    <2>3. CASE 3 <= l /\ l < 5
      BY <2>3 DEF Tiers
    <2>4. CASE 1 <= l /\ l < 3
      BY <2>4 DEF Tiers
    <2>5. CASE l = 0
      BY <2>5 DEF Tiers
    <2> QED
      BY <2>1, <2>2, <2>3, <2>4, <2>5
  <1> QED
    BY <1>1 DEF TierFor

LEMMA RungOf ==
  ASSUME NEW l \in Nat
  PROVE  LET t == TierFor(l)
             last == LinesOf(t) - 1
         IN /\ Rung(l).tier = t
            /\ Rung(l).within = IF l - t < last THEN l - t ELSE last
  BY DEF Rung

\* A higher level has no milder line.
LEMMA LadderClimbs ==
  ASSUME NEW l \in Nat, NEW m \in Nat, l <= m
  PROVE  ~Milder(Rung(m), Rung(l))
  <1>1. TierFor(l) \in Int /\ TierFor(m) \in Int /\ TierFor(l) <= TierFor(m)
    BY TierForLevel DEF Tiers
  <1>2. TierFor(l) = TierFor(m) => Rung(l).within <= Rung(m).within
    BY <1>1, RungOf DEF LinesOf
  <1>3. Rung(l).within \in Int /\ Rung(m).within \in Int
    BY <1>1, RungOf DEF LinesOf
  <1> QED
    BY <1>1, <1>2, <1>3, RungOf DEF Milder

-----------------------------------------------------------------------------
LEMMA CopyInitHolds == CopyInit => CopyIInv
  <1> SUFFICES ASSUME CopyInit PROVE CopyIInv
    OBVIOUS
  <1>1. \A s \in Asking : request[s] = Free
    BY DEF CopyInit
  <1>2. CopyTypeOK
    BY <1>1 DEF CopyInit, CopyTypeOK, DrainFor
  <1>3. PatienceFits
    BY <1>1 DEF CopyInit, PatienceFits, Open, Serving, Waiting
  <1>4. InVoice
    BY <1>1 DEF CopyInit, InVoice, AsksInVoice, LineInVoice, Waiting
  <1> QED
    BY <1>2, <1>3, <1>4 DEF CopyInit, CopyIInv, NoWaiterCutOff

\* A step that leaves the service and the requests alone.
LEMMA ClientStepHolds ==
  ASSUME CopyIInv, UNCHANGED <<request, serviceVars>>,
         snoozes' = snoozes, tone' \in Tones, plannedTone' \in Tones,
         place' \in Nat, voices' \subseteq Tones, voices \subseteq voices',
         LineInVoice'
  PROVE  CopyIInv'
  <1>1. \A s \in Asking : Waiting(s)' = Waiting(s) /\ Serving(s)' = Serving(s)
    BY DEF Waiting, Serving
  <1>2. Open' = Open
    BY <1>1 DEF Open
  <1>3. AsksInVoice'
    BY <1>1 DEF CopyIInv, InVoice, AsksInVoice
  <1>4. CopyTypeOK'
    BY DEF CopyIInv, CopyTypeOK, serviceVars
  <1>5. PatienceFits'
    BY <1>2 DEF CopyIInv, PatienceFits, serviceVars
  <1> QED
    BY <1>3, <1>4, <1>5 DEF CopyIInv, InVoice, NoWaiterCutOff, serviceVars

\* What ends a request for the latest snooze has the ladder's line or another.
LEMMA AppliedInVoice ==
  ASSUME CopyIInv, NEW s \in Asking, Waiting(s), NEW copy, Apply(s, copy),
         copy = Rewritten \/ copy = Ladder(request[s].count, 0, request[s].tone),
         UNCHANGED clientVars
  PROVE  LineInVoice' /\ place' \in Nat
  <1>1. CASE request[s].count = snoozes
    BY <1>1 DEF Apply, CopyIInv, InVoice, AsksInVoice, LineInVoice, clientVars
  <1>2. CASE request[s].count # snoozes
    BY <1>2 DEF Apply, CopyIInv, CopyTypeOK, InVoice, LineInVoice, clientVars
  <1> QED
    BY <1>1, <1>2

\* The end of a request, with its connection closed or kept.
LEMMA EndedHolds ==
  ASSUME CopyIInv, NEW s \in Asking, Ended(s), LineInVoice', place' \in Nat,
         UNCHANGED <<clientVars, server, drain, stranded>>,
         idle' \in Nat, idle' > 0 => server = "draining"
  PROVE  CopyIInv'
  <1>1. \A t \in Asking : request'[t] = Free \/ request'[t] = request[t]
    BY DEF CopyIInv, CopyTypeOK, Ended
  <1>2. \A t \in Asking : Waiting(t)' => Waiting(t) /\ request'[t] = request[t]
    BY <1>1 DEF Waiting
  <1>3. \A t \in Asking : Serving(t)' => Serving(t) /\ request'[t] = request[t]
    BY <1>2 DEF Serving
  <1>4. \A t \in Open' : t \in Open /\ request'[t] = request[t]
    BY <1>3 DEF Open
  <1>5. CopyTypeOK'
    <2>1. DOMAIN request' = Asking
      BY DEF CopyIInv, CopyTypeOK, Ended
    <2> QED
      BY <1>1, <2>1 DEF CopyIInv, CopyTypeOK, clientVars
  <1>6. PatienceFits'
    BY <1>4 DEF CopyIInv, PatienceFits
  <1>7. AsksInVoice'
    BY <1>2 DEF CopyIInv, InVoice, AsksInVoice, clientVars
  <1> QED
    BY <1>5, <1>6, <1>7 DEF CopyIInv, InVoice, NoWaiterCutOff

\* Of one request only what is known of it changes.
LEMMA OneRequest ==
  ASSUME CopyIInv, NEW s \in Asking, NEW r \in Request,
         request' = [request EXCEPT ![s] = r]
  PROVE  /\ DOMAIN request' = Asking /\ request'[s] = r
         /\ \A t \in Asking \ {s} : /\ request'[t] = request[t]
                                    /\ Waiting(t)' = Waiting(t)
                                    /\ Serving(t)' = Serving(t)
         /\ Waiting(s)' => r.at # "tapped"
         /\ Serving(s)' => r.at \in {"served", "late"}
         /\ \A t \in Asking : request'[t] # Free => request'[t] \in Request
  <1>1. DOMAIN request' = Asking /\ request'[s] = r
    BY DEF CopyIInv, CopyTypeOK
  <1>2. \A t \in Asking \ {s} : request'[t] = request[t]
    BY DEF CopyIInv, CopyTypeOK
  <1>3. \A t \in Asking \ {s} : Waiting(t)' = Waiting(t) /\ Serving(t)' = Serving(t)
    BY <1>2 DEF Waiting, Serving
  <1>4. (Waiting(s)' => r.at # "tapped")
        /\ (Serving(s)' => r.at \in {"served", "late"})
    BY <1>1 DEF Waiting, Serving
  <1>5. \A t \in Asking : request'[t] # Free => request'[t] \in Request
    BY <1>1, <1>2 DEF CopyIInv, CopyTypeOK
  <1> QED
    BY <1>1, <1>2, <1>3, <1>4, <1>5

\* A request that goes on: what it was let in as, or that its row is written.
LEMMA GoesOnHolds ==
  ASSUME CopyIInv, NEW s \in Asking, NEW r \in Request,
         request' = [request EXCEPT ![s] = r],
         CopyTypeOK', LineInVoice',
         UNCHANGED <<server, drain, stranded>>, idle' \in Nat,
         idle' > 0 => server = "draining",
         snoozes <= snoozes', snoozes' = snoozes => voices \subseteq voices',
         r.at # "tapped" => /\ r.count <= snoozes'
                            /\ r.count = snoozes' => r.tone \in voices',
         r.at = "served" => server = "up", r.at = "late" => server = "draining"
  PROVE  CopyIInv'
  <1>1. /\ request'[s] = r
        /\ \A t \in Asking \ {s} : /\ request'[t] = request[t]
                                   /\ Waiting(t)' = Waiting(t)
                                   /\ Serving(t)' = Serving(t)
        /\ Waiting(s)' => r.at # "tapped"
        /\ Serving(s)' => r.at \in {"served", "late"}
    BY OneRequest
  <1>2. snoozes \in Nat /\ snoozes' \in Nat
    BY DEF CopyIInv, CopyTypeOK
  <1>3. ASSUME NEW t \in Asking, Waiting(t)'
        PROVE  /\ request'[t].count <= snoozes'
               /\ request'[t].count = snoozes' => request'[t].tone \in voices'
    <2>1. CASE t = s
      BY <1>1, <1>3, <2>1
    <2>2. CASE t # s
      <3>1. request'[t] = request[t] /\ Waiting(t)
        BY <1>1, <1>3, <2>2
      <3>2. /\ request[t].count <= snoozes /\ request[t].count \in Nat
            /\ request[t].count = snoozes => request[t].tone \in voices
        BY <3>1 DEF CopyIInv, CopyTypeOK, InVoice, AsksInVoice, Waiting, Request
      <3> QED
        BY <1>2, <3>1, <3>2
    <2> QED
      BY <2>1, <2>2
  <1>4. ASSUME NEW t \in Open'
        PROVE  \/ t \in Open /\ request'[t] = request[t]
               \/ t = s /\ r.at \in {"served", "late"}
    BY <1>1, <1>4 DEF Open
  <1>5. PatienceFits'
    <2>1. server = "down" => Open' = {}
      BY <1>4 DEF CopyIInv, PatienceFits
    <2>2. ASSUME NEW t \in Open', server = "draining", request'[t].at = "served"
          PROVE  request'[t].left < drain
      BY <1>1, <1>4, <2>2 DEF CopyIInv, PatienceFits
    <2> QED
      BY <2>1, <2>2 DEF PatienceFits
  <1> QED
    BY <1>3, <1>5 DEF CopyIInv, InVoice, AsksInVoice, NoWaiterCutOff

LEMMA CopyStepHolds == CopyIInv /\ [CopyNext]_copyVars => CopyIInv'
  <1> SUFFICES ASSUME CopyIInv, [CopyNext]_copyVars PROVE CopyIInv'
    OBVIOUS
  <1> USE DEF clientVars, serviceVars
  <1>1. CASE ChangeTone
    <2>1. tone' \in Tones
      BY <1>1, CopyAssumption DEF ChangeTone
    <2> QED
      BY <1>1, <2>1, ClientStepHolds
         DEF ChangeTone, CopyIInv, CopyTypeOK, InVoice, LineInVoice
  <1>2. CASE Rearm
    BY <1>2, ClientStepHolds
       DEF Rearm, Arm, CopyIInv, CopyTypeOK, InVoice, LineInVoice
  <1>3. CASE Fire
    <2>1. place' \in Nat
      BY <1>3, CopyAssumption DEF Fire, CopyIInv, CopyTypeOK
    <2> QED
      BY <1>3, <2>1, ClientStepHolds
         DEF Fire, CopyIInv, CopyTypeOK, InVoice, LineInVoice
  <1>4. ASSUME NEW s \in Asking, TapSnooze(s) PROVE CopyIInv'
    <2> DEFINE r == [at |-> "tapped", tone |-> tone, count |-> snoozes,
                     left |-> Patience]
    <2>1. r \in Request
      BY DEF CopyIInv, CopyTypeOK, Request, Patience
    <2>2. request' = [request EXCEPT ![s] = r] /\ UNCHANGED <<clientVars, place, line, serviceVars>>
      BY <1>4 DEF TapSnooze
    <2>3. CopyTypeOK'
      BY <2>1, <2>2, OneRequest DEF CopyIInv, CopyTypeOK
    <2>4. r.at = "tapped"
      OBVIOUS
    <2>5. LineInVoice'
      BY <2>2 DEF CopyIInv, InVoice, LineInVoice
    <2>6. /\ snoozes' = snoozes /\ voices' = voices /\ snoozes \in Nat
          /\ UNCHANGED <<server, drain, stranded>>
          /\ idle' \in Nat /\ (idle' > 0 => server = "draining")
      BY <2>2 DEF CopyIInv, CopyTypeOK, PatienceFits
    <2>7. snoozes <= snoozes' /\ (snoozes' = snoozes => voices \subseteq voices')
      BY <2>6
    <2>8. request' = [request EXCEPT ![s] = r]
      BY <2>2
    <2> HIDE DEF r
    <2> QED
      BY <2>1, <2>3, <2>4, <2>5, <2>6, <2>7, <2>8, GoesOnHolds
  <1>5. ASSUME NEW s \in Asking, SnoozeWritten(s) PROVE CopyIInv'
    <2> DEFINE r == [request[s] EXCEPT !.at = "sent", !.count = snoozes + 1]
    <2>1. request[s] \in Request /\ snoozes + 1 \in Nat
      BY <1>5 DEF SnoozeWritten, CopyIInv, CopyTypeOK
    <2>2. r \in Request /\ r.at = "sent" /\ r.count = snoozes + 1
          /\ r.tone = request[s].tone /\ request[s].tone \in Tones
      BY <2>1 DEF Request
    <2>3. request' = [request EXCEPT ![s] = r]
      BY <1>5 DEF SnoozeWritten, CopyIInv, CopyTypeOK
    <2>4. /\ snoozes' = snoozes + 1 /\ plannedTone' = tone /\ place' = 0
          /\ line' = Ladder(snoozes + 1, 0, tone)
          /\ voices' = {request[s].tone, tone}
          /\ UNCHANGED <<tone, serviceVars>>
      BY <1>5 DEF SnoozeWritten, Arm
    <2> HIDE DEF r
    <2>5. CopyTypeOK'
      BY <2>1, <2>2, <2>3, <2>4, OneRequest DEF CopyIInv, CopyTypeOK
    <2>6. LineInVoice'
      BY <2>4 DEF LineInVoice
    <2>7. snoozes <= snoozes' /\ snoozes' # snoozes
      BY <2>4 DEF CopyIInv, CopyTypeOK
    <2>8. /\ UNCHANGED <<server, drain, stranded>>
          /\ idle' \in Nat /\ (idle' > 0 => server = "draining")
      BY <2>4 DEF CopyIInv, CopyTypeOK, PatienceFits
    <2>9. /\ r.count <= snoozes' /\ r.tone \in voices'
          /\ r.at # "served" /\ r.at # "late"
      BY <2>1, <2>2, <2>4
    <2> QED
      BY <2>2, <2>3, <2>5, <2>6, <2>7, <2>8, <2>9, GoesOnHolds
  <1>6. ASSUME NEW s \in Asking, Connect(s) PROVE CopyIInv'
    <2>1. request[s] \in Request /\ Waiting(s) /\ request[s].at = "sent"
          /\ UNCHANGED <<clientVars, server, drain, stranded>>
      BY <1>6 DEF Connect, Waiting, CopyIInv, CopyTypeOK
    <2>2. /\ request[s].count <= snoozes
          /\ request[s].count = snoozes => request[s].tone \in voices
      BY <2>1 DEF CopyIInv, InVoice, AsksInVoice
    <2>3. ASSUME NEW as \in {"served", "late"}, LetIn(s, as),
                 as = "served" => server = "up", as = "late" => server = "draining",
                 idle' \in Nat, idle' > 0 => server = "draining"
          PROVE  CopyIInv'
      <3> DEFINE r == [request[s] EXCEPT !.at = as]
      <3>1. r \in Request /\ r.at = as /\ r.count = request[s].count
            /\ r.tone = request[s].tone
        BY <2>1 DEF Request
      <3>2. request' = [request EXCEPT ![s] = r] /\ UNCHANGED <<line, place>>
        BY <2>3 DEF LetIn, CopyIInv, CopyTypeOK
      <3> HIDE DEF r
      <3>3. CopyTypeOK'
        BY <2>1, <2>3, <3>1, <3>2, OneRequest DEF CopyIInv, CopyTypeOK
      <3>4. LineInVoice'
        BY <2>1, <3>2 DEF CopyIInv, InVoice, LineInVoice
      <3>5. snoozes <= snoozes' /\ snoozes' = snoozes /\ voices' = voices
        BY <2>1 DEF CopyIInv, CopyTypeOK
      <3>6. r.count <= snoozes' /\ (r.count = snoozes' => r.tone \in voices')
        BY <2>2, <3>1, <3>5
      <3>7. /\ r.at = "served" => server = "up"
            /\ r.at = "late" => server = "draining"
        BY <2>3, <3>1
      <3> QED
        BY <2>1, <2>3, <3>1, <3>2, <3>3, <3>4, <3>5, <3>6, <3>7, GoesOnHolds
    <2>4. CASE server = "up" /\ LetIn(s, "served") /\ UNCHANGED idle
      BY <2>3, <2>4 DEF CopyIInv, CopyTypeOK, PatienceFits
    <2>5. CASE idle > 0 /\ LetIn(s, "late") /\ idle' = idle - 1
      BY <2>3, <2>5 DEF CopyIInv, CopyTypeOK, PatienceFits
    <2>6. CASE FallBack(s) /\ UNCHANGED idle
      BY <2>1, <2>6, AppliedInVoice, EndedHolds
         DEF FallBack, CopyIInv, CopyTypeOK, PatienceFits
    <2> QED
      BY <1>6, <2>4, <2>5, <2>6 DEF Connect
  <1>7. ASSUME NEW s \in Asking, GiveUp(s) \/ Fail(s) PROVE CopyIInv'
    BY <1>7, AppliedInVoice, EndedHolds
       DEF GiveUp, Fail, FallBack, CopyIInv, CopyTypeOK, PatienceFits
  <1>8. ASSUME NEW s \in Asking, Refuse(s) \/ Answer(s) PROVE CopyIInv'
    <2>1. idle' \in Nat /\ (idle' > 0 => server = "draining")
      BY <1>8 DEF Refuse, Answer, Responded, CopyIInv, CopyTypeOK, PatienceFits
    <2>2. UNCHANGED <<clientVars, server, drain, stranded>> /\ Waiting(s) /\ Ended(s)
      BY <1>8 DEF Refuse, Answer, Responded, Serving, FallBack
    <2>3. LineInVoice' /\ place' \in Nat
      <3>1. \/ Apply(s, Ladder(request[s].count, 0, request[s].tone))
            \/ Apply(s, Rewritten)
        BY <1>8 DEF Refuse, Answer, FallBack
      <3> QED
        BY <2>2, <3>1, AppliedInVoice
    <2> QED
      BY <2>1, <2>2, <2>3, EndedHolds
  <1>9. CASE Signal
    <2>1. \A s \in Open : request[s].left < DrainFor
      BY DEF CopyIInv, CopyTypeOK, Open, Serving, Waiting, Request, Patience, DrainFor
    <2>2. Open' = Open
      BY <1>9 DEF Signal, Open, Serving, Waiting
    <2>3. PatienceFits'
      BY <1>9, <2>1, <2>2 DEF Signal, CopyIInv, PatienceFits
    <2> QED
      BY <1>9, <2>3 DEF Signal, CopyIInv, CopyTypeOK, InVoice, AsksInVoice,
                        LineInVoice, NoWaiterCutOff, Waiting, DrainFor
  <1>10. CASE DropIdle
    <2>1. Open' = Open
      BY <1>10 DEF DropIdle, Open, Serving, Waiting
    <2> QED
      BY <1>10, <2>1 DEF DropIdle, CopyIInv, CopyTypeOK, PatienceFits, InVoice,
                         AsksInVoice, LineInVoice, NoWaiterCutOff, Waiting
  <1>11. CASE Drained
    <2>1. Open' = {}
      BY <1>11 DEF Drained, Open, Serving, Waiting
    <2> QED
      BY <1>11, <2>1 DEF Drained, CopyIInv, CopyTypeOK, PatienceFits, InVoice,
                         AsksInVoice, LineInVoice, NoWaiterCutOff, Waiting, DrainFor
  <1>12. CASE ForceExit
    <2>1. ~\E s \in Open : request[s].at = "served"
      <3>1. ASSUME NEW s \in Open, request[s].at = "served" PROVE FALSE
        <4>1. request[s].left \in Nat /\ request[s].left < 0
          BY <1>12, <3>1 DEF ForceExit, CopyIInv, CopyTypeOK, PatienceFits, Open,
                             Serving, Waiting, Request, Patience
        <4> QED
          BY <4>1
      <3> QED
        BY <3>1
    <2>2. /\ DOMAIN request' = Asking /\ server' = "down" /\ idle' = 0
          /\ UNCHANGED <<clientVars, place, line, drain>> /\ ~stranded'
      BY <1>12, <2>1 DEF ForceExit, CopyIInv, NoWaiterCutOff
    <2>3. ASSUME NEW s \in Asking, request'[s] # Free
          PROVE  /\ request'[s] \in Request /\ ~Serving(s)'
                 /\ Waiting(s)' => Waiting(s)
                 /\ request'[s].count = request[s].count
                 /\ request'[s].tone = request[s].tone
      <3>1. CASE s \in Open
        <4>1. request[s] \in Request /\ Waiting(s)
          BY <3>1 DEF Open, Serving, Waiting, CopyIInv, CopyTypeOK
        <4>2. request'[s] = [request[s] EXCEPT !.at = "cut"]
          BY <1>12, <3>1 DEF ForceExit
        <4> QED
          BY <4>1, <4>2 DEF Request, Serving
      <3>2. CASE s \notin Open
        <4>1. request'[s] = request[s]
          BY <1>12, <3>2 DEF ForceExit
        <4> QED
          BY <2>3, <3>2, <4>1 DEF Open, Serving, Waiting, CopyIInv, CopyTypeOK
      <3> QED
        BY <3>1, <3>2
    <2>4. Open' = {}
      BY <2>3 DEF Open, Serving, Waiting
    <2>5. CopyTypeOK'
      BY <2>2, <2>3 DEF CopyIInv, CopyTypeOK
    <2>6. InVoice'
      BY <2>2, <2>3 DEF CopyIInv, InVoice, AsksInVoice, LineInVoice, Waiting
    <2>7. PatienceFits'
      BY <2>2, <2>4 DEF PatienceFits
    <2> QED
      BY <2>2, <2>5, <2>6, <2>7 DEF CopyIInv, NoWaiterCutOff
  <1>13. CASE Restart
    <2>1. Open' = {}
      BY <1>13 DEF Restart, CopyIInv, PatienceFits, Open, Serving, Waiting
    <2> QED
      BY <1>13, <2>1 DEF Restart, CopyIInv, CopyTypeOK, PatienceFits, InVoice,
                         AsksInVoice, LineInVoice, NoWaiterCutOff, Waiting
  <1>14. CASE Second
    <2>1. /\ DOMAIN request' = Asking
          /\ UNCHANGED <<clientVars, place, line, server, idle, stranded>>
          /\ drain' = IF server = "draining" THEN drain - 1 ELSE drain
      BY <1>14 DEF Second
    <2>2. ASSUME NEW s \in Asking, ~Waiting(s) PROVE request'[s] = request[s]
      BY <1>14, <2>2 DEF Second
    <2>3. ASSUME NEW s \in Asking, Waiting(s)
          PROVE  /\ request'[s] \in Request
                 /\ request'[s].left = request[s].left - 1
                 /\ request'[s].at = request[s].at
                 /\ request'[s].count = request[s].count
                 /\ request'[s].tone = request[s].tone
      <3>1. request[s] \in Request /\ request[s].left > 0
        BY <1>14, <2>3 DEF Second, CopyIInv, CopyTypeOK, Waiting
      <3>2. request'[s] = [request[s] EXCEPT !.left = @ - 1]
        BY <1>14, <2>3 DEF Second
      <3> QED
        BY <3>1, <3>2 DEF Request, Patience
    <2>4. \A s \in Asking : Waiting(s)' => Waiting(s)
      BY <2>2 DEF Waiting
    <2>5. \A s \in Open' : s \in Open
      BY <2>3, <2>4 DEF Open, Serving
    <2>6. CopyTypeOK'
      <3>1. drain' \in 0 .. DrainFor
        BY <1>14, <2>1 DEF Second, CopyIInv, CopyTypeOK, DrainFor
      <3>2. ASSUME NEW s \in Asking, request'[s] # Free PROVE request'[s] \in Request
        BY <2>2, <2>3, <3>2 DEF CopyIInv, CopyTypeOK
      <3> QED
        BY <2>1, <3>1, <3>2 DEF CopyIInv, CopyTypeOK
    <2>7. PatienceFits'
      <3>1. ASSUME NEW s \in Open', server = "draining", request'[s].at = "served"
            PROVE  request'[s].left < drain'
        <4>1. s \in Open /\ s \in Asking /\ Waiting(s)
          BY <2>5 DEF Open, Serving
        <4>2. request[s].left < drain /\ request[s].left \in Int /\ drain \in Int
          BY <2>3, <3>1, <4>1 DEF CopyIInv, CopyTypeOK, PatienceFits, Request,
                                  Waiting, Patience, DrainFor
        <4> QED
          BY <2>1, <2>3, <3>1, <4>1, <4>2
      <3>2. server = "down" => Open' = {}
        BY <2>5 DEF CopyIInv, PatienceFits
      <3> QED
        BY <2>1, <3>1, <3>2 DEF CopyIInv, PatienceFits
    <2>8. InVoice'
      BY <2>1, <2>3, <2>4 DEF CopyIInv, InVoice, AsksInVoice, LineInVoice
    <2> QED
      BY <2>1, <2>6, <2>7, <2>8 DEF CopyIInv, NoWaiterCutOff
  <1>15. CASE UNCHANGED copyVars
    BY <1>15 DEF copyVars, CopyIInv, CopyTypeOK, PatienceFits, InVoice,
                 AsksInVoice, LineInVoice, NoWaiterCutOff, Waiting, Serving, Open
  <1> QED
    BY <1>1, <1>2, <1>3, <1>4, <1>5, <1>6, <1>7, <1>8, <1>9, <1>10, <1>11,
       <1>12, <1>13, <1>14, <1>15 DEF CopyNext

(***************************************************************************)
(* The service never exits on a client that it let in before the signal    *)
(* and that still waits for it (nag-ai index.ts:32-44,                     *)
(* remoteCopy.ts:45-56).                                                   *)
(***************************************************************************)
THEOREM NobodyCutOff == CopySpec => []NoWaiterCutOff
  <1>1. CopyIInv => NoWaiterCutOff
    BY DEF CopyIInv
  <1> QED
    BY CopyInitHolds, CopyStepHolds, <1>1, PTL DEF CopySpec

LEMMA SumsGrow ==
  ASSUME NEW a \in Nat, NEW b \in Nat, NEW c \in Nat, NEW d \in Nat,
         a <= c, ~(d < b)
  PROVE  a + b \in Nat /\ c + d \in Nat /\ a + b <= c + d
  OBVIOUS

\* The count of snoozes only grows.
LEMMA CountGrows ==
  CopyIInv /\ [CopyNext]_copyVars => snoozes' \in Nat /\ snoozes <= snoozes'
  <1> SUFFICES ASSUME CopyIInv, [CopyNext]_copyVars
               PROVE  snoozes' \in Nat /\ snoozes <= snoozes'
    OBVIOUS
  <1>1. snoozes \in Nat
    BY DEF CopyIInv, CopyTypeOK
  <1>2. ASSUME NEW s \in Asking, SnoozeWritten(s) PROVE snoozes' = snoozes + 1
    BY <1>2 DEF SnoozeWritten
  <1>3. ASSUME NEW s \in Asking,
               \/ TapSnooze(s) \/ Connect(s) \/ Refuse(s) \/ Answer(s)
               \/ GiveUp(s) \/ Fail(s)
        PROVE  snoozes' = snoozes
    BY <1>3 DEF TapSnooze, Connect, Refuse, Answer, Responded, GiveUp, Fail,
                clientVars
  <1>4. CASE \/ ChangeTone \/ Rearm \/ Fire \/ Signal \/ DropIdle \/ Drained
             \/ ForceExit \/ Restart \/ Second \/ UNCHANGED copyVars
    BY <1>1, <1>4 DEF ChangeTone, Rearm, Fire, Signal, DropIdle, Drained,
                      ForceExit, Restart, Second, copyVars, clientVars
  <1> QED
    BY <1>1, <1>2, <1>3, <1>4 DEF CopyNext

(***************************************************************************)
(* A line of the ladder is the one for its place under a tone in force     *)
(* since the latest snooze, and is milder than the one before it only when *)
(* the burst begins again or the tone was changed (copy.ts:220-250,        *)
(* notifications.ts:194-206), in whichever order answers, failures,        *)
(* further snoozes, plans and changes of the tone come.                    *)
(***************************************************************************)
THEOREM LadderNeverSoftens == CopySpec => ToneNeverSoftens
  <1> DEFINE Holds ==
        line' # Rewritten =>
          /\ \E t \in voices' : line' = Ladder(snoozes', place', t)
          /\ line # Rewritten /\ Milder(line', line) =>
               place' < place \/ voices \union voices' # {tone}
  <1>1. CopyIInv /\ CopyIInv' /\ [CopyNext]_copyVars => Holds
    <2> SUFFICES ASSUME CopyIInv, CopyIInv', [CopyNext]_copyVars, line' # Rewritten
                 PROVE  Holds
      BY DEF Holds
    <2>1. PICK t \in voices' : line' = Ladder(snoozes', place', t)
      BY DEF CopyIInv, InVoice, LineInVoice
    <2>2. ASSUME line # Rewritten, ~(place' < place), voices \union voices' = {tone}
          PROVE  ~Milder(line', line)
      <3>1. t = tone /\ tone \in Tones /\ line = Ladder(snoozes, place, tone)
        BY <2>1, <2>2 DEF CopyIInv, CopyTypeOK, InVoice, LineInVoice
      <3>2. /\ snoozes + place \in Nat /\ snoozes' + place' \in Nat
            /\ snoozes + place <= snoozes' + place'
        <4>1. snoozes' \in Nat /\ snoozes <= snoozes'
          BY CountGrows
        <4>2. snoozes \in Nat /\ place \in Nat /\ place' \in Nat
          BY DEF CopyIInv, CopyTypeOK
        <4>3. ~(place' < place)
          BY <2>2
        <4> QED
          BY <4>1, <4>2, <4>3, SumsGrow
      <3>3. /\ LevelAt(snoozes + place, tone) \in Nat
            /\ LevelAt(snoozes' + place', tone) \in Nat
            /\ LevelAt(snoozes + place, tone) <= LevelAt(snoozes' + place', tone)
        BY <3>1, <3>2, LevelIsNat, LevelGrows
      <3> QED
        BY <2>1, <3>1, <3>3, LadderClimbs DEF Ladder
    <2> QED
      BY <2>1, <2>2 DEF Holds
  <1>2. CopyIInv /\ CopyIInv' /\ [CopyNext]_copyVars => [Holds]_copyVars
    BY <1>1
  <1> QED
    BY CopyInitHolds, CopyStepHolds, <1>2, PTL DEF CopySpec, ToneNeverSoftens, Holds

-----------------------------------------------------------------------------
(***************************************************************************)
(* The settings.  Valid: every knob has a value of its own, which is what  *)
(* normalizeSettings makes of anything and leaves alone.                   *)
(***************************************************************************)
Values == BOOLEAN \union Int \union NagTones \union Packs

ValuesOf(k) == IF k \in Flags THEN BOOLEAN
               ELSE IF k \in DOMAIN Limits THEN Limits[k][1] .. Limits[k][2]
               ELSE IF k = "tone" THEN NagTones ELSE Packs

Valid == {m \in [Knobs -> Values] : \A k \in Knobs : m[k] \in ValuesOf(k)}

\* What the knobs and the limits of the numbers are.
LEMMA KnobsDef ==
  /\ DOMAIN Limits = {"snoozeMinutes", "maxPerTask", "globalBudget"}
  /\ Knobs = {"swipeEnabled", "swapDirections", "aiRewrites", "paused",
              "snoozeMinutes", "maxPerTask", "globalBudget", "tone", "pack"}
  /\ Limits["snoozeMinutes"] = <<1, 180>> /\ Limits["maxPerTask"] = <<1, 20>>
  /\ Limits["globalBudget"] = <<4, 60>>
<1>1. DOMAIN Limits = {"snoozeMinutes", "maxPerTask", "globalBudget"}
  BY DEF Limits
<1>2. QED
  BY <1>1 DEF Knobs, Flags, Limits

\* The values of each knob.
LEMMA ValuesOfDef ==
  /\ \A k \in Flags : ValuesOf(k) = BOOLEAN
  /\ ValuesOf("snoozeMinutes") = 1 .. 180 /\ ValuesOf("maxPerTask") = 1 .. 20
  /\ ValuesOf("globalBudget") = 4 .. 60
  /\ ValuesOf("tone") = NagTones /\ ValuesOf("pack") = Packs
  /\ \A k \in Knobs : ValuesOf(k) \subseteq Values
<1>1. \A k \in Flags : ValuesOf(k) = BOOLEAN
  BY DEF ValuesOf
<1>2. /\ ValuesOf("snoozeMinutes") = 1 .. 180 /\ ValuesOf("maxPerTask") = 1 .. 20
      /\ ValuesOf("globalBudget") = 4 .. 60
  BY KnobsDef DEF ValuesOf, Flags
<1>3. ValuesOf("tone") = NagTones /\ ValuesOf("pack") = Packs
  BY KnobsDef DEF ValuesOf, Flags
<1>4. \A k \in Knobs : ValuesOf(k) \subseteq Values
  BY <1>1, <1>2, <1>3, KnobsDef DEF Values, Flags
<1>5. QED
  BY <1>1, <1>2, <1>3, <1>4

\* The defaults are valid settings.
LEMMA DefaultsValid == DefaultSettings \in Valid
<1>1. DOMAIN DefaultSettings = Knobs
  BY KnobsDef DEF DefaultSettings
<1>2. \A k \in Flags : DefaultSettings[k] \in ValuesOf(k)
  <2>1. /\ DefaultSettings["swipeEnabled"] \in BOOLEAN
        /\ DefaultSettings["swapDirections"] \in BOOLEAN
        /\ DefaultSettings["aiRewrites"] \in BOOLEAN
        /\ DefaultSettings["paused"] \in BOOLEAN
    BY DEF DefaultSettings
  <2>2. QED
    BY <2>1, ValuesOfDef DEF Flags
<1>3. \A k \in {"snoozeMinutes", "maxPerTask", "globalBudget"} :
         DefaultSettings[k] \in ValuesOf(k)
  BY ValuesOfDef DEF DefaultSettings
<1>4. \A k \in {"tone", "pack"} : DefaultSettings[k] \in ValuesOf(k)
  BY ValuesOfDef, PacksAssumption DEF DefaultSettings, NagTones
<1>5. \A k \in Knobs : DefaultSettings[k] \in ValuesOf(k)
  BY <1>2, <1>3, <1>4, KnobsDef DEF Flags
<1>6. DefaultSettings = [k \in Knobs |-> DefaultSettings[k]]
  BY KnobsDef DEF DefaultSettings
<1>7. QED
  BY <1>5, <1>6, ValuesOfDef DEF Valid

\* Each knob makes a value of its own of whatever was stored for it.
LEMMA AdmittedValue ==
  ASSUME NEW k \in Knobs, NEW v, k \in DOMAIN Limits => v \in Int \union {Odd}
  PROVE  /\ Admitted(k, v) \in ValuesOf(k)
         /\ v \in ValuesOf(k) => Admitted(k, v) = v
<1>1. DefaultSettings[k] \in ValuesOf(k)
  BY DefaultsValid DEF Valid
<1>2. CASE k \in DOMAIN Limits
  <2>1. v \in ValuesOf(k) => v # Odd
    BY <1>2, KnobsDef, ValuesOfDef, OddAssumption
  <2>2. v # Odd => Admitted(k, v) = Clamped(v, Limits[k])
    BY <1>2 DEF Admitted
  <2>3. v = Odd => Admitted(k, v) = DefaultSettings[k]
    BY <1>2 DEF Admitted
  <2>4. v # Odd => /\ Clamped(v, Limits[k]) \in ValuesOf(k)
                   /\ v \in ValuesOf(k) => Clamped(v, Limits[k]) = v
    BY <1>2, KnobsDef, ValuesOfDef DEF Clamped
  <2>5. QED
    BY <1>1, <2>1, <2>2, <2>3, <2>4
<1>3. CASE k \notin DOMAIN Limits
  <2>1. Offered(k) = ValuesOf(k)
    BY <1>3, ValuesOfDef DEF Offered, ValuesOf, Knobs
  <2>2. QED
    BY <1>1, <1>3, <2>1 DEF Admitted
<1>4. QED
  BY <1>2, <1>3

\* Whatever is read, the app gets valid settings.
LEMMA NormalizeValid ==
  ASSUME NEW raw, Storable(raw)
  PROVE  Normalize(raw) \in Valid
<1> DEFINE F(k) == IF k \in DOMAIN raw THEN Admitted(k, raw[k]) ELSE DefaultSettings[k]
<1>1. Normalize(raw) = [k \in Knobs |-> F(k)]
  BY DEF Normalize
<1>2. ASSUME NEW k \in Knobs PROVE F(k) \in ValuesOf(k)
  <2>1. CASE k \in DOMAIN raw
    BY <2>1, AdmittedValue DEF Storable
  <2>2. CASE k \notin DOMAIN raw
    BY <2>2, DefaultsValid DEF Valid
  <2>3. QED
    BY <2>1, <2>2
<1> HIDE DEF F
<1>3. QED
  BY <1>1, <1>2, ValuesOfDef DEF Valid

\* Valid settings are read back as they are.
LEMMA NormalizeKeeps ==
  ASSUME NEW m \in Valid
  PROVE  Normalize(m) = m /\ Storable(m)
<1> DEFINE F(k) == IF k \in DOMAIN m THEN Admitted(k, m[k]) ELSE DefaultSettings[k]
<1>1. m \in [Knobs -> Values] /\ \A k \in Knobs : m[k] \in ValuesOf(k)
  BY DEF Valid
<1>2. \A k \in DOMAIN Limits : m[k] \in Int
  BY <1>1, KnobsDef, ValuesOfDef
<1>3. ASSUME NEW k \in Knobs PROVE F(k) = m[k]
  BY <1>1, <1>2, AdmittedValue
<1>4. Normalize(m) = [k \in Knobs |-> F(k)]
  BY DEF Normalize
<1> HIDE DEF F
<1>5. Normalize(m) = m
  BY <1>1, <1>3, <1>4
<1>6. QED
  BY <1>2, <1>5 DEF Storable

\* One knob turned to a value of its own leaves the settings valid.
LEMMA TurnValid ==
  ASSUME NEW m \in Valid, NEW k \in Knobs, NEW v \in ValuesOf(k)
  PROVE  [m EXCEPT ![k] = v] \in Valid
<1>1. v \in Values
  BY ValuesOfDef
<1>2. QED
  BY <1>1 DEF Valid

\* Every control turns valid settings into valid settings.
LEMMA ControlsUpdate ==
  ASSUME memory \in Valid, Toggle \/ Choose \/ StepBy \/ ResetSettings
  PROVE  \E next \in Valid : UpdateSettings(next)
<1>1. CASE Toggle
  <2>1. PICK k \in Flags : Set(k, ~memory[k])
    BY <1>1 DEF Toggle
  <2>2. k \in Knobs /\ ValuesOf(k) = BOOLEAN
    BY ValuesOfDef DEF Knobs
  <2> DEFINE v == ~memory[k]
  <2>3. v \in BOOLEAN
    OBVIOUS
  <2>4. Set(k, v)
    BY <2>1
  <2> HIDE DEF v
  <2>5. QED
    BY <2>2, <2>3, <2>4, TurnValid DEF Set
<1>2. CASE Choose
  <2>1. \/ \E t \in NagTones : Set("tone", t)
        \/ \E p \in Packs : Set("pack", p)
    BY <1>2 DEF Choose
  <2>2. "tone" \in Knobs /\ "pack" \in Knobs
    BY DEF Knobs
  <2>3. QED
    BY <2>1, <2>2, ValuesOfDef, TurnValid DEF Set
<1>3. CASE StepBy
  <2>1. PICK k \in DOMAIN Limits, sign \in {-1, 1} :
          Set(k, Clamped(memory[k] + sign * StepSize(k), Limits[k]))
    BY <1>3 DEF StepBy
  <2>2. k \in Knobs /\ memory[k] \in Int
    BY KnobsDef, ValuesOfDef DEF Valid
  <2>3. StepSize(k) \in Int
    BY <2>2, KnobsDef DEF StepSize
  <2>4. memory[k] + sign * StepSize(k) \in Int
    <3>1. sign * StepSize(k) \in Int
      BY <2>3
    <3>2. QED
      BY <2>2, <3>1
  <2>5. \A v \in Int : Clamped(v, Limits[k]) \in ValuesOf(k)
    BY KnobsDef, ValuesOfDef DEF Clamped
  <2>6. QED
    BY <2>1, <2>2, <2>4, <2>5, TurnValid DEF Set
<1>4. CASE ResetSettings
  BY <1>4, DefaultsValid DEF ResetSettings
<1>5. QED
  BY <1>1, <1>2, <1>3, <1>4

\* Of what waits in the storage, the latest is the last.
LEMMA WaitingWrites ==
  ASSUME NEW s \in Seq(Valid)
  PROVE  /\ \A e \in Valid : /\ Append(s, e) \in Seq(Valid) /\ Append(s, e) # <<>>
                             /\ Append(s, e)[Len(Append(s, e))] = e
         /\ s # <<>> => /\ Head(s) \in Valid /\ Tail(s) \in Seq(Valid)
                        /\ Tail(s) = <<>> => s[Len(s)] = Head(s)
                        /\ Tail(s) # <<>> => Tail(s)[Len(Tail(s))] = s[Len(s)]
<1>e. \A t \in Seq(Valid) : (t = <<>>) <=> (Len(t) = 0)
  OBVIOUS
<1>1. \A e \in Valid : /\ Append(s, e) \in Seq(Valid) /\ Append(s, e) # <<>>
                       /\ Append(s, e)[Len(Append(s, e))] = e
  OBVIOUS
<1>2. ASSUME s # <<>>
      PROVE  /\ Head(s) \in Valid /\ Tail(s) \in Seq(Valid)
             /\ Len(Tail(s)) = Len(s) - 1
             /\ \A i \in 1 .. Len(s) - 1 : Tail(s)[i] = s[i + 1]
  BY <1>2
<1>3. s # <<>> => Head(s) = s[1] /\ Len(s) \in Nat \ {0}
  OBVIOUS
<1>4. s # <<>> /\ Tail(s) = <<>> => s[Len(s)] = Head(s)
  <2>1. s # <<>> /\ Tail(s) = <<>> => Len(s) - 1 = 0
    BY <1>2, <1>e
  <2>2. QED
    BY <1>3, <2>1
<1>5. s # <<>> /\ Tail(s) # <<>> => Tail(s)[Len(Tail(s))] = s[Len(s)]
  <2>1. s # <<>> /\ Tail(s) # <<>> => Len(Tail(s)) # 0
    BY <1>2, <1>e
  <2>2. QED
    BY <1>2, <1>3, <2>1
<1>6. QED
  BY <1>1, <1>2, <1>4, <1>5

\* The type invariant.
SettingsTyped ==
  /\ memory \in Valid /\ writes \in Seq(Valid)
  /\ Storable(stored) /\ Storable(answer)
  /\ rearms \in Nat /\ lost \in BOOLEAN

\* The inductive invariant.  Nothing having gone wrong since the launch, no
\* change waits before the stored settings are taken, which are the ones that
\* were read; from then on memory is what was last handed to the storage, and
\* a plan under other options has a re-arm coming.
SettingsKept ==
  /\ load # "taken" => writes = <<>>
  /\ load = "read" => answer = stored
  /\ load = "taken" =>
       /\ writes = <<>> => memory = Normalize(stored)
       /\ writes # <<>> => writes[Len(writes)] = memory
       /\ rearms = 0 => planned = PlanOptions(memory)

SettingsIInv == SettingsTyped /\ (~lost => SettingsKept)

\* The invariant holds when the app is launched for the first time.
LEMMA SettingsInitHolds == SettingsInit => SettingsIInv
<1> SUFFICES ASSUME SettingsInit PROVE SettingsIInv
  OBVIOUS
<1>1. Storable(<<>>)
  BY DEF Storable
<1>2. <<>> \in Seq(Valid)
  OBVIOUS
<1>3. SettingsTyped
  BY <1>1, <1>2, DefaultsValid, FoundAssumption DEF SettingsInit, SettingsTyped
<1>4. QED
  BY <1>3 DEF SettingsInit, SettingsIInv, SettingsKept

\* And every step keeps it.
LEMMA SettingsStepHolds == SettingsIInv /\ [SettingsNext]_settingsVars => SettingsIInv'
<1> SUFFICES ASSUME SettingsIInv, [SettingsNext]_settingsVars PROVE SettingsIInv'
  OBVIOUS
<1> USE DEF SettingsIInv
<1>e. Storable(<<>>) /\ <<>> \in Seq(Valid)
  BY DEF Storable
<1>1. CASE ReadStored
  <2>1. SettingsTyped'
    BY <1>1, <1>e DEF ReadStored, SettingsTyped, Mishap
  <2>2. ~lost' => SettingsKept'
    BY <1>1 DEF ReadStored, SettingsKept, Mishap
  <2>3. QED
    BY <2>1, <2>2
<1>2. CASE WriteStored
  <2>1. writes \in Seq(Valid) /\ writes # <<>>
    BY <1>2 DEF WriteStored, SettingsTyped
  <2>2. /\ Head(writes) \in Valid /\ Tail(writes) \in Seq(Valid)
        /\ Tail(writes) = <<>> => writes[Len(writes)] = Head(writes)
        /\ Tail(writes) # <<>> => Tail(writes)[Len(Tail(writes))] = writes[Len(writes)]
    BY <2>1, WaitingWrites
  <2>3. Normalize(Head(writes)) = Head(writes) /\ Storable(Head(writes))
    BY <2>2, NormalizeKeeps
  <2>4. SettingsTyped'
    BY <1>2, <2>2, <2>3 DEF WriteStored, SettingsTyped, Mishap
  <2>5. ASSUME ~lost' PROVE SettingsKept'
    <3>1. stored' = Head(writes) /\ ~lost
      BY <1>2, <2>5 DEF WriteStored, Mishap
    <3>2. load = "taken" /\ writes[Len(writes)] = memory
      BY <2>1, <3>1 DEF SettingsKept
    <3>3. /\ writes' = Tail(writes)
          /\ memory' = memory /\ load' = load /\ rearms' = rearms /\ planned' = planned
      BY <1>2 DEF WriteStored
    <3>4. writes' = <<>> => memory' = Normalize(stored')
      BY <2>2, <2>3, <3>1, <3>2, <3>3
    <3>5. writes' # <<>> => writes'[Len(writes')] = memory'
      BY <2>2, <3>2, <3>3
    <3>6. rearms' = 0 => planned' = PlanOptions(memory')
      BY <3>1, <3>2, <3>3 DEF SettingsKept
    <3>7. QED
      BY <3>2, <3>3, <3>4, <3>5, <3>6 DEF SettingsKept
  <2>6. QED
    BY <2>4, <2>5
<1>3. CASE TakeLoaded
  <2>1. Normalize(answer) \in Valid
    BY NormalizeValid DEF SettingsTyped
  <2>2. SettingsTyped'
    BY <1>3, <1>e, <2>1 DEF TakeLoaded, SettingsTyped
  <2>3. rearms' # 0
    BY <1>3 DEF TakeLoaded, SettingsTyped
  <2>4. ~lost' => SettingsKept'
    BY <1>3, <2>3 DEF TakeLoaded, SettingsKept
  <2>5. QED
    BY <2>2, <2>4
<1>4. CASE Toggle \/ Choose \/ StepBy \/ ResetSettings
  <2>1. PICK next \in Valid : UpdateSettings(next)
    BY <1>4, ControlsUpdate DEF SettingsTyped
  <2>2. /\ Append(writes, next) \in Seq(Valid) /\ Append(writes, next) # <<>>
        /\ Append(writes, next)[Len(Append(writes, next))] = next
    BY WaitingWrites DEF SettingsTyped
  <2>3. rearms' \in Nat /\ rearms' # 0
    BY <2>1 DEF UpdateSettings, SettingsTyped
  <2>4. SettingsTyped'
    BY <2>1, <2>2, <2>3 DEF UpdateSettings, SettingsTyped
  <2>5. ~lost' => SettingsKept'
    BY <2>1, <2>2, <2>3 DEF UpdateSettings, SettingsKept
  <2>6. QED
    BY <2>4, <2>5
<1>5. CASE Relist
  <2>1. SettingsTyped' /\ rearms' # 0
    BY <1>5 DEF Relist, SettingsTyped
  <2>2. ~lost' => SettingsKept'
    BY <1>5, <2>1 DEF Relist, SettingsKept
  <2>3. QED
    BY <2>1, <2>2
<1>6. CASE PlanAll
  <2> DEFINE n == rearms - 1
  <2>n. n \in Nat
    BY <1>6 DEF PlanAll, SettingsTyped
  <2>l. /\ rearms' = n /\ lost' \in BOOLEAN
        /\ memory' = memory /\ writes' = writes /\ stored' = stored /\ answer' = answer
    BY <1>6 DEF PlanAll, SettingsTyped, Mishap
  <2> HIDE DEF n
  <2>1. SettingsTyped'
    BY <2>n, <2>l DEF SettingsTyped
  <2>2. ~lost' => SettingsKept'
    BY <1>6 DEF PlanAll, SettingsKept, Mishap, PlanOptions
  <2>3. QED
    BY <2>1, <2>2
<1>7. CASE EndApp
  <2>1. SettingsTyped'
    BY <1>7, <1>e, DefaultsValid DEF EndApp, SettingsTyped
  <2>2. SettingsKept'
    BY <1>7 DEF EndApp, SettingsKept
  <2>3. QED
    BY <2>1, <2>2
<1>8. CASE UNCHANGED settingsVars
  BY <1>8 DEF settingsVars, SettingsTyped, SettingsKept, PlanOptions
<1>9. QED
  BY <1>1, <1>2, <1>3, <1>4, <1>5, <1>6, <1>7, <1>8 DEF SettingsNext

\* SettingsInForce: the settings in memory are valid whatever was stored, and
\* once nothing is under way they are the stored ones and the planned ones.
THEOREM LatestSettingsGovern == SettingsSpec => []SettingsInForce
<1>1. SettingsIInv => SettingsInForce
  <2> SUFFICES ASSUME SettingsIInv PROVE SettingsInForce
    OBVIOUS
  <2>1. memory = Normalize(memory)
    BY NormalizeKeeps DEF SettingsIInv, SettingsTyped
  <2>2. QED
    BY <2>1 DEF SettingsIInv, SettingsKept, SettingsInForce, Settled
<1>2. QED
  BY <1>1, SettingsInitHolds, SettingsStepHolds, PTL DEF SettingsSpec

-----------------------------------------------------------------------------
(* The composer and the edit sheet.                                        *)

\* What the store and the sheet hold.
SavedTask ==
  [fire : Opt(Int), interval : Nat \ {0}, count : Opt(Nat), shrink : BOOLEAN,
   lead : LeadChoices, repeat : RepeatChoices,
   rounds : Opt(Int), roundsMax : Opt(Int), roundsFor : Opt(Int)]

Sheet ==
  [dated : BOOLEAN, fire : Opt(Int), interval : Nat \ {0}, count : Opt(Nat),
   shrink : BOOLEAN, lead : LeadChoices, repeat : RepeatChoices, mode : CapModes,
   rounds : Int, roundsMax : Int, roundsFor : Int, custom : BOOLEAN]

\* The inductive invariant: a task nagged once does not tighten, and it has
\* rounds exactly if it has one of the two caps on them.
Saveable(t) ==
  /\ t.count = 1 => ~t.shrink
  /\ t.roundsMax = Null \/ t.roundsFor = Null
  /\ t.rounds = Null <=> t.roundsMax = Null /\ t.roundsFor = Null

EditorIInv ==
  /\ client \in {"phone", "web"}
  /\ saved \in SavedTask /\ Saveable(saved)
  /\ draft = Null \/ draft \in Sheet

\* Lengths of time are lengths.
LEMMA Durations ==
  /\ \A n \in Int : Minutes(n) \in Int /\ Hours(n) \in Int
  /\ \A n \in {1, 2, 3, 4, 5, 15, 24, 30} : Minutes(n) \in Nat \ {0} /\ Hours(n) \in Nat \ {0}
<1>1. Floor \in Nat \ {0}
  BY FloorAssumption
<1>2. \A n \in Int : Minutes(n) \in Int
  BY <1>1 DEF Minutes
<1>3. \A n \in Int : Hours(n) \in Int
  <2>1. \A n \in Int : 60 * n \in Int
    OBVIOUS
  <2>2. QED
    BY <1>2, <2>1 DEF Hours
<1>4. \A n \in {1, 2, 3, 4, 5, 15, 24, 30} : Minutes(n) \in Nat \ {0}
  BY <1>1 DEF Minutes
<1>5. \A n \in {1, 2, 3, 4, 5, 15, 24, 30} : Hours(n) \in Nat \ {0}
  BY <1>1 DEF Minutes, Hours
<1>6. QED
  BY <1>2, <1>3, <1>4, <1>5

\* The web's date field makes a time of a time.
LEMMA InFieldType == \A fire \in Int : InField(fire) \in Int
<1>1. Minutes(1) \in Nat \ {0} /\ Hours(1) \in Int
  BY Durations
<1>2. QED
  BY <1>1 DEF InField

\* What takes the place of an absent value is one of its kind.
LEMMA DefaultType ==
  ASSUME NEW S, NEW v \in Opt(S), NEW w \in S
  PROVE  Default(v, w) \in S
BY DEF Opt, Default

\* The sheet opens as it should be.
LEMMA DraftOfType ==
  ASSUME NEW t \in SavedTask
  PROVE  DraftOf(t) \in Sheet
<1> DEFINE fire == InField(Default(t.fire, Today + Hours(1)))
           rounds == Default(t.rounds, Hours(1))
           roundsMax == Default(t.roundsMax, 2)
           roundsFor == Default(t.roundsFor, Hours(2))
           custom == ~MatchesPreset(t.interval, t.count)
           dated == t.fire # Null
           mode == ModeOf(t)
<1>1. fire \in Int
  <2>1. Today + Hours(1) \in Int
    BY TimesAssumption, Durations
  <2>2. Default(t.fire, Today + Hours(1)) \in Int
    BY <2>1, DefaultType DEF SavedTask
  <2>3. QED
    BY <2>2, InFieldType
<1>2. rounds \in Int /\ roundsMax \in Int /\ roundsFor \in Int
  BY Durations, DefaultType DEF SavedTask
<1>3. custom \in BOOLEAN /\ dated \in BOOLEAN
  OBVIOUS
<1>4. mode \in CapModes
  BY DEF ModeOf, CapModes
<1>5. DraftOf(t) = [dated |-> dated, fire |-> fire, interval |-> t.interval,
        count |-> t.count, shrink |-> t.shrink, lead |-> t.lead, repeat |-> t.repeat,
        mode |-> mode, rounds |-> rounds, roundsMax |-> roundsMax,
        roundsFor |-> roundsFor, custom |-> custom]
  BY DEF DraftOf
<1>6. fire \in Opt(Int)
  BY <1>1 DEF Opt
<1> HIDE DEF fire, rounds, roundsMax, roundsFor, custom, dated, mode
<1>7. QED
  BY <1>2, <1>3, <1>4, <1>5, <1>6 DEF Sheet, SavedTask

\* What is saved is a sound task.
LEMMA SavedFromSound ==
  ASSUME saved \in SavedTask, NEW d \in Sheet
  PROVE  SavedFrom(d) \in SavedTask /\ Saveable(SavedFrom(d))
<1> DEFINE fire == IF d.dated THEN Default(d.fire, saved.fire) ELSE Null
           shrink == d.shrink /\ d.count # 1
           lead == IF d.dated THEN d.lead ELSE Null
           repeat == IF d.dated THEN d.repeat ELSE Null
           rounds == IF d.dated /\ d.mode # "off" THEN d.rounds ELSE Null
           roundsMax == IF d.dated /\ d.mode = "count" THEN d.roundsMax ELSE Null
           roundsFor == IF d.dated /\ d.mode = "duration" THEN d.roundsFor ELSE Null
<1>1. fire \in Opt(Int)
  BY DEF Sheet, SavedTask, Default, Opt
<1>2. shrink \in BOOLEAN /\ (d.count = 1 => ~shrink)
  OBVIOUS
<1>3. lead \in LeadChoices /\ repeat \in RepeatChoices
  BY DEF Sheet, LeadChoices, RepeatChoices
<1>4. rounds \in Opt(Int) /\ roundsMax \in Opt(Int) /\ roundsFor \in Opt(Int)
  BY DEF Sheet, Opt
<1>5. /\ roundsMax = Null \/ roundsFor = Null
      /\ rounds = Null <=> roundsMax = Null /\ roundsFor = Null
  <2>1. d.rounds # Null /\ d.roundsMax # Null /\ d.roundsFor # Null
    BY NullAssumption DEF Sheet
  <2>2. d.mode \in {"off", "count", "duration"}
    BY DEF Sheet, CapModes
  <2>3. QED
    BY <2>1, <2>2
<1>6. SavedFrom(d) =
        [fire |-> fire, interval |-> d.interval, count |-> d.count, shrink |-> shrink,
         lead |-> lead, repeat |-> repeat, rounds |-> rounds,
         roundsMax |-> roundsMax, roundsFor |-> roundsFor]
  BY DEF SavedFrom
<1>7. d.interval \in Nat \ {0} /\ d.count \in Opt(Nat)
  BY DEF Sheet
<1> HIDE DEF fire, shrink, lead, repeat, rounds, roundsMax, roundsFor
<1>8. SavedFrom(d) \in SavedTask
  BY <1>1, <1>2, <1>3, <1>4, <1>6, <1>7 DEF SavedTask
<1>9. Saveable(SavedFrom(d))
  BY <1>2, <1>5, <1>6 DEF Saveable
<1>10. QED
  BY <1>8, <1>9

\* What the composer has made is saveable.
LEMMA EditorInitHolds == EditorInit => EditorIInv
<1> SUFFICES ASSUME EditorInit PROVE EditorIInv
  OBVIOUS
<1>1. PICK preset \in Presets, fire \in PickDates \union {Null} :
        saved = Composed(preset, fire)
  BY DEF EditorInit
<1>2. preset[1] \in Nat \ {0} /\ preset[2] \in {5, 6} /\ preset[3] \in BOOLEAN
  <2>1. Floor \in Nat \ {0} /\ Hours(1) \in Nat \ {0} /\ Minutes(1) \in Nat \ {0}
    BY FloorAssumption, Durations
  <2>2. CASE preset = <<Floor, 5, FALSE>>
    BY <2>1, <2>2
  <2>3. CASE preset = <<Hours(1), 6, FALSE>>
    BY <2>1, <2>3
  <2>4. CASE preset = <<Minutes(1), 6, TRUE>>
    BY <2>1, <2>4
  <2>5. QED
    BY <2>2, <2>3, <2>4 DEF Presets
<1>3. fire \in Opt(Int)
  BY TimesAssumption DEF Opt
<1>4. Null \in LeadChoices /\ Null \in RepeatChoices /\ Null \in Opt(Int)
  BY DEF LeadChoices, RepeatChoices, Opt
<1>5. preset[2] \in Opt(Nat) /\ preset[2] # 1
  BY <1>2 DEF Opt
<1>6. saved \in SavedTask
  BY <1>1, <1>2, <1>3, <1>4, <1>5 DEF Composed, SavedTask
<1>7. Saveable(saved)
  BY <1>1, <1>5 DEF Composed, Saveable
<1>8. QED
  BY <1>6, <1>7 DEF EditorIInv, EditorInit

\* Every control leaves a sheet as it should be, and what is saved is saveable.
LEMMA EditorStepHolds == EditorIInv /\ [EditorNext]_editorVars => EditorIInv'
<1> SUFFICES ASSUME EditorIInv, [EditorNext]_editorVars PROVE EditorIInv'
  OBVIOUS
<1> USE DEF EditorIInv
<1>u. ASSUME NEW changed \in Sheet, Use(changed) PROVE EditorIInv'
  BY <1>u DEF Use
<1>d. draft # Null => draft \in Sheet
  OBVIOUS
<1>1. CASE OpenEditor
  BY <1>1, DraftOfType DEF OpenEditor
<1>2. CASE ToggleDated
  <2> DEFINE v == ~draft.dated
  <2>1. v \in BOOLEAN
    OBVIOUS
  <2>2. Use([draft EXCEPT !.dated = v]) /\ draft \in Sheet
    BY <1>2, <1>d DEF ToggleDated
  <2> HIDE DEF v
  <2>3. [draft EXCEPT !.dated = v] \in Sheet
    BY <2>1, <2>2 DEF Sheet
  <2>4. QED
    BY <2>2, <2>3, <1>u
<1>3. CASE PickDate
  <2>1. PICK fire \in PickDates : Use([draft EXCEPT !.fire = InField(fire)])
    BY <1>3 DEF PickDate
  <2>2. InField(fire) \in Opt(Int)
    BY InFieldType, TimesAssumption DEF Opt
  <2>3. [draft EXCEPT !.fire = InField(fire)] \in Sheet
    BY <1>3, <1>d, <2>2 DEF PickDate, Sheet
  <2>4. QED
    BY <2>1, <2>3, <1>u
<1>4. CASE ClearDate
  <2>1. [draft EXCEPT !.fire = Null] \in Sheet
    BY <1>4, <1>d DEF ClearDate, Sheet, Opt
  <2>2. QED
    BY <1>4, <2>1, <1>u DEF ClearDate
<1>5. CASE ChoosePreset
  <2>1. PICK p \in NagPresets : Use([draft EXCEPT !.custom = FALSE,
                                     !.interval = p[1], !.count = p[2]])
    BY <1>5, Zenon DEF ChoosePreset
  <2>2. p[1] \in Nat \ {0}
    BY Durations DEF NagPresets
  <2>3. p[2] \in Opt(Nat)
    BY DEF NagPresets, Opt
  <2>4. [draft EXCEPT !.custom = FALSE, !.interval = p[1], !.count = p[2]] \in Sheet
    BY <1>5, <1>d, <2>2, <2>3 DEF ChoosePreset, Sheet
  <2>5. QED
    BY <2>1, <2>4, <1>u
<1>6. CASE ChooseCustom
  <2>1. [draft EXCEPT !.custom = TRUE] \in Sheet
    BY <1>6, <1>d DEF ChooseCustom, Sheet
  <2>2. QED
    BY <1>6, <2>1, <1>u DEF ChooseCustom
<1>7. CASE PickInterval
  <2>1. PICK i \in IntervalChoices : Use([draft EXCEPT !.interval = i])
    BY <1>7 DEF PickInterval
  <2>2. i \in Nat \ {0}
    BY Durations, FloorAssumption DEF IntervalChoices
  <2>3. [draft EXCEPT !.interval = i] \in Sheet
    BY <1>7, <1>d, <2>2 DEF PickInterval, Customising, Sheet
  <2>4. QED
    BY <2>1, <2>3, <1>u
<1>8. CASE StepCount
  <2>1. PICK n \in Stepped(Default(draft.count, 20), 1, 20) :
          Use([draft EXCEPT !.count = n])
    BY <1>8 DEF StepCount
  <2>2. draft \in Sheet /\ Default(draft.count, 20) \in Nat
    BY <1>8, <1>d, DefaultType DEF StepCount, Customising, Sheet
  <2>3. n \in Opt(Nat)
    BY <2>2 DEF Stepped, Larger, Smaller, Opt
  <2>4. [draft EXCEPT !.count = n] \in Sheet
    BY <2>2, <2>3 DEF Sheet
  <2>5. QED
    BY <2>1, <2>4, <1>u
<1>9. CASE ToggleUntilDone
  <2> DEFINE n == IF draft.count = Null THEN 6 ELSE Null
  <2>1. n \in Opt(Nat)
    BY DEF Opt
  <2>2. Use([draft EXCEPT !.count = n]) /\ draft \in Sheet
    BY <1>9, <1>d DEF ToggleUntilDone, Customising
  <2> HIDE DEF n
  <2>3. [draft EXCEPT !.count = n] \in Sheet
    BY <2>1, <2>2 DEF Sheet
  <2>4. QED
    BY <2>2, <2>3, <1>u
<1>10. CASE ToggleShrink
  <2> DEFINE v == ~draft.shrink
  <2>1. v \in BOOLEAN
    OBVIOUS
  <2>2. Use([draft EXCEPT !.shrink = v]) /\ draft \in Sheet
    BY <1>10, <1>d DEF ToggleShrink, Customising
  <2> HIDE DEF v
  <2>3. [draft EXCEPT !.shrink = v] \in Sheet
    BY <2>1, <2>2 DEF Sheet
  <2>4. QED
    BY <2>2, <2>3, <1>u
<1>11. CASE PickLead
  <2>1. PICK l \in LeadChoices : Use([draft EXCEPT !.lead = l])
    BY <1>11 DEF PickLead
  <2>2. [draft EXCEPT !.lead = l] \in Sheet
    BY <1>11, <1>d DEF PickLead, Dated, Sheet
  <2>3. QED
    BY <2>1, <2>2, <1>u
<1>12. CASE PickRepeat
  <2>1. PICK r \in RepeatChoices : Use([draft EXCEPT !.repeat = r])
    BY <1>12 DEF PickRepeat
  <2>2. [draft EXCEPT !.repeat = r] \in Sheet
    BY <1>12, <1>d DEF PickRepeat, Dated, Sheet
  <2>3. QED
    BY <2>1, <2>2, <1>u
<1>13. CASE PickRounds
  <2>1. PICK i \in RoundsChoices : Use([draft EXCEPT !.rounds = i])
    BY <1>13 DEF PickRounds
  <2>2. i \in Int
    BY Durations DEF RoundsChoices
  <2>3. [draft EXCEPT !.rounds = i] \in Sheet
    BY <1>13, <1>d, <2>2 DEF PickRounds, Dated, Sheet
  <2>4. QED
    BY <2>1, <2>3, <1>u
<1>14. CASE PickMode
  <2>1. PICK m \in CapModes : Use([draft EXCEPT !.mode = m])
    BY <1>14 DEF PickMode
  <2>2. [draft EXCEPT !.mode = m] \in Sheet
    BY <1>14, <1>d DEF PickMode, Dated, Sheet
  <2>3. QED
    BY <2>1, <2>2, <1>u
<1>15. CASE StepRounds
  <2>1. PICK n \in Stepped(draft.roundsMax, 2, 20) :
          Use([draft EXCEPT !.roundsMax = n])
    BY <1>15 DEF StepRounds
  <2>2. draft \in Sheet /\ draft.roundsMax \in Int
    BY <1>15, <1>d DEF StepRounds, Dated, Sheet
  <2>3. n \in Int
    BY <2>2 DEF Stepped, Larger, Smaller
  <2>4. [draft EXCEPT !.roundsMax = n] \in Sheet
    BY <2>2, <2>3 DEF Sheet
  <2>5. QED
    BY <2>1, <2>4, <1>u
<1>16. CASE StepHours
  <2>1. PICK n \in Stepped(draft.roundsFor \div Hours(1), 1, 24) :
          Use([draft EXCEPT !.roundsFor = Hours(n)])
    BY <1>16 DEF StepHours
  <2>2. draft \in Sheet /\ draft.roundsFor \div Hours(1) \in Int
    <3>1. draft \in Sheet /\ draft.roundsFor \in Int
      BY <1>16, <1>d DEF StepHours, Dated, Sheet
    <3>2. QED
      BY <3>1, Durations
  <2>3. n \in Int
    BY <2>2 DEF Stepped, Larger, Smaller
  <2>4. Hours(n) \in Int
    BY <2>3, Durations
  <2>5. [draft EXCEPT !.roundsFor = Hours(n)] \in Sheet
    BY <2>2, <2>4 DEF Sheet
  <2>6. QED
    BY <2>1, <2>5, <1>u
<1>17. CASE SaveEditor
  BY <1>17, SavedFromSound DEF SaveEditor
<1>18. CASE CloseEditor
  BY <1>18 DEF CloseEditor
<1>19. CASE UNCHANGED editorVars
  BY <1>19 DEF editorVars
<1>20. QED
  BY <1>1, <1>2, <1>3, <1>4, <1>5, <1>6, <1>7, <1>8, <1>9, <1>10, <1>11, <1>12,
     <1>13, <1>14, <1>15, <1>16, <1>17, <1>18, <1>19 DEF EditorNext

\* A task that is nagged once fires at its time, tightening or not.
LEMMA OneFire ==
  ASSUME NEW w \in Walk, w.maxCount = 1, w.until = Null, w.prior = 0,
         NEW now \in Nat, w.start >= now
  PROVE  Burst(w, Burst20, now) = <<w.start>>
<1> DEFINE burst == Burst(w, Burst20, now)
           begun == FirstDue(w, now)
           nth == FireTimes(w)
<1>1. begun = 0
  <2>1. nth[0] >= now /\ begun \in Nat
    BY FireTimesDef, FirstDueDef
  <2>2. 0 >= begun
    BY <2>1, FirstDueDef
  <2>3. QED
    BY <2>1, <2>2
<1>2. /\ burst \in Seq(Nat) /\ Len(burst) \in Nat
      /\ \A i \in 1 .. Len(burst) : /\ burst[i] = nth[begun + i - 1]
                                    /\ Allowed(w, w.prior + begun + i - 1, nth[begun + i - 1])
      /\ Len(burst) < 20 =>
           ~Allowed(w, w.prior + begun + Len(burst), nth[begun + Len(burst)])
  BY BurstDef DEF Burst20
<1> HIDE DEF burst, begun
<1>3. Len(burst) # 0
  <2>1. Allowed(w, 0, nth[0])
    BY DEF Allowed
  <2>2. QED
    BY <1>1, <1>2, <2>1
<1>4. ~(Len(burst) >= 2)
  <2>1. SUFFICES ASSUME Len(burst) >= 2 PROVE FALSE
    OBVIOUS
  <2>2. Allowed(w, 1, nth[1])
    <3>1. 2 \in 1 .. Len(burst) /\ w.prior + begun + 2 - 1 = 1 /\ begun + 2 - 1 = 1
      BY <1>1, <1>2, <2>1
    <3>2. Allowed(w, w.prior + begun + 2 - 1, nth[begun + 2 - 1])
      BY <1>2, <3>1
    <3>3. QED
      BY <3>1, <3>2
  <2>3. QED
    BY <2>2, NullAssumption DEF Allowed
<1>5. Len(burst) = 1 /\ burst[1] = w.start
  <2>1. Len(burst) \in Nat
    BY <1>2
  <2>2. Len(burst) = 1
    <3>1. \A n \in Nat : n # 0 /\ ~(n >= 2) => n = 1
      OBVIOUS
    <3>2. QED
      BY <1>3, <1>4, <2>1, <3>1, Zenon
  <2>3. 1 \in 1 .. Len(burst) /\ begun + 1 - 1 = 0
    BY <1>1, <2>2
  <2>4. burst[1] = nth[begun + 1 - 1]
    BY <1>2, <2>3
  <2>5. nth[0] = w.start
    BY FireTimesDef
  <2>6. QED
    BY <2>2, <2>3, <2>4, <2>5
<1>6. QED
  BY <1>2, <1>5 DEF burst

\* The preview walks along the very fires that the planner will walk along.
LEMMA ShownAsPlanned == EditorIInv => PreviewIsPlan
<1> SUFFICES ASSUME draft \in Sheet, draft.dated, draft.fire # Null, ~PastDue(draft)
             PROVE  ShownIsPlanned
  BY DEF EditorIInv, PreviewIsPlan
<1> DEFINE t == Planned(SavedFrom(draft))
<1>1. From(draft) = draft.fire
  BY DEF From
<1>2. /\ t.fireAt = draft.fire /\ t.interval = draft.interval
      /\ t.maxCount = draft.count /\ t.until = Null
      /\ t.shrink = (draft.shrink /\ draft.count # 1) /\ t.snoozed = 0
      /\ t.rounds = IF draft.mode # "off" THEN draft.rounds ELSE Null
      /\ t.roundsMax = IF draft.mode = "count" THEN draft.roundsMax ELSE Null
      /\ t.roundsFor = IF draft.mode = "duration" THEN draft.roundsFor ELSE Null
  BY DEF Planned, SavedFrom, Default
<1>3. draft.roundsFor # Null
  BY NullAssumption DEF Sheet
<1> HIDE DEF t
<1>4. NagPreview(draft) = Burst(NagWalk(t), Burst20, Today)
  <2> DEFINE W(shrink) == [start |-> draft.fire, interval |-> draft.interval,
                           maxCount |-> draft.count, until |-> Null, prior |-> 0,
                           shrink |-> shrink]
             previewed == draft.shrink /\ (client = "phone" => draft.count # 1)
             fromPlan == draft.shrink /\ draft.count # 1
  <2>1. /\ NagPreview(draft) = Burst(W(previewed), Burst20, Today)
        /\ NagWalk(t) = W(fromPlan)
    BY <1>1, <1>2 DEF NagPreview, NagWalk
  <2>2. CASE draft.count # 1
    BY <2>1, <2>2
  <2>3. CASE draft.count = 1
    <3>1. draft.fire \in Nat /\ draft.fire >= Today /\ Today \in Nat
      BY TimesAssumption DEF PastDue, Sheet, Opt
    <3>2. \A shrink \in BOOLEAN : W(shrink) \in Walk
      BY <2>3, <3>1 DEF Walk, Sheet, Opt
    <3>3. \A shrink \in BOOLEAN : Burst(W(shrink), Burst20, Today) = <<draft.fire>>
      BY <2>3, <3>1, <3>2, OneFire
    <3>4. previewed \in BOOLEAN /\ fromPlan \in BOOLEAN
      OBVIOUS
    <3> HIDE DEF W, previewed, fromPlan
    <3>5. QED
      BY <2>1, <3>3, <3>4
  <2>4. QED
    BY <2>2, <2>3
<1>5. draft.mode # "off" => RoundsPreview(draft) = Burst(RoundsWalk(t), Burst20, Today)
  BY <1>1, <1>2, <1>3 DEF RoundsPreview, RoundsWalk
<1>6. QED
  BY <1>4, <1>5 DEF ShownIsPlanned, t

\* What the sheet opens with becomes the task it was opened on.
LEMMA SavedAsOpened == EditorIInv => UntouchedSaveKeeps
<1> SUFFICES ASSUME saved \in SavedTask, Saveable(saved), client \in {"phone", "web"}
             PROVE  UntouchedSaveKeeps
  BY DEF EditorIInv
<1> DEFINE d == DraftOf(saved)
<1>1. /\ d.dated = (saved.fire # Null) /\ d.interval = saved.interval
      /\ d.count = saved.count /\ d.shrink = saved.shrink
      /\ d.lead = saved.lead /\ d.repeat = saved.repeat /\ d.mode = ModeOf(saved)
      /\ d.rounds = Default(saved.rounds, Hours(1))
      /\ d.roundsMax = Default(saved.roundsMax, 2)
      /\ d.roundsFor = Default(saved.roundsFor, Hours(2))
  BY DEF DraftOf
<1>2. saved.fire # Null => d.fire = InField(saved.fire) /\ d.fire # Null
  <2>1. saved.fire # Null => saved.fire \in Int
    BY DEF SavedTask, Opt
  <2>2. saved.fire # Null => d.fire = InField(saved.fire)
    BY DEF DraftOf, Default
  <2>3. QED
    BY <2>1, <2>2, InFieldType, NullAssumption
<1> HIDE DEF d
<1>3. SavedFrom(d).shrink = saved.shrink
  <2>1. saved.shrink \in BOOLEAN /\ (saved.count = 1 => ~saved.shrink)
    BY DEF SavedTask, Saveable
  <2>2. SavedFrom(d).shrink = (saved.shrink /\ saved.count # 1)
    BY <1>1 DEF SavedFrom
  <2>3. QED
    BY <2>1, <2>2
<1>4. CASE saved.fire = Null
  <2>1. SavedFrom(d) = [fire |-> Null, interval |-> saved.interval,
          count |-> saved.count, shrink |-> saved.shrink, lead |-> Null,
          repeat |-> Null, rounds |-> Null, roundsMax |-> Null, roundsFor |-> Null]
    BY <1>1, <1>3, <1>4 DEF SavedFrom
  <2>2. WithoutDate(saved) = [fire |-> Null, interval |-> saved.interval,
          count |-> saved.count, shrink |-> saved.shrink, lead |-> Null,
          repeat |-> Null, rounds |-> Null, roundsMax |-> Null, roundsFor |-> Null]
    <3>1. DOMAIN saved = {"fire", "interval", "count", "shrink"} \union DateFields
      BY DEF SavedTask, DateFields
    <3>2. QED
      BY <1>4, <3>1 DEF WithoutDate, DateFields
  <2>3. QED
    BY <1>4, <2>1, <2>2 DEF UntouchedSaveKeeps, d
<1>5. CASE saved.fire # Null
  <2>1. /\ saved.roundsMax # Null => d.mode = "count" /\ d.roundsMax = saved.roundsMax
        /\ saved.roundsMax = Null /\ saved.roundsFor # Null
             => d.mode = "duration" /\ d.roundsFor = saved.roundsFor
        /\ saved.roundsMax = Null /\ saved.roundsFor = Null => d.mode = "off"
        /\ saved.rounds # Null => d.rounds = saved.rounds
    BY <1>1 DEF ModeOf, Default
  <2>2. /\ (IF d.mode # "off" THEN d.rounds ELSE Null) = saved.rounds
        /\ (IF d.mode = "count" THEN d.roundsMax ELSE Null) = saved.roundsMax
        /\ (IF d.mode = "duration" THEN d.roundsFor ELSE Null) = saved.roundsFor
    BY <2>1 DEF Saveable
  <2>3. d.dated /\ Default(d.fire, saved.fire) = InField(saved.fire)
    BY <1>1, <1>2, <1>5 DEF Default
  <2>4. SavedFrom(d) = [fire |-> InField(saved.fire), interval |-> saved.interval,
          count |-> saved.count, shrink |-> saved.shrink, lead |-> saved.lead,
          repeat |-> saved.repeat, rounds |-> saved.rounds,
          roundsMax |-> saved.roundsMax, roundsFor |-> saved.roundsFor]
    BY <1>1, <1>3, <2>2, <2>3 DEF SavedFrom
  <2>5. DOMAIN saved = {"fire", "interval", "count", "shrink"} \union DateFields
    BY DEF SavedTask, DateFields
  <2>6. \A f \in DOMAIN saved \ {"fire"} : SavedFrom(d)[f] = saved[f]
    BY <2>4, <2>5 DEF DateFields
  <2>7. saved.fire \in Int /\ SavedFrom(d).fire = InField(saved.fire)
    BY <1>5, <2>4 DEF SavedTask, Opt
  <2>8. Minutes(1) \in Nat \ {0} /\ Hours(1) \in Int
    BY Durations
  <2>9. saved.fire % Minutes(1) \in 0 .. Minutes(1) - 1
    BY <2>7, <2>8
  <2>10. QED
    BY <1>5, <2>6, <2>7, <2>8, <2>9 DEF UntouchedSaveKeeps, InField, d
<1>6. QED
  BY <1>4, <1>5

\* PreviewIsPlan: whatever was done to the draft, saving it is planned as the
\* sheet shows it (describe.ts, firePreview and roundsFirePreview).
THEOREM PreviewsAreKept == EditorSpec => []PreviewIsPlan
BY EditorInitHolds, EditorStepHolds, ShownAsPlanned, PTL DEF EditorSpec

\* UntouchedSaveKeeps: opened and saved untouched, a task stays what it was.
THEOREM NothingChangesUnasked == EditorSpec => []UntouchedSaveKeeps
BY EditorInitHolds, EditorStepHolds, SavedAsOpened, PTL DEF EditorSpec

-----------------------------------------------------------------------------
(* The calendar: dates and midnights under clocks that change.             *)

\* The ticks of an hour and of a day.
LEMMA DayIs == Hour = 360 /\ DayLength = 8640
BY DEF Hour, DayLength

\* What a day and a time of day are, in ticks.
LEMMA DayAndTime ==
  ASSUME NEW l \in Int
  PROVE  /\ l \div 8640 \in Int /\ l % 8640 \in Int
         /\ 0 <= l % 8640 /\ l % 8640 <= 8639
         /\ l = 8640 * (l \div 8640) + (l % 8640)
OBVIOUS

\* The clocks, in numbers.
LEMMA ClocksAre ==
  /\ Spring \in Int /\ Autumn \in Int /\ Spring + 360 <= Autumn
  /\ Spring \div 8640 \in Int /\ Spring % 8640 \in Int
  /\ Spring = 8640 * (Spring \div 8640) + (Spring % 8640)
  /\ 0 < Spring % 8640 /\ (Spring % 8640) + 720 <= 8640
  /\ Autumn \div 8640 \in Int /\ Autumn % 8640 \in Int
  /\ Autumn = 8640 * (Autumn \div 8640) + (Autumn % 8640)
  /\ 0 <= Autumn % 8640 /\ (Autumn % 8640) + 360 <= 8640
<1>1. Spring \in Int /\ Autumn \in Int
  BY ClocksAssumption
<1>2. QED
  BY <1>1, ClocksAssumption, DayAndTime, DayIs

\* The date of an instant, and its time of day.
LEMMA DayOfIs ==
  ASSUME NEW i \in Int
  PROVE  /\ DayOf(i) \in Int /\ TimeOf(i) \in Int
         /\ 0 <= TimeOf(i) /\ TimeOf(i) <= 8639
         /\ Local(i) = 8640 * DayOf(i) + TimeOf(i)
         /\ \A n \in Int : DayOf(i) >= n <=> Local(i) >= 8640 * n
         /\ \A n, t \in Int : 0 <= t /\ t <= 8639 /\ Local(i) = 8640 * n + t
                                => DayOf(i) = n /\ TimeOf(i) = t
<1> DEFINE l == Local(i)
<1>1. l \in Int
  BY ClocksAre, DayIs DEF Local
<1>2. DayOf(i) = l \div 8640 /\ TimeOf(i) = l % 8640
  BY DayIs DEF DayOf, TimeOf
<1> HIDE DEF l
<1>3. \A n \in Int : l \div 8640 >= n <=> l >= 8640 * n
  BY <1>1
<1>4. \A n, t \in Int : 0 <= t /\ t <= 8639 /\ l = 8640 * n + t
                          => l \div 8640 = n /\ l % 8640 = t
  BY <1>1
<1>5. QED
  BY <1>1, <1>2, <1>3, <1>4, DayAndTime DEF l

\* An instant asked for by date is of that date, and of the time of day asked
\* for unless the clocks skip it, when it is an hour later.
LEMMA OnDayIs ==
  ASSUME NEW n \in Int, NEW t \in Int, 0 <= t, t <= 8639
  PROVE  /\ OnDay(n, t) \in Int
         /\ DayOf(OnDay(n, t)) = n
         /\ \/ TimeOf(OnDay(n, t)) = t
            \/ /\ TimeOf(OnDay(n, t)) = t + 360
               /\ Spring % 8640 <= t /\ t < (Spring % 8640) + 360
<1> DEFINE l == 8640 * n + t
           i == OnDay(n, t)
           a == Spring \div 8640
           s == Spring % 8640
<1>1. l \in Int /\ n * DayLength + t = l
  BY DayIs
<1>2. i = IF Spring + 360 <= l /\ l < Autumn + 360 THEN l - 360 ELSE l
  BY <1>1, DayIs DEF OnDay, InstantOf
<1>3. i \in Int
  BY <1>1, <1>2
<1>4. \/ Local(i) = l
      \/ Local(i) = l + 360 /\ Spring <= l /\ l < Spring + 360
  BY <1>1, <1>2, ClocksAre, DayIs DEF Local
<1>5. CASE Local(i) = l
  BY <1>3, <1>5, DayOfIs
<1>6. CASE Local(i) = l + 360 /\ Spring <= l /\ l < Spring + 360
  <2>1. /\ a \in Int /\ s \in Int /\ 0 < s /\ s + 720 <= 8640
        /\ 8640 * a + s <= 8640 * n + t /\ 8640 * n + t < 8640 * a + s + 360
    BY <1>1, <1>6, ClocksAre
  <2> HIDE DEF a, s
  <2>2. a = n
    BY <2>1
  <2>3. s <= t /\ t < s + 360
    BY <2>1, <2>2
  <2>4. t + 360 \in Int /\ 0 <= t + 360 /\ t + 360 <= 8639
        /\ Local(i) = 8640 * n + (t + 360)
    BY <1>6, <2>1, <2>3
  <2>5. DayOf(i) = n /\ TimeOf(i) = t + 360
    <3> DEFINE x == t + 360
    <3>1. x \in Int /\ 0 <= x /\ x <= 8639 /\ Local(i) = 8640 * n + x
      BY <2>4
    <3> HIDE DEF x, i, l
    <3> DEFINE q == DayOf(i)
               r == TimeOf(i)
    <3>2. /\ q \in Int /\ r \in Int /\ 0 <= r /\ r <= 8639
          /\ 8640 * q + r = 8640 * n + x
      BY <1>3, <3>1, DayOfIs
    <3> HIDE DEF q, r
    <3>3. q = n /\ r = x
      BY <3>1, <3>2
    <3>4. QED
      BY <3>3 DEF x, q, r
  <2>6. QED
    BY <1>3, <2>3, <2>5 DEF s
<1>7. QED
  BY <1>4, <1>5, <1>6

\* Every date begins once, at its midnight.
LEMMA DayBegins ==
  ASSUME NEW i \in Int, NEW n \in Int
  PROVE  i >= OnDay(n, 0) <=> DayOf(i) >= n
<1> DEFINE l == 8640 * n
           a == Spring \div 8640
           s == Spring % 8640
           b == Autumn \div 8640
           u == Autumn % 8640
<1>1. l \in Int /\ n * DayLength + 0 = l
  BY DayIs
<1>2. OnDay(n, 0) = IF Spring + 360 <= l /\ l < Autumn + 360 THEN l - 360 ELSE l
  BY <1>1, DayIs DEF OnDay, InstantOf
<1>3. Local(i) = IF Spring <= i /\ i < Autumn THEN i + 360 ELSE i
  BY DayIs DEF Local
<1>4. DayOf(i) >= n <=> Local(i) >= l
  BY DayOfIs
<1>5. l <= Spring \/ l >= Spring + 360
  <2>1. a \in Int /\ s \in Int /\ 0 < s /\ s + 720 <= 8640 /\ Spring = 8640 * a + s
    BY ClocksAre
  <2> HIDE DEF a, s
  <2>2. 8640 * n <= 8640 * a + s \/ 8640 * n >= 8640 * a + s + 360
    BY <2>1
  <2>3. QED
    BY <2>1, <2>2
<1>6. l <= Autumn \/ l >= Autumn + 360
  <2>1. b \in Int /\ u \in Int /\ 0 <= u /\ u + 360 <= 8640 /\ Autumn = 8640 * b + u
    BY ClocksAre
  <2> HIDE DEF b, u
  <2>2. 8640 * n <= 8640 * b + u \/ 8640 * n >= 8640 * b + u + 360
    BY <2>1
  <2>3. QED
    BY <2>1, <2>2
<1>7. Spring \in Int /\ Autumn \in Int /\ Spring + 360 <= Autumn
  BY ClocksAre
<1> HIDE DEF a, b, s, u, l
<1>8. i >= OnDay(n, 0) <=> Local(i) >= l
  BY <1>1, <1>2, <1>3, <1>5, <1>6, <1>7
<1>9. QED
  BY <1>4, <1>8

\* So many days on is so many dates on, and from a midnight to a midnight.
LEMMA DaysAdded ==
  ASSUME NEW i \in Int, NEW n \in Int
  PROVE  /\ AddDays(i, n) \in Int
         /\ DayOf(AddDays(i, n)) = DayOf(i) + n
         /\ StartOfDay(i) = OnDay(DayOf(i), 0)
         /\ AddDays(StartOfDay(i), n) = OnDay(DayOf(i) + n, 0)
<1>1. /\ DayOf(i) \in Int /\ DayOf(i) + n \in Int
      /\ TimeOf(i) \in Int /\ 0 <= TimeOf(i) /\ TimeOf(i) <= 8639
  BY DayOfIs
<1>2. AddDays(i, n) \in Int /\ DayOf(AddDays(i, n)) = DayOf(i) + n
  BY <1>1, OnDayIs DEF AddDays
<1>3. StartOfDay(i) = OnDay(DayOf(i), 0)
  BY DayIs DEF StartOfDay, AtTimeOfDay
<1>4. ~(Spring % 8640 <= 0)
  BY ClocksAre
<1>5. DayOf(StartOfDay(i)) = DayOf(i) /\ TimeOf(StartOfDay(i)) = 0
  BY <1>1, <1>3, <1>4, OnDayIs
<1>6. QED
  BY <1>2, <1>3, <1>5 DEF AddDays

\* The drawers part the list at the midnights of the dates.
LEMMA DrawerIs ==
  ASSUME NEW i \in Int, NEW time \in Int
  PROVE  LET days == DayOf(i) - DayOf(time)
         IN /\ Bucket(i, time) = "past" <=> i <= time
            /\ i > time =>
                 /\ days >= 0
                 /\ Bucket(i, time) = CASE days = 0 -> "today"
                                        [] days = 1 -> "tomorrow"
                                        [] days \in 2 .. 7 -> "week"
                                        [] OTHER -> "later"
<1> DEFINE d == DayOf(i)
           c == DayOf(time)
           today == OnDay(c, 0)
           tomorrow == OnDay(c + 1, 0)
           after == OnDay(c + 2, 0)
           beyond == OnDay(c + 8, 0)
<1>1. d \in Int /\ c \in Int
  BY DayOfIs
<1>2. /\ today \in Int /\ tomorrow \in Int /\ after \in Int /\ beyond \in Int
  BY <1>1, OnDayIs
<1>3. /\ i >= tomorrow <=> d >= c + 1
      /\ i >= after <=> d >= c + 2
      /\ i >= beyond <=> d >= c + 8
      /\ i >= today <=> d >= c
      /\ time >= today <=> c >= c
  BY <1>1, DayBegins
<1>4. /\ AddDays(StartOfDay(time), 1) = tomorrow
      /\ AddDays(StartOfDay(time), 8) = beyond
  BY DaysAdded
<1>5. AddDays(tomorrow, 1) = after
  <2>1. ~(Spring % 8640 <= 0)
    BY ClocksAre
  <2>2. DayOf(tomorrow) = c + 1 /\ TimeOf(tomorrow) = 0
    BY <1>1, <2>1, OnDayIs
  <2>3. (c + 1) + 1 = c + 2
    BY <1>1
  <2>4. QED
    BY <2>2, <2>3 DEF AddDays
<1>6. Bucket(i, time) =
        CASE i <= time -> "past"
          [] i > time /\ i < tomorrow -> "today"
          [] i > time /\ i >= tomorrow /\ i < after -> "tomorrow"
          [] i > time /\ i >= after -> IF i < beyond THEN "week" ELSE "later"
  BY <1>4, <1>5 DEF Bucket
<1> HIDE DEF d, c, today, tomorrow, after, beyond
<1>7. i > time => d >= c
  BY <1>1, <1>2, <1>3
<1>8. i > time => /\ i < tomorrow <=> d = c
                  /\ i >= tomorrow /\ i < after <=> d = c + 1
                  /\ i >= after /\ i < beyond <=> d >= c + 2 /\ d <= c + 7
                  /\ i >= after /\ ~(i < beyond) <=> d >= c + 8
  BY <1>1, <1>2, <1>3, <1>7
<1>9. QED
  BY <1>1, <1>2, <1>6, <1>7, <1>8 DEF d, c

\* What the composer calls tomorrow is tomorrow.
LEMMA QuickTomorrow ==
  ASSUME NEW time \in Int
  PROVE  QuickFire("tomorrow", time) \in Int
         /\ DayOf(QuickFire("tomorrow", time)) = DayOf(time) + 1
<1>1. QuickFire("tomorrow", time) = OnDay(DayOf(AddDays(time, 1)), 3240)
  BY DayIs DEF QuickFire, AtTimeOfDay
<1>2. DayOf(AddDays(time, 1)) = DayOf(time) + 1 /\ DayOf(time) + 1 \in Int
  BY DaysAdded, DayOfIs
<1>3. QED
  BY <1>1, <1>2, OnDayIs

-----------------------------------------------------------------------------
(* Years and months.                                                       *)

\* A leap year is one more of them.
LEMMA NumberOfLeaps ==
  ASSUME NEW y \in Int, y >= FirstYear
  PROVE  /\ IsFiniteSet(LeapsBefore(y)) /\ Cardinality(LeapsBefore(y)) \in Nat
         /\ Cardinality(LeapsBefore(y + 1)) =
              Cardinality(LeapsBefore(y)) + (IF Leap(y) THEN 1 ELSE 0)
<1>1. FirstYear \in Int
  BY CalendarAssumption
<1>2. IsFiniteSet(LeapsBefore(y))
  <2>1. IsFiniteSet(FirstYear .. y - 1)
    BY <1>1, FS_Interval
  <2>2. QED
    BY <2>1, FS_Subset DEF LeapsBefore
<1>3. y \notin LeapsBefore(y)
  BY <1>1 DEF LeapsBefore
<1>4. LeapsBefore(y + 1) = IF Leap(y) THEN LeapsBefore(y) \union {y} ELSE LeapsBefore(y)
  <2>1. FirstYear .. (y + 1) - 1 = (FirstYear .. y - 1) \union {y}
    BY <1>1
  <2> HIDE DEF Leap
  <2>2. QED
    BY <2>1 DEF LeapsBefore
<1>5. Cardinality(LeapsBefore(y)) \in Nat
  BY <1>2, FS_CardinalityType
<1>6. Cardinality(LeapsBefore(y) \union {y}) = Cardinality(LeapsBefore(y)) + 1
  BY <1>2, <1>3, FS_AddElement
<1>7. QED
  BY <1>2, <1>4, <1>5, <1>6

\* A year is 365 or 366 days after the one before it.
LEMMA YearsFollow ==
  /\ YearStart(FirstYear) = 0
  /\ \A y \in Int : y >= FirstYear =>
       /\ YearStart(y) \in Nat
       /\ YearStart(y + 1) = YearStart(y) + (IF Leap(y) THEN 366 ELSE 365)
<1>1. FirstYear \in Int
  BY CalendarAssumption
<1>2. YearStart(FirstYear) = 0
  <2>1. LeapsBefore(FirstYear) = {}
    BY <1>1 DEF LeapsBefore
  <2>2. QED
    BY <1>1, <2>1, FS_EmptySet DEF YearStart
<1>3. ASSUME NEW y \in Int, y >= FirstYear
      PROVE  /\ YearStart(y) \in Nat
             /\ YearStart(y + 1) = YearStart(y) + (IF Leap(y) THEN 366 ELSE 365)
  <2> DEFINE c == Cardinality(LeapsBefore(y))
             k == Cardinality(LeapsBefore(y + 1))
  <2>1. c \in Nat /\ k = c + (IF Leap(y) THEN 1 ELSE 0)
    BY <1>3, NumberOfLeaps
  <2>2. /\ YearStart(y) = 365 * (y - FirstYear) + c
        /\ YearStart(y + 1) = 365 * (y + 1 - FirstYear) + k
    BY <1>1 DEF YearStart
  <2> HIDE DEF c, k
  <2>3. YearStart(y) \in Nat
    BY <1>1, <1>3, <2>1, <2>2
  <2>4. CASE Leap(y)
    BY <1>1, <2>1, <2>2, <2>3, <2>4
  <2>5. CASE ~Leap(y)
    BY <1>1, <2>1, <2>2, <2>3, <2>5
  <2>6. QED
    BY <2>4, <2>5
<1>4. QED
  BY <1>2, <1>3

\* No year begins before the one before it has ended.
LEMMA YearsInOrder ==
  ASSUME NEW y \in Int, NEW z \in Int, FirstYear <= y, y < z
  PROVE  YearStart(y + 1) <= YearStart(z)
<1> DEFINE S == {n \in Nat : YearStart(y + 1) <= YearStart(y + 1 + n)}
<1>1. FirstYear \in Int /\ YearStart(y + 1) \in Nat
  BY CalendarAssumption, YearsFollow
<1>2. 0 \in S
  BY <1>1
<1>3. ASSUME NEW n \in Nat, n \in S PROVE n + 1 \in S
  <2> DEFINE x == y + 1 + n
  <2>1. x \in Int /\ x >= FirstYear /\ y + 1 + (n + 1) = x + 1
    BY <1>1
  <2>2. YearStart(x) \in Nat
        /\ YearStart(x + 1) = YearStart(x) + (IF Leap(x) THEN 366 ELSE 365)
    BY <2>1, YearsFollow
  <2>3. YearStart(y + 1) <= YearStart(x)
    BY <1>3
  <2> HIDE DEF x
  <2>4. YearStart(y + 1) <= YearStart(x + 1)
    BY <1>1, <2>2, <2>3
  <2>5. QED
    BY <2>1, <2>4
<1> HIDE DEF S
<1>4. Nat \subseteq S
  BY <1>2, <1>3, InductionOnNat
<1>5. z - (y + 1) \in Nat /\ y + 1 + (z - (y + 1)) = z
  OBVIOUS
<1>6. QED
  BY <1>4, <1>5 DEF S

\* Every day of the calendar is in a year of it.
LEMMA YearExists ==
  ASSUME NEW n \in Nat, n < YearStart(LastYear + 1)
  PROVE  \E y \in Years : YearStart(y) <= n /\ n < YearStart(y + 1)
<1> DEFINE S == {k \in Nat : n < YearStart(FirstYear + k)}
<1>1. FirstYear \in Int /\ LastYear \in Int
  BY CalendarAssumption
<1>e. LastYear + 1 >= FirstYear \/ LastYear + 1 < FirstYear
  BY <1>1
<1>2. LastYear + 1 >= FirstYear
  <2>1. ASSUME LastYear + 1 < FirstYear PROVE FALSE
    <3>1. LeapsBefore(LastYear + 1) = {}
      BY <1>1, <2>1 DEF LeapsBefore
    <3>2. YearStart(LastYear + 1) = 365 * (LastYear + 1 - FirstYear) + 0
      BY <1>1, <3>1, FS_EmptySet DEF YearStart
    <3>3. QED
      BY <1>1, <2>1, <3>2
  <2>2. QED
    BY <1>e, <2>1
<1>3. LastYear + 1 - FirstYear \in S
  <2>1. LastYear + 1 - FirstYear \in Nat
        /\ FirstYear + (LastYear + 1 - FirstYear) = LastYear + 1
    BY <1>1, <1>2
  <2>2. QED
    BY <2>1
<1>4. PICK k \in S : \A m \in S : k <= m
  BY <1>3, LeastNatural
<1>5. k # 0
  BY <1>1, <1>4, YearsFollow
<1> DEFINE y == FirstYear + k - 1
<1>6. k - 1 \in Nat /\ k - 1 \notin S /\ k \in Nat /\ k <= LastYear + 1 - FirstYear
  BY <1>3, <1>4, <1>5
<1>7. y \in Int /\ FirstYear <= y /\ y <= LastYear
      /\ FirstYear + (k - 1) = y /\ FirstYear + k = y + 1
  BY <1>1, <1>6
<1>8. YearStart(y) \in Nat /\ ~(n < YearStart(y)) /\ n < YearStart(y + 1)
  BY <1>4, <1>6, <1>7, YearsFollow
<1> HIDE DEF y
<1>9. y \in Years
  BY <1>7 DEF Years
<1>10. QED
  BY <1>8, <1>9

\* The days before each month of a year, and the days it has.
LEMMA MonthTable ==
  ASSUME NEW y \in Int, y >= FirstYear
  PROVE  LET s == YearStart(y)
             e == IF Leap(y) THEN 1 ELSE 0
         IN /\ s \in Nat /\ e \in {0, 1} /\ YearStart(y + 1) = s + 365 + e
            /\ MonthStart(y, 1) = s
            /\ MonthStart(y, 2) = s + 31
            /\ MonthStart(y, 3) = s + 59 + e
            /\ MonthStart(y, 4) = s + 90 + e
            /\ MonthStart(y, 5) = s + 120 + e
            /\ MonthStart(y, 6) = s + 151 + e
            /\ MonthStart(y, 7) = s + 181 + e
            /\ MonthStart(y, 8) = s + 212 + e
            /\ MonthStart(y, 9) = s + 243 + e
            /\ MonthStart(y, 10) = s + 273 + e
            /\ MonthStart(y, 11) = s + 304 + e
            /\ MonthStart(y, 12) = s + 334 + e
            /\ DaysInMonth(y, 2) = 28 + e
            /\ \A m \in {4, 6, 9, 11} : DaysInMonth(y, m) = 30
            /\ \A m \in {1, 3, 5, 7, 8, 10, 12} : DaysInMonth(y, m) = 31
<1>1. /\ YearStart(y) \in Nat
      /\ YearStart(y + 1) = YearStart(y) + (IF Leap(y) THEN 366 ELSE 365)
  BY YearsFollow
<1>2. /\ DaysBefore[1] = 0 /\ DaysBefore[2] = 31 /\ DaysBefore[3] = 59
      /\ DaysBefore[4] = 90 /\ DaysBefore[5] = 120 /\ DaysBefore[6] = 151
      /\ DaysBefore[7] = 181 /\ DaysBefore[8] = 212 /\ DaysBefore[9] = 243
      /\ DaysBefore[10] = 273 /\ DaysBefore[11] = 304 /\ DaysBefore[12] = 334
  BY DEF DaysBefore
<1> DEFINE e == IF Leap(y) THEN 1 ELSE 0
<1>3. e \in {0, 1} /\ YearStart(y + 1) = YearStart(y) + 365 + e
  BY <1>1
<1>4. \A m \in Int : MonthStart(y, m) = YearStart(y) + DaysBefore[m] + (IF m > 2 THEN e ELSE 0)
  BY DEF MonthStart
<1>5. /\ DaysInMonth(y, 2) = 28 + e
      /\ \A m \in {4, 6, 9, 11} : DaysInMonth(y, m) = 30
      /\ \A m \in {1, 3, 5, 7, 8, 10, 12} : DaysInMonth(y, m) = 31
  BY DEF DaysInMonth
<1> HIDE DEF e
<1>6. /\ MonthStart(y, 1) = YearStart(y) /\ MonthStart(y, 2) = YearStart(y) + 31
  BY <1>1, <1>2, <1>4
<1>7. /\ MonthStart(y, 3) = YearStart(y) + 59 + e /\ MonthStart(y, 4) = YearStart(y) + 90 + e
      /\ MonthStart(y, 5) = YearStart(y) + 120 + e /\ MonthStart(y, 6) = YearStart(y) + 151 + e
      /\ MonthStart(y, 7) = YearStart(y) + 181 + e /\ MonthStart(y, 8) = YearStart(y) + 212 + e
      /\ MonthStart(y, 9) = YearStart(y) + 243 + e /\ MonthStart(y, 10) = YearStart(y) + 273 + e
      /\ MonthStart(y, 11) = YearStart(y) + 304 + e /\ MonthStart(y, 12) = YearStart(y) + 334 + e
  BY <1>1, <1>2, <1>3, <1>4
<1>8. QED
  BY <1>1, <1>3, <1>5, <1>6, <1>7 DEF e

\* The months of a year follow one another without a gap and end with it.
LEMMA MonthsInOrder ==
  ASSUME NEW y \in Int, y >= FirstYear, NEW m \in 1 .. 12
  PROVE  /\ MonthStart(y, m) \in Nat
         /\ DaysInMonth(y, m) \in 28 .. 31
         /\ YearStart(y) <= MonthStart(y, m)
         /\ MonthStart(y, m) + DaysInMonth(y, m) <= YearStart(y + 1)
         /\ \A k \in 1 .. 12 :
              k < m => MonthStart(y, k) + DaysInMonth(y, k) <= MonthStart(y, m)
<1>1. /\ MonthStart(y, m) \in Nat
      /\ DaysInMonth(y, m) \in 28 .. 31
      /\ YearStart(y) <= MonthStart(y, m)
      /\ MonthStart(y, m) + DaysInMonth(y, m) <= YearStart(y + 1)
  BY MonthTable
<1>2. ASSUME NEW k \in 1 .. 12, k < m
      PROVE  MonthStart(y, k) + DaysInMonth(y, k) <= MonthStart(y, m)
  BY <1>2, MonthTable
<1>3. QED
  BY <1>1, <1>2

\* Every day of a year is in one of its months.
LEMMA MonthExists ==
  ASSUME NEW y \in Int, y >= FirstYear,
         NEW n \in Int, YearStart(y) <= n, n < YearStart(y + 1)
  PROVE  \E m \in 1 .. 12 : MonthStart(y, m) <= n /\ n < MonthStart(y, m) + DaysInMonth(y, m)
BY MonthTable

\* A day has the date it is counted from.
LEMMA DateOfIs ==
  ASSUME NEW y \in Years, NEW m \in 1 .. 12, NEW d \in 1 .. DaysInMonth(y, m),
         NEW n \in Int, n = MonthStart(y, m) + d - 1
  PROVE  DateOf(n) = [year |-> y, month |-> m, day |-> d]
<1>1. y \in Int /\ FirstYear <= y /\ FirstYear \in Int
  BY CalendarAssumption DEF Years
<1>2. /\ MonthStart(y, m) \in Nat /\ DaysInMonth(y, m) \in Int
      /\ YearStart(y) <= MonthStart(y, m)
      /\ MonthStart(y, m) + DaysInMonth(y, m) <= YearStart(y + 1)
      /\ YearStart(y) \in Nat /\ YearStart(y + 1) \in Nat
  BY <1>1, MonthsInOrder, YearsFollow
<1>3. YearStart(y) <= n /\ n < YearStart(y + 1)
      /\ MonthStart(y, m) <= n /\ n < MonthStart(y, m) + DaysInMonth(y, m)
  BY <1>2
<1>4. ASSUME NEW z \in Years, YearStart(z) <= n, n < YearStart(z + 1)
      PROVE  z = y
  <2>1. z \in Int /\ FirstYear <= z /\ YearStart(z) \in Nat /\ YearStart(z + 1) \in Nat
    BY <1>1, YearsFollow DEF Years
  <2>2. z < y => YearStart(z + 1) <= YearStart(y)
    BY <1>1, <2>1, YearsInOrder
  <2>3. y < z => YearStart(y + 1) <= YearStart(z)
    BY <1>1, <2>1, YearsInOrder
  <2>4. QED
    BY <1>1, <1>2, <1>3, <1>4, <2>1, <2>2, <2>3
<1>5. ASSUME NEW k \in 1 .. 12, MonthStart(y, k) <= n, n < MonthStart(y, k) + DaysInMonth(y, k)
      PROVE  k = m
  <2>1. MonthStart(y, k) \in Nat /\ DaysInMonth(y, k) \in Int
    BY <1>1, MonthsInOrder
  <2>2. k < m => MonthStart(y, k) + DaysInMonth(y, k) <= MonthStart(y, m)
    BY <1>1, MonthsInOrder
  <2>3. m < k => MonthStart(y, m) + DaysInMonth(y, m) <= MonthStart(y, k)
    BY <1>1, MonthsInOrder
  <2>4. QED
    BY <1>2, <1>3, <1>5, <2>1, <2>2, <2>3
<1>6. y = CHOOSE z \in Years : YearStart(z) <= n /\ n < YearStart(z + 1)
  BY <1>3, <1>4
<1>7. m = CHOOSE k \in 1 .. 12 : /\ MonthStart(y, k) <= n
                                 /\ n < MonthStart(y, k) + DaysInMonth(y, k)
  BY <1>3, <1>5
<1>8. DateOf(n) = [year |-> y, month |-> m, day |-> n - MonthStart(y, m) + 1]
  BY <1>6, <1>7 DEF DateOf
<1>9. n - MonthStart(y, m) + 1 = d
  BY <1>2
<1>10. QED
  BY <1>8, <1>9

\* n is the d-th of the month m of the year y, and has that date.
OnDate(n, y, m, d) ==
  /\ y \in Years /\ m \in 1 .. 12 /\ d \in 1 .. DaysInMonth(y, m)
  /\ n = MonthStart(y, m) + d - 1
  /\ DateOf(n) = [year |-> y, month |-> m, day |-> d]

\* Every day of the calendar has a date.
LEMMA DateExists ==
  ASSUME NEW n \in Nat, n < YearStart(LastYear + 1)
  PROVE  \E y, m, d \in Int : OnDate(n, y, m, d)
<1>1. PICK y \in Years : YearStart(y) <= n /\ n < YearStart(y + 1)
  BY YearExists
<1>2. y \in Int /\ FirstYear <= y /\ FirstYear \in Int
  BY CalendarAssumption DEF Years
<1>3. PICK m \in 1 .. 12 : MonthStart(y, m) <= n /\ n < MonthStart(y, m) + DaysInMonth(y, m)
  BY <1>1, <1>2, MonthExists
<1>4. MonthStart(y, m) \in Nat /\ DaysInMonth(y, m) \in 28 .. 31
  BY <1>2, MonthsInOrder
<1> DEFINE d == n - MonthStart(y, m) + 1
<1>5. d \in 1 .. DaysInMonth(y, m) /\ n = MonthStart(y, m) + d - 1 /\ d \in Int
  BY <1>3, <1>4
<1> HIDE DEF d
<1>6. DateOf(n) = [year |-> y, month |-> m, day |-> d]
  BY <1>5, DateOfIs
<1>7. OnDate(n, y, m, d)
  BY <1>5, <1>6 DEF OnDate
<1>8. QED
  BY <1>2, <1>5, <1>7

\* The instants whose dates the calendar has.
Charted(i) == i \in Int /\ DayOf(i) \in Nat /\ DayOf(i) < YearStart(LastYear + 1)

\* What the actions ask of a fire time.
LEMMA InCalendarIsCharted ==
  ASSUME NEW i \in Int, InCalendar(i)
  PROVE  Charted(i) /\ DayOf(i) + 366 < YearStart(LastYear + 1)
                    /\ YearStart(LastYear + 1) \in Nat
<1>1. LastYear \in Int /\ LastYear + 1 \in Int /\ FirstYear \in Int
  BY CalendarAssumption
<1>2. Local(i) >= 0
  <2>1. i >= 0
    BY DEF InCalendar
  <2>2. Local(i) = i + 360 \/ Local(i) = i
    BY DayIs DEF Local
  <2>3. QED
    BY <2>1, <2>2
<1>3. DayOf(i) \in Int /\ DayOf(i) >= 0
  <2>1. DayOf(i) >= 0 <=> Local(i) >= 8640 * 0
    BY DayOfIs
  <2>2. QED
    BY <1>2, <2>1, DayOfIs
<1>4. YearStart(LastYear + 1) \in Int
  <2>1. IsFiniteSet(FirstYear .. (LastYear + 1) - 1)
    BY <1>1, FS_Interval
  <2>2. IsFiniteSet(LeapsBefore(LastYear + 1))
    BY <2>1, FS_Subset DEF LeapsBefore
  <2>3. Cardinality(LeapsBefore(LastYear + 1)) \in Nat
    BY <2>2, FS_CardinalityType
  <2>4. 365 * (LastYear + 1 - FirstYear) \in Int
    BY <1>1
  <2>5. QED
    BY <1>1, <2>3, <2>4 DEF YearStart
<1>5. QED
  BY <1>3, <1>4 DEF Charted, InCalendar

\* The date of a charted instant is one of the calendar.
LEMMA DateParts ==
  ASSUME NEW i, Charted(i)
  PROVE  LET d == DateOf(DayOf(i))
         IN /\ d.year \in Years /\ d.month \in 1 .. 12
            /\ d.day \in 1 .. DaysInMonth(d.year, d.month)
            /\ DayOf(i) = MonthStart(d.year, d.month) + d.day - 1
            /\ MonthsOf(d) \in Int /\ d.day \in Int
<1>1. PICK y, m, d \in Int : OnDate(DayOf(i), y, m, d)
  BY DateExists DEF Charted
<1>2. QED
  BY <1>1 DEF OnDate, MonthsOf

\* One month or twelve on: as many months later, on the same day or on the
\* last one the month has, at the same time of day unless it is skipped.
LEMMA MonthsAdded ==
  ASSUME NEW i \in Int, InCalendar(i), NEW k \in {1, 12}
  PROVE  LET j == AddMonthsClamped(i, k)
             is == DateOf(DayOf(j))
             was == DateOf(DayOf(i))
         IN /\ Charted(j)
            /\ MonthsOf(is) = MonthsOf(was) + k
            /\ is.day <= was.day /\ (was.day <= 28 => is.day = was.day)
            /\ \/ TimeOf(j) = TimeOf(i)
               \/ /\ TimeOf(j) = TimeOf(i) + 360
                  /\ Spring % 8640 <= TimeOf(i) /\ TimeOf(i) < (Spring % 8640) + 360
<1> DEFINE j == AddMonthsClamped(i, k)
           d == DateOf(DayOf(i))
           total == d.month - 1 + k
           y == d.year + total \div 12
           m == (total % 12) + 1
           size == DaysInMonth(y, m)
           day == IF d.day < size THEN d.day ELSE size
           n == MonthStart(y, m) + day - 1
           end == YearStart(LastYear + 1)
<1>1. FirstYear \in Int /\ LastYear \in Int
  BY CalendarAssumption
<1>2. Charted(i) /\ DayOf(i) + 366 < end /\ end \in Nat /\ DayOf(i) \in Nat
  BY InCalendarIsCharted DEF Charted
<1>3. /\ d.year \in Int /\ FirstYear <= d.year /\ d.year <= LastYear
      /\ d.month \in 1 .. 12 /\ d.day \in 1 .. DaysInMonth(d.year, d.month)
      /\ d.day \in Int
      /\ DayOf(i) = MonthStart(d.year, d.month) + d.day - 1
  BY <1>1, <1>2, DateParts DEF Years
<1>4. d.year < LastYear
  <2>1. YearStart(d.year) <= DayOf(i)
    BY <1>1, <1>3, MonthsInOrder, YearsFollow
  <2>2. YearStart(d.year + 1) <= YearStart(d.year) + 366 /\ YearStart(d.year) \in Nat
        /\ YearStart(d.year + 1) \in Int
    BY <1>1, <1>3, YearsFollow
  <2>3. d.year = LastYear => end <= DayOf(i) + 366
    BY <1>2, <2>1, <2>2
  <2>4. QED
    BY <1>1, <1>2, <1>3, <2>3
<1>5. /\ total \in Int /\ y \in Int /\ m \in 1 .. 12
      /\ d.year <= y /\ y <= d.year + 1
      /\ 12 * y + m = 12 * d.year + d.month + k
  <2> DEFINE a == d.year
             b == d.month
             q == total \div 12
             p == total % 12
  <2>1. a \in Int /\ b \in 1 .. 12 /\ total = b - 1 + k
    BY <1>3
  <2> HIDE DEF a, b, total
  <2>2. total \in Int /\ 1 <= total /\ total <= 23
    BY <2>1
  <2>3. q \in 0 .. 1 /\ p \in 0 .. 11 /\ total = 12 * q + p
    BY <2>2
  <2>4. y = a + q /\ m = p + 1
    BY DEF a
  <2> HIDE DEF q, p, y, m
  <2>5. /\ y \in Int /\ m \in 1 .. 12 /\ a <= y /\ y <= a + 1
        /\ 12 * y + m = 12 * a + b + k
    BY <2>1, <2>2, <2>3, <2>4
  <2>6. QED
    BY <2>2, <2>5 DEF a, b
<1>6. y \in Years /\ FirstYear <= y /\ y <= LastYear
  <2> HIDE DEF y, d, m, total
  <2>1. FirstYear <= y /\ y <= LastYear
    BY <1>1, <1>3, <1>4, <1>5
  <2>2. QED
    BY <1>1, <1>5, <2>1 DEF Years
<1>7. size \in 28 .. 31 /\ MonthStart(y, m) \in Nat
      /\ MonthStart(y, m) + size <= YearStart(y + 1)
  BY <1>5, <1>6, MonthsInOrder
<1>8. day \in 1 .. size /\ day \in Int /\ n \in Nat
      /\ day <= d.day /\ (d.day <= 28 => day = d.day)
  BY <1>3, <1>7
<1>9. n < end
  <2>1. YearStart(y + 1) \in Nat /\ end \in Nat
    BY <1>1, <1>2, <1>5, <1>6, YearsFollow
  <2>2. YearStart(y + 1) <= end
    <3>1. CASE y = LastYear
      BY <2>1, <3>1
    <3>2. CASE y < LastYear
      <4>1. y \in Int /\ LastYear + 1 \in Int /\ y < LastYear + 1
        BY <1>1, <1>5, <3>2
      <4>2. QED
        BY <1>6, <4>1, YearsInOrder
    <3>3. QED
      BY <1>1, <1>5, <1>6, <3>1, <3>2
  <2>3. QED
    BY <1>7, <1>8, <2>1, <2>2
<1>10. j = OnDay(n, TimeOf(i))
  BY DEF AddMonthsClamped
<1>11. TimeOf(i) \in Int /\ 0 <= TimeOf(i) /\ TimeOf(i) <= 8639
  BY DayOfIs
<1>12. /\ j \in Int /\ DayOf(j) = n
       /\ \/ TimeOf(j) = TimeOf(i)
          \/ /\ TimeOf(j) = TimeOf(i) + 360
             /\ Spring % 8640 <= TimeOf(i) /\ TimeOf(i) < (Spring % 8640) + 360
  <2>1. n \in Int
    BY <1>8
  <2> HIDE DEF n, j
  <2>2. QED
    BY <1>10, <1>11, <2>1, OnDayIs
<1>13. Charted(j)
  BY <1>8, <1>9, <1>12 DEF Charted
<1>14. DateOf(n) = [year |-> y, month |-> m, day |-> day]
  <2>1. n \in Int /\ n = MonthStart(y, m) + day - 1 /\ day \in 1 .. DaysInMonth(y, m)
    BY <1>8
  <2> HIDE DEF n, day, y, m, size
  <2>2. QED
    BY <1>5, <1>6, <2>1, DateOfIs
<1>15. MonthsOf(DateOf(DayOf(j))) = MonthsOf(d) + k /\ DateOf(DayOf(j)).day = day
  <2>1. MonthsOf(DateOf(DayOf(j))) = 12 * y + m /\ DateOf(DayOf(j)).day = day
    BY <1>12, <1>14 DEF MonthsOf
  <2>2. MonthsOf(d) = 12 * d.year + d.month
    BY DEF MonthsOf
  <2>3. QED
    BY <1>5, <2>1, <2>2
<1> HIDE DEF j, d, total, y, m, size, day, n, end
<1>16. QED
  BY <1>8, <1>12, <1>13, <1>15 DEF j, d

-----------------------------------------------------------------------------
\* RepeatsMarchOn, of any fire times.
March(f, i, r, n) ==
  LET was == DateOf(DayOf(f))
      is == DateOf(DayOf(i))
      late == TimeOf(i) - TimeOf(f)
  IN /\ r = "daily" => DayOf(i) = DayOf(f) + n
     /\ r = "weekly" => DayOf(i) = DayOf(f) + 7 * n
     /\ r = "monthly" => MonthsOf(is) = MonthsOf(was) + n
     /\ r = "yearly" => MonthsOf(is) = MonthsOf(was) + 12 * n
     /\ r \in {"monthly", "yearly"} =>
          is.day <= was.day /\ (was.day <= 28 => is.day = was.day)
     /\ late # 0 => /\ late = 360
                    /\ Spring % 8640 <= TimeOf(f)
                    /\ TimeOf(f) < (Spring % 8640) + 360

\* It is RepeatsMarchOn, rule by rule.
LEMMA MarchIs == rule \in Rules /\ March(first, at, rule, turns) => RepeatsMarchOn
<1> SUFFICES ASSUME rule \in Rules, March(first, at, rule, turns) PROVE RepeatsMarchOn
  OBVIOUS
<1> DEFINE was == DateOf(DayOf(first))
           is == DateOf(DayOf(at))
           late == TimeOf(at) - TimeOf(first)
           period == CASE rule = "daily"   -> DayOf(at) = DayOf(first) + turns
                       [] rule = "weekly"  -> DayOf(at) = DayOf(first) + 7 * turns
                       [] rule = "monthly" -> MonthsOf(is) = MonthsOf(was) + turns
                       [] rule = "yearly"  -> MonthsOf(is) = MonthsOf(was) + 12 * turns
<1>1. period
  <2>1. CASE rule = "daily"
    BY <2>1 DEF March
  <2>2. CASE rule = "weekly"
    BY <2>2 DEF March
  <2>3. CASE rule = "monthly"
    BY <2>3 DEF March
  <2>4. CASE rule = "yearly"
    BY <2>4 DEF March
  <2>5. QED
    BY <2>1, <2>2, <2>3, <2>4 DEF Rules
<1>2. /\ rule \in {"monthly", "yearly"} =>
           is.day <= was.day /\ (was.day <= 28 => is.day = was.day)
      /\ late # 0 => /\ late = Hour
                     /\ Spring % DayLength <= TimeOf(first)
                     /\ TimeOf(first) < (Spring % DayLength) + Hour
  BY DayIs DEF March
<1>3. QED
  BY <1>1, <1>2 DEF RepeatsMarchOn

\* A task that has just been moved keeps to its dates.
LEMMA MarchBegins ==
  ASSUME NEW i, Charted(i), NEW r
  PROVE  March(i, i, r, 0)
<1>1. DayOf(i) \in Int /\ TimeOf(i) \in Int
  BY DayOfIs DEF Charted
<1>2. MonthsOf(DateOf(DayOf(i))) \in Int /\ DateOf(DayOf(i)).day \in Int
  BY DateParts
<1>3. QED
  BY <1>1, <1>2 DEF March

\* And goes on to do so with each completion.
LEMMA MarchGoesOn ==
  ASSUME NEW f, Charted(f), NEW i \in Int, InCalendar(i), NEW r \in Rules,
         NEW n \in Nat, March(f, i, r, n)
  PROVE  Charted(NextRepeat(i, r)) /\ March(f, NextRepeat(i, r), r, n + 1)
<1> DEFINE j == NextRepeat(i, r)
           was == DateOf(DayOf(f))
           is == DateOf(DayOf(i))
           then == DateOf(DayOf(j))
           s == Spring % 8640
<1>1. Charted(i) /\ DayOf(i) + 366 < YearStart(LastYear + 1) /\ YearStart(LastYear + 1) \in Nat
  BY InCalendarIsCharted
<1>2. /\ DayOf(i) \in Nat /\ DayOf(f) \in Int
      /\ TimeOf(i) \in Int /\ 0 <= TimeOf(i) /\ TimeOf(i) <= 8639 /\ TimeOf(f) \in Int
  BY <1>1, DayOfIs DEF Charted
<1>3. /\ MonthsOf(was) \in Int /\ was.day \in Int
      /\ MonthsOf(is) \in Int /\ is.day \in Int
  BY <1>1, DateParts
<1>4. s \in Int /\ 0 < s
  BY ClocksAre
<1>5. /\ Charted(j)
      /\ r = "daily" => DayOf(j) = DayOf(i) + 1
      /\ r = "weekly" => DayOf(j) = DayOf(i) + 7
      /\ r = "monthly" => MonthsOf(then) = MonthsOf(is) + 1
      /\ r = "yearly" => MonthsOf(then) = MonthsOf(is) + 12
      /\ r \in {"monthly", "yearly"} =>
           then.day <= is.day /\ (is.day <= 28 => then.day = is.day)
      /\ \/ TimeOf(j) = TimeOf(i)
         \/ TimeOf(j) = TimeOf(i) + 360 /\ s <= TimeOf(i) /\ TimeOf(i) < s + 360
  <2>1. ASSUME NEW k \in {1, 7}, j = AddDays(i, k)
        PROVE  /\ Charted(j) /\ DayOf(j) = DayOf(i) + k
               /\ \/ TimeOf(j) = TimeOf(i)
                  \/ TimeOf(j) = TimeOf(i) + 360 /\ s <= TimeOf(i) /\ TimeOf(i) < s + 360
    <3>1. DayOf(i) + k \in Int
      BY <1>2
    <3>2. /\ AddDays(i, k) \in Int /\ DayOf(AddDays(i, k)) = DayOf(i) + k
          /\ \/ TimeOf(AddDays(i, k)) = TimeOf(i)
             \/ /\ TimeOf(AddDays(i, k)) = TimeOf(i) + 360
                /\ s <= TimeOf(i) /\ TimeOf(i) < s + 360
      BY <1>2, <3>1, OnDayIs DEF AddDays
    <3>3. QED
      BY <1>1, <1>2, <2>1, <3>2 DEF Charted
  <2>2. CASE r = "daily"
    BY <2>1, <2>2 DEF NextRepeat
  <2>3. CASE r = "weekly"
    BY <2>1, <2>3 DEF NextRepeat
  <2>4. CASE r = "monthly"
    <3>1. j = AddMonthsClamped(i, 1)
      BY <2>4 DEF NextRepeat
    <3>2. QED
      BY <2>4, <3>1, MonthsAdded
  <2>5. CASE r = "yearly"
    <3>1. j = AddMonthsClamped(i, 12)
      BY <2>5 DEF NextRepeat
    <3>2. QED
      BY <2>5, <3>1, MonthsAdded
  <2>6. QED
    BY <2>2, <2>3, <2>4, <2>5 DEF Rules
<1>6. /\ r = "daily" => DayOf(i) = DayOf(f) + n
      /\ r = "weekly" => DayOf(i) = DayOf(f) + 7 * n
      /\ r = "monthly" => MonthsOf(is) = MonthsOf(was) + n
      /\ r = "yearly" => MonthsOf(is) = MonthsOf(was) + 12 * n
      /\ r \in {"monthly", "yearly"} =>
           is.day <= was.day /\ (was.day <= 28 => is.day = was.day)
      /\ TimeOf(i) - TimeOf(f) # 0 =>
           TimeOf(i) - TimeOf(f) = 360 /\ s <= TimeOf(f) /\ TimeOf(f) < s + 360
  BY DEF March
<1>7. TimeOf(j) \in Int /\ then.day \in Int
  BY <1>5, DayOfIs, DateParts DEF Charted
<1> HIDE DEF j, was, is, then, s
<1>8. /\ r = "daily" => DayOf(j) = DayOf(f) + (n + 1)
      /\ r = "weekly" => DayOf(j) = DayOf(f) + 7 * (n + 1)
      /\ r = "monthly" => MonthsOf(then) = MonthsOf(was) + (n + 1)
      /\ r = "yearly" => MonthsOf(then) = MonthsOf(was) + 12 * (n + 1)
  BY <1>2, <1>3, <1>5, <1>6
<1>9. r \in {"monthly", "yearly"} =>
        then.day <= was.day /\ (was.day <= 28 => then.day = was.day)
  BY <1>3, <1>5, <1>6, <1>7
<1>10. TimeOf(j) - TimeOf(f) # 0 =>
         TimeOf(j) - TimeOf(f) = 360 /\ s <= TimeOf(f) /\ TimeOf(f) < s + 360
  BY <1>2, <1>4, <1>5, <1>6, <1>7
<1>11. QED
  BY <1>5, <1>8, <1>9, <1>10 DEF March, j, was, then, s

-----------------------------------------------------------------------------
\* The inductive invariant.
CalendarIInv ==
  /\ at \in Int /\ clock \in Int /\ rule \in Rules /\ turns \in Nat
  /\ Charted(first)
  /\ March(first, at, rule, turns)

\* A task comes with a date of the calendar.
LEMMA CalendarInitHolds == CalendarInit => CalendarIInv
<1> SUFFICES ASSUME CalendarInit PROVE CalendarIInv
  OBVIOUS
<1>1. at \in Int /\ InCalendar(at) /\ clock \in Int /\ rule \in Rules
      /\ first = at /\ turns = 0
  BY CalendarAssumption DEF CalendarInit
<1>2. Charted(at)
  BY <1>1, InCalendarIsCharted
<1>3. March(at, at, rule, 0)
  BY <1>2, MarchBegins
<1>4. QED
  BY <1>1, <1>2, <1>3 DEF CalendarIInv

\* Wherever a task is moved to, its repeats are counted from there.
LEMMA MovedAfresh ==
  ASSUME CalendarIInv, NEW i \in Int, MoveTo(i)
  PROVE  CalendarIInv'
<1>1. /\ InCalendar(i) /\ at' = i /\ first' = i /\ turns' = 0
      /\ rule' = rule /\ clock' = clock
  BY DEF MoveTo
<1>2. Charted(i)
  BY <1>1, InCalendarIsCharted
<1>3. March(i, i, rule, 0)
  BY <1>2, MarchBegins
<1>4. Charted(first') /\ March(first', at', rule', turns')
  BY <1>1, <1>2, <1>3
<1>5. Charted(first)'
  BY <1>4 DEF Charted, DayOf, Local
<1>6. March(first, at, rule, turns)'
  BY <1>4 DEF March, DayOf, TimeOf, Local
<1>7. QED
  BY <1>1, <1>5, <1>6 DEF CalendarIInv

\* Completing it keeps its march, and the rest begins a new one.
LEMMA CalendarStepHolds == CalendarIInv /\ [CalendarNext]_calendarVars => CalendarIInv'
<1> SUFFICES ASSUME CalendarIInv, [CalendarNext]_calendarVars PROVE CalendarIInv'
  OBVIOUS
<1>i. at \in Int /\ clock \in Int /\ rule \in Rules /\ turns \in Nat
  BY DEF CalendarIInv
<1>d. /\ DayOf(at) \in Int /\ DayOf(clock) \in Int
      /\ TimeOf(at) \in Int /\ 0 <= TimeOf(at) /\ TimeOf(at) <= 8639
  BY <1>i, DayOfIs
<1>1. CASE CompleteRepeating
  <2>1. /\ InCalendar(at) /\ at' = NextRepeat(at, rule) /\ turns' = turns + 1
        /\ rule' = rule /\ clock' = clock /\ first' = first
    BY <1>1 DEF CompleteRepeating
  <2>2. Charted(NextRepeat(at, rule)) /\ March(first, NextRepeat(at, rule), rule, turns + 1)
    BY <1>i, <2>1, MarchGoesOn DEF CalendarIInv
  <2>3. Charted(first') /\ at' \in Int /\ March(first', at', rule', turns')
    BY <2>1, <2>2 DEF Charted, CalendarIInv
  <2>4. QED
    BY <1>i, <2>1, <2>3 DEF CalendarIInv
<1>2. CASE Compose
  <2>1. PICK choice \in QuickChoices : MoveTo(QuickFire(choice, clock))
    BY <1>2 DEF Compose
  <2>2. QuickFire(choice, clock) \in Int
    <3>1. CASE choice = "now"
      BY <1>i, <3>1 DEF QuickFire
    <3>2. CASE choice = "hour"
      BY <1>i, <3>2, DayIs DEF QuickFire
    <3>3. CASE choice = "tonight"
      <4>1. AtTimeOfDay(clock, 21) \in Int
        BY <1>d, OnDayIs, DayIs DEF AtTimeOfDay
      <4>2. AddDays(AtTimeOfDay(clock, 21), 1) \in Int
        BY <4>1, DaysAdded
      <4>3. QED
        BY <3>3, <4>1, <4>2 DEF QuickFire
    <3>4. CASE choice = "tomorrow"
      BY <1>i, <3>4, QuickTomorrow
    <3>5. QED
      BY <3>1, <3>2, <3>3, <3>4 DEF QuickChoices
  <2>3. QED
    BY <2>1, <2>2, MovedAfresh
<1>3. CASE AdjustFire
  <2>1. PICK delta \in AdjustSteps : MoveTo(ShiftFire(at, delta, clock))
    BY <1>3 DEF AdjustFire
  <2>2. delta \in Int
    BY DayIs DEF AdjustSteps
  <2>3. ShiftFire(at, delta, clock) \in Int
    BY <1>i, <2>2 DEF ShiftFire, Latest
  <2>4. QED
    BY <2>1, <2>3, MovedAfresh
<1>4. CASE PickTimeOfDay
  <2>1. PICK hour \in {7, 12, 17, 21} : MoveTo(AtTimeOfDay(at, hour))
    BY <1>4 DEF PickTimeOfDay
  <2>2. AtTimeOfDay(at, hour) \in Int
    <3> DEFINE t == hour * Hour
    <3>1. t \in Int /\ 0 <= t /\ t <= 8639
      BY DayIs
    <3>2. AtTimeOfDay(at, hour) = OnDay(DayOf(at), t)
      BY DEF AtTimeOfDay
    <3> HIDE DEF t
    <3>3. QED
      BY <1>d, <3>1, <3>2, OnDayIs
  <2>3. QED
    BY <2>1, <2>2, MovedAfresh
<1>5. CASE PickToday
  <2> DEFINE t == TimeOf(at) - (TimeOf(at) % 6)
  <2>1. t \in Int /\ 0 <= t /\ t <= 8639
    BY <1>d
  <2>2. MoveTo(OnDay(DayOf(clock), t))
    BY <1>5 DEF PickToday
  <2> HIDE DEF t
  <2>3. OnDay(DayOf(clock), t) \in Int
    BY <1>d, <2>1, OnDayIs
  <2>4. QED
    BY <2>2, <2>3, MovedAfresh
<1>6. CASE PickLater
  <2>1. PICK days \in {1, 7} : MoveTo(at + days * DayLength)
    BY <1>6 DEF PickLater
  <2>2. at + days * DayLength \in Int
    BY <1>i, DayIs
  <2>3. QED
    BY <2>1, <2>2, MovedAfresh
<1>7. CASE Tick
  <2>1. clock' \in Int
    BY <1>7, CalendarAssumption DEF Tick
  <2>2. QED
    BY <1>7, <2>1 DEF Tick, CalendarIInv
<1>8. CASE UNCHANGED calendarVars
  BY <1>8 DEF calendarVars, CalendarIInv
<1>9. QED
  BY <1>1, <1>2, <1>3, <1>4, <1>5, <1>6, <1>7, <1>8 DEF CalendarNext

\* RepeatsMarchOn: however often a repeating task is completed, it is on the
\* date the calendar says (repeat.ts), through leap years and clock changes.
THEOREM RepeatsKeepTheirDate == CalendarSpec => []RepeatsMarchOn
<1>1. CalendarIInv => RepeatsMarchOn
  BY MarchIs DEF CalendarIInv
<1>2. QED
  BY <1>1, CalendarInitHolds, CalendarStepHolds, PTL DEF CalendarSpec

\* DrawersMeanDates: the drawer of a task is the one its date says (sections.ts),
\* on days of 23 and of 25 hours too.
THEOREM DrawersAreRight == CalendarSpec => []DrawersMeanDates
<1>1. CalendarIInv => DrawersMeanDates
  <2> SUFFICES ASSUME CalendarIInv PROVE DrawersMeanDates
    OBVIOUS
  <2> DEFINE days == DayOf(at) - DayOf(clock)
             drawer == Bucket(at, clock)
             t == QuickFire("tomorrow", clock)
  <2>1. at \in Int /\ clock \in Int
    BY DEF CalendarIInv
  <2>2. drawer = "past" <=> at <= clock
    BY <2>1, DrawerIs
  <2>3. at > clock =>
          drawer = CASE days = 0 -> "today"
                     [] days = 1 -> "tomorrow"
                     [] days \in 2 .. 7 -> "week"
                     [] OTHER -> "later"
    BY <2>1, DrawerIs
  <2>4. Bucket(t, clock) = "tomorrow"
    <3>1. t \in Int /\ DayOf(t) = DayOf(clock) + 1 /\ DayOf(clock) \in Int
      BY <2>1, QuickTomorrow, DayOfIs
    <3>2. DayOf(t) - DayOf(clock) = 1
      BY <3>1
    <3>3. t > clock
      <4>1. clock >= OnDay(DayOf(clock) + 1, 0) <=> DayOf(clock) >= DayOf(clock) + 1
        BY <2>1, <3>1, DayBegins
      <4>2. t >= OnDay(DayOf(clock) + 1, 0) <=> DayOf(t) >= DayOf(clock) + 1
        BY <3>1, DayBegins
      <4>3. OnDay(DayOf(clock) + 1, 0) \in Int
        BY <3>1, OnDayIs
      <4>4. QED
        BY <2>1, <3>1, <4>1, <4>2, <4>3
    <3> HIDE DEF t
    <3>4. QED
      BY <2>1, <3>1, <3>2, <3>3, DrawerIs
  <2>5. at > clock \/ at <= clock
    BY <2>1
  <2> HIDE DEF t
  <2>6. QED
    BY <2>1, <2>2, <2>3, <2>4, <2>5 DEF DrawersMeanDates, t
<1>2. QED
  BY <1>1, CalendarInitHolds, CalendarStepHolds, PTL DEF CalendarSpec

-----------------------------------------------------------------------------
(* What is read of a text: the characters that are not skipped.            *)

\* f[i] is what is kept of the first i elements of s.
Picks(f, s, skipped) ==
  /\ f[0] = <<>>
  /\ \A i \in 1 .. Len(s) : f[i] = IF s[i] \in skipped THEN f[i - 1]
                                                     ELSE Append(f[i - 1], s[i])

PicksIn(E, f, s, skipped) ==
  s \in Seq(E) /\ f \in [0 .. Len(s) -> Seq(E)] /\ Picks(f, s, skipped)

\* There is one way to keep some elements of a sequence.
LEMMA PickingExists ==
  ASSUME NEW E, NEW s \in Seq(E), NEW skipped
  PROVE  \E f : PicksIn(E, f, s, skipped)
<1> DEFINE n == Len(s)
           G == [x \in Seq(E) \X Nat |->
                   IF x[2] \in 1 .. n /\ s[x[2]] \notin skipped THEN Append(x[1], s[x[2]])
                                                       ELSE x[1]]
<1>1. n \in Nat /\ \A i \in 1 .. n : s[i] \in E
  OBVIOUS
<1>2. G \in [Seq(E) \X Nat -> Seq(E)]
  <2>1. ASSUME NEW x \in Seq(E) \X Nat PROVE G[x] \in Seq(E)
    <3>1. x[1] \in Seq(E)
      OBVIOUS
    <3>2. CASE x[2] \in 1 .. n /\ s[x[2]] \notin skipped
      BY <1>1, <3>1, <3>2
    <3>3. CASE ~(x[2] \in 1 .. n /\ s[x[2]] \notin skipped)
      BY <3>1, <3>3
    <3>4. QED
      BY <3>2, <3>3
  <2>2. QED
    BY <2>1
<1>3. PICK g \in [Nat -> Seq(E)] : Iterates(g, <<>>, G)
  <2>1. <<>> \in Seq(E)
    OBVIOUS
  <2> HIDE DEF G
  <2>2. QED
    BY <1>2, <2>1, Recursion
<1> DEFINE f == [i \in 0 .. n |-> g[i]]
<1>4. f \in [0 .. n -> Seq(E)]
  BY <1>1
<1>5. f[0] = <<>>
  BY <1>1, <1>3 DEF Iterates
<1>6. ASSUME NEW i \in 1 .. n
      PROVE  f[i] = IF s[i] \in skipped THEN f[i - 1] ELSE Append(f[i - 1], s[i])
  <2>1. i - 1 \in Nat /\ (i - 1) + 1 = i /\ i \in Nat /\ i \in 0 .. n /\ i - 1 \in 0 .. n
    BY <1>1
  <2>2. g[i] = G[<<g[i - 1], i>>]
    BY <1>3, <2>1 DEF Iterates
  <2>3. /\ <<g[i - 1], i>> \in Seq(E) \X Nat
        /\ <<g[i - 1], i>>[1] = g[i - 1] /\ <<g[i - 1], i>>[2] = i
    BY <2>1
  <2>4. g[i] = IF s[i] \in skipped THEN g[i - 1] ELSE Append(g[i - 1], s[i])
    BY <2>2, <2>3
  <2>5. f[i] = g[i] /\ f[i - 1] = g[i - 1]
    BY <2>1
  <2> HIDE DEF f, G
  <2>6. QED
    BY <2>4, <2>5
<1> HIDE DEF f
<1>7. PicksIn(E, f, s, skipped)
  BY <1>4, <1>5, <1>6 DEF PicksIn, Picks
<1>8. QED
  BY <1>7

LEMMA PickingUnique ==
  ASSUME NEW E, NEW s, NEW skipped, NEW f, NEW g, PicksIn(E, f, s, skipped), PicksIn(E, g, s, skipped),
         NEW i \in 0 .. Len(s)
  PROVE  f[i] = g[i]
<1> DEFINE T == {j \in Nat : j <= Len(s) => f[j] = g[j]}
<1>1. 0 \in T
  BY DEF PicksIn, Picks
<1>2. ASSUME NEW j \in Nat, j \in T PROVE j + 1 \in T
  <2> SUFFICES ASSUME j + 1 <= Len(s) PROVE f[j + 1] = g[j + 1]
    OBVIOUS
  <2>1. Len(s) \in Nat
    BY DEF PicksIn
  <2>2. j + 1 \in 1 .. Len(s) /\ (j + 1) - 1 = j /\ f[j] = g[j]
    BY <1>2, <2>1
  <2>3. QED
    BY <2>2 DEF PicksIn, Picks
<1>3. Nat \subseteq T
  <2> HIDE DEF T
  <2>1. QED
    BY <1>1, <1>2, InductionOnNat
<1>4. QED
  BY <1>3

\* The recursive function that Without is made of.
Reads(f, s, skipped) ==
  f = [i \in 0 .. Len(s) |->
         IF i = 0 THEN <<>>
         ELSE IF s[i] \in skipped THEN f[i - 1] ELSE Append(f[i - 1], s[i])]

LEMMA ReadsIsPicking ==
  ASSUME NEW E, NEW s \in Seq(E), NEW skipped, NEW f \in [0 .. Len(s) -> Seq(E)],
         Picks(f, s, skipped)
  PROVE  Reads(f, s, skipped)
<1>1. Len(s) \in Nat /\ \A i \in 1 .. Len(s) : s[i] \in E
  OBVIOUS
<1>2. ASSUME NEW i \in 0 .. Len(s)
      PROVE  f[i] = IF i = 0 THEN <<>>
                    ELSE IF s[i] \in skipped THEN f[i - 1]
                                             ELSE Append(f[i - 1], s[i])
  <2>1. i = 0 \/ i \in 1 .. Len(s)
    BY <1>1
  <2>2. QED
    BY <1>1, <2>1 DEF Picks
<1>3. f = [i \in 0 .. Len(s) |-> f[i]]
  OBVIOUS
<1>4. QED
  BY <1>2, <1>3 DEF Reads

\* What reading keeps is picked.
LEMMA WithoutPicks ==
  ASSUME NEW E, NEW s, NEW skipped, NEW f, PicksIn(E, f, s, skipped)
  PROVE  Without(s, skipped) = f[Len(s)]
<1> DEFINE n == Len(s)
           k == CHOOSE h : Reads(h, s, skipped)
<1>1. n \in Nat /\ s \in Seq(E) /\ f \in [0 .. n -> Seq(E)]
  BY DEF PicksIn
<1>2. Reads(f, s, skipped)
  BY <1>1, ReadsIsPicking DEF PicksIn
<1>3. Reads(k, s, skipped)
  BY <1>2
<1>4. Without(s, skipped) = k[n]
  BY DEF Without, Reads
<1> HIDE DEF k
<1> DEFINE T == {i \in Nat : i <= n => k[i] = f[i]}
<1>5. 0 \in T
  BY <1>1, <1>2, <1>3 DEF Reads
<1>6. ASSUME NEW i \in Nat, i \in T PROVE i + 1 \in T
  <2> SUFFICES ASSUME i + 1 <= n PROVE k[i + 1] = f[i + 1]
    OBVIOUS
  <2>1. i + 1 \in 0 .. n /\ i + 1 # 0 /\ (i + 1) - 1 = i /\ k[i] = f[i]
    BY <1>1, <1>6
  <2>2. /\ k[i + 1] = IF s[i + 1] \in skipped THEN k[i] ELSE Append(k[i], s[i + 1])
        /\ f[i + 1] = IF s[i + 1] \in skipped THEN f[i] ELSE Append(f[i], s[i + 1])
    BY <1>2, <1>3, <2>1, Zenon DEF Reads
  <2>3. QED
    BY <2>1, <2>2
<1>7. Nat \subseteq T
  <2> HIDE DEF T
  <2>1. QED
    BY <1>5, <1>6, InductionOnNat
<1>8. QED
  BY <1>1, <1>4, <1>7

LEMMA WithoutType ==
  ASSUME NEW E, NEW s \in Seq(E), NEW skipped
  PROVE  Without(s, skipped) \in Seq(E)
<1>1. PICK f : PicksIn(E, f, s, skipped)
  BY PickingExists
<1>2. Len(s) \in 0 .. Len(s)
  OBVIOUS
<1>3. QED
  BY <1>1, <1>2, WithoutPicks DEF PicksIn

LEMMA ConcatType ==
  ASSUME NEW E, NEW s \in Seq(E), NEW t \in Seq(E)
  PROVE  s \o t \in Seq(E) /\ Len(s \o t) = Len(s) + Len(t)
OBVIOUS

\* What means nothing may be put in anywhere.
LEMMA WithoutInserted ==
  ASSUME NEW E, NEW s \in Seq(E), NEW skipped, NEW i \in 1 .. Len(s),
         NEW e \in E, e \in skipped
  PROVE  /\ InsertAt(s, i, e) \in Seq(E)
         /\ Without(InsertAt(s, i, e), skipped) = Without(s, skipped)
<1> DEFINE t == InsertAt(s, i, e)
           n == Len(s)
<1>1. /\ n \in Nat /\ t \in Seq(E) /\ Len(t) = n + 1
      /\ \A j \in 1 .. i - 1 : t[j] = s[j]
      /\ t[i] = e
      /\ \A j \in i + 1 .. n + 1 : t[j] = s[j - 1]
  <2>1. PICK a, b : a = SubSeq(s, 1, i - 1) /\ b = SubSeq(s, i, n)
    OBVIOUS
  <2>2. /\ a \in Seq(E) /\ Len(a) = i - 1 /\ \A j \in 1 .. i - 1 : a[j] = s[j]
        /\ b \in Seq(E) /\ Len(b) = n - i + 1
        /\ \A j \in 1 .. n - i + 1 : b[j] = s[i + j - 1]
    BY <2>1
  <2>3. t = a \o <<e>> \o b
    BY <2>1 DEF InsertAt
  <2>4. PICK u : u = a \o <<e>>
    OBVIOUS
  <2>5. /\ u \in Seq(E) /\ Len(u) = i /\ \A j \in 1 .. i - 1 : u[j] = s[j]
        /\ u[i] = e
    BY <2>2, <2>4
  <2>6. t = u \o b
    BY <2>3, <2>4
  <2> HIDE DEF t
  <2>7. t \in Seq(E) /\ Len(t) = n + 1
    <3>1. u \o b \in Seq(E) /\ Len(u \o b) = Len(u) + Len(b)
      BY <2>2, <2>5, ConcatType
    <3>2. i + (n - i + 1) = n + 1
      OBVIOUS
    <3>3. QED
      BY <2>2, <2>5, <2>6, <3>1, <3>2
  <2>8. \A j \in 1 .. i : t[j] = u[j]
    BY <2>2, <2>5, <2>6
  <2>9. \A j \in i + 1 .. n + 1 : t[j] = b[j - i] /\ j - i \in 1 .. n - i + 1
    BY <2>2, <2>5, <2>6
  <2>10. \A j \in i + 1 .. n + 1 : b[j - i] = s[j - 1]
    <3>1. \A j \in i + 1 .. n + 1 : i + (j - i) - 1 = j - 1 /\ j - i \in 1 .. n - i + 1
      OBVIOUS
    <3>2. QED
      BY <2>2, <3>1
  <2>11. QED
    BY <2>5, <2>7, <2>8, <2>9, <2>10
<1> HIDE DEF t
<1>2. PICK f : PicksIn(E, f, s, skipped)
  BY PickingExists
<1>3. PICK g : PicksIn(E, g, t, skipped)
  BY <1>1, PickingExists
<1>4. /\ f[0] = <<>> /\ g[0] = <<>>
      /\ \A j \in 1 .. n : f[j] = IF s[j] \in skipped THEN f[j - 1]
                                                     ELSE Append(f[j - 1], s[j])
      /\ \A j \in 1 .. n + 1 : g[j] = IF t[j] \in skipped THEN g[j - 1]
                                                         ELSE Append(g[j - 1], t[j])
  BY <1>1, <1>2, <1>3 DEF PicksIn, Picks
<1> DEFINE T == {j \in Nat : /\ j < i => g[j] = f[j]
                             /\ i <= j /\ j <= n + 1 => g[j] = f[j - 1]}
<1>5. 0 \in T
  BY <1>4
<1>6. ASSUME NEW j \in Nat, j \in T PROVE j + 1 \in T
  <2>1. (j + 1) - 1 = j /\ i \in Nat
    OBVIOUS
  <2>2. CASE j + 1 < i
    <3>1. j + 1 \in 1 .. n /\ j + 1 \in 1 .. n + 1 /\ j + 1 \in 1 .. i - 1 /\ ~(i <= j + 1)
      BY <1>1, <2>1, <2>2
    <3>2. t[j + 1] = s[j + 1] /\ g[j] = f[j]
      BY <1>1, <1>6, <2>2, <3>1
    <3>3. g[j + 1] = f[j + 1]
      BY <1>4, <2>1, <3>1, <3>2
    <3>4. QED
      BY <3>1, <3>3
  <2>3. CASE j + 1 = i
    <3>1. j + 1 \in 1 .. n + 1 /\ t[j + 1] \in skipped /\ g[j] = f[j]
      BY <1>1, <1>6, <2>3
    <3>2. g[j + 1] = f[j]
      BY <1>4, <2>1, <3>1
    <3>3. QED
      BY <2>1, <2>3, <3>2
  <2>4. CASE i < j + 1
    <3>1. CASE j + 1 <= n + 1
      <4>1. j + 1 \in i + 1 .. n + 1 /\ j + 1 \in 1 .. n + 1 /\ j \in 1 .. n
        BY <1>1, <2>1, <2>4, <3>1
      <4>2. t[j + 1] = s[j] /\ g[j] = f[j - 1]
        BY <1>1, <1>6, <2>1, <2>4, <4>1
      <4>3. g[j + 1] = f[j]
        BY <1>4, <2>1, <4>1, <4>2
      <4>4. QED
        BY <2>1, <2>4, <4>3
    <3>2. CASE ~(j + 1 <= n + 1)
      BY <2>4, <3>2
    <3>3. QED
      BY <3>1, <3>2
  <2>5. QED
    BY <2>1, <2>2, <2>3, <2>4
<1>7. n + 1 \in T
  <2> HIDE DEF T
  <2>1. Nat \subseteq T
    BY <1>5, <1>6, InductionOnNat
  <2>2. QED
    BY <1>1, <2>1
<1>8. g[n + 1] = f[n]
  BY <1>1, <1>7
<1>9. Without(t, skipped) = g[n + 1] /\ Without(s, skipped) = f[n]
  BY <1>1, <1>2, <1>3, WithoutPicks
<1>10. QED
  BY <1>1, <1>8, <1>9 DEF t

\* One more element is kept or not; the others are as they were.
LEMMA WithoutAppend ==
  ASSUME NEW E, NEW s \in Seq(E), NEW skipped, NEW e \in E
  PROVE  Without(Append(s, e), skipped) = IF e \in skipped THEN Without(s, skipped)
                                          ELSE Append(Without(s, skipped), e)
<1> DEFINE n == Len(s)
<1>1. PICK t : t = Append(s, e)
  OBVIOUS
<1>2. /\ n \in Nat /\ t \in Seq(E) /\ Len(t) = n + 1
      /\ \A j \in 1 .. n : t[j] = s[j]
      /\ t[n + 1] = e
  BY <1>1
<1>3. PICK f : PicksIn(E, f, s, skipped)
  BY PickingExists
<1>4. PICK g : PicksIn(E, g, t, skipped)
  BY <1>2, PickingExists
<1>5. /\ f[0] = <<>> /\ g[0] = <<>>
      /\ \A j \in 1 .. n : f[j] = IF s[j] \in skipped THEN f[j - 1]
                                                     ELSE Append(f[j - 1], s[j])
      /\ \A j \in 1 .. n + 1 : g[j] = IF t[j] \in skipped THEN g[j - 1]
                                                         ELSE Append(g[j - 1], t[j])
  BY <1>2, <1>3, <1>4 DEF PicksIn, Picks
<1> DEFINE T == {j \in Nat : j <= n => g[j] = f[j]}
<1>6. 0 \in T
  BY <1>5
<1>7. ASSUME NEW j \in Nat, j \in T PROVE j + 1 \in T
  <2> SUFFICES ASSUME j + 1 <= n PROVE g[j + 1] = f[j + 1]
    OBVIOUS
  <2>1. (j + 1) - 1 = j /\ j + 1 \in 1 .. n /\ j + 1 \in 1 .. n + 1 /\ g[j] = f[j]
    BY <1>2, <1>7
  <2>2. QED
    BY <1>2, <1>5, <2>1
<1>8. g[n] = f[n]
  <2> HIDE DEF T
  <2>1. Nat \subseteq T
    BY <1>6, <1>7, InductionOnNat
  <2>2. QED
    BY <1>2, <2>1 DEF T
<1>9. g[n + 1] = IF e \in skipped THEN f[n] ELSE Append(f[n], e)
  <2>1. n + 1 \in 1 .. n + 1 /\ (n + 1) - 1 = n
    BY <1>2
  <2>2. QED
    BY <1>2, <1>5, <1>8, <2>1
<1>10. Without(t, skipped) = g[n + 1] /\ Without(s, skipped) = f[n]
  BY <1>2, <1>3, <1>4, WithoutPicks
<1>11. QED
  BY <1>1, <1>9, <1>10

\* Nor is a last one missed that means nothing.
LEMMA WithoutLast ==
  ASSUME NEW E, NEW s \in Seq(E), NEW skipped, s # <<>>, Last(s) \in skipped
  PROVE  Front(s) \in Seq(E) /\ Without(Front(s), skipped) = Without(s, skipped)
<1>1. PICK n \in Nat : n = Len(s)
  OBVIOUS
<1>2. n > 0 /\ s[n] \in E /\ Last(s) = s[n] /\ Front(s) = SubSeq(s, 1, n - 1)
  BY <1>1 DEF Front, Last
<1>3. PICK t : t = SubSeq(s, 1, n - 1)
  OBVIOUS
<1>4. t \in Seq(E) /\ Len(t) = n - 1 /\ \A j \in 1 .. n - 1 : t[j] = s[j]
  BY <1>1, <1>2, <1>3
<1>5. s = Append(t, s[n])
  BY <1>1, <1>2, <1>4
<1>6. Without(Append(t, s[n]), skipped) = Without(t, skipped)
  BY <1>2, <1>4, WithoutAppend
<1>7. QED
  BY <1>2, <1>3, <1>4, <1>5, <1>6

-----------------------------------------------------------------------------
(* The recovery code.                                                      *)

Char == [value : 0 .. 33, form : Forms]

SameValues(p, q) == Len(p) = Len(q) /\ \A i \in 1 .. Len(p) : p[i].value = q[i].value

\* What is kept does not depend on how the characters are written.
LEMMA WithoutForms ==
  ASSUME NEW p \in Seq(Char), NEW q \in Seq(Char), SameValues(p, q)
  PROVE  SameValues(Without(p, Dashes), Without(q, Dashes))
<1> DEFINE n == Len(p)
<1>1. n \in Nat /\ Len(q) = n
  BY DEF SameValues
<1>2. PICK f : PicksIn(Char, f, p, Dashes)
  BY PickingExists
<1>3. PICK g : PicksIn(Char, g, q, Dashes)
  BY PickingExists
<1>4. /\ f[0] = <<>> /\ g[0] = <<>>
      /\ \A j \in 1 .. n : f[j] = IF p[j] \in Dashes THEN f[j - 1] ELSE Append(f[j - 1], p[j])
      /\ \A j \in 1 .. n : g[j] = IF q[j] \in Dashes THEN g[j - 1] ELSE Append(g[j - 1], q[j])
  BY <1>1, <1>2, <1>3 DEF PicksIn, Picks
<1>5. \A j \in 0 .. n : f[j] \in Seq(Char) /\ g[j] \in Seq(Char)
  BY <1>1, <1>2, <1>3 DEF PicksIn
<1>6. \A j \in 1 .. n : /\ p[j] \in Char /\ q[j] \in Char
                        /\ p[j].value = q[j].value
                        /\ (p[j] \in Dashes <=> q[j] \in Dashes)
  <2> SUFFICES ASSUME NEW j \in 1 .. n
               PROVE  /\ p[j] \in Char /\ q[j] \in Char /\ p[j].value = q[j].value
                      /\ (p[j] \in Dashes <=> q[j] \in Dashes)
    OBVIOUS
  <2>1. p[j] \in Char /\ q[j] \in Char /\ p[j].value = q[j].value
    BY <1>1 DEF SameValues
  <2>2. \A c \in Char : c \in Dashes <=> c.value = 33
    BY DEF Char, Dashes
  <2>3. QED
    BY <2>1, <2>2
<1> DEFINE T == {j \in Nat : j <= n => SameValues(f[j], g[j])}
<1>7. 0 \in T
  BY <1>4 DEF SameValues
<1>8. ASSUME NEW j \in Nat, j \in T PROVE j + 1 \in T
  <2> SUFFICES ASSUME j + 1 <= n PROVE SameValues(f[j + 1], g[j + 1])
    OBVIOUS
  <2> DEFINE a == f[j]
             b == g[j]
             c == p[j + 1]
             d == q[j + 1]
  <2>1. (j + 1) - 1 = j /\ j + 1 \in 1 .. n /\ j \in 0 .. n /\ SameValues(a, b)
    BY <1>1, <1>8
  <2>2. /\ f[j + 1] = IF c \in Dashes THEN a ELSE Append(a, c)
        /\ g[j + 1] = IF d \in Dashes THEN b ELSE Append(b, d)
    BY <1>4, <2>1
  <2>3. a \in Seq(Char) /\ b \in Seq(Char)
    BY <1>5, <2>1
  <2>4. c \in Char /\ d \in Char /\ c.value = d.value /\ (c \in Dashes <=> d \in Dashes)
    BY <1>6, <2>1
  <2> HIDE DEF a, b, c, d
  <2>5. SameValues(Append(a, c), Append(b, d))
    BY <2>1, <2>3, <2>4 DEF SameValues
  <2>6. QED
    BY <2>1, <2>2, <2>4, <2>5
<1>9. n \in T
  <2> HIDE DEF T
  <2>1. Nat \subseteq T
    BY <1>7, <1>8, InductionOnNat
  <2>2. QED
    BY <1>1, <2>1
<1>10. Without(p, Dashes) = f[n] /\ Without(q, Dashes) = g[n]
  BY <1>1, <1>2, <1>3, WithoutPicks
<1>11. QED
  BY <1>1, <1>9, <1>10

\* Cleaning changes the form of a character at most.
LEMMA CleanIs ==
  ASSUME NEW p \in Seq(Char)
  PROVE  /\ Clean(p) \in Seq(Char) /\ SameValues(Clean(p), Without(p, Dashes))
         /\ \A i \in 1 .. Len(Clean(p)) : Clean(p)[i].form \in {"capital", "twin"}
<1> DEFINE w == Without(p, Dashes)
<1>1. w \in Seq(Char) /\ Len(w) \in Nat
  BY WithoutType
<1>2. Clean(p) = [i \in DOMAIN w |-> Upper(w[i])]
  BY DEF Clean
<1> HIDE DEF w
<1>3. \A c \in Char : /\ Upper(c) \in Char /\ Upper(c).value = c.value
                      /\ Upper(c).form \in {"capital", "twin"}
  BY DEF Upper, Capital, Char, Forms
<1>4. DOMAIN w = 1 .. Len(w) /\ \A i \in 1 .. Len(w) : w[i] \in Char
  BY <1>1
<1> DEFINE u(i) == Upper(w[i])
<1>5. \A i \in 1 .. Len(w) : /\ u(i) \in Char /\ u(i).value = w[i].value
                             /\ u(i).form \in {"capital", "twin"}
  BY <1>3, <1>4
<1>6. Clean(p) = [i \in 1 .. Len(w) |-> u(i)]
  BY <1>2, <1>4
<1> HIDE DEF u
<1>7. Clean(p) \in Seq(Char) /\ Len(Clean(p)) = Len(w)
  BY <1>1, <1>5, <1>6
<1>8. \A i \in 1 .. Len(w) : Clean(p)[i] = u(i)
  BY <1>6
<1>9. QED
  BY <1>5, <1>7, <1>8 DEF SameValues, w

\* The five-bit digits of a number of twenty bits.
Digits(n, a, b, c, d) == /\ (n \div 32768) % 32 = a /\ (n \div 1024) % 32 = b
                         /\ (n \div 32) % 32 = c /\ (n \div 1) % 32 = d

Combine(n, a, b, c, d) ==
  /\ a \in 0 .. 31 /\ b \in 0 .. 31 /\ c \in 0 .. 31 /\ d \in 0 .. 31
  /\ n = a * 32768 + b * 1024 + c * 32 + d

LEMMA DigitsOfBody ==
  ASSUME NEW a, NEW b, NEW c, NEW d, NEW n, Combine(n, a, b, c, d)
  PROVE  Digits(n, a, b, c, d)
<1> USE DEF Combine
<1>1. n \div 32768 = a
  OBVIOUS
<1>2. n \div 1024 = 32 * a + b
  OBVIOUS
<1>3. n \div 32 = 1024 * a + 32 * b + c
  OBVIOUS
<1>4. n \div 1 = n
  OBVIOUS
<1>5. QED
  BY <1>1, <1>2, <1>3, <1>4 DEF Digits

\* The digits of a key are those whose body it is.
LEMMA DigitsOfKey ==
  ASSUME NEW v, NEW k \in Int, \A i \in 1 .. 4 : v[i] \in 0 .. 31, Body(v) = k * 16
  PROVE  ToBase32(k) = [i \in 1 .. 4 |-> v[i]]
<1>1. PICK a, b, c, d, n : a = v[1] /\ b = v[2] /\ c = v[3] /\ d = v[4] /\ n = k * 16
  OBVIOUS
<1>2. a \in 0 .. 31 /\ b \in 0 .. 31 /\ c \in 0 .. 31 /\ d \in 0 .. 31
  BY <1>1
<1>3. Combine(n, a, b, c, d)
  BY <1>1, <1>2 DEF Body, Combine
<1>4. Digits(n, a, b, c, d)
  BY <1>3, DigitsOfBody
<1>5. Digits(k * 16, v[1], v[2], v[3], v[4])
  BY <1>1, <1>4
<1>6. /\ 32 ^ (4 - 1) = 32768 /\ 32 ^ (4 - 2) = 1024 /\ 32 ^ (4 - 3) = 32
      /\ 32 ^ (4 - 4) = 1
  OBVIOUS
<1>7. ASSUME NEW i \in 1 .. 4 PROVE ((k * 16) \div (32 ^ (4 - i))) % 32 = v[i]
  <2>1. CASE i = 1
    BY <1>5, <1>6, <2>1 DEF Digits
  <2>2. CASE i = 2
    BY <1>5, <1>6, <2>2 DEF Digits
  <2>3. CASE i = 3
    BY <1>5, <1>6, <2>3 DEF Digits
  <2>4. CASE i = 4
    BY <1>5, <1>6, <2>4 DEF Digits
  <2>5. QED
    BY <2>1, <2>2, <2>3, <2>4
<1>8. QED
  BY <1>7 DEF ToBase32, BodyChars

\* k is what a body without spare bits stands for.
StandsFor(b, k) == b % 16 = 0 /\ k = b \div 16

\* Every character stands for something.
Legible(c) == \A i \in 1 .. 5 : c[i].value < 32

LEMMA KeyOfBody ==
  ASSUME NEW b \in Int, NEW k, StandsFor(b, k)
  PROVE  k \in Int /\ b = k * 16
BY DEF StandsFor

\* Characters without spare bits spell the key they stand for.
LEMMA SpelledBack ==
  ASSUME NEW c \in [1 .. 5 -> Char], NEW k, Legible(c),
         StandsFor(Body(Value(c)), k), c[5] = Capital(CheckOf[k])
  PROVE  Value(c) = CodeOf(k)
<1>1. ASSUME NEW i \in 1 .. 5 PROVE c[i].value \in 0 .. 31
  <2>1. c[i] \in Char
    OBVIOUS
  <2>2. c[i].value \in 0 .. 33
    BY <2>1 DEF Char
  <2>3. c[i].value < 32
    BY DEF Legible
  <2>4. QED
    BY <2>2, <2>3
<1>2. Value(c) = [i \in 1 .. 5 |-> c[i].value]
  BY DEF Value
<1>3. PICK v : v = Value(c)
  OBVIOUS
<1>4. v = [i \in 1 .. 5 |-> v[i]] /\ \A i \in 1 .. 5 : v[i] \in 0 .. 31
  BY <1>1, <1>2, <1>3
<1>5. v[5] = CheckOf[k]
  BY <1>2, <1>3 DEF Capital
<1>6. Body(v) \in Int
  <2>1. v[1] \in Int /\ v[2] \in Int /\ v[3] \in Int /\ v[4] \in Int
    <3>1. \A i \in 1 .. 5 : v[i] \in Int
      BY <1>4
    <3>2. QED
      BY <3>1
  <2>2. PICK a, b, d, e : a = v[1] /\ b = v[2] /\ d = v[3] /\ e = v[4]
    OBVIOUS
  <2>3. a * 32768 + b * 1024 + d * 32 + e \in Int
    BY <2>1, <2>2
  <2>4. QED
    BY <2>2, <2>3 DEF Body
<1>7. k \in Int /\ Body(v) = k * 16
  BY <1>3, <1>6, KeyOfBody
<1>8. ToBase32(k) = [i \in 1 .. 4 |-> v[i]]
  BY <1>4, <1>7, DigitsOfKey
<1>9. CodeOf(k) = [i \in 1 .. 5 |-> v[i]]
  BY <1>5, <1>8 DEF CodeOf
<1>10. QED
  BY <1>3, <1>4, <1>9

\* A code that is taken spells the key it yields, in each of its characters.
LEMMA OneSpelling ==
  ASSUME NEW p \in Seq(Char), ParseCode(p) # Unread
  PROVE  Value(Clean(p)) = CodeOf(ParseCode(p))
<1>1. PICK c : c = Clean(p)
  OBVIOUS
<1>2. PICK k : k = ParseCode(p)
  OBVIOUS
<1>3. /\ StandsFor(Body(Value(c)), k) /\ Len(c) = 5
      /\ \A i \in DOMAIN c : c[i].value < 32
      /\ c[5] = Capital(CheckOf[k])
  <2>1. /\ k = Body(Value(c)) \div 16 /\ Len(c) = BodyChars + CheckChars
        /\ \A i \in DOMAIN c : c[i].value < 32
        /\ Body(Value(c)) % 16 = 0
        /\ c[5] = Capital(CheckOf[k])
    BY <1>1, <1>2, Zenon DEF ParseCode
  <2>2. QED
    BY <2>1 DEF StandsFor, BodyChars, CheckChars
<1>4. c \in [1 .. 5 -> Char]
  <2>1. c \in Seq(Char)
    BY <1>1, CleanIs
  <2>2. c \in [1 .. Len(c) -> Char]
    BY <2>1
  <2>3. QED
    BY <1>3, <2>2
<1>5. Legible(c)
  BY <1>3, <1>4 DEF Legible
<1>6. QED
  BY <1>1, <1>2, <1>3, <1>4, <1>5, SpelledBack

\* Where nothing is to be skipped, nothing is.
LEMMA WithoutNone ==
  ASSUME NEW E, NEW s \in Seq(E), NEW skipped, \A i \in 1 .. Len(s) : s[i] \notin skipped
  PROVE  Without(s, skipped) = s
<1> DEFINE n == Len(s)
<1>1. n \in Nat
  OBVIOUS
<1>2. PICK f : PicksIn(E, f, s, skipped)
  BY PickingExists
<1>3. /\ f[0] = <<>>
      /\ \A j \in 1 .. n : f[j] = Append(f[j - 1], s[j])
  BY <1>2 DEF PicksIn, Picks
<1> DEFINE Begin(g, j) == g \in Seq(E) /\ Len(g) = j /\ \A m \in 1 .. j : g[m] = s[m]
           T == {j \in Nat : j <= n => Begin(f[j], j)}
<1>4. 0 \in T
  <2>1. Begin(<<>>, 0)
    OBVIOUS
  <2> HIDE DEF Begin
  <2>2. QED
    BY <1>3, <2>1
<1>5. ASSUME NEW j \in Nat, j \in T PROVE j + 1 \in T
  <2> SUFFICES ASSUME j + 1 <= n PROVE Begin(f[j + 1], j + 1)
    OBVIOUS
  <2>1. PICK g : g = f[j]
    OBVIOUS
  <2>2. (j + 1) - 1 = j /\ j + 1 \in 1 .. n /\ Begin(g, j)
    BY <1>1, <1>5, <2>1
  <2>3. f[j + 1] = Append(g, s[j + 1]) /\ s[j + 1] \in E
    BY <1>3, <2>1, <2>2
  <2>4. Begin(Append(g, s[j + 1]), j + 1)
    BY <2>2, <2>3
  <2> HIDE DEF Begin
  <2>5. QED
    BY <2>3, <2>4
<1>6. n \in T
  <2> HIDE DEF T
  <2>1. Nat \subseteq T
    BY <1>4, <1>5, InductionOnNat
  <2>2. QED
    BY <1>1, <2>1
<1>7. f[n] = s
  BY <1>1, <1>6
<1>8. QED
  BY <1>2, <1>7, WithoutPicks

LEMMA AsSequence ==
  ASSUME NEW E, NEW n \in Nat, NEW t \in [1 .. n -> E]
  PROVE  t \in Seq(E) /\ Len(t) = n
OBVIOUS

\* u is t and one more element.
Extends(E, n, t, e, u) == /\ u \in [1 .. n + 1 -> E]
                          /\ \A i \in 1 .. n : u[i] = t[i]
                          /\ u[n + 1] = e

LEMMA OneMore ==
  ASSUME NEW E, NEW n \in Nat, NEW t \in [1 .. n -> E], NEW e \in E
  PROVE  Extends(E, n, t, e, Append(t, e))
<1>1. t \in Seq(E) /\ Len(t) = n
  OBVIOUS
<1>2. Append(t, e) \in Seq(E) /\ Len(Append(t, e)) = n + 1
  BY <1>1
<1>3. Append(t, e) \in [1 .. n + 1 -> E]
  <2>1. PICK u : u = Append(t, e)
    OBVIOUS
  <2>2. u \in Seq(E) /\ Len(u) = n + 1
    BY <1>2, <2>1
  <2>3. u \in [1 .. Len(u) -> E]
    BY <2>2
  <2>4. QED
    BY <2>1, <2>2, <2>3
<1>4. QED
  BY <1>1, <1>3 DEF Extends

\* A character of a code stands for a digit.
LEMMA DigitsAre ==
  ASSUME NEW k \in Number, NEW i \in 1 .. 4
  PROVE  ((k * 16) \div (32 ^ (4 - i))) % 32 \in Digit
<1>1. PICK n : n = k * 16 /\ n \in Int /\ 0 <= n
  BY DEF Number
<1>2. /\ 32 ^ (4 - 1) = 32768 /\ 32 ^ (4 - 2) = 1024 /\ 32 ^ (4 - 3) = 32
      /\ 32 ^ (4 - 4) = 1
  OBVIOUS
<1>3. i = 1 \/ i = 2 \/ i = 3 \/ i = 4
  OBVIOUS
<1>4. PICK d : d = 32 ^ (4 - i) /\ d \in Int /\ d > 0
  <2>1. CASE i = 1
    BY <1>2, <2>1
  <2>2. CASE i = 2
    BY <1>2, <2>2
  <2>3. CASE i = 3
    BY <1>2, <2>3
  <2>4. CASE i = 4
    BY <1>2, <2>4
  <2>5. QED
    BY <1>3, <2>1, <2>2, <2>3, <2>4
<1>5. (n \div d) % 32 \in 0 .. 31
  <2>1. n \div d \in Int
    BY <1>1, <1>4
  <2>2. PICK q : q = n \div d
    OBVIOUS
  <2>3. q % 32 \in 0 .. 31
    BY <2>1, <2>2
  <2>4. QED
    BY <2>2, <2>3
<1>6. QED
  BY <1>1, <1>4, <1>5 DEF Digit

\* The code of a key is five of them.
LEMMA CodeType ==
  ASSUME NEW k \in Keys
  PROVE  /\ k \in Number /\ CheckOf[k] \in Digit
         /\ CodeOf(k) \in [1 .. 5 -> Digit]
         /\ \A i \in 1 .. 4 : CodeOf(k)[i] = ToBase32(k)[i]
         /\ CodeOf(k)[5] = CheckOf[k]
<1>1. k \in Number /\ CheckOf[k] \in Digit
  BY CodecAssumption
<1>2. ToBase32(k) = [i \in 1 .. 4 |-> ((k * 16) \div (32 ^ (4 - i))) % 32]
  BY DEF ToBase32, BodyChars
<1>3. ToBase32(k) \in [1 .. 4 -> Digit]
  BY <1>1, <1>2, DigitsAre
<1>4. PICK t, e, n, E : t = ToBase32(k) /\ e = CheckOf[k] /\ n = 4 /\ E = Digit
  OBVIOUS
<1>5. CodeOf(k) = Append(t, e)
  BY <1>4 DEF CodeOf
<1>6. n \in Nat /\ t \in [1 .. n -> E] /\ e \in E
  BY <1>1, <1>3, <1>4
<1>7. Extends(E, n, t, e, Append(t, e))
  BY <1>6, OneMore
<1>8. n + 1 = 5
  BY <1>4
<1>9. QED
  BY <1>1, <1>4, <1>5, <1>7, <1>8 DEF Extends

\* The body of its code is the key, with nothing in the spare bits.
LEMMA NumberOfDigits ==
  ASSUME NEW k \in Number, NEW n, n = k * 16, NEW a, NEW b, NEW c, NEW d,
         Digits(n, a, b, c, d)
  PROVE  n = a * 32768 + b * 1024 + c * 32 + d
<1>1. n \in Int /\ 0 <= n /\ n < 32 * 32768
  BY DEF Number
<1>2. PICK x, y, z : x = n \div 32768 /\ y = n \div 1024 /\ z = n \div 32
  OBVIOUS
<1>3. n = 32 * z + d
  BY <1>1, <1>2 DEF Digits
<1>4. z = 32 * y + c
  <2>1. y = z \div 32 /\ z \in Int
    BY <1>1, <1>2
  <2>2. QED
    BY <1>2, <2>1 DEF Digits
<1>5. y = 32 * x + b
  <2>1. x = y \div 32 /\ y \in Int
    BY <1>1, <1>2
  <2>2. QED
    BY <1>2, <2>1 DEF Digits
<1>6. x = a
  <2>1. 0 <= x /\ x < 32 /\ x \in Int
    BY <1>1, <1>2
  <2>2. QED
    BY <1>2, <2>1 DEF Digits
<1>7. a \in Int /\ b \in Int /\ c \in Int /\ d \in Int
  BY <1>1 DEF Digits
<1>8. QED
  BY <1>3, <1>4, <1>5, <1>6, <1>7

LEMMA NumberIsInt ==
  ASSUME NEW k \in Number
  PROVE  k \in Int
BY DEF Number

LEMMA BodyOfKey ==
  ASSUME NEW k \in Keys, NEW v, \A i \in 1 .. 4 : v[i] = ToBase32(k)[i]
  PROVE  Body(v) % 16 = 0 /\ Body(v) \div 16 = k
<1>1. k \in Number
  BY CodeType
<1>2. PICK n : n = k * 16
  OBVIOUS
<1>3. /\ 32 ^ (4 - 1) = 32768 /\ 32 ^ (4 - 2) = 1024 /\ 32 ^ (4 - 3) = 32
      /\ 32 ^ (4 - 4) = 1
  OBVIOUS
<1>4. PICK a, b, c, d : a = v[1] /\ b = v[2] /\ c = v[3] /\ d = v[4]
  OBVIOUS
<1>5. \A i \in 1 .. 4 : v[i] = (n \div (32 ^ (4 - i))) % 32
  BY <1>2 DEF ToBase32, BodyChars
<1>6. Digits(n, a, b, c, d)
  BY <1>3, <1>4, <1>5 DEF Digits
<1>7. n = a * 32768 + b * 1024 + c * 32 + d
  BY <1>1, <1>2, <1>6, NumberOfDigits
<1>8. Body(v) = n
  BY <1>4, <1>7 DEF Body
<1>9. n % 16 = 0 /\ n \div 16 = k
  <2>1. k \in Int
    BY <1>1, NumberIsInt
  <2>2. QED
    BY <1>2, <2>1
<1>10. QED
  BY <1>8, <1>9

\* The characters of a text spell the code of a key.
Spells(p, k) == LET w == Without(p, Dashes)
                IN Len(w) = 5 /\ \A i \in 1 .. 5 : w[i].value = CodeOf(k)[i]

LEMMA ReadBack ==
  ASSUME NEW p \in Seq(Char), NEW k \in Keys, Spells(p, k),
         Last(Clean(p)).form # "twin"
  PROVE  ParseCode(p) = k
<1>1. PICK c : c = Clean(p)
  OBVIOUS
<1>2. /\ c \in Seq(Char) /\ SameValues(c, Without(p, Dashes))
      /\ \A i \in 1 .. Len(c) : c[i].form \in {"capital", "twin"}
  BY <1>1, CleanIs
<1>3. Len(c) = 5
  BY <1>2 DEF Spells, SameValues
<1>4. c \in [1 .. 5 -> Char]
  <2>1. c \in [1 .. Len(c) -> Char]
    BY <1>2
  <2>2. QED
    BY <1>3, <2>1
<1>5. \A i \in 1 .. 5 : c[i].value = CodeOf(k)[i]
  BY <1>2, <1>3 DEF Spells, SameValues
<1>6. Value(c) = [i \in 1 .. 5 |-> c[i].value]
  BY <1>4 DEF Value
<1>7. \A i \in 1 .. 4 : Value(c)[i] = ToBase32(k)[i]
  BY <1>5, <1>6, CodeType
<1>8. Body(Value(c)) % 16 = 0 /\ Body(Value(c)) \div 16 = k
  BY <1>7, BodyOfKey
<1>9. \A i \in DOMAIN c : c[i].value < 32
  <2> SUFFICES ASSUME NEW i \in 1 .. 5 PROVE c[i].value < 32
    BY <1>4
  <2>1. PICK m : m = CodeOf(k)[i]
    OBVIOUS
  <2>2. m \in Digit
    BY <2>1, CodeType
  <2>3. c[i].value = m
    BY <1>5, <2>1
  <2>4. \A d \in Digit : d < 32
    BY DEF Digit
  <2>5. c[i].value \in Digit
    BY <2>2, <2>3, Zenon
  <2>6. QED
    BY <2>4, <2>5, Zenon
<1>10. c[5] = Capital(CheckOf[k])
  <2>1. c[5].value = CheckOf[k]
    BY <1>5, CodeType
  <2>2. c[5].form = "capital"
    BY <1>1, <1>2, <1>3 DEF Last
  <2>3. c[5] \in Char
    BY <1>4
  <2>4. QED
    BY <2>1, <2>2, <2>3 DEF Char, Capital
<1>11. Len(c) = BodyChars + CheckChars
  BY <1>3 DEF BodyChars, CheckChars
<1>12. QED
  BY <1>1, <1>8, <1>9, <1>10, <1>11 DEF ParseCode

\* The sheet as it is printed spells its key.
LEMMA PrintedSpells ==
  ASSUME NEW k \in Keys
  PROVE  Printed(k) \in Seq(Char) /\ Spells(Printed(k), k)
<1>1. PICK raw : raw = [i \in 1 .. 5 |-> Capital(CodeOf(k)[i])]
  OBVIOUS
<1>2. ASSUME NEW i \in 1 .. 5
      PROVE  raw[i] \in Char /\ raw[i] \notin Dashes /\ raw[i].value = CodeOf(k)[i]
  <2>1. PICK m : m = CodeOf(k)[i]
    OBVIOUS
  <2>2. m \in Digit
    BY <2>1, CodeType
  <2>3. m \in 0 .. 33 /\ m # 33
    BY <2>2 DEF Digit
  <2>4. raw[i] = Capital(m)
    BY <1>1, <2>1
  <2>5. QED
    BY <2>1, <2>3, <2>4 DEF Capital, Char, Dashes, Forms
<1>3. PICK n : n = 5
  OBVIOUS
<1>4. raw \in Seq(Char) /\ Len(raw) = n
  <2>1. n \in Nat /\ raw \in [1 .. n -> Char]
    BY <1>1, <1>2, <1>3
  <2>2. PICK E : E = Char
    OBVIOUS
  <2>3. raw \in Seq(E) /\ Len(raw) = n
    BY <2>1, <2>2, AsSequence
  <2>4. QED
    BY <2>2, <2>3
<1>5. Dash \in Char /\ Dash \in Dashes
  BY DEF Dash, Char, Dashes, Forms
<1>6. Printed(k) = InsertAt(raw, n, Dash)
  BY <1>1, <1>3, <1>4 DEF Printed, InsertAt, BodyChars, CheckChars
<1>7. PICK E, d, D : E = Char /\ d = Dash /\ D = Dashes
  OBVIOUS
<1>8. raw \in Seq(E) /\ n \in 1 .. Len(raw) /\ d \in E /\ d \in D
  BY <1>3, <1>4, <1>5, <1>7
<1>9. InsertAt(raw, n, d) \in Seq(E) /\ Without(InsertAt(raw, n, d), D) = Without(raw, D)
  BY <1>8, WithoutInserted
<1>10. Without(raw, D) = raw
  <2>1. \A i \in 1 .. Len(raw) : raw[i] \notin D
    BY <1>2, <1>3, <1>4, <1>7
  <2>2. QED
    BY <1>8, <2>1, WithoutNone
<1>11. QED
  BY <1>2, <1>3, <1>4, <1>6, <1>7, <1>9, <1>10 DEF Spells

LEMMA ChangedType ==
  ASSUME NEW E, NEW s \in Seq(E), NEW i \in 1 .. Len(s), NEW e \in E
  PROVE  /\ [s EXCEPT ![i] = e] \in Seq(E) /\ Len([s EXCEPT ![i] = e]) = Len(s)
         /\ \A j \in 1 .. Len(s) : [s EXCEPT ![i] = e][j] = IF j = i THEN e ELSE s[j]
<1>1. PICK n : n = Len(s) /\ n \in Nat
  OBVIOUS
<1>2. s \in [1 .. n -> E]
  BY <1>1
<1>3. PICK t : t = [s EXCEPT ![i] = e]
  OBVIOUS
<1>4. t \in [1 .. n -> E] /\ \A j \in 1 .. n : t[j] = IF j = i THEN e ELSE s[j]
  BY <1>1, <1>2, <1>3
<1>5. t \in Seq(E) /\ Len(t) = n
  BY <1>1, <1>4, AsSequence
<1>6. QED
  BY <1>1, <1>3, <1>4, <1>5

LEMMA RemovedType ==
  ASSUME NEW E, NEW s \in Seq(E), NEW i \in 1 .. Len(s)
  PROVE  RemoveAt(s, i) \in Seq(E)
<1>1. SubSeq(s, 1, i - 1) \in Seq(E) /\ SubSeq(s, i + 1, Len(s)) \in Seq(E)
  OBVIOUS
<1>2. PICK a, b : a = SubSeq(s, 1, i - 1) /\ b = SubSeq(s, i + 1, Len(s))
  OBVIOUS
<1>3. a \o b \in Seq(E)
  BY <1>1, <1>2, ConcatType
<1>4. QED
  BY <1>2, <1>3 DEF RemoveAt

\* As long as nothing was changed that counts, the sheet spells the key.
PaperInv == /\ paper \in Seq(Char) /\ key \in Keys
            /\ ~hurt => Spells(paper, key)

LEMMA PaperInit ==
  ASSUME CodecInit
  PROVE  PaperInv
BY PrintedSpells DEF CodecInit, PaperInv

LEMMA SameSpells ==
  ASSUME NEW p \in Seq(Char), NEW q \in Seq(Char), SameValues(p, q), NEW k, Spells(q, k)
  PROVE  Spells(p, k)
<1>1. SameValues(Without(p, Dashes), Without(q, Dashes))
  BY WithoutForms
<1>2. QED
  BY <1>1 DEF SameValues, Spells

LEMMA PaperNext ==
  ASSUME PaperInv, [CodecNext]_codecVars
  PROVE  PaperInv'
<1> USE DEF PaperInv
<1>1. paper \in Seq(Char) /\ DOMAIN paper = 1 .. Len(paper) /\ Len(paper) \in Nat
  OBVIOUS
<1>2. \A i \in 1 .. Len(paper) : paper[i] \in Char
  BY <1>1
<1>3. CASE WriteOtherForm
  <2>1. PICK i \in 1 .. Len(paper), f \in Forms : paper' = [paper EXCEPT ![i].form = f]
    BY <1>1, <1>3 DEF WriteOtherForm
  <2>2. PICK e : e = [paper[i] EXCEPT !.form = f]
    OBVIOUS
  <2>3. e \in Char /\ e.value = paper[i].value
    BY <1>2, <2>2 DEF Char
  <2>4. paper' = [paper EXCEPT ![i] = e]
    BY <2>1, <2>2
  <2>5. /\ paper' \in Seq(Char) /\ Len(paper') = Len(paper)
        /\ \A j \in 1 .. Len(paper) : paper'[j] = IF j = i THEN e ELSE paper[j]
    <3>1. PICK E : E = Char
      OBVIOUS
    <3>2. QED
      BY <1>1, <2>3, <2>4, <3>1, ChangedType
  <2>6. SameValues(paper', paper)
    BY <2>3, <2>5 DEF SameValues
  <2>7. key' = key /\ (~hurt' => ~hurt)
    BY <1>3 DEF WriteOtherForm, Slip, PaperInv
  <2>8. QED
    BY <1>1, <2>5, <2>6, <2>7, SameSpells
<1>4. CASE WriteOther
  <2>1. PICK i \in 1 .. Len(paper), v \in 0 .. 33 : paper' = [paper EXCEPT ![i] = Capital(v)]
    BY <1>1, <1>4 DEF WriteOther
  <2>2. PICK e, E : e = Capital(v) /\ E = Char
    OBVIOUS
  <2>3. e \in E
    BY <2>2 DEF Capital, Char, Forms
  <2>4. paper' \in Seq(Char)
    BY <1>1, <2>1, <2>2, <2>3, ChangedType
  <2>5. key' = key /\ hurt'
    BY <1>4 DEF WriteOther, Slip
  <2>6. QED
    BY <2>4, <2>5
<1>5. CASE SwapTwo
  <2>1. PICK i \in 1 .. Len(paper) - 1 :
          paper' = [paper EXCEPT ![i] = paper[i + 1], ![i + 1] = paper[i]]
    BY <1>5 DEF SwapTwo
  <2>2. PICK a, b, E, q : /\ a = paper[i] /\ b = paper[i + 1] /\ E = Char
                          /\ q = [paper EXCEPT ![i] = b]
    OBVIOUS
  <2>3. i \in 1 .. Len(paper) /\ i + 1 \in 1 .. Len(paper) /\ a \in E /\ b \in E
    BY <1>1, <1>2, <2>2
  <2>4. q \in Seq(E) /\ Len(q) = Len(paper)
    BY <1>1, <2>2, <2>3, ChangedType
  <2>5. [q EXCEPT ![i + 1] = a] \in Seq(E)
    BY <2>3, <2>4, ChangedType
  <2>6. paper' = [q EXCEPT ![i + 1] = a]
    BY <2>1, <2>2
  <2>7. key' = key /\ hurt'
    BY <1>5 DEF SwapTwo, Slip
  <2>8. QED
    BY <2>2, <2>5, <2>6, <2>7
<1>6. CASE Regroup
  <2>1. PICK i \in 1 .. Len(paper) : paper' = InsertAt(paper, i, Dash)
    BY <1>1, <1>6 DEF Regroup
  <2>2. PICK E, d, D : E = Char /\ d = Dash /\ D = Dashes
    OBVIOUS
  <2>3. d \in E /\ d \in D
    BY <2>2 DEF Dash, Char, Dashes, Forms
  <2>4. paper' \in Seq(E) /\ Without(paper', D) = Without(paper, D)
    BY <1>1, <2>1, <2>2, <2>3, WithoutInserted
  <2>5. key' = key /\ (~hurt' => ~hurt)
    BY <1>6 DEF Regroup, Slip
  <2>6. QED
    BY <2>2, <2>4, <2>5 DEF Spells
<1>7. CASE LeaveOut
  <2>1. PICK i \in 1 .. Len(paper) : paper' = RemoveAt(paper, i)
    BY <1>1, <1>7 DEF LeaveOut
  <2>2. paper' \in Seq(Char)
    BY <1>1, <2>1, RemovedType
  <2>3. key' = key /\ hurt'
    BY <1>7 DEF LeaveOut, Slip
  <2>4. QED
    BY <2>2, <2>3
<1>8. CASE Rewrap \/ CutShort \/ Replace \/ UNCHANGED codecVars
  <2>1. paper' = paper /\ key' = key
    BY <1>8 DEF Rewrap, CutShort, Replace, Slip, codecVars
  <2>2. ~hurt' => ~hurt
    BY <1>8 DEF Rewrap, CutShort, Replace, Slip, codecVars
  <2>3. QED
    BY <2>1, <2>2
<1>9. QED
  BY <1>3, <1>4, <1>5, <1>6, <1>7, <1>8 DEF CodecNext

-----------------------------------------------------------------------------
(* The snapshot as text.                                                   *)

Symbol == 0 .. 63

\* The six bits that two bytes have at a place, and the eight that three
\* symbols have.
LEMMA SextetOf ==
  ASSUME NEW x \in Byte, NEW y \in Byte
  PROVE  /\ ((x * 256 + y) \div 1024) % 64 = x \div 4
         /\ ((x * 256 + y) \div 16) % 64 = (x % 4) * 16 + y \div 16
         /\ ((x * 256 + y) \div 64) % 64 = (x % 16) * 4 + y \div 64
         /\ ((x * 256 + y) \div 256) % 64 = x % 64
<1>1. x \in Int /\ 0 <= x /\ x < 256 /\ y \in Int /\ 0 <= y /\ y < 256
  BY DEF Byte
<1>2. ((x * 256 + y) \div 1024) % 64 = x \div 4
  <2>1. (x * 256 + y) \div 1024 = x \div 4
    BY <1>1
  <2>2. x \div 4 \in 0 .. 63
    BY <1>1
  <2>3. PICK q : q = x \div 4
    OBVIOUS
  <2>4. q % 64 = q
    BY <2>2, <2>3
  <2>5. QED
    BY <2>1, <2>3, <2>4
<1>3. ((x * 256 + y) \div 16) % 64 = (x % 4) * 16 + y \div 16
  <2>1. (x * 256 + y) \div 16 = x * 16 + y \div 16
    BY <1>1
  <2>2. PICK q : q = y \div 16 /\ q \in 0 .. 15
    BY <1>1
  <2>3. (x * 16 + q) % 64 = (x % 4) * 16 + q
    BY <1>1, <2>2
  <2>4. QED
    BY <2>1, <2>2, <2>3
<1>4. ((x * 256 + y) \div 64) % 64 = (x % 16) * 4 + y \div 64
  <2>1. (x * 256 + y) \div 64 = x * 4 + y \div 64
    BY <1>1
  <2>2. PICK q : q = y \div 64 /\ q \in 0 .. 3
    BY <1>1
  <2>3. (x * 4 + q) % 64 = (x % 16) * 4 + q
    BY <1>1, <2>2
  <2>4. QED
    BY <2>1, <2>2, <2>3
<1>5. ((x * 256 + y) \div 256) % 64 = x % 64
  <2>1. (x * 256 + y) \div 256 = x
    BY <1>1
  <2>2. QED
    BY <2>1
<1>6. QED
  BY <1>2, <1>3, <1>4, <1>5

LEMMA OctetOf ==
  ASSUME NEW a \in Symbol, NEW b \in Symbol, NEW c \in Symbol
  PROVE  /\ ((a * 4096 + b * 64 + c) \div 1024) % 256 = a * 4 + b \div 16
         /\ ((a * 4096 + b * 64 + c) \div 256) % 256 = (a % 16) * 16 + b \div 4
         /\ ((a * 4096 + b * 64 + c) \div 64) % 256 = (a % 4) * 64 + b
<1>1. /\ a \in Int /\ 0 <= a /\ a < 64 /\ b \in Int /\ 0 <= b /\ b < 64
      /\ c \in Int /\ 0 <= c /\ c < 64
  BY DEF Symbol
<1>2. ((a * 4096 + b * 64 + c) \div 1024) % 256 = a * 4 + b \div 16
  <2>1. (a * 4096 + b * 64 + c) \div 1024 = a * 4 + b \div 16
    BY <1>1
  <2>2. a * 4 + b \div 16 \in 0 .. 255
    BY <1>1
  <2>3. PICK q : q = a * 4 + b \div 16
    OBVIOUS
  <2>4. q % 256 = q
    BY <2>2, <2>3
  <2>5. QED
    BY <2>1, <2>3, <2>4
<1>3. ((a * 4096 + b * 64 + c) \div 256) % 256 = (a % 16) * 16 + b \div 4
  <2>1. (a * 4096 + b * 64 + c) \div 256 = a * 16 + b \div 4
    BY <1>1
  <2>2. PICK q : q = b \div 4 /\ q \in 0 .. 15
    BY <1>1
  <2>3. (a * 16 + q) % 256 = (a % 16) * 16 + q
    BY <1>1, <2>2
  <2>4. QED
    BY <2>1, <2>2, <2>3
<1>4. ((a * 4096 + b * 64 + c) \div 64) % 256 = (a % 4) * 64 + b
  <2>1. (a * 4096 + b * 64 + c) \div 64 = a * 64 + b
    BY <1>1
  <2>2. (a * 64 + b) % 256 = (a % 4) * 64 + b
    BY <1>1
  <2>3. QED
    BY <2>1, <2>2
<1>5. QED
  BY <1>2, <1>3, <1>4

\* A byte is put together again from the symbols it was spread over.
LEMMA ByteAgain ==
  ASSUME NEW x \in Byte, NEW y \in Byte, NEW z \in Byte
  PROVE  /\ (x \div 4) * 4 + ((x % 4) * 16 + y \div 16) \div 16 = x
         /\ (((x % 4) * 16 + y \div 16) % 16) * 16 + ((y % 16) * 4 + z \div 64) \div 4 = y
         /\ (((y % 16) * 4 + z \div 64) % 4) * 64 + (z % 64) = z
<1>1. /\ x \in Int /\ 0 <= x /\ x < 256 /\ y \in Int /\ 0 <= y /\ y < 256
      /\ z \in Int /\ 0 <= z /\ z < 256
  BY DEF Byte
<1>2. PICK p, q : p = x \div 4 /\ q = x % 4
  OBVIOUS
<1>3. p \in 0 .. 63 /\ q \in 0 .. 3 /\ x = p * 4 + q
  BY <1>1, <1>2
<1>4. PICK r, s : r = y \div 16 /\ s = y % 16
  OBVIOUS
<1>5. r \in 0 .. 15 /\ s \in 0 .. 15 /\ y = r * 16 + s
  BY <1>1, <1>4
<1>6. PICK t, u : t = z \div 64 /\ u = z % 64
  OBVIOUS
<1>7. t \in 0 .. 3 /\ u \in 0 .. 63 /\ z = t * 64 + u
  BY <1>1, <1>6
<1>8. (q * 16 + r) \div 16 = q /\ (q * 16 + r) % 16 = r
  BY <1>3, <1>5
<1>9. (s * 4 + t) \div 4 = s /\ (s * 4 + t) % 4 = t
  BY <1>5, <1>7
<1>10. QED
  BY <1>2, <1>3, <1>4, <1>5, <1>6, <1>7, <1>8, <1>9

\* So many symbols for so many bytes, and back.
Fits(n, m) ==
  /\ m \in Nat /\ m % 4 # 1 /\ (6 * m) \div 8 = n
  /\ \A q \in Nat : /\ 3 * q + 1 <= n => 4 * q + 2 <= m
                    /\ 3 * q + 2 <= n => 4 * q + 3 <= m
                    /\ 3 * q + 3 <= n => 4 * q + 4 <= m

LEMMA NumberOfSymbols ==
  ASSUME NEW n \in Nat, NEW m, m = (8 * n + 5) \div 6
  PROVE  Fits(n, m)
<1>1. PICK q, r : q = n \div 3 /\ r = n % 3
  OBVIOUS
<1>2. q \in Nat /\ r \in 0 .. 2 /\ n = 3 * q + r
  BY <1>1
<1>3. m = 4 * q + (IF r = 0 THEN 0 ELSE r + 1)
  BY <1>2
<1>4. m \in Nat /\ m % 4 # 1 /\ (6 * m) \div 8 = n
  BY <1>2, <1>3
<1>5. ASSUME NEW p \in Nat
      PROVE  /\ 3 * p + 1 <= n => 4 * p + 2 <= m
             /\ 3 * p + 2 <= n => 4 * p + 3 <= m
             /\ 3 * p + 3 <= n => 4 * p + 4 <= m
  BY <1>2, <1>3
<1>6. QED
  BY <1>4, <1>5 DEF Fits

\* A place is the first, second or third of its three, or of its four.
LEMMA Turn ==
  ASSUME NEW i \in Nat, i > 0
  PROVE  /\ \E q \in Nat : i = 3 * q + 1 \/ i = 3 * q + 2 \/ i = 3 * q + 3
         /\ \E q \in Nat : i = 4 * q + 1 \/ i = 4 * q + 2 \/ i = 4 * q + 3 \/ i = 4 * q + 4
<1>1. PICK q, r : q = (i - 1) \div 3 /\ r = (i - 1) % 3
  OBVIOUS
<1>2. q \in Nat /\ r \in 0 .. 2 /\ i = 3 * q + r + 1
  BY <1>1
<1>3. PICK p, s : p = (i - 1) \div 4 /\ s = (i - 1) % 4
  OBVIOUS
<1>4. p \in Nat /\ s \in 0 .. 3 /\ i = 4 * p + s + 1
  BY <1>3
<1>5. QED
  BY <1>2, <1>4

LEMMA NthType ==
  ASSUME NEW E, NEW s \in Seq(E), NEW i, 0 \in E
  PROVE  Nth(s, i) \in E
BY DEF Nth

LEMMA Powers ==
  2 ^ (10 - 0) = 1024 /\ 2 ^ (10 - 6) = 16 /\ 2 ^ (10 - 4) = 64 /\ 2 ^ (10 - 2) = 256
OBVIOUS

\* Symbol j begins in byte i, byte i in symbol j, with d to divide by.
SymbolBegins(j, i, d) ==
  i = (6 * (j - 1)) \div 8 + 1 /\ d = 2 ^ (10 - ((6 * (j - 1)) % 8))
ByteBegins(i, j, d) ==
  j = (8 * (i - 1)) \div 6 + 1 /\ d = 2 ^ (10 - ((8 * (i - 1)) % 6))

LEMMA Beginnings ==
  ASSUME NEW q \in Nat
  PROVE  /\ SymbolBegins(4 * q + 1, 3 * q + 1, 1024)
         /\ SymbolBegins(4 * q + 2, 3 * q + 1, 16)
         /\ SymbolBegins(4 * q + 3, 3 * q + 2, 64)
         /\ SymbolBegins(4 * q + 4, 3 * q + 3, 256)
         /\ ByteBegins(3 * q + 1, 4 * q + 1, 1024)
         /\ ByteBegins(3 * q + 2, 4 * q + 2, 256)
         /\ ByteBegins(3 * q + 3, 4 * q + 3, 64)
<1>1. SymbolBegins(4 * q + 1, 3 * q + 1, 1024)
  <2>1. (6 * ((4 * q + 1) - 1)) \div 8 + 1 = 3 * q + 1 /\ (6 * ((4 * q + 1) - 1)) % 8 = 0
    OBVIOUS
  <2>2. PICK u, w : u = (6 * ((4 * q + 1) - 1)) \div 8 + 1 /\ w = (6 * ((4 * q + 1) - 1)) % 8
    OBVIOUS
  <2>3. u = 3 * q + 1 /\ w = 0
    BY <2>1, <2>2
  <2>4. 1024 = 2 ^ (10 - w)
    BY <2>3, Powers, Zenon
  <2>5. QED
    BY <2>2, <2>3, <2>4, Zenon DEF SymbolBegins
<1>2. SymbolBegins(4 * q + 2, 3 * q + 1, 16)
  <2>1. (6 * ((4 * q + 2) - 1)) \div 8 + 1 = 3 * q + 1 /\ (6 * ((4 * q + 2) - 1)) % 8 = 6
    OBVIOUS
  <2>2. PICK u, w : u = (6 * ((4 * q + 2) - 1)) \div 8 + 1 /\ w = (6 * ((4 * q + 2) - 1)) % 8
    OBVIOUS
  <2>3. u = 3 * q + 1 /\ w = 6
    BY <2>1, <2>2
  <2>4. 16 = 2 ^ (10 - w)
    BY <2>3, Powers, Zenon
  <2>5. QED
    BY <2>2, <2>3, <2>4, Zenon DEF SymbolBegins
<1>3. SymbolBegins(4 * q + 3, 3 * q + 2, 64)
  <2>1. (6 * ((4 * q + 3) - 1)) \div 8 + 1 = 3 * q + 2 /\ (6 * ((4 * q + 3) - 1)) % 8 = 4
    OBVIOUS
  <2>2. PICK u, w : u = (6 * ((4 * q + 3) - 1)) \div 8 + 1 /\ w = (6 * ((4 * q + 3) - 1)) % 8
    OBVIOUS
  <2>3. u = 3 * q + 2 /\ w = 4
    BY <2>1, <2>2
  <2>4. 64 = 2 ^ (10 - w)
    BY <2>3, Powers, Zenon
  <2>5. QED
    BY <2>2, <2>3, <2>4, Zenon DEF SymbolBegins
<1>4. SymbolBegins(4 * q + 4, 3 * q + 3, 256)
  <2>1. (6 * ((4 * q + 4) - 1)) \div 8 + 1 = 3 * q + 3 /\ (6 * ((4 * q + 4) - 1)) % 8 = 2
    OBVIOUS
  <2>2. PICK u, w : u = (6 * ((4 * q + 4) - 1)) \div 8 + 1 /\ w = (6 * ((4 * q + 4) - 1)) % 8
    OBVIOUS
  <2>3. u = 3 * q + 3 /\ w = 2
    BY <2>1, <2>2
  <2>4. 256 = 2 ^ (10 - w)
    BY <2>3, Powers, Zenon
  <2>5. QED
    BY <2>2, <2>3, <2>4, Zenon DEF SymbolBegins
<1>5. ByteBegins(3 * q + 1, 4 * q + 1, 1024)
  <2>1. (8 * ((3 * q + 1) - 1)) \div 6 + 1 = 4 * q + 1 /\ (8 * ((3 * q + 1) - 1)) % 6 = 0
    OBVIOUS
  <2>2. PICK u, w : u = (8 * ((3 * q + 1) - 1)) \div 6 + 1 /\ w = (8 * ((3 * q + 1) - 1)) % 6
    OBVIOUS
  <2>3. u = 4 * q + 1 /\ w = 0
    BY <2>1, <2>2
  <2>4. 1024 = 2 ^ (10 - w)
    BY <2>3, Powers, Zenon
  <2>5. QED
    BY <2>2, <2>3, <2>4, Zenon DEF ByteBegins
<1>6. ByteBegins(3 * q + 2, 4 * q + 2, 256)
  <2>1. (8 * ((3 * q + 2) - 1)) \div 6 + 1 = 4 * q + 2 /\ (8 * ((3 * q + 2) - 1)) % 6 = 2
    OBVIOUS
  <2>2. PICK u, w : u = (8 * ((3 * q + 2) - 1)) \div 6 + 1 /\ w = (8 * ((3 * q + 2) - 1)) % 6
    OBVIOUS
  <2>3. u = 4 * q + 2 /\ w = 2
    BY <2>1, <2>2
  <2>4. 256 = 2 ^ (10 - w)
    BY <2>3, Powers, Zenon
  <2>5. QED
    BY <2>2, <2>3, <2>4, Zenon DEF ByteBegins
<1>7. ByteBegins(3 * q + 3, 4 * q + 3, 64)
  <2>1. (8 * ((3 * q + 3) - 1)) \div 6 + 1 = 4 * q + 3 /\ (8 * ((3 * q + 3) - 1)) % 6 = 4
    OBVIOUS
  <2>2. PICK u, w : u = (8 * ((3 * q + 3) - 1)) \div 6 + 1 /\ w = (8 * ((3 * q + 3) - 1)) % 6
    OBVIOUS
  <2>3. u = 4 * q + 3 /\ w = 4
    BY <2>1, <2>2
  <2>4. 64 = 2 ^ (10 - w)
    BY <2>3, Powers, Zenon
  <2>5. QED
    BY <2>2, <2>3, <2>4, Zenon DEF ByteBegins
<1>8. QED
  BY <1>1, <1>2, <1>3, <1>4, <1>5, <1>6, <1>7

\* A symbol and a byte, when it is known where they begin.
SymbolIs(b, j, i, d) ==
  Base64UrlEncode(b)[j] = ((Nth(b, i) * 256 + Nth(b, i + 1)) \div d) % 64

LEMMA SymbolAt ==
  ASSUME NEW b, NEW m, m = (8 * Len(b) + 5) \div 6, NEW j \in 1 .. m, NEW i, NEW d,
         SymbolBegins(j, i, d)
  PROVE  SymbolIs(b, j, i, d)
BY DEF Base64UrlEncode, SymbolBegins, SymbolIs

\* The four symbols that three bytes x, y and z are spread over; a byte that is
\* missing counts as 0.
LEMMA SymbolsOf ==
  ASSUME NEW b \in Seq(Byte), NEW q \in Nat, NEW m, m = (8 * Len(b) + 5) \div 6,
         NEW j \in 1 .. m, NEW x, NEW y, NEW z,
         x = Nth(b, 3 * q + 1), y = Nth(b, 3 * q + 2), z = Nth(b, 3 * q + 3)
  PROVE  /\ j = 4 * q + 1 => Base64UrlEncode(b)[j] = x \div 4
         /\ j = 4 * q + 2 => Base64UrlEncode(b)[j] = (x % 4) * 16 + y \div 16
         /\ j = 4 * q + 3 => Base64UrlEncode(b)[j] = (y % 16) * 4 + z \div 64
         /\ j = 4 * q + 4 => Base64UrlEncode(b)[j] = z % 64
<1>1. 0 \in Byte
  BY DEF Byte
<1>2. x \in Byte /\ y \in Byte /\ z \in Byte
  BY <1>1, NthType
<1>3. PICK u : u = Nth(b, 3 * q + 3 + 1) /\ u \in Byte
  BY <1>1, NthType
<1>4. PICK e, f, g : /\ e = 3 * q + 1 /\ f = 3 * q + 2 /\ g = 3 * q + 3
                     /\ e + 1 = f /\ f + 1 = g
  OBVIOUS
<1>5. Nth(b, e) = x /\ Nth(b, f) = y /\ Nth(b, g) = z /\ Nth(b, g + 1) = u
  BY <1>3, <1>4
<1>6. ASSUME j = 4 * q + 1 PROVE Base64UrlEncode(b)[j] = x \div 4
  <2>1. SymbolBegins(j, e, 1024)
    BY <1>4, <1>6, Beginnings
  <2>2. SymbolIs(b, j, e, 1024)
    BY <2>1, SymbolAt
  <2>3. Base64UrlEncode(b)[j] = ((x * 256 + y) \div 1024) % 64
    BY <1>4, <1>5, <2>2 DEF SymbolIs
  <2>4. QED
    BY <1>2, <2>3, SextetOf
<1>7. ASSUME j = 4 * q + 2 PROVE Base64UrlEncode(b)[j] = (x % 4) * 16 + y \div 16
  <2>1. SymbolBegins(j, e, 16)
    BY <1>4, <1>7, Beginnings
  <2>2. SymbolIs(b, j, e, 16)
    BY <2>1, SymbolAt
  <2>3. Base64UrlEncode(b)[j] = ((x * 256 + y) \div 16) % 64
    BY <1>4, <1>5, <2>2 DEF SymbolIs
  <2>4. QED
    BY <1>2, <2>3, SextetOf
<1>8. ASSUME j = 4 * q + 3 PROVE Base64UrlEncode(b)[j] = (y % 16) * 4 + z \div 64
  <2>1. SymbolBegins(j, f, 64)
    BY <1>4, <1>8, Beginnings
  <2>2. SymbolIs(b, j, f, 64)
    BY <2>1, SymbolAt
  <2>3. Base64UrlEncode(b)[j] = ((y * 256 + z) \div 64) % 64
    BY <1>4, <1>5, <2>2 DEF SymbolIs
  <2>4. QED
    BY <1>2, <2>3, SextetOf
<1>9. ASSUME j = 4 * q + 4 PROVE Base64UrlEncode(b)[j] = z % 64
  <2>1. SymbolBegins(j, g, 256)
    BY <1>4, <1>9, Beginnings
  <2>2. SymbolIs(b, j, g, 256)
    BY <2>1, SymbolAt
  <2>3. Base64UrlEncode(b)[j] = ((z * 256 + u) \div 256) % 64
    BY <1>5, <2>2 DEF SymbolIs
  <2>4. QED
    BY <1>2, <1>3, <2>3, SextetOf
<1>10. QED
  BY <1>6, <1>7, <1>8, <1>9

LEMMA SymbolsType ==
  ASSUME NEW b \in Seq(Byte), NEW m, m = (8 * Len(b) + 5) \div 6
  PROVE  m \in Nat /\ Base64UrlEncode(b) \in Seq(Symbol) /\ Len(Base64UrlEncode(b)) = m
<1>1. m \in Nat
  <2>1. PICK n \in Nat : n = Len(b)
    OBVIOUS
  <2>2. QED
    BY <2>1, NumberOfSymbols DEF Fits
<1>2. PICK e : e = Base64UrlEncode(b)
  OBVIOUS
<1>3. e = [j \in 1 .. m |-> e[j]]
  BY <1>2 DEF Base64UrlEncode
<1>4. ASSUME NEW j \in 1 .. m PROVE e[j] \in Symbol
  <2>1. j \in Nat /\ j > 0
    BY <1>1
  <2>2. PICK q \in Nat : j = 4 * q + 1 \/ j = 4 * q + 2 \/ j = 4 * q + 3 \/ j = 4 * q + 4
    BY <2>1, Turn
  <2>3. PICK x, y, z : x = Nth(b, 3 * q + 1) /\ y = Nth(b, 3 * q + 2) /\ z = Nth(b, 3 * q + 3)
    OBVIOUS
  <2>4. x \in Byte /\ y \in Byte /\ z \in Byte
    <3>1. 0 \in Byte
      BY DEF Byte
    <3>2. QED
      BY <2>3, <3>1, NthType
  <2>5. /\ j = 4 * q + 1 => e[j] = x \div 4
        /\ j = 4 * q + 2 => e[j] = (x % 4) * 16 + y \div 16
        /\ j = 4 * q + 3 => e[j] = (y % 16) * 4 + z \div 64
        /\ j = 4 * q + 4 => e[j] = z % 64
    BY <1>2, <2>3, SymbolsOf
  <2>6. /\ x \div 4 \in Symbol /\ (x % 4) * 16 + y \div 16 \in Symbol
        /\ (y % 16) * 4 + z \div 64 \in Symbol /\ z % 64 \in Symbol
    BY <2>4 DEF Byte, Symbol
  <2>7. QED
    BY <2>2, <2>5, <2>6
<1>5. e \in [1 .. m -> Symbol]
  BY <1>3, <1>4
<1>6. e \in Seq(Symbol) /\ Len(e) = m
  BY <1>1, <1>5, AsSequence
<1>7. QED
  BY <1>1, <1>2, <1>6

Octet(c, j, d) ==
  ((Nth(c, j) * 4096 + Nth(c, j + 1) * 64 + Nth(c, j + 2)) \div d) % 256

LEMMA DecodedIs ==
  ASSUME NEW t, ~(\/ Len(Without(t, {Space})) % 4 = 1
                  \/ Junk \in {Without(t, {Space})[i] : i \in DOMAIN Without(t, {Space})})
  PROVE  Base64UrlDecode(t) =
           [i \in 1 .. (6 * Len(Without(t, {Space}))) \div 8 |->
             Octet(Without(t, {Space}), (8 * (i - 1)) \div 6 + 1,
                   2 ^ (10 - ((8 * (i - 1)) % 6)))]
BY Zenon DEF Base64UrlDecode, Octet

\* p has n bytes, those that begin in the symbols c.
DecodedFrom(p, c, n) ==
  /\ p = [i \in 1 .. n |-> p[i]]
  /\ \A i \in 1 .. n : \A j, d : ByteBegins(i, j, d) => p[i] = Octet(c, j, d)

LEMMA ByteAt ==
  ASSUME NEW t, NEW c, c = Without(t, {Space}), Len(c) % 4 # 1,
         \A i \in DOMAIN c : c[i] # Junk, NEW n, n = (6 * Len(c)) \div 8
  PROVE  DecodedFrom(Base64UrlDecode(t), c, n)
<1>1. ~(\/ Len(Without(t, {Space})) % 4 = 1
        \/ Junk \in {Without(t, {Space})[i] : i \in DOMAIN Without(t, {Space})})
  OBVIOUS
<1> DEFINE value(i) == Octet(c, (8 * (i - 1)) \div 6 + 1, 2 ^ (10 - ((8 * (i - 1)) % 6)))
<1>2. Base64UrlDecode(t) = [i \in 1 .. n |-> value(i)]
  BY <1>1, DecodedIs, Zenon
<1>3. \A i, j, d : ByteBegins(i, j, d) => value(i) = Octet(c, j, d)
  BY Zenon DEF ByteBegins
<1> HIDE DEF value
<1>4. PICK p : p = Base64UrlDecode(t)
  OBVIOUS
<1>5. p = [i \in 1 .. n |-> value(i)]
  BY <1>2, <1>4
<1>6. p = [i \in 1 .. n |-> p[i]] /\ \A i \in 1 .. n : p[i] = value(i)
  BY <1>5
<1>7. ASSUME NEW i \in 1 .. n, NEW j, NEW d, ByteBegins(i, j, d) PROVE p[i] = Octet(c, j, d)
  BY <1>3, <1>6, <1>7, Zenon
<1>8. DecodedFrom(p, c, n)
  BY <1>6, <1>7, Zenon DEF DecodedFrom
<1>9. QED
  BY <1>4, <1>8

\* Decoding gives back what was encoded, wherever the text was wrapped.
LEMMA DecodesBack ==
  ASSUME NEW b \in Seq(Byte), NEW t, Without(t, {Space}) = Base64UrlEncode(b)
  PROVE  Base64UrlDecode(t) = b
<1>1. PICK c, n, m : c = Base64UrlEncode(b) /\ n = Len(b) /\ m = (8 * n + 5) \div 6
  OBVIOUS
<1>2. n \in Nat /\ b \in [1 .. n -> Byte]
  BY <1>1
<1>3. c \in Seq(Symbol) /\ Len(c) = m /\ m \in Nat
  BY <1>1, SymbolsType
<1>4. /\ m % 4 # 1 /\ (6 * m) \div 8 = n
      /\ \A q \in Nat : /\ 3 * q + 1 <= n => 4 * q + 2 <= m
                        /\ 3 * q + 2 <= n => 4 * q + 3 <= m
                        /\ 3 * q + 3 <= n => 4 * q + 4 <= m
  <2>1. Fits(n, m)
    BY <1>1, <1>2, NumberOfSymbols
  <2>2. QED
    BY <2>1 DEF Fits
<1>5. 0 \in Symbol /\ \A i \in DOMAIN c : c[i] # Junk
  <2>1. 0 \in Symbol /\ \A e \in Symbol : e # Junk
    BY DEF Symbol, Junk
  <2>2. QED
    BY <1>3, <2>1
<1>6. PICK p : p = Base64UrlDecode(t)
  OBVIOUS
<1>7. DecodedFrom(p, c, n)
  <2>1. c = Without(t, {Space}) /\ Len(c) % 4 # 1 /\ n = (6 * Len(c)) \div 8
    BY <1>1, <1>3, <1>4
  <2>2. QED
    BY <1>5, <1>6, <2>1, ByteAt
<1>8. ASSUME NEW i \in 1 .. n PROVE p[i] = b[i]
  <2>1. i \in Nat /\ i > 0
    BY <1>2
  <2>2. PICK q \in Nat : i = 3 * q + 1 \/ i = 3 * q + 2 \/ i = 3 * q + 3
    BY <2>1, Turn
  <2>3. PICK x, y, z : x = Nth(b, 3 * q + 1) /\ y = Nth(b, 3 * q + 2) /\ z = Nth(b, 3 * q + 3)
    OBVIOUS
  <2>4. x \in Byte /\ y \in Byte /\ z \in Byte
    <3>1. 0 \in Byte
      BY DEF Byte
    <3>2. QED
      BY <2>3, <3>1, NthType
  <2>5. PICK j : j = 4 * q + 1 /\ j \in Nat /\ j > 0
    OBVIOUS
  <2>6. \A k : Nth(c, k) \in Symbol
    BY <1>3, <1>5, NthType
  <2>7. ASSUME NEW k \in 1 .. m
        PROVE  /\ k = j => Nth(c, k) = x \div 4
               /\ k = j + 1 => Nth(c, k) = (x % 4) * 16 + y \div 16
               /\ k = j + 2 => Nth(c, k) = (y % 16) * 4 + z \div 64
               /\ k = j + 3 => Nth(c, k) = z % 64
    <3>1. Nth(c, k) = c[k]
      BY <1>3, <2>7 DEF Nth
    <3>2. /\ k = 4 * q + 1 => c[k] = x \div 4
          /\ k = 4 * q + 2 => c[k] = (x % 4) * 16 + y \div 16
          /\ k = 4 * q + 3 => c[k] = (y % 16) * 4 + z \div 64
          /\ k = 4 * q + 4 => c[k] = z % 64
      BY <1>1, <2>3, SymbolsOf
    <3>3. j + 1 = 4 * q + 2 /\ j + 2 = 4 * q + 3 /\ j + 3 = 4 * q + 4
      BY <2>5
    <3>4. QED
      BY <2>5, <3>1, <3>2, <3>3
  <2>8. CASE i = 3 * q + 1
    <3>1. j \in 1 .. m /\ j + 1 \in 1 .. m
      BY <1>2, <1>3, <1>4, <2>5, <2>8
    <3>2. p[i] = Octet(c, j, 1024)
      BY <1>7, <2>5, <2>8, Beginnings DEF DecodedFrom
    <3>3. PICK u, v, w : u = Nth(c, j) /\ v = Nth(c, j + 1) /\ w = Nth(c, j + 2)
      OBVIOUS
    <3>4. u \in Symbol /\ v \in Symbol /\ w \in Symbol
      BY <2>6, <3>3
    <3>5. p[i] = u * 4 + v \div 16
      BY <3>2, <3>3, <3>4, OctetOf DEF Octet
    <3>6. u = x \div 4 /\ v = (x % 4) * 16 + y \div 16
      BY <2>7, <3>1, <3>3
    <3>7. p[i] = x
      BY <2>4, <3>5, <3>6, ByteAgain
    <3>8. x = b[i]
      BY <1>2, <2>3, <2>8 DEF Nth
    <3>9. QED
      BY <3>7, <3>8
  <2>9. CASE i = 3 * q + 2
    <3>1. j + 1 \in 1 .. m /\ j + 2 \in 1 .. m /\ (j + 1) + 1 = j + 2
      BY <1>2, <1>3, <1>4, <2>5, <2>9
    <3>2. p[i] = Octet(c, j + 1, 256)
      <4>1. j + 1 = 4 * q + 2
        BY <2>5
      <4>2. QED
        BY <1>7, <2>9, <4>1, Beginnings DEF DecodedFrom
    <3>3. PICK u, v, w : u = Nth(c, j + 1) /\ v = Nth(c, j + 2) /\ w = Nth(c, (j + 1) + 2)
      OBVIOUS
    <3>4. u \in Symbol /\ v \in Symbol /\ w \in Symbol
      BY <2>6, <3>3
    <3>5. p[i] = (u % 16) * 16 + v \div 4
      BY <3>1, <3>2, <3>3, <3>4, OctetOf DEF Octet
    <3>6. u = (x % 4) * 16 + y \div 16 /\ v = (y % 16) * 4 + z \div 64
      BY <2>7, <3>1, <3>3
    <3>7. p[i] = y
      BY <2>4, <3>5, <3>6, ByteAgain
    <3>8. y = b[i]
      BY <1>2, <2>3, <2>9 DEF Nth
    <3>9. QED
      BY <3>7, <3>8
  <2>10. CASE i = 3 * q + 3
    <3>1. /\ j + 2 \in 1 .. m /\ j + 3 \in 1 .. m /\ (j + 2) + 1 = j + 3
      BY <1>2, <1>3, <1>4, <2>5, <2>10
    <3>2. p[i] = Octet(c, j + 2, 64)
      <4>1. j + 2 = 4 * q + 3
        BY <2>5
      <4>2. QED
        BY <1>7, <2>10, <4>1, Beginnings DEF DecodedFrom
    <3>3. PICK u, v, w : u = Nth(c, j + 2) /\ v = Nth(c, j + 3) /\ w = Nth(c, (j + 2) + 2)
      OBVIOUS
    <3>4. u \in Symbol /\ v \in Symbol /\ w \in Symbol
      BY <2>6, <3>3
    <3>5. p[i] = (u % 4) * 64 + v
      BY <3>1, <3>2, <3>3, <3>4, OctetOf DEF Octet
    <3>6. u = (y % 16) * 4 + z \div 64 /\ v = z % 64
      BY <2>7, <3>1, <3>3
    <3>7. p[i] = z
      BY <2>4, <3>5, <3>6, ByteAgain
    <3>8. z = b[i]
      BY <1>2, <2>3, <2>10 DEF Nth
    <3>9. QED
      BY <3>7, <3>8
  <2>11. QED
    BY <2>2, <2>8, <2>9, <2>10
<1>9. QED
  <2>1. b = [i \in 1 .. n |-> b[i]]
    BY <1>2
  <2>2. QED
    BY <1>6, <1>7, <1>8, <2>1 DEF DecodedFrom

-----------------------------------------------------------------------------
(* The text is wrapped.                                                    *)

\* A sequence in pieces, each an element with or without a space behind it.
Wrapped(ss, s) ==
  /\ Len(ss) = Len(s)
  /\ \A i \in 1 .. Len(s) : ss[i] = <<s[i], Space>> \/ ss[i] = <<s[i]>>

LEMMA WithoutPiece ==
  ASSUME NEW E, Space \in E, NEW s \in Seq(E), NEW e \in E, e # Space,
         NEW t, t = <<e, Space>> \/ t = <<e>>
  PROVE  Without(s \o t, {Space}) = Append(Without(s, {Space}), e)
<1>1. Without(Append(s, e), {Space}) = Append(Without(s, {Space}), e)
  BY WithoutAppend
<1>2. PICK r : r = Append(s, e)
  OBVIOUS
<1>3. r \in Seq(E)
  BY <1>2
<1>4. Without(Append(r, Space), {Space}) = Without(r, {Space})
  BY <1>3, WithoutAppend
<1>5. CASE t = <<e>>
  <2>1. s \o t = r
    BY <1>2, <1>5
  <2>2. QED
    BY <1>1, <1>2, <2>1
<1>6. CASE t = <<e, Space>>
  <2>1. s \o t = Append(r, Space)
    BY <1>2, <1>6
  <2>2. QED
    BY <1>1, <1>2, <1>4, <2>1
<1>7. QED
  BY <1>5, <1>6

\* g is the first j elements of s.
Begins(E, g, s, j) == g \in Seq(E) /\ Len(g) = j /\ \A m \in 1 .. j : g[m] = s[m]

LEMMA BeginsMore ==
  ASSUME NEW E, NEW s, NEW j \in Nat, NEW g, Begins(E, g, s, j), NEW e \in E, e = s[j + 1]
  PROVE  Begins(E, Append(g, e), s, j + 1)
BY DEF Begins

\* Without its spaces, the wrapped text is the body.
LEMMA WithoutWraps ==
  ASSUME NEW E, Space \in E, NEW s \in Seq(E), NEW ss, Wrapped(ss, s), ss \in Seq(Seq(E)),
         \A i \in 1 .. Len(s) : s[i] # Space
  PROVE  FlattenSeq(ss) \in Seq(E) /\ Without(FlattenSeq(ss), {Space}) = s
<1> DEFINE n == Len(s)
<1>1. n \in Nat /\ Len(ss) = n
  BY DEF Wrapped
<1>2. PICK f \in [0 .. n -> Seq(E)] : Gathers(f, ss)
  BY <1>1, FlattenDef
<1>3. /\ f[0] = <<>> /\ FlattenSeq(ss) = f[n]
      /\ \A i \in 1 .. n : f[i] = f[i - 1] \o ss[i]
  BY <1>1, <1>2 DEF Gathers
<1> DEFINE kept(j) == Without(f[j], {Space})
           T == {j \in Nat : j <= n => Begins(E, kept(j), s, j)}
<1>4. 0 \in T
  <2>1. Without(<<>>, {Space}) = <<>>
    <3>1. <<>> \in Seq(E) /\ \A i \in 1 .. Len(<<>>) : <<>>[i] \notin {Space}
      OBVIOUS
    <3>2. QED
      BY <3>1, WithoutNone
  <2>2. Begins(E, <<>>, s, 0)
    BY DEF Begins
  <2>3. QED
    BY <1>3, <2>1, <2>2
<1>5. ASSUME NEW j \in Nat, j \in T PROVE j + 1 \in T
  <2>1. SUFFICES ASSUME j + 1 <= n PROVE Begins(E, kept(j + 1), s, j + 1)
    OBVIOUS
  <2>2. PICK g, e, t, w : g = f[j] /\ e = s[j + 1] /\ t = ss[j + 1] /\ w = kept(j)
    OBVIOUS
  <2>3. j <= n /\ (j + 1) - 1 = j /\ j + 1 \in 1 .. n /\ j \in 0 .. n
    BY <1>1, <2>1
  <2>4. Begins(E, w, s, j)
    BY <1>5, <2>2, <2>3
  <2>5. g \in Seq(E) /\ e \in E /\ e # Space
    <3>1. \A i \in 1 .. n : s[i] \in E /\ s[i] # Space
      OBVIOUS
    <3>2. \A i \in 0 .. n : f[i] \in Seq(E)
      BY <1>2
    <3>3. QED
      BY <2>2, <2>3, <3>1, <3>2
  <2>6. f[j + 1] = g \o t
    BY <1>3, <2>2, <2>3
  <2>7. t = <<e, Space>> \/ t = <<e>>
    BY <2>2, <2>3 DEF Wrapped
  <2>8. Without(g \o t, {Space}) = Append(Without(g, {Space}), e)
    BY <2>5, <2>7, WithoutPiece
  <2>9. kept(j + 1) = Append(w, e)
    BY <2>2, <2>6, <2>8
  <2>10. Begins(E, Append(w, e), s, j + 1)
    BY <2>2, <2>4, <2>5, BeginsMore
  <2> HIDE DEF kept
  <2>11. QED
    BY <2>9, <2>10
<1>6. n \in T
  <2> HIDE DEF T
  <2>1. Nat \subseteq T
    BY <1>4, <1>5, InductionOnNat
  <2>2. QED
    BY <1>1, <2>1
<1>7. Without(f[n], {Space}) = s
  <2>1. PICK w : w = Without(f[n], {Space})
    OBVIOUS
  <2>2. Begins(E, w, s, n)
    BY <1>1, <1>6, <2>1
  <2>3. w = s
    BY <2>2 DEF Begins
  <2>4. QED
    BY <2>1, <2>3
<1>8. f[n] \in Seq(E)
  BY <1>1, <1>2
<1>9. QED
  BY <1>3, <1>7, <1>8

\* What a text is made of.
Sign == 0 .. 65

LEMMA ArmorIs ==
  ASSUME NEW b \in Seq(Byte)
  PROVE  Armor(b) \in Seq(Sign) /\ Without(Armor(b), {Space}) = Base64UrlEncode(b)
<1>1. PICK s : s = Base64UrlEncode(b)
  OBVIOUS
<1>2. s \in Seq(Symbol)
  BY <1>1, SymbolsType
<1>3. Space \in Sign /\ \A e \in Symbol : e \in Sign /\ e # Space
  BY DEF Sign, Symbol, Space
<1>4. PICK E : E = Sign
  OBVIOUS
<1>5. s \in Seq(E) /\ Space \in E /\ \A i \in 1 .. Len(s) : s[i] \in E /\ s[i] # Space
  BY <1>2, <1>3, <1>4
<1>6. PICK ss : ss = [i \in DOMAIN s |-> IF i % WrapColumns = 0 THEN <<s[i], Space>> ELSE <<s[i]>>]
  OBVIOUS
<1>7. Armor(b) = FlattenSeq(ss)
  BY <1>1, <1>6 DEF Armor
<1>8. PICK n \in Nat : n = Len(s)
  BY <1>5
<1>9. ss = [i \in 1 .. n |-> ss[i]] /\ \A i \in 1 .. n : ss[i] = <<s[i], Space>> \/ ss[i] = <<s[i]>>
  BY <1>5, <1>6, <1>8
<1>10. ASSUME NEW i \in 1 .. n PROVE ss[i] \in Seq(E)
  <2>1. PICK e \in E : e = s[i]
    BY <1>5, <1>8
  <2>2. <<e, Space>> \in Seq(E) /\ <<e>> \in Seq(E)
    BY <1>5
  <2>3. QED
    BY <1>9, <2>1, <2>2
<1>11. PICK F : F = Seq(E)
  OBVIOUS
<1>12. ss \in [1 .. n -> F]
  BY <1>9, <1>10, <1>11
<1>13. ss \in Seq(F) /\ Len(ss) = n
  BY <1>12, AsSequence
<1>14. Wrapped(ss, s)
  BY <1>8, <1>9, <1>13 DEF Wrapped
<1>15. FlattenSeq(ss) \in Seq(E) /\ Without(FlattenSeq(ss), {Space}) = s
  BY <1>5, <1>11, <1>13, <1>14, WithoutWraps
<1>16. QED
  BY <1>1, <1>4, <1>7, <1>15

-----------------------------------------------------------------------------
(* The rows of a snapshot.                                                 *)

LEMMA GreatestByte ==
  ASSUME NEW s \in SUBSET Byte, s # {}
  PROVE  \E x \in s : \A y \in s : y <= x
<1> DEFINE below == {m \in Nat : 255 - m \in s}
<1>1. \A x \in s : x \in Int /\ 0 <= x /\ x <= 255
  BY DEF Byte
<1>2. PICK x : x \in s
  OBVIOUS
<1>3. 255 - x \in below
  <2>1. 255 - x \in Nat /\ 255 - (255 - x) = x
    BY <1>1, <1>2
  <2>2. QED
    BY <1>2, <2>1
<1>4. PICK m \in below : \A k \in below : m <= k
  <2>1. below \in SUBSET Nat /\ below # {}
    BY <1>3
  <2> HIDE DEF below
  <2>2. QED
    BY <2>1, LeastNatural
<1>5. 255 - m \in s /\ m \in Nat
  BY <1>4
<1>6. ASSUME NEW y \in s PROVE y <= 255 - m
  <2>1. 255 - y \in Nat /\ 255 - (255 - y) = y /\ y \in Int
    BY <1>1
  <2>2. m <= 255 - y
    BY <1>4, <2>1
  <2>3. QED
    BY <1>5, <2>1, <2>2
<1>7. QED
  BY <1>5, <1>6

\* The ids that a snapshot has can be put in order.
Ascending(o, s) == /\ o \in [1 .. Cardinality(s) -> s]
                   /\ \A i, j \in 1 .. Cardinality(s) : i < j => o[i] < o[j]

LEMMA AscendingExists ==
  ASSUME NEW J \in SUBSET Byte
  PROVE  IsFiniteSet(J) /\ \E o : Ascending(o, J)
<1> DEFINE T == {n \in Nat : \A s \in SUBSET J : Cardinality(s) = n => \E o : Ascending(o, s)}
<1>1. \A s \in SUBSET Byte : IsFiniteSet(s)
  <2>1. IsFiniteSet(Byte)
    <3>1. PICK a \in Int, b \in Int : a = 0 /\ b = 255
      OBVIOUS
    <3>2. IsFiniteSet(a .. b)
      BY FS_Interval
    <3>3. QED
      BY <3>1, <3>2 DEF Byte
  <2>2. QED
    BY <2>1, FS_Subset
<1>2. 0 \in T
  <2> SUFFICES ASSUME NEW s \in SUBSET J, Cardinality(s) = 0 PROVE \E o : Ascending(o, s)
    OBVIOUS
  <2>1. Ascending([i \in 1 .. 0 |-> i], s)
    BY DEF Ascending
  <2>2. QED
    BY <2>1
<1>3. ASSUME NEW n \in Nat, n \in T PROVE n + 1 \in T
  <2> SUFFICES ASSUME NEW s \in SUBSET J, Cardinality(s) = n + 1 PROVE \E o : Ascending(o, s)
    OBVIOUS
  <2>1. s # {} /\ s \in SUBSET Byte /\ IsFiniteSet(s)
    BY <1>1, FS_EmptySet
  <2>2. PICK x \in s : \A y \in s : y <= x
    BY <2>1, GreatestByte
  <2>3. PICK r : r = s \ {x}
    OBVIOUS
  <2>4. Cardinality(r) = n /\ r \in SUBSET J
    <3>1. Cardinality(r) = (n + 1) - 1
      BY <2>1, <2>2, <2>3, FS_RemoveElement
    <3>2. QED
      BY <2>3, <3>1
  <2>5. PICK o : Ascending(o, r)
    BY <1>3, <2>4
  <2>6. /\ o \in [1 .. n -> r]
        /\ \A i, j \in 1 .. n : i < j => o[i] < o[j]
    BY <2>4, <2>5 DEF Ascending
  <2>7. \A y \in r : y \in s /\ y < x
    <3>1. \A y \in s : y \in Int
      BY <2>1 DEF Byte
    <3>2. QED
      BY <2>2, <2>3, <3>1
  <2>8. PICK k : k = [i \in 1 .. n + 1 |-> IF i = n + 1 THEN x ELSE o[i]]
    OBVIOUS
  <2>9. /\ k = [i \in 1 .. n + 1 |-> k[i]] /\ k[n + 1] = x
        /\ \A i \in 1 .. n : k[i] = o[i] /\ o[i] \in r
    BY <2>6, <2>8
  <2>10. \A i \in 1 .. n + 1 : i = n + 1 \/ i \in 1 .. n
    OBVIOUS
  <2>11. k \in [1 .. n + 1 -> s]
    BY <2>7, <2>9, <2>10
  <2>12. \A i, j \in 1 .. n + 1 : i < j => k[i] < k[j]
    <3> SUFFICES ASSUME NEW i \in 1 .. n + 1, NEW j \in 1 .. n + 1, i < j PROVE k[i] < k[j]
      OBVIOUS
    <3>1. i \in 1 .. n
      OBVIOUS
    <3>2. CASE j = n + 1
      BY <2>7, <2>9, <3>1, <3>2
    <3>3. CASE j \in 1 .. n
      BY <2>6, <2>9, <3>1, <3>3
    <3>4. QED
      BY <2>10, <3>2, <3>3
  <2>13. Ascending(k, s)
    BY <2>11, <2>12 DEF Ascending
  <2>14. QED
    BY <2>13
<1>4. Nat \subseteq T
  <2> HIDE DEF T
  <2>1. QED
    BY <1>2, <1>3, InductionOnNat
<1>5. Cardinality(J) \in Nat /\ J \in SUBSET J
  BY <1>1, FS_CardinalityType
<1>6. QED
  BY <1>1, <1>4, <1>5

\* A sequence that names each element of a set once.
Lists(o, s, n) == /\ o \in [1 .. n -> s]
                  /\ \A i, j \in 1 .. n : i # j => o[i] # o[j]
                  /\ \A x \in s : \E i \in 1 .. n : o[i] = x

LEMMA ListsAll ==
  ASSUME NEW s, IsFiniteSet(s), NEW n, n = Cardinality(s), NEW o \in [1 .. n -> s],
         \A i, j \in 1 .. n : i # j => o[i] # o[j]
  PROVE  Lists(o, s, n)
<1>1. n \in Nat
  BY FS_CardinalityType
<1>2. ASSUME NEW x \in s, \A i \in 1 .. n : o[i] # x PROVE FALSE
  <2>1. PICK r : r = s \ {x}
    OBVIOUS
  <2>2. IsFiniteSet(r) /\ Cardinality(r) = n - 1
    BY <2>1, FS_RemoveElement
  <2>3. o \in Injection(1 .. n, r)
    <3>1. o \in [1 .. n -> r]
      BY <1>2, <2>1
    <3>2. IsInjective(o)
      BY DEF IsInjective
    <3>3. QED
      BY <3>1, <3>2 DEF Injection
  <2>4. Cardinality(1 .. n) <= Cardinality(r)
    BY <2>2, <2>3, FS_Injection
  <2>5. Cardinality(1 .. n) = n
    BY <1>1, FS_Interval
  <2>6. QED
    BY <1>1, <2>2, <2>4, <2>5
<1>3. QED
  BY <1>2 DEF Lists

\* A row of a snapshot in bytes: its id, what it says, and the later key.
Written(later) == IF later = Absent THEN 255 ELSE later

Triple(s, id) == <<id, s[id].says, Written(s[id].later)>>

LEMMA TripleType ==
  ASSUME NEW s \in Snapshots, NEW id \in DOMAIN s
  PROVE  /\ id \in Byte /\ s[id] \in Says
         /\ Triple(s, id) \in Seq(Byte) /\ Len(Triple(s, id)) = 3
         /\ Triple(s, id)[1] = id /\ Triple(s, id)[2] = s[id].says
         /\ Triple(s, id)[3] = Written(s[id].later)
<1>1. id \in Byte /\ s[id] \in Says
  BY CodecAssumption
<1>2. PICK a, b, c : a = id /\ b = s[id].says /\ c = Written(s[id].later)
  OBVIOUS
<1>3. a \in Byte /\ b \in Byte /\ c \in Byte
  <2>1. 255 \in Byte
    BY DEF Byte
  <2>2. QED
    BY <1>1, <1>2, <2>1 DEF Says, Written
<1>4. <<a, b, c>> \in Seq(Byte) /\ Len(<<a, b, c>>) = 3
  BY <1>3
<1>5. QED
  BY <1>1, <1>2, <1>4 DEF Triple

\* The payload is made of the rows, in the order of their ids.
LEMMA PayloadFlattens ==
  ASSUME NEW s \in Snapshots
  PROVE  \E o, n : /\ n \in Nat /\ 3 * n \in Byte /\ Lists(o, DOMAIN s, n)
                   /\ Payload(s) = FlattenSeq([i \in 1 .. n |-> Triple(s, o[i])])
<1>1. PICK J : J = DOMAIN s
  OBVIOUS
<1>2. J \in SUBSET Byte /\ 3 * Cardinality(J) \in Byte
  BY <1>1, CodecAssumption
<1>3. PICK n : n = Cardinality(J)
  OBVIOUS
<1>4. IsFiniteSet(J) /\ n \in Nat
  BY <1>2, <1>3, AscendingExists, FS_CardinalityType
<1> DEFINE Sorted(q) == \A i, j \in DOMAIN q : i < j => q[i] < q[j]
           o == CHOOSE q \in SetToSeqs(J) : Sorted(q)
<1>5. \E q \in SetToSeqs(J) : Sorted(q)
  <2>1. PICK q : Ascending(q, J)
    BY <1>2, AscendingExists
  <2>2. q \in [1 .. n -> J] /\ \A i, j \in 1 .. n : i < j => q[i] < q[j]
    BY <1>3, <2>1 DEF Ascending
  <2>3. ASSUME NEW i \in 1 .. n, NEW j \in 1 .. n, i # j PROVE q[i] # q[j]
    <3>1. \A b \in Byte : b \in Int
      BY DEF Byte
    <3>2. q[i] \in Int /\ q[j] \in Int
      BY <1>2, <2>2, <3>1
    <3>3. i < j \/ j < i
      BY <2>3
    <3>4. QED
      BY <2>2, <3>2, <3>3
  <2>4. q \in SetToSeqs(J)
    BY <1>3, <2>2, <2>3 DEF SetToSeqs
  <2>5. QED
    BY <2>2, <2>4
<1>6. o \in SetToSeqs(J)
  BY <1>5
<1>7. RowsOf(s) = [i \in DOMAIN o |-> <<o[i], s[o[i]].says, s[o[i]].later>>]
  BY <1>1 DEF RowsOf
<1> HIDE DEF o
<1>8. o \in [1 .. n -> J] /\ \A i, j \in 1 .. n : i # j => o[i] # o[j]
  BY <1>3, <1>6 DEF SetToSeqs
<1>9. Lists(o, J, n)
  BY <1>3, <1>4, <1>8, ListsAll
<1>10. PICK rows : rows = RowsOf(s)
  OBVIOUS
<1>11. rows = [i \in 1 .. n |-> <<o[i], s[o[i]].says, s[o[i]].later>>]
  BY <1>7, <1>8, <1>10
<1>12. DOMAIN rows = 1 .. n /\ \A i \in 1 .. n : rows[i] = <<o[i], s[o[i]].says, s[o[i]].later>>
  BY <1>11
<1>13. Payload(s) = FlattenSeq([i \in DOMAIN rows |->
                                 IF rows[i][3] = Absent THEN <<rows[i][1], rows[i][2], 255>>
                                 ELSE rows[i]])
  BY <1>10 DEF Payload
<1>14. ASSUME NEW i \in 1 .. n
       PROVE  (IF rows[i][3] = Absent THEN <<rows[i][1], rows[i][2], 255>> ELSE rows[i])
                = Triple(s, o[i])
  BY <1>12 DEF Triple, Written
<1>15. Payload(s) = FlattenSeq([i \in 1 .. n |-> Triple(s, o[i])])
  BY <1>12, <1>13, <1>14
<1>16. QED
  BY <1>1, <1>2, <1>3, <1>4, <1>9, <1>15

\* Byte by byte.
IsPayload(p, s, o, n) ==
  /\ p \in Seq(Byte) /\ Len(p) = 3 * n
  /\ \A i \in 1 .. n : /\ p[3 * i - 2] = o[i] /\ p[3 * i - 1] = s[o[i]].says
                       /\ p[3 * i] = Written(s[o[i]].later)

LEMMA PayloadIs ==
  ASSUME NEW s \in Snapshots
  PROVE  \E o, n : /\ n \in Nat /\ 3 * n \in Byte /\ Lists(o, DOMAIN s, n)
                   /\ IsPayload(Payload(s), s, o, n)
<1>1. PICK o, n : /\ n \in Nat /\ 3 * n \in Byte /\ Lists(o, DOMAIN s, n)
                  /\ Payload(s) = FlattenSeq([i \in 1 .. n |-> Triple(s, o[i])])
  BY PayloadFlattens
<1>2. PICK ss : ss = [i \in 1 .. n |-> Triple(s, o[i])]
  OBVIOUS
<1>3. \A i \in 1 .. n : o[i] \in DOMAIN s
  BY <1>1 DEF Lists
<1>4. ASSUME NEW i \in 1 .. n
      PROVE  /\ ss[i] \in Seq(Byte) /\ Len(ss[i]) = 3
             /\ ss[i][1] = o[i] /\ ss[i][2] = s[o[i]].says
             /\ ss[i][3] = Written(s[o[i]].later)
  <2>1. PICK id \in DOMAIN s : id = o[i]
    BY <1>3
  <2>2. ss[i] = Triple(s, id)
    BY <1>2, <2>1
  <2>3. QED
    BY <2>1, <2>2, TripleType
<1>5. ss \in Seq(Seq(Byte)) /\ Len(ss) = n
  <2>1. PICK F : F = Seq(Byte)
    OBVIOUS
  <2>2. ss \in [1 .. n -> F]
    BY <1>2, <1>4, <2>1
  <2>3. QED
    BY <1>1, <2>1, <2>2, AsSequence
<1>6. PICK f : GathersIn(Byte, f, ss)
  <2>1. PICK f \in [0 .. Len(ss) -> Seq(Byte)] : Gathers(f, ss)
    BY <1>5, FlattenDef
  <2>2. GathersIn(Byte, f, ss)
    BY <1>5, <2>1 DEF GathersIn
  <2>3. QED
    BY <2>2
<1>7. /\ f[0] = <<>> /\ Payload(s) = f[n] /\ \A i \in 0 .. n : f[i] \in Seq(Byte)
  BY <1>1, <1>2, <1>5, <1>6 DEF GathersIn, Gathers
<1>8. ASSUME NEW i \in 1 .. n
      PROVE  /\ Len(f[i]) = Len(f[i - 1]) + 3
             /\ \A q \in 1 .. 3 : f[n][Len(f[i - 1]) + q] = ss[i][q]
  <2>1. Placed(f, ss, i)
    BY <1>5, <1>6, FlattenPlaces
  <2>2. QED
    BY <1>4, <1>5, <2>1 DEF Placed
<1> DEFINE T == {i \in Nat : i <= n => Len(f[i]) = 3 * i}
<1>9. 0 \in T
  BY <1>7
<1>10. ASSUME NEW i \in Nat, i \in T PROVE i + 1 \in T
  <2> SUFFICES ASSUME i + 1 <= n PROVE Len(f[i + 1]) = 3 * (i + 1)
    OBVIOUS
  <2>1. PICK k : k = i + 1 /\ k \in 1 .. n /\ k - 1 = i
    BY <1>1
  <2>2. Len(f[i]) = 3 * i
    BY <1>1, <1>10
  <2>3. Len(f[k]) = Len(f[k - 1]) + 3
    BY <1>8, <2>1
  <2>4. QED
    BY <2>1, <2>2, <2>3
<1>11. \A i \in 0 .. n : Len(f[i]) = 3 * i
  <2>1. Nat \subseteq T
    <3> HIDE DEF T
    <3>1. QED
      BY <1>9, <1>10, InductionOnNat
  <2>2. QED
    BY <1>1, <2>1
<1>12. PICK p : p = Payload(s)
  OBVIOUS
<1>13. p \in Seq(Byte) /\ Len(p) = 3 * n
  BY <1>1, <1>7, <1>11, <1>12
<1>14. ASSUME NEW i \in 1 .. n
       PROVE  /\ p[3 * i - 2] = o[i] /\ p[3 * i - 1] = s[o[i]].says
              /\ p[3 * i] = Written(s[o[i]].later)
  <2>1. Len(f[i - 1]) = 3 * (i - 1)
    BY <1>1, <1>11
  <2>2. 3 * (i - 1) + 1 = 3 * i - 2 /\ 3 * (i - 1) + 2 = 3 * i - 1 /\ 3 * (i - 1) + 3 = 3 * i
    OBVIOUS
  <2>3. \A q \in 1 .. 3 : p[3 * (i - 1) + q] = ss[i][q]
    BY <1>7, <1>8, <1>12, <2>1
  <2>4. QED
    BY <1>4, <2>2, <2>3
<1>15. IsPayload(p, s, o, n)
  BY <1>13, <1>14 DEF IsPayload
<1>16. QED
  BY <1>1, <1>12, <1>15

LEMMA FrameIs ==
  ASSUME NEW p \in Seq(Byte), Len(p) \in Byte
  PROVE  Frame(p) \in Seq(Byte) /\ Unframe(Frame(p)) = p
<1>1. PICK n : n = Len(p) /\ n \in Nat
  OBVIOUS
<1>2. PICK total : total = ((1 + n + PadBlock - 1) \div PadBlock) * PadBlock
  OBVIOUS
<1>3. total \in Nat /\ total >= 1 + n
  BY <1>1, <1>2 DEF PadBlock
<1>4. PICK m : m = total - (1 + n) /\ m \in Nat
  BY <1>1, <1>3
<1>5. PICK z : z = [i \in 1 .. m |-> 0]
  OBVIOUS
<1>6. z \in Seq(Byte) /\ Len(z) = m
  <2>1. 0 \in Byte
    BY DEF Byte
  <2>2. z \in [1 .. m -> Byte]
    BY <1>5, <2>1
  <2>3. QED
    BY <1>4, <2>2, AsSequence
<1>7. Frame(p) = <<n>> \o p \o z
  BY <1>1, <1>2, <1>4, <1>5 DEF Frame
<1>8. PICK u : u = <<n>> \o p
  OBVIOUS
<1>9. /\ u \in Seq(Byte) /\ Len(u) = n + 1 /\ u[1] = n
      /\ \A i \in 1 .. n : u[i + 1] = p[i]
  BY <1>1, <1>8
<1>10. PICK w : w = u \o z
  OBVIOUS
<1>11. w \in Seq(Byte) /\ Len(w) = n + 1 + m
  <2>1. PICK E : E = Byte
    OBVIOUS
  <2>2. u \in Seq(E) /\ z \in Seq(E)
    BY <1>6, <1>9, <2>1
  <2>3. u \o z \in Seq(E) /\ Len(u \o z) = Len(u) + Len(z)
    BY <2>2, ConcatType
  <2>4. QED
    BY <1>6, <1>9, <1>10, <2>1, <2>3
<1>12. \A i \in 1 .. n + 1 : w[i] = u[i]
  BY <1>1, <1>6, <1>9, <1>10
<1>13. w # <<>> /\ w[1] = n /\ n + 1 <= Len(w)
  BY <1>1, <1>4, <1>9, <1>11, <1>12
<1>14. Unframe(w) = SubSeq(w, 2, n + 1)
  BY <1>1, <1>11, <1>13 DEF Unframe
<1>15. SubSeq(w, 2, n + 1) = p
  <2>1. PICK v : v = SubSeq(w, 2, n + 1)
    OBVIOUS
  <2>2. v \in Seq(Byte) /\ Len(v) = n /\ \A i \in 1 .. n : v[i] = w[i + 1]
    BY <1>1, <1>4, <1>11, <2>1
  <2>3. \A i \in 1 .. n : v[i] = p[i]
    BY <1>1, <1>9, <1>12, <2>2
  <2>4. v = p
    BY <1>1, <2>2, <2>3
  <2>5. QED
    BY <2>1, <2>4
<1>16. QED
  BY <1>7, <1>8, <1>10, <1>11, <1>14, <1>15

\* Rows read as the tasks they were written from.
LEMMA RowsBack ==
  ASSUME NEW s \in Snapshots, NEW n \in Nat, NEW o, Lists(o, DOMAIN s, n),
         NEW p, IsPayload(p, s, o, n)
  PROVE  ParseRows(p) = NeverSet(s)
<1>1. p \in Seq(Byte) /\ Len(p) = 3 * n
  BY DEF IsPayload
<1> DEFINE m == Len(p) \div 3
<1>2. Len(p) % 3 = 0 /\ m = n
  BY <1>1
<1> DEFINE three(i) == SubSeq(p, 3 * i - 2, 3 * i)
           Place(id) == CHOOSE j \in 1 .. m : three(j)[1] = id
           Told(id) == [says |-> three(Place(id))[2],
                        later |-> IF three(Place(id))[3] = 255 THEN Unset ELSE three(Place(id))[3]]
<1>3. ParseRows(p) = [id \in {three(i)[1] : i \in 1 .. m} |-> Told(id)]
  BY <1>2, Zenon DEF ParseRows
<1> HIDE DEF m
<1>4. ASSUME NEW i \in 1 .. n
      PROVE  /\ three(i)[1] = o[i] /\ three(i)[2] = s[o[i]].says
             /\ three(i)[3] = Written(s[o[i]].later)
  <2>1. PICK a, b : a = 3 * i - 2 /\ b = 3 * i
    OBVIOUS
  <2>2. a \in Nat /\ b \in Nat /\ a > 0 /\ b = a + 2 /\ b <= Len(p)
    BY <1>1, <2>1
  <2>3. PICK r : r = SubSeq(p, a, b)
    OBVIOUS
  <2>4. r[1] = p[a] /\ r[2] = p[a + 1] /\ r[3] = p[a + 2]
    BY <1>1, <2>2, <2>3
  <2>5. a + 1 = 3 * i - 1 /\ a + 2 = 3 * i
    BY <2>1
  <2>6. QED
    BY <2>1, <2>3, <2>4, <2>5 DEF IsPayload
<1> HIDE DEF three
<1>5. {three(i)[1] : i \in 1 .. n} = DOMAIN s
  <2>1. {three(i)[1] : i \in 1 .. n} = {o[i] : i \in 1 .. n}
    BY <1>4
  <2>2. {o[i] : i \in 1 .. n} = DOMAIN s
    BY DEF Lists
  <2>3. QED
    BY <2>1, <2>2
<1>6. ASSUME NEW id \in DOMAIN s
      PROVE  Told(id) = [s[id] EXCEPT !.later = IF @ = Absent THEN Unset ELSE @]
  <2>1. Place(id) \in 1 .. n /\ three(Place(id))[1] = id
    BY <1>2, <1>4 DEF Lists
  <2>2. PICK j \in 1 .. n : j = Place(id) /\ o[j] = id
    BY <1>4, <2>1
  <2>3. Told(id) = [says |-> s[id].says,
                    later |-> IF Written(s[id].later) = 255 THEN Unset
                              ELSE Written(s[id].later)]
    BY <1>4, <2>2
  <2>4. s[id] \in Says /\ Absent \notin Byte
    BY CodecAssumption
  <2>5. (IF Written(s[id].later) = 255 THEN Unset ELSE Written(s[id].later))
          = (IF s[id].later = Absent THEN Unset ELSE s[id].later)
    BY <2>4 DEF Says, Written, Byte
  <2>6. PICK t, v : t = s[id] /\ v = IF t.later = Absent THEN Unset ELSE t.later
    OBVIOUS
  <2>7. [t EXCEPT !.later = v] = [says |-> t.says, later |-> v]
    BY <2>4, <2>6 DEF Says
  <2>8. QED
    BY <2>3, <2>5, <2>6, <2>7
<1> HIDE DEF Told
<1>7. QED
  BY <1>2, <1>3, <1>5, <1>6 DEF NeverSet

\* What a snapshot's text is made of.
LEMMA TextOf ==
  ASSUME NEW s \in Snapshots
  PROVE  /\ Frame(Payload(s)) \in Seq(Byte)
         /\ ParseRows(Unframe(Frame(Payload(s)))) = NeverSet(s)
<1>1. PICK o, n : /\ n \in Nat /\ 3 * n \in Byte /\ Lists(o, DOMAIN s, n)
                  /\ IsPayload(Payload(s), s, o, n)
  BY PayloadIs
<1>2. PICK p : p = Payload(s)
  OBVIOUS
<1>3. p \in Seq(Byte) /\ Len(p) \in Byte
  BY <1>1, <1>2 DEF IsPayload
<1>4. Frame(p) \in Seq(Byte) /\ Unframe(Frame(p)) = p
  BY <1>3, FrameIs
<1>5. ParseRows(p) = NeverSet(s)
  BY <1>1, <1>2, RowsBack
<1>6. QED
  BY <1>2, <1>4, <1>5

-----------------------------------------------------------------------------
(* What is read is what was written, or nothing.                           *)

\* As long as nothing was changed that counts, the text is the snapshot's.
TextInv ==
  /\ text \in Seq(Sign) /\ snapshot \in Snapshots
  /\ ~hurt => Without(text, {Space}) = Base64UrlEncode(Frame(Payload(snapshot)))

LEMMA TextInit ==
  ASSUME CodecInit
  PROVE  TextInv
<1>1. snapshot \in Snapshots /\ text = Armor(Frame(Payload(snapshot)))
  BY DEF CodecInit
<1>2. PICK b \in Seq(Byte) : b = Frame(Payload(snapshot))
  BY <1>1, TextOf
<1>3. text \in Seq(Sign) /\ Without(text, {Space}) = Base64UrlEncode(b)
  BY <1>1, <1>2, ArmorIs
<1>4. QED
  BY <1>1, <1>2, <1>3 DEF TextInv

LEMMA TextNext ==
  ASSUME TextInv, [CodecNext]_codecVars
  PROVE  TextInv'
<1> USE DEF TextInv
<1>1. text \in Seq(Sign) /\ DOMAIN text = 1 .. Len(text)
  OBVIOUS
<1>2. Space \in Sign /\ Junk \in Sign /\ 0 \in Sign
  BY DEF Space, Junk, Sign
<1>3. PICK E, skipped : E = Sign /\ skipped = {Space}
  OBVIOUS
<1>4. text \in Seq(E) /\ Space \in E /\ Space \in skipped
  BY <1>1, <1>2, <1>3
<1>5. CASE Rewrap
  <2>1. PICK i \in 1 .. Len(text) : text' = InsertAt(text, i, Space)
    BY <1>1, <1>5 DEF Rewrap
  <2>2. text' \in Seq(E) /\ Without(text', skipped) = Without(text, skipped)
    BY <1>4, <2>1, WithoutInserted
  <2>3. snapshot' = snapshot /\ (~hurt' => ~hurt)
    BY <1>5 DEF Rewrap, Slip
  <2>4. QED
    BY <1>3, <2>2, <2>3
<1>6. CASE CutShort
  <2>1. text # <<>> /\ text' = Front(text) /\ snapshot' = snapshot
    BY <1>6 DEF CutShort, Slip
  <2>2. text' \in Seq(E)
    <3>1. SubSeq(text, 1, Len(text) - 1) \in Seq(E)
      BY <1>4
    <3>2. QED
      BY <2>1, <3>1 DEF Front
  <2>3. ASSUME ~hurt'
        PROVE  ~hurt /\ Without(text', skipped) = Without(text, skipped)
    <3>1. ~hurt /\ Last(text) = Space
      BY <1>6, <2>3 DEF CutShort, Slip
    <3>2. Last(text) \in skipped
      BY <1>4, <3>1
    <3>3. Without(Front(text), skipped) = Without(text, skipped)
      BY <1>4, <2>1, <3>2, WithoutLast
    <3>4. QED
      BY <2>1, <3>1, <3>3
  <2>4. QED
    BY <1>3, <2>1, <2>2, <2>3
<1>7. CASE Replace
  <2>1. PICK i \in 1 .. Len(text), c \in {0, Junk} : text' = [text EXCEPT ![i] = c]
    BY <1>1, <1>7 DEF Replace
  <2>2. c \in E
    BY <1>2, <1>3
  <2>3. text' \in Seq(E)
    BY <1>4, <2>1, <2>2, ChangedType
  <2>4. snapshot' = snapshot /\ hurt'
    BY <1>7 DEF Replace, Slip
  <2>5. QED
    BY <1>3, <2>3, <2>4
<1>8. CASE \/ WriteOtherForm \/ WriteOther \/ SwapTwo \/ Regroup \/ LeaveOut
           \/ UNCHANGED codecVars
  <2>1. text' = text /\ snapshot' = snapshot
    BY <1>8 DEF WriteOtherForm, WriteOther, SwapTwo, Regroup, LeaveOut, Slip, codecVars
  <2>2. ~hurt' => ~hurt
    BY <1>8 DEF WriteOtherForm, WriteOther, SwapTwo, Regroup, LeaveOut, Slip, codecVars
  <2>3. QED
    BY <2>1, <2>2
<1>9. QED
  BY <1>5, <1>6, <1>7, <1>8 DEF CodecNext

LEMMA ReadsAreRight == PaperInv /\ TextInv => NothingMisread
<1> SUFFICES ASSUME PaperInv, TextInv PROVE NothingMisread
  OBVIOUS
<1>1. ParseCode(paper) # Unread => Value(Clean(paper)) = CodeOf(ParseCode(paper))
  BY OneSpelling DEF PaperInv
<1>2. ~hurt /\ Last(Clean(paper)).form # "twin" => ParseCode(paper) = key
  BY ReadBack DEF PaperInv
<1>3. PICK b : b = Frame(Payload(snapshot))
  OBVIOUS
<1>4. b \in Seq(Byte) /\ ParseRows(Unframe(b)) = NeverSet(snapshot)
  BY <1>3, TextOf DEF TextInv
<1>5. ReadText(text) = IF Base64UrlDecode(text) # b THEN Unread ELSE NeverSet(snapshot)
  BY <1>3, <1>4, Zenon DEF ReadText
<1>6. ReadText(text) # Unread => ReadText(text) = NeverSet(snapshot)
  BY <1>5
<1>7. ASSUME ~hurt PROVE ReadText(text) = NeverSet(snapshot)
  <2>1. Without(text, {Space}) = Base64UrlEncode(b)
    BY <1>3, <1>7 DEF TextInv
  <2>2. Base64UrlDecode(text) = b
    BY <1>4, <2>1, DecodesBack
  <2>3. QED
    BY <1>5, <2>2
<1>8. QED
  BY <1>1, <1>2, <1>6, <1>7, Zenon DEF NothingMisread

\* A recovery code that is taken is the code of the key it yields, and it is
\* taken in whichever case, grouping and look-alike letters its body was
\* written; a snapshot comes back from its text as it was, however its lines
\* were wrapped, or not at all.  For every set of keys and every set of
\* snapshots, and for any number of slips on the way.
THEOREM TextsComeBack == CodecSpec => []NothingMisread
<1> DEFINE IInv == PaperInv /\ TextInv
<1>1. CodecInit => IInv
  BY PaperInit, TextInit
<1>2. IInv /\ [CodecNext]_codecVars => IInv'
  BY PaperNext, TextNext
<1>3. IInv => NothingMisread
  BY ReadsAreRight
<1> HIDE DEF IInv
<1>4. QED
  BY <1>1, <1>2, <1>3, PTL DEF CodecSpec

=============================================================================
