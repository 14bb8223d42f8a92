------------------------------ MODULE StoreBoot ------------------------------
(***************************************************************************)
(* How the phone's task store opens (initDatabase in                       *)
(* apps/mobile/src/db/database.ts): create the base table, then bring a    *)
(* store of any earlier version up to date, one SQL statement after the    *)
(* other and none of them in a transaction, and note the version at the    *)
(* end.  The app may be killed between any two statements; the next launch *)
(* begins anew on what is there.                                           *)
(*                                                                         *)
(* A table is whether it exists, whether fire_at is still NOT NULL         *)
(* (strict), which of the later columns it has, and its rows.              *)
(***************************************************************************)
EXTENDS Integers, Sequences

CONSTANTS
  Rows,       \* the user's tasks
  MaxKills    \* bound on the times the app is killed

ASSUME MaxKillsAssumption == MaxKills \in Nat

VARIABLES
  table,      \* tasks
  spare,      \* tasks_new, which the rebuild of the table fills
  version,    \* PRAGMA user_version
  progress,      \* how far initDatabase is
  found,    \* the version it has read
  pos, part,  \* the migration it is at, the statements of it that are done
  mine,       \* history: the rows the user had
  kills, cut  \* times killed; history: once in the middle of the rebuild

bootVars ==
  <<table, spare, version, progress, found, pos, part, mine, kills, cut>>

\* The columns that Phase 1 did not have.
AddedColumns ==
  {"snooze_count", "lead_time_seconds", "rounds_interval_seconds",
   "rounds_max_count", "rounds_duration_seconds"}

\* MIGRATIONS, one entry per statement group: a column to add if it is absent,
\* or the rebuild that makes fire_at nullable.
Migrations ==
  <<[to |-> 1, adds |-> "snooze_count"],
    [to |-> 2, adds |-> "rebuild"],
    [to |-> 3, adds |-> "lead_time_seconds"],
    [to |-> 4, adds |-> "rounds_interval_seconds"],
    [to |-> 4, adds |-> "rounds_max_count"],
    [to |-> 4, adds |-> "rounds_duration_seconds"]>>

LatestVersion == 4

Table == [there : BOOLEAN, strict : BOOLEAN, cols : SUBSET AddedColumns,
          rows : SUBSET Rows]

NoTable == [there |-> FALSE, strict |-> FALSE, cols |-> {}, rows |-> {}]

\* CREATE TABLE: empty, fire_at nullable, and with these of the later columns.
TableWith(columns) ==
  [there |-> TRUE, strict |-> FALSE, cols |-> columns, rows |-> {}]

Progress == {"off", "create", "version", "migrating", "ready", "failed"}

BootTypeOK ==
  /\ table \in Table /\ spare \in Table
  /\ version \in 0 .. LatestVersion /\ found \in 0 .. LatestVersion
  /\ progress \in Progress
  /\ pos \in 1 .. Len(Migrations) + 1 /\ part \in 0 .. 3
  /\ mine \subseteq Rows
  /\ kills \in 0 .. MaxKills /\ cut \in BOOLEAN

\* What each release left behind: the table it created and the user_version
\* it set.  Releases 0 and 1 had fire_at NOT NULL.
Released(v) ==
  [there |-> TRUE, strict |-> v < 2, rows |-> Rows,
   cols |-> {Migrations[i].adds : i \in {j \in DOMAIN Migrations :
                                           /\ Migrations[j].to <= v
                                           /\ Migrations[j].adds \in AddedColumns}}]

BootInit ==
  /\ \/ table = NoTable /\ version = 0
     \/ \E v \in 0 .. LatestVersion : table = Released(v) /\ version = v
  /\ spare = NoTable
  /\ progress = "off" /\ found = 0 /\ pos = 1 /\ part = 0
  /\ mine = table.rows
  /\ kills = 0 /\ cut = FALSE

-----------------------------------------------------------------------------

\* initDatabase is called, and opens the database.
Launch ==
  /\ progress = "off"
  /\ progress' = "create"
  /\ UNCHANGED <<table, spare, version, found, pos, part, mine, kills, cut>>

\* CREATE TABLE IF NOT EXISTS, the base columns.
CreateBase ==
  /\ progress = "create"
  /\ table' = IF table.there THEN table ELSE TableWith({})
  /\ progress' = "version"
  /\ UNCHANGED <<spare, version, found, pos, part, mine, kills, cut>>

\* Faulty variant of ReadVersion: the version is noted before the migrations.
ReadVersionStamps ==
  /\ progress = "version"
  /\ found' = version /\ version' = LatestVersion
  /\ progress' = IF version < LatestVersion THEN "migrating" ELSE "ready"
  /\ UNCHANGED <<table, spare, pos, part, mine, kills, cut>>

\* Migrations from the stored version on, if there are any.
ReadVersion ==
  /\ progress = "version"
  /\ found' = version
  /\ progress' = IF version < LatestVersion THEN "migrating" ELSE "ready"
  /\ UNCHANGED <<table, spare, version, pos, part, mine, kills, cut>>

At(what) == /\ progress = "migrating"
            /\ pos <= Len(Migrations)
            /\ Migrations[pos].to > found
            /\ Migrations[pos].adds \in what

\* The loop begins at the stored version.
SkipApplied ==
  /\ progress = "migrating"
  /\ pos <= Len(Migrations)
  /\ Migrations[pos].to <= found
  /\ pos' = pos + 1
  /\ UNCHANGED <<table, spare, version, progress, found, part, mine, kills, cut>>

\* columnExists, and ALTER TABLE ... ADD COLUMN if it does not.
AddColumn ==
  /\ At(AddedColumns)
  /\ table' = [table EXCEPT !.cols = @ \union {Migrations[pos].adds}]
  /\ pos' = pos + 1
  /\ UNCHANGED <<spare, version, progress, found, part, mine, kills, cut>>

\* columnIsNotNull says that fire_at is nullable already.
RebuildNotNeeded ==
  /\ At({"rebuild"}) /\ part = 0 /\ ~table.strict
  /\ pos' = pos + 1
  /\ UNCHANGED <<table, spare, version, progress, found, part, mine, kills, cut>>

\* CREATE TABLE tasks_new has no IF NOT EXISTS: one that is there makes the
\* whole initDatabase fail.
CreateSpare ==
  /\ At({"rebuild"}) /\ part = 0 /\ table.strict
  /\ \/ /\ ~spare.there
        /\ spare' = TableWith({"snooze_count"})
        /\ part' = 1
        /\ UNCHANGED progress
     \/ /\ spare.there
        /\ progress' = "failed"
        /\ UNCHANGED <<spare, part>>
  /\ UNCHANGED <<table, version, found, pos, mine, kills, cut>>

\* Faulty variant of CopyRows: INSERT forgotten, the copy stays empty.
CopyRowsNothing ==
  /\ At({"rebuild"}) /\ part = 1
  /\ part' = 2
  /\ UNCHANGED <<table, spare, version, progress, found, pos, mine, kills, cut>>

CopyRows ==
  /\ At({"rebuild"}) /\ part = 1
  /\ spare' = [spare EXCEPT !.rows = table.rows]
  /\ part' = 2
  /\ UNCHANGED <<table, version, progress, found, pos, mine, kills, cut>>

DropTable ==
  /\ At({"rebuild"}) /\ part = 2
  /\ table' = NoTable
  /\ part' = 3
  /\ UNCHANGED <<spare, version, progress, found, pos, mine, kills, cut>>

\* The rename, and the index, which holds no data of its own.
RenameSpare ==
  /\ At({"rebuild"}) /\ part = 3
  /\ table' = spare
  /\ spare' = NoTable
  /\ pos' = pos + 1 /\ part' = 0
  /\ UNCHANGED <<version, progress, found, mine, kills, cut>>

\* PRAGMA user_version, once every migration is through.
StampVersion ==
  /\ progress = "migrating"
  /\ pos > Len(Migrations)
  /\ version' = LatestVersion
  /\ progress' = "ready"
  /\ UNCHANGED <<table, spare, found, pos, part, mine, kills, cut>>

\* The app ends, wherever it is.
Kill ==
  /\ progress # "off" /\ kills < MaxKills
  /\ kills' = kills + 1
  /\ cut' = (cut \/ part > 0)
  /\ progress' = "off" /\ found' = 0 /\ pos' = 1 /\ part' = 0
  /\ UNCHANGED <<table, spare, version, mine>>

BootNext ==
  \/ Launch \/ CreateBase \/ ReadVersion \/ SkipApplied \/ AddColumn
  \/ RebuildNotNeeded \/ CreateSpare \/ CopyRows \/ DropTable \/ RenameSpare
  \/ StampVersion \/ Kill

BootSpec == BootInit /\ [][BootNext]_bootVars

-----------------------------------------------------------------------------

\* The table the rest of the program reads and writes, with the user's rows.
Whole == /\ table.there /\ ~table.strict
         /\ table.cols = AddedColumns
         /\ table.rows = mine

(***************************************************************************)
(* No row is destroyed, wherever the app is killed: it is in the table or  *)
(* in the copy that the rebuild (database.ts:101) makes of it.             *)
(***************************************************************************)
RowsSurvive == mine \subseteq table.rows \union spare.rows

(***************************************************************************)
(* Kills outside the rebuild do no harm (database.ts:82-86): no boot       *)
(* fails, and a store that says it is up to date has every column and      *)
(* every row, although the version is only noted after the last statement. *)
(***************************************************************************)
BootKeepsRows == ~cut => /\ progress # "failed"
                         /\ version = LatestVersion => Whole

=============================================================================
