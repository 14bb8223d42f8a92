--------------------------- MODULE TaskSyncProofs ---------------------------
(***************************************************************************)
(* Proofs about TaskSync, for any number of devices, tabs, tasks, edits    *)
(* and faults, and for clocks that run ahead by any amount.                *)
(***************************************************************************)
EXTENDS TaskSync, TLAPS

USE ClientAssumption, ClockAssumption, BoundAssumption

LEMMA RowsType == /\ NoRow \in Row
                  /\ Nothing \in Rows
                  /\ \A t \in Task : Nothing[t] = NoRow
  BY DEF NoRow, Row, Nothing, Rows

\* A plan is made of rows of the side it favours.
LEMMA PlanRows ==
  ASSUME NEW mine \in Rows, NEW theirs \in Rows
  PROVE  /\ Plan(mine, theirs) \in Rows
         /\ \A t \in Task :
              \/ Plan(mine, theirs)[t] = NoRow
              \/ /\ Plan(mine, theirs)[t] = mine[t]
                 /\ Newer(mine[t], theirs[t])
  BY RowsType DEF Plan, Rows

\* An upsert leaves the stored rows and the planned ones.
LEMMA UpsertRows ==
  ASSUME NEW plan \in Rows, NEW table \in Rows
  PROVE  /\ Upsert(plan, table) \in Rows
         /\ \A t \in Task : \/ plan[t] = NoRow /\ Upsert(plan, table)[t] = table[t]
                            \/ plan[t] # NoRow /\ Upsert(plan, table)[t] = plan[t]
  BY DEF Upsert, Rows

LEMMA PairsType ==
  ASSUME NEW plan \in Rows
  PROVE  Pairs(plan) \in SUBSET (Task \X Row)
  BY DEF Pairs, Rows

-----------------------------------------------------------------------------
LEMMA InitType == Init => TypeOK
  BY RowsType DEF Init, TypeOK, Phase, Side

\* Each step of the system keeps the types.
LEMMA NextType == TypeOK /\ [Next]_vars => TypeOK'
<1> SUFFICES ASSUME TypeOK, [Next]_vars PROVE TypeOK'
  OBVIOUS
<1> USE DEF TypeOK, Phase, Side, histVars, passVars
<1>1. ASSUME NEW c \in Client, NEW t \in Task, Edit(c, t) PROVE TypeOK'
  <2>1. [at |-> now + Skew[StoreOf[c]], rev |-> edits + 1] \in Row
    BY DEF Row
  <2>2. now' \in Nat /\ edits' \in Nat
    BY <1>1 DEF Edit
  <2>3. local' \in [Store -> Rows] /\ last' \in [Store -> Rows]
    BY <1>1, <2>1 DEF Edit, Rows
  <2>4. owed' \in [Client -> BOOLEAN]
    BY <1>1 DEF Edit
  <2>5. raced' \in SUBSET (Store \X Task)
    BY <1>1 DEF Edit
  <2>6. QED
    BY <1>1, <2>2, <2>3, <2>4, <2>5 DEF Edit
<1>2. ASSUME NEW c \in Client, SyncAfterEdit(c) PROVE TypeOK'
  BY <1>2 DEF SyncAfterEdit, CallRunSync
<1>3. ASSUME NEW c \in Client, Foreground(c) PROVE TypeOK'
  BY <1>3 DEF Foreground, CallRunSync
<1>4. ASSUME NEW c \in Client, SessionReady(c) PROVE TypeOK'
  BY <1>4 DEF SessionReady
<1>5. ASSUME NEW c \in Client, ReadLocal(c) PROVE TypeOK'
  BY <1>5 DEF ReadLocal
<1>6. ASSUME NEW c \in Client, ReadRemote(c) PROVE TypeOK'
  BY <1>6 DEF ReadRemote
<1>7. ASSUME NEW c \in Client, Reconcile(c) PROVE TypeOK'
  <2> DEFINE up == Plan(seenLocal[c], seenRemote[c])
             down == Plan(seenRemote[c], seenLocal[c])
  <2>1. up \in Rows /\ down \in Rows
    BY PlanRows
  <2>2. Upsert(down, local[StoreOf[c]]) \in Rows
    BY <2>1, UpsertRows
  <2> HIDE DEF up, down
  <2>3. pushing' \in [Client -> Rows]
    BY <1>7, <2>1 DEF Reconcile, up
  <2>4. applying' \in [Client -> Rows]
    BY <1>7, <2>1 DEF Reconcile, down
  <2>5. local' \in [Store -> Rows]
    BY <1>7, <2>2 DEF Reconcile, down
  <2>6. seenLocal' \in [Client -> Rows] /\ seenRemote' \in [Client -> Rows]
    BY <1>7, RowsType DEF Reconcile
  <2>7. pc' \in [Client -> Phase]
    BY <1>7 DEF Reconcile
  <2>8. QED
    BY <1>7, <2>3, <2>4, <2>5, <2>6, <2>7 DEF Reconcile
<1>8. ASSUME NEW c \in Client, NEW t \in Task, ApplyRow(c, t) PROVE TypeOK'
  BY <1>8, RowsType DEF ApplyRow, Rows
<1>9. ASSUME NEW c \in Client, PushLands(c) PROVE TypeOK'
  <2>1. Upsert(pushing[c], remote) \in Rows
    BY UpsertRows
  <2>2. QED
    BY <1>9, <2>1, RowsType DEF PushLands
<1>10. ASSUME NEW c \in Client, PassSucceeds(c) PROVE TypeOK'
  BY <1>10 DEF PassSucceeds
<1>11. ASSUME NEW c \in Client, RunnerCallback(c) PROVE TypeOK'
  BY <1>11 DEF RunnerCallback
<1>12. ASSUME NEW c \in Client, ReadFails(c) PROVE TypeOK'
  BY <1>12, RowsType DEF ReadFails, Fault
<1>13. ASSUME NEW c \in Client, PushFails(c) PROVE TypeOK'
  BY <1>13, RowsType, PairsType DEF PushFails, Fault
<1>14. ASSUME NEW c \in Client, ApplyFails(c) PROVE TypeOK'
  BY <1>14, RowsType DEF ApplyFails, Fault
<1>15. ASSUME NEW c \in Client, Crash(c) PROVE TypeOK'
  BY <1>15, RowsType DEF Crash, Fault
<1>16. ASSUME NEW c \in Client, LeftoverStep(c) PROVE TypeOK'
  <2>1. PICK p \in leftover[c] : LeftoverRow(c, p[1], p[2])
    BY <1>16 DEF LeftoverStep
  <2>2. p[1] \in Task /\ p[2] \in Row
    OBVIOUS
  <2>3. QED
    BY <2>1, <2>2 DEF LeftoverRow, Rows
<1>17. ASSUME NEW plan \in late, LatePushLands(plan) PROVE TypeOK'
  BY <1>17, UpsertRows DEF LatePushLands
<1>18. CASE UNCHANGED vars
  BY <1>18 DEF vars
<1>19. QED
  BY <1>1, <1>2, <1>3, <1>4, <1>5, <1>6, <1>7, <1>8, <1>9, <1>10, <1>11, <1>12,
     <1>13, <1>14, <1>15, <1>16, <1>17, <1>18
     DEF Next, PassStep, FaultStep

\* The variables keep their types.
THEOREM TypeCorrect == Spec => []TypeOK
  BY InitType, NextType, PTL DEF Spec

-----------------------------------------------------------------------------
(***************************************************************************)
(* NewestEditKept.                                                         *)
(***************************************************************************)

\* The steps that change neither the clock nor the edits written so far.
HistorySame == UNCHANGED <<now, last, raced>>

LEMMA HistoryCases ==
  ASSUME TypeOK, [Next]_vars
  PROVE  HistorySame \/ \E c \in Client, t \in Task : Edit(c, t)
  BY DEF Next, PassStep, LeftoverStep, FaultStep, HistorySame, SyncAfterEdit,
         Foreground, CallRunSync, SessionReady, ReadLocal, ReadRemote, Reconcile,
         ApplyRow, PushLands, PassSucceeds, RunnerCallback, ReadFails, PushFails,
         ApplyFails, Crash, LeftoverRow, LatePushLands, histVars, vars

\* Clocks only move forward, and edits are stamped with them.
LEMMA NextClocks ==
  ASSUME TypeOK, ClocksAhead, [Next]_vars
  PROVE  ClocksAhead'
<1>1. CASE HistorySame
  BY <1>1 DEF HistorySame, ClocksAhead
<1>2. ASSUME NEW c \in Client, NEW t \in Task, Edit(c, t)
      PROVE  ClocksAhead'
  <2> DEFINE row == [at |-> now + Skew[StoreOf[c]], rev |-> edits + 1]
  <2>1. last' = [last EXCEPT ![StoreOf[c]][t] = row] /\ now' \in {now, now + 1}
    BY <1>2 DEF Edit
  <2>2. SUFFICES ASSUME NEW s \in Store, NEW u \in Task
                 PROVE  last'[s][u].at <= now' + Skew[s]
    BY DEF ClocksAhead
  <2>3. last[s][u].at <= now + Skew[s] /\ last[s][u].at \in Nat
    BY DEF ClocksAhead, TypeOK, Rows, Row
  <2>4. last'[s][u] = (IF s = StoreOf[c] /\ u = t THEN row ELSE last[s][u])
    BY <2>1 DEF TypeOK, Rows
  <2>5. QED
    BY <2>1, <2>3, <2>4 DEF TypeOK
<1>3. QED
  BY <1>1, <1>2, HistoryCases

\* The latest edit of a store is never replaced by an older one.
LEMMA LastGrows ==
  ASSUME TypeOK, ClocksAhead, [Next]_vars, NEW o \in Store, NEW t \in Task
  PROVE  last[o][t].at <= last'[o][t].at
<1>1. last[o][t].at \in Nat
  BY DEF TypeOK, Rows, Row
<1>2. CASE HistorySame
  BY <1>1, <1>2 DEF HistorySame
<1>3. ASSUME NEW c \in Client, NEW u \in Task, Edit(c, u)
      PROVE  last[o][t].at <= last'[o][t].at
  <2> DEFINE row == [at |-> now + Skew[StoreOf[c]], rev |-> edits + 1]
  <2>1. last' = [last EXCEPT ![StoreOf[c]][u] = row]
    BY <1>3 DEF Edit
  <2>2. last'[o][t] = (IF o = StoreOf[c] /\ t = u THEN row ELSE last[o][t])
    BY <2>1 DEF TypeOK, Rows
  <2>3. last[o][t].at <= now + Skew[o]
    BY DEF ClocksAhead
  <2>4. QED
    BY <1>1, <2>2, <2>3
<1>4. QED
  BY <1>2, <1>3, HistoryCases

\* What Known says after a step, for a row of the state before it.
StillKnown(row, t) == row.at > 0 => \E o \in Store : row.at <= last'[o][t].at
AllStillKnown(rows) == \A t \in Task : StillKnown(rows[t], t)

\* A row that was not newer than every edit is still not.
LEMMA KnownStable ==
  ASSUME TypeOK, ClocksAhead, [Next]_vars, NEW row \in Row, NEW t \in Task,
         Known(row, t)
  PROVE  StillKnown(row, t)
<1>1. SUFFICES ASSUME row.at > 0
               PROVE  \E o \in Store : row.at <= last'[o][t].at
  BY DEF StillKnown
<1>2. PICK o \in Store : row.at <= last[o][t].at
  BY <1>1 DEF Known
<1>3. last[o][t].at <= last'[o][t].at
  BY LastGrows
<1>4. last[o][t].at \in Nat /\ last'[o][t].at \in Nat /\ row.at \in Nat
  BY NextType DEF TypeOK, Rows, Row
<1>5. QED
  BY <1>2, <1>3, <1>4

LEMMA AllKnownStable ==
  ASSUME TypeOK, ClocksAhead, [Next]_vars, NEW rows \in Rows, AllKnown(rows)
  PROVE  AllStillKnown(rows)
  BY KnownStable DEF AllKnown, AllStillKnown, Rows

LEMMA NothingKnown == AllKnown(Nothing) /\ AllStillKnown(Nothing)
  BY RowsType DEF AllKnown, AllStillKnown, Known, StillKnown, NoRow

\* Plans and upserts only move rows around.
LEMMA PlanKnown ==
  ASSUME NEW mine \in Rows, NEW theirs \in Rows, AllStillKnown(mine)
  PROVE  AllStillKnown(Plan(mine, theirs))
<1>1. ASSUME NEW t \in Task PROVE StillKnown(Plan(mine, theirs)[t], t)
  BY PlanRows DEF AllStillKnown, StillKnown, NoRow
<1>2. QED
  BY <1>1 DEF AllStillKnown

LEMMA UpsertKnown ==
  ASSUME NEW plan \in Rows, NEW table \in Rows,
         AllStillKnown(plan), AllStillKnown(table)
  PROVE  AllStillKnown(Upsert(plan, table))
  BY UpsertRows DEF AllStillKnown

\* RowsKnown after a step, with the rows of the state it leads to.
RowsKnownAfter ==
  /\ \A s \in Store : AllStillKnown(local'[s])
  /\ AllStillKnown(remote')
  /\ \A c \in Client : /\ AllStillKnown(seenLocal'[c])
                       /\ AllStillKnown(seenRemote'[c])
                       /\ AllStillKnown(pushing'[c])
                       /\ AllStillKnown(applying'[c])
                       /\ \A p \in leftover'[c] : StillKnown(p[2], p[1])
  /\ \A plan \in late' : AllStillKnown(plan)

LEMMA RowsKnownPrimed == RowsKnownAfter => RowsKnown'
  BY DEF RowsKnownAfter, RowsKnown, AllKnown, AllStillKnown, Known, StillKnown

\* No row is ever newer than the newest edit of its task.
LEMMA NextKnown ==
  ASSUME TypeOK, ClocksAhead, RowsKnown, [Next]_vars
  PROVE  RowsKnown'
<1> USE DEF passVars, histVars, RowsKnownAfter
<1>1. /\ \A s \in Store : AllStillKnown(local[s])
      /\ AllStillKnown(remote)
      /\ \A c \in Client : /\ AllStillKnown(seenLocal[c])
                           /\ AllStillKnown(seenRemote[c])
                           /\ AllStillKnown(pushing[c])
                           /\ AllStillKnown(applying[c])
                           /\ \A p \in leftover[c] : StillKnown(p[2], p[1])
      /\ \A plan \in late : AllStillKnown(plan)
  BY AllKnownStable, KnownStable DEF RowsKnown, TypeOK
<1>2. AllStillKnown(Nothing) /\ \A t \in Task : StillKnown(NoRow, t)
  BY NothingKnown DEF StillKnown, NoRow
<1>3. ASSUME NEW c \in Client, NEW t \in Task, Edit(c, t)
      PROVE  RowsKnownAfter
  <2> DEFINE s == StoreOf[c]
             row == [at |-> now + Skew[s], rev |-> edits + 1]
  <2>1. /\ local' = [local EXCEPT ![s][t] = row]
        /\ last' = [last EXCEPT ![s][t] = row]
        /\ UNCHANGED <<remote, seenLocal, seenRemote, pushing, applying,
                       leftover, late>>
    BY <1>3 DEF Edit
  <2>2. last'[s][t] = row /\ row.at \in Nat
    BY <2>1 DEF TypeOK, Rows
  <2>3. StillKnown(row, t)
    BY <2>2 DEF StillKnown
  <2>4. ASSUME NEW o \in Store, NEW u \in Task
        PROVE  local'[o][u] = (IF o = s /\ u = t THEN row ELSE local[o][u])
    BY <2>1 DEF TypeOK, Rows
  <2>5. \A o \in Store : AllStillKnown(local'[o])
    BY <1>1, <2>3, <2>4 DEF AllStillKnown
  <2>6. QED
    BY <1>1, <2>1, <2>5
<1>4. ASSUME NEW c \in Client, SyncAfterEdit(c) \/ Foreground(c)
      PROVE  RowsKnownAfter
  BY <1>1, <1>4 DEF SyncAfterEdit, Foreground, CallRunSync
<1>5. ASSUME NEW c \in Client, SessionReady(c) \/ ReadLocal(c) \/ ReadRemote(c)
      PROVE  RowsKnownAfter
  BY <1>1, <1>5 DEF SessionReady, ReadLocal, ReadRemote, TypeOK
<1>6. ASSUME NEW c \in Client, Reconcile(c) PROVE RowsKnownAfter
  <2> DEFINE s == StoreOf[c]
             up == Plan(seenLocal[c], seenRemote[c])
             down == Plan(seenRemote[c], seenLocal[c])
  <2>1. seenLocal[c] \in Rows /\ seenRemote[c] \in Rows /\ local[s] \in Rows
    BY DEF TypeOK
  <2>2. up \in Rows /\ down \in Rows
    BY <2>1, PlanRows
  <2>3. AllStillKnown(up) /\ AllStillKnown(down)
    BY <1>1, <2>1, PlanKnown
  <2>4. AllStillKnown(Upsert(down, local[s]))
    BY <1>1, <2>1, <2>2, <2>3, UpsertKnown
  <2>5. /\ pushing' = [pushing EXCEPT ![c] = up]
        /\ \/ local' = [local EXCEPT ![s] = Upsert(down, @)] /\ applying' = applying
           \/ applying' = [applying EXCEPT ![c] = down] /\ local' = local
        /\ seenLocal' = [seenLocal EXCEPT ![c] = Nothing]
        /\ seenRemote' = [seenRemote EXCEPT ![c] = Nothing]
        /\ UNCHANGED <<remote, leftover, late>>
    BY <1>6 DEF Reconcile
  <2> HIDE DEF up, down
  <2>6. QED
    BY <1>1, <1>2, <2>3, <2>4, <2>5 DEF TypeOK
<1>7. ASSUME NEW c \in Client, NEW t \in Task, ApplyRow(c, t)
      PROVE  RowsKnownAfter
  <2>1. ASSUME NEW o \in Store, NEW u \in Task
        PROVE  StillKnown(local'[o][u], u)
    BY <1>1, <1>7 DEF ApplyRow, TypeOK, Rows, AllStillKnown
  <2>2. ASSUME NEW d \in Client, NEW u \in Task
        PROVE  StillKnown(applying'[d][u], u)
    BY <1>1, <1>2, <1>7 DEF ApplyRow, TypeOK, Rows, AllStillKnown
  <2>3. QED
    BY <1>1, <1>7, <2>1, <2>2 DEF ApplyRow, AllStillKnown
<1>8. ASSUME NEW c \in Client, PushLands(c) PROVE RowsKnownAfter
  BY <1>1, <1>2, <1>8, UpsertKnown DEF PushLands, TypeOK
<1>9. ASSUME NEW c \in Client, PassSucceeds(c) \/ RunnerCallback(c)
      PROVE  RowsKnownAfter
  BY <1>1, <1>9 DEF PassSucceeds, RunnerCallback
<1>10. ASSUME NEW c \in Client, ReadFails(c) PROVE RowsKnownAfter
  BY <1>1, <1>2, <1>10 DEF ReadFails, TypeOK
<1>11. ASSUME NEW c \in Client, PushFails(c) PROVE RowsKnownAfter
  <2>1. \A p \in Pairs(applying[c]) : StillKnown(p[2], p[1])
    BY <1>1 DEF Pairs, AllStillKnown
  <2>2. /\ late' \in {late, late \union {pushing[c]}}
        /\ pushing' = [pushing EXCEPT ![c] = Nothing]
        /\ leftover' = [leftover EXCEPT ![c] = @ \union Pairs(applying[c])]
        /\ applying' = [applying EXCEPT ![c] = Nothing]
        /\ UNCHANGED <<local, remote, seenLocal, seenRemote>>
    BY <1>11 DEF PushFails
  <2>3. QED
    BY <1>1, <1>2, <2>1, <2>2 DEF TypeOK
<1>12. ASSUME NEW c \in Client, ApplyFails(c) PROVE RowsKnownAfter
  <2>1. /\ late' \in {late, late \union {pushing[c]}}
        /\ pushing' = [pushing EXCEPT ![c] = Nothing]
        /\ applying' = [applying EXCEPT ![c] = Nothing]
        /\ UNCHANGED <<local, remote, seenLocal, seenRemote, leftover>>
    BY <1>12 DEF ApplyFails
  <2>2. QED
    BY <1>1, <1>2, <2>1 DEF TypeOK
<1>13. ASSUME NEW c \in Client, Crash(c) PROVE RowsKnownAfter
  <2>1. /\ late' \in {late, late \union {pushing[c]}}
        /\ seenLocal' = [seenLocal EXCEPT ![c] = Nothing]
        /\ seenRemote' = [seenRemote EXCEPT ![c] = Nothing]
        /\ pushing' = [pushing EXCEPT ![c] = Nothing]
        /\ applying' = [applying EXCEPT ![c] = Nothing]
        /\ leftover' = [leftover EXCEPT ![c] = {}]
        /\ UNCHANGED <<local, remote>>
    BY <1>13 DEF Crash
  <2>2. QED
    BY <1>1, <1>2, <2>1 DEF TypeOK
<1>14. ASSUME NEW c \in Client, LeftoverStep(c) PROVE RowsKnownAfter
  <2>1. PICK p \in leftover[c] : LeftoverRow(c, p[1], p[2])
    BY <1>14 DEF LeftoverStep
  <2>2. p[1] \in Task /\ p[2] \in Row /\ StillKnown(p[2], p[1])
    BY <1>1 DEF TypeOK
  <2>3. ASSUME NEW o \in Store, NEW u \in Task
        PROVE  StillKnown(local'[o][u], u)
    BY <1>1, <2>1, <2>2 DEF LeftoverRow, TypeOK, Rows, AllStillKnown
  <2>4. QED
    BY <1>1, <2>1, <2>3 DEF LeftoverRow, TypeOK, AllStillKnown
<1>15. ASSUME NEW plan \in late, LatePushLands(plan) PROVE RowsKnownAfter
  BY <1>1, <1>15, UpsertKnown DEF LatePushLands, TypeOK
<1>16. ASSUME UNCHANGED vars PROVE RowsKnownAfter
  <2>1. UNCHANGED <<local, remote, seenLocal, seenRemote, pushing, applying,
                    leftover, late>>
    BY <1>16 DEF vars
  <2>2. QED
    BY <1>1, <2>1
<1>17. RowsKnownAfter
  <2> HIDE DEF RowsKnownAfter
  <2> QED
    BY <1>3, <1>4, <1>5, <1>6, <1>7, <1>8, <1>9, <1>10, <1>11, <1>12, <1>13,
       <1>14, <1>15, <1>16 DEF Next, PassStep, FaultStep
<1>18. QED
  BY <1>17, RowsKnownPrimed

-----------------------------------------------------------------------------
\* NothingPending after a step.
NothingPendingAfter(c, t, row) ==
  /\ applying'[c][t] = NoRow
  /\ \A p \in leftover'[c] : p[1] # t
  /\ (pc'[c] = "reading" /\ "local" \notin unread'[c]) => seenLocal'[c][t] = row

\* The store still holds the row, and nobody is about to replace it.
KeptAfter(s, t, row) ==
  /\ local'[s][t] = row
  /\ \A c \in Client : StoreOf[c] = s => NothingPendingAfter(c, t, row)

\* A pass whose snapshot has the newest edit of a task pulls nothing for it.
LEMMA NewestNotPulled ==
  ASSUME TypeOK, RowsKnown, NEW c \in Client, NEW t \in Task,
         Newest(StoreOf[c], t), seenLocal[c][t] = last[StoreOf[c]][t]
  PROVE  Plan(seenRemote[c], seenLocal[c])[t] = NoRow
<1> DEFINE s == StoreOf[c]
           row == seenRemote[c][t]
<1>1. SUFFICES ASSUME Newer(row, last[s][t]) PROVE FALSE
  BY DEF Plan
<1>2. row.at \in Nat /\ \A o \in Store : last[o][t].at \in Nat
  BY DEF TypeOK, Rows, Row
<1>3. row.at > 0
  BY <1>1, <1>2 DEF Newer
<1>4. PICK o \in Store : row.at <= last[o][t].at
  BY <1>3 DEF RowsKnown, AllKnown, Known
<1>5. ~Newer(last[o][t], last[s][t])
  BY DEF Newest
<1>6. QED
  BY <1>1, <1>2, <1>4, <1>5 DEF Newer

\* No step of a pass, a runner, a failure or a crash touches a newest edit at
\* the store of its author.
LEMMA KeptByOthers ==
  ASSUME TypeOK, RowsKnown, Kept, Next,
         ~\E c \in Client, t \in Task : Edit(c, t),
         NEW s \in Store, NEW t \in Task, Newest(s, t), ~Raced(s, t)
  PROVE  KeptAfter(s, t, last[s][t])
<1> DEFINE row == last[s][t]
<1> USE DEF KeptAfter, NothingPendingAfter, histVars, passVars
<1>1. /\ local[s][t] = row
      /\ \A c \in Client :
           StoreOf[c] = s =>
             /\ applying[c][t] = NoRow
             /\ \A p \in leftover[c] : p[1] # t
             /\ (pc[c] = "reading" /\ "local" \notin unread[c])
                  => seenLocal[c][t] = row
  BY DEF Kept, NothingPending
<1>2. Nothing[t] = NoRow
  BY RowsType
<1>3. ASSUME NEW c \in Client, SyncAfterEdit(c) \/ Foreground(c)
      PROVE  KeptAfter(s, t, row)
  BY <1>1, <1>3 DEF SyncAfterEdit, Foreground, CallRunSync, TypeOK
<1>4. ASSUME NEW c \in Client, SessionReady(c) PROVE KeptAfter(s, t, row)
  BY <1>1, <1>4 DEF SessionReady, TypeOK, Side
<1>5. ASSUME NEW c \in Client, ReadLocal(c) PROVE KeptAfter(s, t, row)
  BY <1>1, <1>5 DEF ReadLocal, TypeOK
<1>6. ASSUME NEW c \in Client, ReadRemote(c) PROVE KeptAfter(s, t, row)
  BY <1>1, <1>6 DEF ReadRemote, TypeOK
<1>7. ASSUME NEW c \in Client, Reconcile(c) PROVE KeptAfter(s, t, row)
  <2> DEFINE down == Plan(seenRemote[c], seenLocal[c])
  <2>1. pc[c] = "reading" /\ "local" \notin unread[c]
    BY <1>7 DEF Reconcile
  <2>2. StoreOf[c] = s => down[t] = NoRow
    BY <1>1, <2>1, NewestNotPulled
  <2>3. /\ \/ local' = [local EXCEPT ![StoreOf[c]] = Upsert(down, @)]
              /\ applying' = applying
           \/ applying' = [applying EXCEPT ![c] = down] /\ local' = local
        /\ pc' = [pc EXCEPT ![c] = "writing"]
        /\ seenLocal' = [seenLocal EXCEPT ![c] = Nothing]
        /\ UNCHANGED <<leftover, unread>>
    BY <1>7 DEF Reconcile
  <2> HIDE DEF down
  <2>4. local'[s][t] = row
    BY <1>1, <2>2, <2>3 DEF TypeOK, Upsert
  <2>5. ASSUME NEW d \in Client, StoreOf[d] = s
        PROVE  applying'[d][t] = NoRow
    BY <1>1, <2>2, <2>3, <2>5 DEF TypeOK
  <2>6. QED
    BY <1>1, <2>3, <2>4, <2>5 DEF TypeOK
<1>8. ASSUME NEW c \in Client, NEW u \in Task, ApplyRow(c, u)
      PROVE  KeptAfter(s, t, row)
  BY <1>1, <1>8 DEF ApplyRow, TypeOK, Rows
<1>9. ASSUME NEW c \in Client, PushLands(c) \/ PassSucceeds(c)
      PROVE  KeptAfter(s, t, row)
  BY <1>1, <1>9 DEF PushLands, PassSucceeds, TypeOK
<1>10. ASSUME NEW c \in Client, RunnerCallback(c) PROVE KeptAfter(s, t, row)
  BY <1>1, <1>10 DEF RunnerCallback, TypeOK
<1>11. ASSUME NEW c \in Client, ReadFails(c) PROVE KeptAfter(s, t, row)
  BY <1>1, <1>11 DEF ReadFails, TypeOK
<1>12. ASSUME NEW c \in Client, PushFails(c) PROVE KeptAfter(s, t, row)
  <2>1. StoreOf[c] = s => \A p \in Pairs(applying[c]) : p[1] # t
    BY <1>1 DEF Pairs
  <2>2. QED
    BY <1>1, <1>2, <1>12, <2>1 DEF PushFails, TypeOK
<1>13. ASSUME NEW c \in Client, ApplyFails(c) PROVE KeptAfter(s, t, row)
  BY <1>1, <1>2, <1>13 DEF ApplyFails, TypeOK
<1>14. ASSUME NEW c \in Client, Crash(c) PROVE KeptAfter(s, t, row)
  BY <1>1, <1>2, <1>14 DEF Crash, TypeOK
<1>15. ASSUME NEW c \in Client, LeftoverStep(c) PROVE KeptAfter(s, t, row)
  <2>1. PICK p \in leftover[c] : LeftoverRow(c, p[1], p[2])
    BY <1>15 DEF LeftoverStep
  <2>2. StoreOf[c] = s => p[1] # t
    BY <1>1
  <2>3. local'[s][t] = row
    BY <1>1, <2>1, <2>2 DEF LeftoverRow, TypeOK, Rows
  <2>4. QED
    BY <1>1, <2>1, <2>3 DEF LeftoverRow, TypeOK
<1>16. ASSUME NEW plan \in late, LatePushLands(plan) PROVE KeptAfter(s, t, row)
  BY <1>1, <1>16 DEF LatePushLands
<1>17. QED
  <2> HIDE DEF KeptAfter
  <2> QED
    BY <1>3, <1>4, <1>5, <1>6, <1>7, <1>8, <1>9, <1>10, <1>11, <1>12, <1>13,
       <1>14, <1>15, <1>16 DEF Next, PassStep, FaultStep

\* An edit outside every window starts with nothing pending at its store, and
\* an edit of another store can only end what was newest before it.
LEMMA KeptByEdit ==
  ASSUME TypeOK, ClocksAhead, Kept,
         NEW c \in Client, NEW u \in Task, Edit(c, u),
         NEW s \in Store, NEW t \in Task, Newest(s, t)', ~Raced(s, t)'
  PROVE  KeptAfter(s, t, last'[s][t])
<1> DEFINE w == StoreOf[c]
           row == [at |-> now + Skew[w], rev |-> edits + 1]
<1>1. /\ local' = [local EXCEPT ![w][u] = row]
      /\ last' = [last EXCEPT ![w][u] = row]
      /\ UNCHANGED <<pc, unread, seenLocal, applying, leftover>>
      /\ raced' = IF InWindow(w) THEN raced \union {<<w, u>>}
                  ELSE raced \ {<<w, u>>}
  BY DEF Edit, passVars
<1>2. \A o \in Store, v \in Task :
        /\ local'[o][v] = (IF o = w /\ v = u THEN row ELSE local[o][v])
        /\ last'[o][v] = (IF o = w /\ v = u THEN row ELSE last[o][v])
  BY <1>1 DEF TypeOK, Rows
<1>3. CASE s = w /\ t = u
  <2>0. ~InWindow(w)
    BY <1>1, <1>3 DEF Raced
  <2>1. \A d \in Client : StoreOf[d] = s => ~HoldsSnapshot(d)
    BY <1>3, <2>0 DEF InWindow
  <2>2. ASSUME NEW d \in Client, StoreOf[d] = s
        PROVE  NothingPendingAfter(d, t, last'[s][t])
    BY <1>1, <2>1, <2>2, RowsType DEF HoldsSnapshot, NothingPendingAfter
  <2>3. QED
    BY <1>2, <1>3, <2>2 DEF KeptAfter
<1>4. CASE ~(s = w /\ t = u)
  <2>1. last'[s][t] = last[s][t]
    BY <1>2, <1>4
  <2>2. ASSUME NEW o \in Store PROVE ~Newer(last[o][t], last[s][t])
    <3>1. ~Newer(last'[o][t], last'[s][t])
      BY DEF Newest
    <3>2. /\ last[o][t].at \in Nat
          /\ last[s][t].at \in Nat
          /\ last[o][t].at <= now + Skew[o]
      BY DEF ClocksAhead, TypeOK, Rows, Row
    <3>3. CASE o = w /\ t = u
      <4>1. last'[o][t].at = now + Skew[o]
        BY <1>2, <3>3
      <4>2. now + Skew[o] \in Nat
        BY DEF TypeOK
      <4>3. QED
        BY <2>1, <3>1, <3>2, <4>1, <4>2 DEF Newer
    <3>4. CASE ~(o = w /\ t = u)
      BY <1>2, <2>1, <3>1, <3>4
    <3>5. QED
      BY <3>3, <3>4
  <2>3. Newest(s, t)
    BY <2>1, <2>2 DEF Newest
  <2>4. ~Raced(s, t)
    BY <1>1, <1>4 DEF Raced
  <2>5. QED
    BY <1>1, <1>2, <1>4, <2>1, <2>3, <2>4
       DEF Kept, KeptAfter, NothingPending, NothingPendingAfter
<1>5. QED
  BY <1>3, <1>4

LEMMA NextKept ==
  ASSUME TypeOK, ClocksAhead, RowsKnown, Kept, [Next]_vars
  PROVE  Kept'
<1>1. SUFFICES ASSUME NEW s \in Store, NEW t \in Task,
                      Newest(s, t)', ~Raced(s, t)'
               PROVE  KeptAfter(s, t, last'[s][t])
  BY DEF Kept, KeptAfter, NothingPending, NothingPendingAfter
<1>2. CASE \E c \in Client, u \in Task : Edit(c, u)
  BY <1>1, <1>2, KeptByEdit
<1>3. CASE Next /\ ~\E c \in Client, u \in Task : Edit(c, u)
  <2>1. last' = last /\ raced' = raced
    BY <1>3, HistoryCases DEF HistorySame
  <2>2. Newest(s, t) /\ ~Raced(s, t)
    BY <1>1, <2>1 DEF Newest, Raced
  <2>3. QED
    BY <1>3, <2>1, <2>2, KeptByOthers
<1>4. CASE UNCHANGED vars
  <2>1. UNCHANGED <<local, last, raced, pc, unread, seenLocal, applying,
                    leftover>>
    BY <1>4 DEF vars, passVars, histVars
  <2>2. Newest(s, t) /\ ~Raced(s, t)
    BY <1>1, <2>1 DEF Newest, Raced
  <2>3. QED
    BY <2>1, <2>2 DEF Kept, KeptAfter, NothingPending, NothingPendingAfter
<1>5. QED
  BY <1>2, <1>3, <1>4

LEMMA InitIInv == Init => IInv
<1> SUFFICES ASSUME Init PROVE IInv
  OBVIOUS
<1>1. TypeOK
  BY InitType
<1>2. ClocksAhead
  BY RowsType DEF Init, ClocksAhead, NoRow
<1>3. RowsKnown
  BY NothingKnown DEF Init, RowsKnown
<1>4. \A s \in Store, t \in Task : ~Newest(s, t)
  BY RowsType DEF Init, Newest
<1>5. QED
  BY <1>1, <1>2, <1>3, <1>4 DEF IInv, Kept

LEMMA NextIInv == IInv /\ [Next]_vars => IInv'
  BY NextType, NextClocks, NextKnown, NextKept DEF IInv

(***************************************************************************)
(* The newest edit of every task is still on the device it was made on,    *)
(* unless it was made between a pass's snapshot of the store and the last  *)
(* of its writes there: no pass, failed request, late request, second tab  *)
(* or crash takes it away, with clocks that disagree or edits that tie.    *)
(***************************************************************************)
THEOREM EditsSurviveSync == Spec => []NewestEditKept
<1>1. Init => IInv
  BY InitIInv
<1>2. IInv /\ [Next]_vars => IInv'
  BY NextIInv
<1>3. IInv => NewestEditKept
  BY DEF IInv, Kept, NewestEditKept
<1>4. QED
  BY <1>1, <1>2, <1>3, PTL DEF Spec

=============================================================================
