------------------------ MODULE PortableVaultProofs ------------------------
(***************************************************************************)
(* What exchanging snapshots guarantees for any number of devices, panels, *)
(* vaults, files, edits and operations broken off.                         *)
(***************************************************************************)
EXTENDS PortableVault, TLAPS

LEMMA IdleType == Idle \in Operation /\ NoRows \in Rows
BY DEF Idle, Operation, Stage, NoRows, Rows

LEMMA DamagedType ==
  ASSUME NEW f \in Snapshot, NEW s \in 0..MaxSeq
  PROVE  Damaged(f, s) \in Snapshot /\ ~Damaged(f, s).intact
<1>1. (MaxEdits + 1) \in Nat /\ s \in Nat
  BY BoundAssumption
<1>2. [t \in Task |-> MaxEdits + 1] \in Rows
  BY <1>1 DEF Rows
<1>3. QED
  BY <1>1, <1>2 DEF Damaged, Snapshot

LEMMA ReadableType == TypeOK => Readable \subseteq Snapshot
BY DamagedType DEF TypeOK, Readable

LEMMA InitIInv == Init => IInv
<1> SUFFICES ASSUME Init PROVE IInv
  OBVIOUS
<1>1. TypeOK
  BY IdleType DEF Init, TypeOK
<1>2. \A p \in Panel : op[p] = Idle
  BY DEF Init
<1>3. Equipped /\ ReadingIsCurrent
  BY <1>2 DEF Equipped, ReadingIsCurrent, Idle
<1>4. Alone
  BY <1>2 DEF Alone
<1>5. \A d \in Device : Known(d) = {} /\ sealed[d] = {}
  BY DEF Init, Known
<1>6. MarkIsNewest /\ SealedOnce
  BY <1>5 DEF MarkIsNewest, SealedOnce
<1>7. RowsAreGenuine
  BY <1>2 DEF Init, RowsAreGenuine, Idle, NoRows
<1>8. NothingFromDamaged
  BY <1>5 DEF NothingFromDamaged, Init, NoRows
<1>9. QED
  BY <1>1, <1>3, <1>4, <1>6, <1>7, <1>8 DEF IInv

-----------------------------------------------------------------------------
(* Type correctness, and that operations have what they are about to use.  *)

\* What one operation is owed by TypeOK and Equipped.
Sound(o) ==
  /\ o \in Operation
  /\ o.stage \in {"reading", "saving", "rewrapping"} => o.rec \in Record
  /\ o.stage \in {"publishing", "context", "checking", "opening",
                  "applying", "committing"} => o.file \in Snapshot
  /\ o.stage = "applying" => o.todo \subseteq Task

LEMMA OpsSound ==
  (op \in [Panel -> Operation] /\ Equipped)
    <=> (op \in [Panel -> Operation] /\ \A p \in Panel : Sound(op[p]))
BY DEF Equipped, Sound

\* Replacing one panel's operation by a sound one keeps all sound.
LEMMA ReplaceSound ==
  ASSUME op \in [Panel -> Operation], Equipped, NEW p \in Panel, NEW o, Sound(o),
         op' = [op EXCEPT ![p] = o]
  PROVE  op' \in [Panel -> Operation] /\ Equipped'
BY DEF Equipped, Sound

LEMMA IdleSound == Sound(Idle)
BY IdleType DEF Sound, Idle

\* The other variables stay in their types.
RestType ==
  /\ vault \in [Device -> Record \cup {NoVault}]
  /\ mark \in [Device -> Nat]
  /\ rows \in [Device -> Rows]
  /\ shown \in [Panel -> BOOLEAN]
  /\ files \subseteq Snapshot
  /\ made \subseteq VaultId
  /\ sealed \in [Device -> SUBSET Snapshot]
  /\ accepted \in [Device -> SUBSET Snapshot]
  /\ replaced \subseteq Device
  /\ disturbed \subseteq Device
  /\ starts \in Nat
  /\ edits \in Nat
  /\ faults \in Nat

\* The operations that start, with what they start with.
LEMMA StartSound ==
  ASSUME TypeOK, NEW p \in Panel
  PROVE  /\ \A f \in Snapshot :
              Sound([Idle EXCEPT !.stage = "context", !.file = f])
         /\ vault[Home[p]] # NoVault =>
              /\ Sound([Idle EXCEPT !.stage = "rewrapping",
                                    !.rec = vault[Home[p]]])
              /\ Sound([Idle EXCEPT !.stage = "reading", !.rec = vault[Home[p]],
                                    !.todo = {"seq", "tasks"}])
         /\ Sound([Idle EXCEPT !.stage = "clearing", !.todo = {"vault", "mark"}])
<1>1. Home[p] \in Device
  BY DeviceAssumption
<1>2. vault[Home[p]] # NoVault => vault[Home[p]] \in Record
  BY <1>1 DEF TypeOK
<1>3. QED
  BY <1>2, IdleType DEF Sound, Operation, Stage, Idle

LEMMA StartType ==
  ASSUME TypeOK, NEW p \in Panel, NEW o, Start(p, o)
  PROVE  /\ disturbed' \subseteq Device /\ starts' \in Nat
         /\ op' = [op EXCEPT ![p] = o]
<1>1. \A q \in Panel : Home[q] \in Device
  BY DeviceAssumption
<1>2. {Home[q] : q \in {r \in Panel \ {p} : Home[r] = Home[p] /\ op[r] # Idle}}
        \subseteq Device
  BY <1>1
<1>3. disturbed' \subseteq Device
  BY <1>2, Zenon DEF Start, TypeOK
<1>4. QED
  BY <1>3 DEF Start, TypeOK

LEMMA SealedType ==
  ASSUME TypeOK, Equipped, NEW p \in Panel, op[p].stage = "saving"
  PROVE  Sealed(p) \in Snapshot /\ Sealed(p).intact /\ Sealed(p).by = Home[p]
         /\ Sealed(p).seq = op[p].seqSeen + 1 /\ Sealed(p).rows = op[p].rows
<1>1. Home[p] \in Device /\ op[p] \in Operation /\ op[p].rec \in Record
  BY DeviceAssumption DEF TypeOK, Equipped
<1>2. QED
  BY <1>1 DEF Sealed, Snapshot, Operation, Record

LEMMA PanelType ==
  ASSUME TypeOK, Equipped, NEW p \in Panel, PanelStep(p)
  PROVE  TypeOK' /\ Equipped'
<1>0. Home[p] \in Device /\ op[p] \in Operation /\ Sound(op[p])
  BY DeviceAssumption, OpsSound DEF TypeOK
<1>a. ASSUME NEW o, Sound(o), op' = [op EXCEPT ![p] = o], RestType'
      PROVE  TypeOK' /\ Equipped'
  <2>1. op' \in [Panel -> Operation] /\ Equipped'
    BY <1>a, ReplaceSound DEF TypeOK
  <2>2. QED
    BY <1>a, <2>1 DEF TypeOK, RestType
<1>b. ASSUME NEW o, Sound(o), Start(p, o), RestType'
      PROVE  TypeOK' /\ Equipped'
  BY <1>b, <1>a, StartType
<1>c. ASSUME NEW o, Sound(o), Proceed(p, o), RestType'
      PROVE  TypeOK' /\ Equipped'
  BY <1>c, <1>a DEF Proceed
<1> USE DEF keyVars, known
<1>1. CASE OpenPanel(p)
  <2>1. shown' \in [Panel -> BOOLEAN]
    BY <1>1, Zenon DEF OpenPanel, TypeOK
  <2>2. RestType'
    BY <2>1, <1>1 DEF OpenPanel, TypeOK, RestType
  <2>3. op' = op
    BY <1>1 DEF OpenPanel
  <2>4. QED
    BY <2>2, <2>3 DEF TypeOK, RestType, Equipped
<1>2. ASSUME NEW v \in VaultId, NEW w \in Passphrase, CreateVault(p, v, w)
      PROVE  TypeOK' /\ Equipped'
  <2>1. Start(p, Idle)
    BY <1>2 DEF CreateVault
  <2>2. RestType'
    BY <1>2, <1>0, <2>1, StartType
    DEF CreateVault, SetUp, TypeOK, RestType, Record
  <2>3. QED
    BY <2>1, <2>2, <1>b, IdleSound
<1>3. ASSUME NEW f \in Snapshot, Enrol(p, f)
      PROVE  TypeOK' /\ Equipped'
  <2>1. Start(p, [Idle EXCEPT !.stage = "context", !.file = f])
    BY <1>3 DEF Enrol
  <2>2. [id |-> f.id, phrase |-> f.phrase] \in Record
    BY DEF Record, Snapshot
  <2>3. RestType'
    BY <1>3, <1>0, <2>1, <2>2, StartType DEF Enrol, SetUp, TypeOK, RestType
  <2>4. QED
    BY <2>1, <2>3, <1>b, StartSound
<1>4. CASE BeginChange(p)
  <2>1. RestType'
    BY <1>4, <1>0, StartType DEF BeginChange, TypeOK, RestType
  <2>2. QED
    BY <1>4, <2>1, <1>b, StartSound DEF BeginChange
<1>5. ASSUME NEW w \in Passphrase, Rewrap(p, w)
      PROVE  TypeOK' /\ Equipped'
  <2>1. [op[p].rec EXCEPT !.phrase = w] \in Record
    BY <1>5, <1>0 DEF Rewrap, Sound, Record
  <2>2. RestType'
    BY <1>5, <1>0, <2>1 DEF Rewrap, Proceed, TypeOK, RestType
  <2>3. QED
    BY <1>5, <2>2, <1>c, IdleSound DEF Rewrap
<1>6. CASE ClearBrowser(p)
  <2>1. Start(p, Idle)
    BY <1>6 DEF ClearBrowser
  <2>2. RestType'
    BY <1>6, <1>0, <2>1, StartType
    DEF ClearBrowser, ForgetKnown, TypeOK, RestType
  <2>3. QED
    BY <2>1, <2>2, <1>b, IdleSound
<1>7. CASE BeginClear(p)
  <2>1. RestType'
    BY <1>7, <1>0, StartType DEF BeginClear, TypeOK, RestType
  <2>2. QED
    BY <1>7, <2>1, <1>b, StartSound DEF BeginClear
<1>8. ASSUME NEW entry \in {"vault", "mark"}, Deleted(p, entry), 
             vault' \in [Device -> Record \cup {NoVault}],
             mark' \in [Device -> Nat],
             sealed' \in [Device -> SUBSET Snapshot],
             accepted' \in [Device -> SUBSET Snapshot],
             replaced' \subseteq Device
      PROVE  TypeOK' /\ Equipped'
  <2>1. Sound([op[p] EXCEPT !.todo = @ \ {entry}])
    BY <1>8, <1>0 DEF Deleted, Sound, Operation
  <2>2. RestType'
    BY <1>8 DEF Deleted, Proceed, TypeOK, RestType
  <2>3. QED
    BY <1>8, <2>1, <2>2, <1>c, IdleSound DEF Deleted
<1>9. CASE DeleteVault(p)
  BY <1>8, <1>9, <1>0 DEF DeleteVault, TypeOK
<1>10. CASE DeleteMark(p)
  BY <1>8, <1>10, <1>0 DEF DeleteMark, ForgetKnown, TypeOK
<1>11. CASE BeginExport(p)
  <2>1. RestType'
    BY <1>11, <1>0, StartType DEF BeginExport, TypeOK, RestType
  <2>2. QED
    BY <1>11, <2>1, <1>b, StartSound DEF BeginExport
<1>12. ASSUME NEW part \in {"seq", "tasks"}, NEW o \in Operation, o.rec = op[p].rec,
              Answered(p, part, o)
       PROVE  TypeOK' /\ Equipped'
  <2>1. RestType'
    BY <1>12 DEF Answered, Proceed, TypeOK, RestType
  <2>2. Sound([o EXCEPT !.todo = @ \ {part}, !.stage = "saving"])
        /\ Sound([o EXCEPT !.todo = @ \ {part}, !.stage = "reading"])
    BY <1>12, <1>0 DEF Answered, Sound, Operation, Stage
  <2>3. QED
    BY <1>12, <2>1, <2>2, <1>c DEF Answered
<1>13. CASE ReadSeq(p)
  <2>1. [op[p] EXCEPT !.seqSeen = mark[Home[p]]] \in Operation
    BY <1>0 DEF Operation, TypeOK
  <2>2. QED
    BY <2>1, <1>0, <1>12, <1>13 DEF ReadSeq, Operation
<1>14. CASE ReadTasks(p)
  <2>1. [op[p] EXCEPT !.rows = rows[Home[p]]] \in Operation
    BY <1>0 DEF Operation, TypeOK
  <2>2. QED
    BY <2>1, <1>0, <1>12, <1>14 DEF ReadTasks, Operation
<1>15. CASE SaveSeq(p)
  <2>1. Sealed(p) \in Snapshot
    BY <1>15, SealedType DEF SaveSeq
  <2>2. RestType'
    BY <1>15, <1>0, <2>1 DEF SaveSeq, Proceed, TypeOK, RestType, Snapshot
  <2>3. Sound([Idle EXCEPT !.stage = "publishing", !.file = Sealed(p)])
    BY <2>1, IdleType DEF Sound, Operation, Stage, Idle
  <2>4. QED
    BY <1>15, <2>2, <2>3, <1>c DEF SaveSeq
<1>16. CASE Publish(p)
  <2>1. RestType'
    BY <1>16, <1>0 DEF Publish, Proceed, TypeOK, RestType, Sound
  <2>2. QED
    BY <1>16, <2>1, <1>c, IdleSound DEF Publish
<1>17. ASSUME NEW f \in Snapshot, BeginImport(p, f)
       PROVE  TypeOK' /\ Equipped'
  <2>1. RestType'
    BY <1>17, <1>0, StartType DEF BeginImport, TypeOK, RestType
  <2>2. QED
    BY <1>17, <2>1, <1>b, StartSound DEF BeginImport
<1>18. CASE LoadContext(p)
  <2>1. RestType'
    BY <1>18 DEF LoadContext, Proceed, TypeOK, RestType
  <2>2. Sound([op[p] EXCEPT !.stage = "checking", !.rec = vault[Home[p]]])
    BY <1>18, <1>0 DEF LoadContext, TypeOK, Sound, Operation, Stage
  <2>3. QED
    BY <1>18, <2>1, <2>2, <1>c, IdleSound DEF LoadContext
<1>19. CASE CheckMark(p)
  <2>1. RestType'
    BY <1>19 DEF CheckMark, Proceed, TypeOK, RestType
  <2>2. Sound([op[p] EXCEPT !.stage = "opening", !.seqSeen = mark[Home[p]]])
    BY <1>19, <1>0 DEF CheckMark, TypeOK, Sound, Operation, Stage
  <2>3. QED
    BY <1>19, <2>1, <2>2, <1>c, IdleSound DEF CheckMark
<1>20. CASE Open(p)
  <2> DEFINE T == ToApply(Home[p], op[p].file)
             S == IF T = {} THEN "committing" ELSE "applying"
             o == [op[p] EXCEPT !.todo = T, !.stage = S]
  <2>1. RestType'
    BY <1>20 DEF Open, Proceed, TypeOK, RestType
  <2>2. T \subseteq Task /\ S \in {"committing", "applying"}
    BY DEF ToApply
  <2>3. Sound(o)
    <3> HIDE DEF T, S
    <3> QED
      BY <1>20, <1>0, <2>2 DEF Open, Sound, Operation, Stage
  <2>4. QED
    BY <1>20, <2>1, <2>3, <1>c, IdleSound DEF Open
<1>21. ASSUME NEW S \in SUBSET Task, Apply(p, S)
       PROVE  TypeOK' /\ Equipped'
  <2> DEFINE N == IF op[p].todo = S THEN "committing" ELSE "applying"
             o == [op[p] EXCEPT !.todo = @ \ S, !.stage = N]
  <2>1. op[p].file \in Snapshot /\ op[p].todo \subseteq Task
    BY <1>21, <1>0 DEF Apply, Sound
  <2>2. rows' \in [Device -> Rows]
    BY <1>21, <1>0, <2>1 DEF Apply, TypeOK, Rows, Snapshot
  <2>3. RestType'
    BY <1>21, <2>2 DEF Apply, Proceed, TypeOK, RestType
  <2>4. N \in {"committing", "applying"}
    OBVIOUS
  <2>5. Sound(o)
    <3> HIDE DEF N
    <3> QED
      BY <1>21, <1>0, <2>1, <2>4 DEF Apply, Sound, Operation, Stage
  <2>6. QED
    BY <1>21, <2>3, <2>5, <1>c DEF Apply
<1>22. CASE Commit(p)
  <2>1. op[p].file \in Snapshot /\ op[p].file.seq \in Nat
    BY <1>22, <1>0 DEF Commit, Sound, Snapshot
  <2>2. RestType'
    BY <1>22, <1>0, <2>1 DEF Commit, Proceed, TypeOK, RestType
  <2>3. QED
    BY <1>22, <2>2, <1>c, IdleSound DEF Commit
<1>23. CASE BreakOff(p)
  <2>1. RestType'
    BY <1>23, <1>0 DEF BreakOff, TypeOK, RestType
  <2>2. QED
    BY <1>23, <2>1, <1>a, IdleSound DEF BreakOff
<1>24. QED
  BY ReadableType, <1>1, <1>2, <1>3, <1>4, <1>5, <1>6, <1>7, <1>9, <1>10, <1>11,
     <1>13, <1>14, <1>15, <1>16, <1>17, <1>18, <1>19, <1>20, <1>21, <1>22, <1>23
  DEF PanelStep, JoinVault, RecoverVault, TypeOK

LEMMA NextType == TypeOK /\ Equipped /\ [Next]_vars => TypeOK' /\ Equipped'
<1> SUFFICES ASSUME TypeOK, Equipped, [Next]_vars PROVE TypeOK' /\ Equipped'
  OBVIOUS
<1>1. ASSUME NEW d \in Device, NEW t \in Task, Edit(d, t)
      PROVE  TypeOK' /\ Equipped'
  BY <1>1 DEF Edit, keyVars, known, TypeOK, Rows, Equipped
<1>2. CASE UNCHANGED vars
  BY <1>2 DEF vars, keyVars, known, TypeOK, Equipped
<1>3. QED
  BY <1>1, <1>2, PanelType DEF Next

-----------------------------------------------------------------------------
(* Operations of an undisturbed device do not overlap.                     *)

\* A step of one panel finds the others of its device idle, or disturbs it.
StepOf(p) ==
  /\ \E o : op' = [op EXCEPT ![p] = o]
  /\ disturbed \subseteq disturbed'
  /\ \A q \in Panel \ {p} :
       Home[q] = Home[p] /\ Home[p] \notin disturbed' => op[q] = Idle

LEMMA StartIsolated ==
  ASSUME NEW p \in Panel, NEW o, Start(p, o)
  PROVE  StepOf(p)
<1>1. disturbed \subseteq disturbed'
  BY Zenon DEF Start
<1>2. ASSUME NEW q \in Panel \ {p}, Home[q] = Home[p], op[q] # Idle
      PROVE  Home[p] \in disturbed'
  <2>1. q \in {r \in Panel \ {p} : Home[r] = Home[p] /\ op[r] # Idle}
    BY <1>2
  <2>2. QED
    BY <1>2, <2>1, Zenon DEF Start
<1>3. QED
  BY <1>1, <1>2 DEF Start, StepOf

LEMMA ProceedIsolated ==
  ASSUME Alone, NEW p \in Panel, op[p].stage # "idle", NEW o, Proceed(p, o)
  PROVE  StepOf(p)
<1>1. op[p] # Idle
  BY DEF Idle
<1>2. QED
  BY <1>1, Zenon DEF Proceed, StepOf, Alone

\* Every step of a panel but its opening.
LEMMA PanelIsolated ==
  ASSUME Alone, NEW p \in Panel, PanelStep(p)
  PROVE  OpenPanel(p) \/ StepOf(p)
<1>1. ASSUME \/ \E v \in VaultId, w \in Passphrase : CreateVault(p, v, w)
             \/ \E f : Enrol(p, f) \/ BeginImport(p, f)
             \/ BeginChange(p) \/ ClearBrowser(p) \/ BeginClear(p)
             \/ BeginExport(p)
      PROVE  StepOf(p)
  <2>1. \E o : Start(p, o)
    BY <1>1, Zenon DEF CreateVault, Enrol, BeginImport, BeginChange, ClearBrowser,
                       BeginClear, BeginExport
  <2>2. QED
    BY <2>1, StartIsolated
<1>2. ASSUME \/ \E w \in Passphrase : Rewrap(p, w)
             \/ \E S \in SUBSET Task : Apply(p, S)
             \/ DeleteVault(p) \/ DeleteMark(p) \/ ReadSeq(p) \/ ReadTasks(p)
             \/ SaveSeq(p) \/ Publish(p) \/ LoadContext(p) \/ CheckMark(p)
             \/ Open(p) \/ Commit(p)
      PROVE  StepOf(p)
  <2>1. op[p].stage # "idle"
    BY <1>2 DEF Rewrap, Apply, DeleteVault, DeleteMark, ReadSeq, ReadTasks, SaveSeq,
                Publish, LoadContext, CheckMark, Open, Commit, Deleted, Answered
  <2>2. \E o : Proceed(p, o)
    BY <1>2, Zenon DEF Rewrap, Apply, DeleteVault, DeleteMark, ReadSeq, ReadTasks,
                       SaveSeq, Publish, LoadContext, CheckMark, Open, Commit,
                       Deleted, Answered
  <2>3. QED
    BY <2>1, <2>2, ProceedIsolated
<1>3. CASE BreakOff(p)
  <2>1. disturbed \subseteq disturbed' /\ op[p] # Idle
    BY <1>3, Zenon DEF BreakOff
  <2>2. \E o : op' = [op EXCEPT ![p] = o]
    BY <1>3, Zenon DEF BreakOff
  <2>3. QED
    BY <2>1, <2>2, Zenon DEF StepOf, Alone
<1>4. QED
  BY <1>1, <1>2, <1>3 DEF PanelStep, JoinVault, RecoverVault

LEMMA StepAlone ==
  ASSUME TypeOK, Alone, NEW p \in Panel, StepOf(p)
  PROVE  Alone'
<1>1. \A q \in Panel \ {p} : op'[q] = op[q]
  BY DEF StepOf, TypeOK
<1>2. SUFFICES ASSUME NEW a \in Panel, NEW b \in Panel, Home[a] = Home[b],
                      Home[a] \notin disturbed', op'[a] # Idle, op'[b] # Idle, a # b
               PROVE  FALSE
  BY Zenon DEF Alone
<1>3. CASE a # p /\ b # p
  BY <1>1, <1>2, <1>3, Zenon DEF Alone, StepOf
<1>4. CASE a = p \/ b = p
  BY <1>1, <1>2, <1>4, Zenon DEF StepOf
<1>5. QED
  BY <1>3, <1>4

-----------------------------------------------------------------------------
(* The mark.                                                               *)

\* The part of ReadingIsCurrent about one panel.
Current(p) ==
  Home[p] \notin disturbed =>
    /\ \/ op[p].stage = "saving"
       \/ op[p].stage = "reading" /\ "seq" \notin op[p].todo
       => op[p].seqSeen = mark[Home[p]]
    /\ op[p].stage \in {"opening", "applying", "committing"}
       => /\ op[p].seqSeen = mark[Home[p]]
          /\ op[p].file.seq >= op[p].seqSeen

\* The part of MarkIsNewest and SealedOnce about one device.
Newest(d) ==
  d \notin disturbed =>
    /\ \A f \in sealed[d] : mark[d] >= f.seq
    /\ \A f \in accepted[d] : mark[d] >= f.seq
    /\ \A f, g \in sealed[d] : f.seq = g.seq => f = g

LEMMA MarksSplit ==
  (ReadingIsCurrent /\ MarkIsNewest /\ SealedOnce) <=>
    (\A p \in Panel : Current(p)) /\ (\A d \in Device : Newest(d))
BY DEF ReadingIsCurrent, MarkIsNewest, SealedOnce, Current, Newest, Known

\* Only the stepping panel and its device have to be looked at.
LEMMA MarksFrame ==
  ASSUME TypeOK, TypeOK', NEW p \in Panel, StepOf(p),
         \A q \in Panel : Current(q), \A d \in Device : Newest(d),
         \A d \in Device \ {Home[p]} : /\ mark'[d] = mark[d]
                                      /\ sealed'[d] = sealed[d]
                                      /\ accepted'[d] = accepted[d],
         Current(p)', Newest(Home[p])'
  PROVE  (\A q \in Panel : Current(q)') /\ (\A d \in Device : Newest(d)')
<1>0. \A q \in Panel : Home[q] \in Device
  BY DeviceAssumption
<1>1. ASSUME NEW q \in Panel, q # p PROVE Current(q)'
  <2>1. op'[q] = op[q] /\ (Home[q] \notin disturbed' => Home[q] \notin disturbed)
    BY <1>1 DEF StepOf, TypeOK
  <2>2. CASE Home[q] = Home[p] /\ Home[p] \notin disturbed'
    <3>1. op'[q] = Idle
      BY <1>1, <2>1, <2>2, Zenon DEF StepOf
    <3>2. QED
      BY <3>1 DEF Current, Idle
  <2>3. CASE Home[q] # Home[p]
    <3>1. mark'[Home[q]] = mark[Home[q]] /\ Current(q)
      BY <1>0, <2>3
    <3>2. QED
      BY <2>1, <3>1 DEF Current
  <2>4. CASE Home[q] \in disturbed'
    BY <2>4 DEF Current
  <2>5. QED
    BY <2>2, <2>3, <2>4
<1>2. ASSUME NEW d \in Device, d # Home[p] PROVE Newest(d)'
  <2>1. Newest(d) /\ (d \notin disturbed' => d \notin disturbed)
    BY DEF StepOf
  <2>2. mark'[d] = mark[d] /\ sealed'[d] = sealed[d] /\ accepted'[d] = accepted[d]
    BY <1>2
  <2>3. QED
    BY <2>1, <2>2 DEF Newest
<1>3. QED
  BY <1>1, <1>2

LEMMA PanelMarks ==
  ASSUME TypeOK, TypeOK', Equipped, NEW p \in Panel, PanelStep(p), StepOf(p),
         \A q \in Panel : Current(q), \A d \in Device : Newest(d)
  PROVE  (\A q \in Panel : Current(q)') /\ (\A d \in Device : Newest(d)')
<1>0. /\ Home[p] \in Device
      /\ Home[p] \notin disturbed' => Home[p] \notin disturbed
      /\ mark[Home[p]] \in Nat
      /\ Current(p) /\ Newest(Home[p])
  BY DeviceAssumption DEF StepOf, TypeOK
<1> USE DEF keyVars, known
\* Steps that leave mark and history alone.
<1>a. ASSUME UNCHANGED <<mark, sealed, accepted>>, Current(p)'
      PROVE  (\A q \in Panel : Current(q)') /\ (\A d \in Device : Newest(d)')
  <2>1. Newest(Home[p])'
    BY <1>a, <1>0 DEF Newest
  <2>2. QED
    BY <1>a, <2>1, MarksFrame
\* A stage that Current says nothing about.
<1>b. ASSUME NEW o, op' = [op EXCEPT ![p] = o],
             o.stage \notin {"reading", "saving", "opening", "applying", "committing"}
      PROVE  Current(p)'
  BY <1>b DEF TypeOK, Current
<1>c. Idle.stage = "idle"
  BY DEF Idle
<1>1. ASSUME \/ \E v \in VaultId, w \in Passphrase : CreateVault(p, v, w)
             \/ \E f \in Snapshot : Enrol(p, f) \/ BeginImport(p, f)
             \/ BeginChange(p) \/ BeginClear(p)
      PROVE  Current(p)' /\ UNCHANGED <<mark, sealed, accepted>>
  <2>1. op'[p].stage \in {"idle", "context", "rewrapping", "clearing"}
    <3>1. CASE \E v \in VaultId, w \in Passphrase : CreateVault(p, v, w)
      BY <3>1, <1>c DEF CreateVault, Start, TypeOK
    <3>2. ASSUME NEW f \in Snapshot, Enrol(p, f) \/ BeginImport(p, f)
          PROVE  op'[p].stage = "context"
      <4>1. op' = [op EXCEPT ![p] = [Idle EXCEPT !.stage = "context", !.file = f]]
        BY <3>2 DEF Enrol, BeginImport, Start
      <4>2. QED
        BY <4>1 DEF Idle, TypeOK
    <3>3. CASE BeginChange(p)
      BY <3>3 DEF BeginChange, Start, Idle, TypeOK
    <3>4. CASE BeginClear(p)
      BY <3>4 DEF BeginClear, Start, Idle, TypeOK
    <3>5. QED
      BY <1>1, <3>1, <3>2, <3>3, <3>4
  <2>2. Current(p)'
    BY <2>1 DEF Current
  <2>3. QED
    BY <1>1, <2>2 DEF CreateVault, Enrol, BeginImport, BeginChange, BeginClear
<1>2. CASE BeginExport(p)
  <2>1. op'[p].stage = "reading" /\ "seq" \in op'[p].todo
    BY <1>2 DEF BeginExport, Start, TypeOK, Idle
  <2>2. Current(p)'
    BY <2>1 DEF Current
  <2>3. QED
    BY <1>2, <1>a, <2>2 DEF BeginExport
<1>3. CASE ClearBrowser(p)
  <2>1. Current(p)'
    BY <1>3, <1>b, <1>c DEF ClearBrowser, Start
  <2>2. sealed'[Home[p]] = {} /\ accepted'[Home[p]] = {}
    BY <1>3, <1>0 DEF ClearBrowser, ForgetKnown, TypeOK
  <2>3. Newest(Home[p])'
    BY <2>2 DEF Newest
  <2>4. QED
    BY <1>3, <2>1, <2>3, MarksFrame DEF ClearBrowser, ForgetKnown, TypeOK
<1>4. ASSUME NEW entry, Deleted(p, entry)
      PROVE  Current(p)'
  <2>1. op'[p].stage \in {"idle", "clearing"}
    BY <1>4 DEF Deleted, Proceed, TypeOK, Operation, Idle
  <2>2. QED
    BY <2>1 DEF Current
<1>5. CASE DeleteVault(p)
  BY <1>5, <1>4, <1>a DEF DeleteVault
<1>6. CASE DeleteMark(p)
  <2>1. sealed'[Home[p]] = {} /\ accepted'[Home[p]] = {}
    BY <1>6, <1>0 DEF DeleteMark, ForgetKnown, TypeOK
  <2>2. Newest(Home[p])'
    BY <2>1 DEF Newest
  <2>3. Current(p)'
    BY <1>6, <1>4 DEF DeleteMark
  <2>4. QED
    BY <1>6, <2>2, <2>3, MarksFrame DEF DeleteMark, ForgetKnown, TypeOK
<1>7. CASE ReadSeq(p)
  <2>1. op'[p].seqSeen = mark'[Home[p]] /\ op'[p].stage \in {"reading", "saving"}
    BY <1>7 DEF ReadSeq, Answered, Proceed, TypeOK, Operation
  <2>2. Current(p)'
    BY <2>1 DEF Current
  <2>3. QED
    BY <1>7, <1>a, <2>2 DEF ReadSeq, Answered
<1>8. CASE ReadTasks(p)
  <2>1. /\ op[p].stage = "reading"
        /\ op'[p].seqSeen = op[p].seqSeen /\ op'[p].todo = op[p].todo \ {"tasks"}
        /\ op'[p].stage = IF op[p].todo = {"tasks"} THEN "saving" ELSE "reading"
    BY <1>8 DEF ReadTasks, Answered, Proceed, TypeOK, Operation
  <2>2. Current(p)'
    BY <1>8, <2>1, <1>0 DEF Current, ReadTasks, Answered
  <2>3. QED
    BY <1>8, <1>a, <2>2 DEF ReadTasks, Answered
<1>9. CASE SaveSeq(p)
  <2>1. Sealed(p) \in Snapshot /\ Sealed(p).seq = op[p].seqSeen + 1
    BY <1>9, SealedType DEF SaveSeq
  <2>2. op'[p].stage = "publishing"
    BY <1>9 DEF SaveSeq, Proceed, TypeOK, Idle
  <2>3. Current(p)'
    BY <2>2 DEF Current
  <2>4. Newest(Home[p])'
    <3>1. SUFFICES ASSUME Home[p] \notin disturbed' PROVE Newest(Home[p])'
      BY DEF Newest
    <3>2. op[p].seqSeen = mark[Home[p]]
      BY <1>9, <1>0, <3>1 DEF Current, SaveSeq
    <3>3. /\ mark'[Home[p]] = mark[Home[p]] + 1
          /\ sealed'[Home[p]] = sealed[Home[p]] \cup {Sealed(p)}
          /\ accepted'[Home[p]] = accepted[Home[p]]
      BY <1>9, <1>0, <2>1, <3>2 DEF SaveSeq, TypeOK
    <3>4. \A f \in sealed[Home[p]] \cup accepted[Home[p]] :
            f.seq \in Nat /\ mark[Home[p]] >= f.seq
      BY <1>0, <3>1 DEF Newest, TypeOK, Snapshot
    <3>5. \A f \in sealed[Home[p]] : f.seq # Sealed(p).seq
      BY <1>0, <2>1, <3>2, <3>4
    <3>6. QED
      BY <1>0, <2>1, <3>1, <3>2, <3>3, <3>4, <3>5 DEF Newest
  <2>5. QED
    BY <1>9, <2>3, <2>4, MarksFrame DEF SaveSeq, TypeOK
<1>10. ASSUME \/ Publish(p) \/ LoadContext(p) \/ BreakOff(p)
              \/ \E w \in Passphrase : Rewrap(p, w)
       PROVE  Current(p)' /\ UNCHANGED <<mark, sealed, accepted>>
  <2>1. op'[p].stage \in {"idle", "checking"}
    <3>1. CASE LoadContext(p)
      <4>1. \/ op' = [op EXCEPT ![p] = Idle]
            \/ op' = [op EXCEPT ![p] = [op[p] EXCEPT !.stage = "checking",
                                                     !.rec = vault[Home[p]]]]
        BY <3>1, Zenon DEF LoadContext, Proceed
      <4>2. op[p] \in Operation
        BY DEF TypeOK
      <4>3. CASE op' = [op EXCEPT ![p] = Idle]
        BY <4>3, <1>c DEF TypeOK
      <4>4. CASE op' = [op EXCEPT ![p] = [op[p] EXCEPT !.stage = "checking",
                                                      !.rec = vault[Home[p]]]]
        BY <4>2, <4>4 DEF TypeOK, Operation
      <4>5. QED
        BY <4>1, <4>3, <4>4
    <3>2. CASE \E w \in Passphrase : Rewrap(p, w)
      BY <3>2, <1>c DEF Rewrap, Proceed, TypeOK
    <3>3. CASE Publish(p) \/ BreakOff(p)
      BY <3>3, <1>c DEF Publish, BreakOff, Proceed, TypeOK
    <3>4. QED
      BY <1>10, <3>1, <3>2, <3>3
  <2>2. QED
    BY <1>10, <2>1 DEF Current, Publish, LoadContext, BreakOff, Rewrap
<1>11. CASE CheckMark(p)
  <2>1. Current(p)'
    <3>1. CASE Acceptable(p, op[p].file.seq)
      <4>1. /\ op'[p].stage = "opening" /\ op'[p].seqSeen = mark[Home[p]]
            /\ op'[p].file = op[p].file /\ mark' = mark
        <5>1. op' = [op EXCEPT ![p] = [op[p] EXCEPT !.stage = "opening",
                                                    !.seqSeen = mark[Home[p]]]]
          BY <1>11, <3>1, Zenon DEF CheckMark, Proceed
        <5>2. mark' = mark /\ op[p] \in Operation
          BY <1>11 DEF CheckMark, TypeOK
        <5>3. QED
          BY <5>1, <5>2 DEF TypeOK, Operation
      <4>2. QED
        BY <3>1, <4>1 DEF Current, Acceptable
    <3>2. CASE ~Acceptable(p, op[p].file.seq)
      BY <1>11, <3>2, <1>b, <1>c DEF CheckMark, Proceed
    <3>3. QED
      BY <3>1, <3>2
  <2>2. QED
    BY <1>11, <2>1, <1>a DEF CheckMark
<1>12. CASE Open(p)
  <2>1. \/ op'[p] = Idle
        \/ /\ op[p].stage = "opening"
           /\ op'[p].stage \in {"applying", "committing"}
           /\ op'[p].seqSeen = op[p].seqSeen /\ op'[p].file = op[p].file
    <3> DEFINE T == ToApply(Home[p], op[p].file)
               S == IF T = {} THEN "committing" ELSE "applying"
    <3>1. /\ op[p].stage = "opening"
          /\ \/ op' = [op EXCEPT ![p] = Idle]
             \/ op' = [op EXCEPT ![p] = [op[p] EXCEPT !.todo = T, !.stage = S]]
      BY <1>12, Zenon DEF Open, Proceed
    <3>2. S \in {"applying", "committing"} /\ op[p] \in Operation
      BY DEF TypeOK
    <3>3. QED
      <4> HIDE DEF T, S
      <4>1. CASE op' = [op EXCEPT ![p] = Idle]
        BY <4>1 DEF TypeOK
      <4>2. CASE op' = [op EXCEPT ![p] = [op[p] EXCEPT !.todo = T, !.stage = S]]
        BY <3>1, <3>2, <4>2 DEF TypeOK, Operation
      <4>3. QED
        BY <3>1, <4>1, <4>2
  <2>2. Current(p)'
    BY <1>12, <1>0, <2>1, <1>c DEF Current, Open
  <2>3. QED
    BY <1>12, <1>a, <2>2 DEF Open
<1>13. ASSUME NEW S \in SUBSET Task, Apply(p, S)
       PROVE  Current(p)' /\ UNCHANGED <<mark, sealed, accepted>>
  <2>1. /\ op[p].stage = "applying"
        /\ op'[p].stage \in {"applying", "committing"}
        /\ op'[p].seqSeen = op[p].seqSeen /\ op'[p].file = op[p].file
    BY <1>13 DEF Apply, Proceed, TypeOK, Operation
  <2>2. QED
    BY <1>13, <1>0, <2>1 DEF Current, Apply
<1>14. CASE Commit(p)
  <2>1. op[p].stage = "committing" /\ op[p].file.seq \in Nat
    BY <1>14 DEF Commit, Equipped, Snapshot
  <2>2. Current(p)'
    BY <1>14, <1>b, <1>c DEF Commit, Proceed
  <2>3. accepted' = [accepted EXCEPT ![Home[p]] = @ \cup {op[p].file}]
        /\ sealed' = sealed
    BY <1>14 DEF Commit
  <2>4. Newest(Home[p])'
    <3>1. SUFFICES ASSUME Home[p] \notin disturbed' PROVE Newest(Home[p])'
      BY DEF Newest
    <3>2. op[p].seqSeen = mark[Home[p]] /\ op[p].file.seq >= mark[Home[p]]
      BY <1>0, <2>1, <3>1 DEF Current
    <3>3. mark'[Home[p]] = op[p].file.seq
      BY <1>14, <1>0, <2>1, <3>2 DEF Commit, TypeOK
    <3>4. \A f \in sealed[Home[p]] \cup accepted[Home[p]] :
            f.seq \in Nat /\ mark[Home[p]] >= f.seq
      BY <1>0, <3>1 DEF Newest, TypeOK, Snapshot
    <3>5. QED
      BY <1>0, <2>1, <2>3, <3>1, <3>2, <3>3, <3>4 DEF Newest, TypeOK
  <2>5. \A d \in Device \ {Home[p]} : mark'[d] = mark[d]
    BY <1>14 DEF Commit, TypeOK
  <2>6. QED
    BY <2>2, <2>3, <2>4, <2>5, MarksFrame DEF TypeOK
<1>15. CASE OpenPanel(p)
  BY <1>15, <1>0, <1>a DEF OpenPanel, Current
<1>16. QED
  BY ReadableType, <1>a, <1>1, <1>2, <1>3, <1>5, <1>6, <1>7, <1>8, <1>9, <1>10,
     <1>11, <1>12, <1>13, <1>14, <1>15
  DEF PanelStep, JoinVault, RecoverVault, TypeOK

-----------------------------------------------------------------------------
(* Nothing of a damaged file gets anywhere.                                *)

\* The part of RowsAreGenuine about one operation.
GenuineOp(o) ==
  /\ \A t \in Task : o.rows[t] <= edits
  /\ o.stage \in {"publishing", "context", "checking", "opening",
                  "applying", "committing"} => IsGenuine(o.file)
  /\ o.stage \in {"publishing", "applying", "committing"} => o.file.intact

LEMMA IdleGenuine == edits \in Nat => GenuineOp(Idle)
BY DEF GenuineOp, Idle, NoRows

LEMMA ReadableGenuine ==
  ASSUME TypeOK, RowsAreGenuine
  PROVE  \A f \in Readable : f \in Snapshot /\ IsGenuine(f)
<1>1. ASSUME NEW f \in files PROVE IsGenuine(f)
  BY <1>1 DEF RowsAreGenuine
<1>2. ASSUME NEW f \in files, NEW s \in 0..MaxSeq PROVE IsGenuine(Damaged(f, s))
  BY <1>2, DamagedType DEF IsGenuine, TypeOK
<1>3. QED
  BY <1>1, <1>2, ReadableType DEF Readable

LEMMA PanelGenuine ==
  ASSUME TypeOK, TypeOK', Equipped, RowsAreGenuine, NothingFromDamaged,
         NEW p \in Panel, PanelStep(p)
  PROVE  RowsAreGenuine' /\ NothingFromDamaged'
<1>0. /\ Home[p] \in Device /\ op[p] \in Operation /\ edits \in Nat
      /\ GenuineOp(op[p]) /\ GenuineOp(Idle)
  BY DeviceAssumption, IdleGenuine DEF TypeOK, RowsAreGenuine, GenuineOp
<1> USE DEF keyVars, known
<1>1. edits' = edits
  BY DEF PanelStep, OpenPanel, CreateVault, JoinVault, RecoverVault, Enrol, BeginChange,
         Rewrap, ClearBrowser, BeginClear, DeleteVault, DeleteMark, Deleted,
         BeginExport, ReadSeq, ReadTasks, Answered, SaveSeq, Publish, BeginImport,
         LoadContext, CheckMark, Open, Apply, Commit, BreakOff
\* Stores and files unchanged: only the new operation is to be looked at.
<1>a. ASSUME NEW o, GenuineOp(o), op' = [op EXCEPT ![p] = o],
             \A f \in files' : f.intact /\ IsGenuine(f)
      PROVE  RowsAreGenuine'
  <2>1. \A q \in Panel : GenuineOp(op'[q])
    BY <1>a DEF TypeOK, RowsAreGenuine, GenuineOp
  <2>2. QED
    BY <1>a, <1>1, <2>1 DEF RowsAreGenuine, GenuineOp, IsGenuine
<1>b. ASSUME NEW o, GenuineOp(o), op' = [op EXCEPT ![p] = o], UNCHANGED <<files, rows>>,
             \A d \in Device : /\ sealed'[d] \subseteq sealed[d]
                              /\ accepted'[d] \subseteq accepted[d]
      PROVE  RowsAreGenuine' /\ NothingFromDamaged'
  <2>1. RowsAreGenuine'
    BY <1>a, <1>b DEF RowsAreGenuine
  <2>2. QED
    BY <1>b, <1>1, <2>1 DEF NothingFromDamaged, Known
\* Operations that start.
<1>2. ASSUME NEW f \in Readable
      PROVE  GenuineOp([Idle EXCEPT !.stage = "context", !.file = f])
  BY <1>0, ReadableGenuine DEF GenuineOp, Idle
<1>3. \A r, d :
        /\ GenuineOp([Idle EXCEPT !.stage = "rewrapping", !.rec = r])
        /\ GenuineOp([Idle EXCEPT !.stage = "clearing", !.todo = d])
        /\ GenuineOp([Idle EXCEPT !.stage = "reading", !.rec = r, !.todo = d])
  BY <1>0 DEF GenuineOp, Idle
<1>4. CASE OpenPanel(p)
  BY <1>4, <1>1 DEF OpenPanel, RowsAreGenuine, NothingFromDamaged, Known, IsGenuine
<1>5. ASSUME NEW v \in VaultId, NEW w \in Passphrase, CreateVault(p, v, w)
      PROVE  RowsAreGenuine' /\ NothingFromDamaged'
  BY <1>5, <1>0, <1>b DEF CreateVault, Start
<1>6. ASSUME NEW f \in Readable, Enrol(p, f) \/ BeginImport(p, f)
      PROVE  RowsAreGenuine' /\ NothingFromDamaged'
  BY <1>6, <1>2, <1>b DEF Enrol, BeginImport, Start
<1>7. CASE BeginChange(p) \/ BeginClear(p) \/ BeginExport(p)
  BY <1>7, <1>3, <1>b DEF BeginChange, BeginClear, BeginExport, Start
<1>8. ASSUME NEW w \in Passphrase, Rewrap(p, w)
      PROVE  RowsAreGenuine' /\ NothingFromDamaged'
  BY <1>8, <1>0, <1>b DEF Rewrap, Proceed
<1>9. CASE ClearBrowser(p)
  BY <1>9, <1>0, <1>b DEF ClearBrowser, Start, ForgetKnown, TypeOK
<1>10. ASSUME NEW entry, Deleted(p, entry),
              \A d \in Device : /\ sealed'[d] \subseteq sealed[d]
                               /\ accepted'[d] \subseteq accepted[d]
       PROVE  RowsAreGenuine' /\ NothingFromDamaged'
  <2>1. GenuineOp([op[p] EXCEPT !.todo = @ \ {entry}])
    BY <1>0, <1>10 DEF GenuineOp, Operation, Deleted
  <2>2. QED
    BY <1>0, <1>10, <1>b, <2>1 DEF Deleted, Proceed
<1>11. CASE DeleteVault(p)
  BY <1>11, <1>10 DEF DeleteVault
<1>12. CASE DeleteMark(p)
  <2>1. \A d \in Device : /\ sealed'[d] \subseteq sealed[d]
                          /\ accepted'[d] \subseteq accepted[d]
    BY <1>12 DEF DeleteMark, ForgetKnown, TypeOK
  <2>2. QED
    BY <1>12, <1>10, <2>1 DEF DeleteMark
<1>13. CASE ReadSeq(p)
  <2>1. \A s \in {"reading", "saving"} :
          GenuineOp([[op[p] EXCEPT !.seqSeen = mark[Home[p]]]
                       EXCEPT !.todo = @ \ {"seq"}, !.stage = s])
    BY <1>0, <1>13 DEF GenuineOp, Operation
  <2>2. QED
    BY <1>13, <1>b, <2>1 DEF ReadSeq, Answered, Proceed
<1>14. CASE ReadTasks(p)
  <2>1. \A s \in {"reading", "saving"} :
          GenuineOp([[op[p] EXCEPT !.rows = rows[Home[p]]]
                       EXCEPT !.todo = @ \ {"tasks"}, !.stage = s])
    BY <1>0, <1>14 DEF GenuineOp, Operation, NothingFromDamaged
  <2>2. QED
    BY <1>14, <1>b, <2>1 DEF ReadTasks, Answered, Proceed
<1>15. CASE SaveSeq(p)
  <2>1. /\ Sealed(p) \in Snapshot /\ Sealed(p).intact /\ Sealed(p).rows = op[p].rows
    BY <1>15, SealedType DEF SaveSeq
  <2>2. GenuineOp([Idle EXCEPT !.stage = "publishing", !.file = Sealed(p)])
    BY <1>0, <2>1 DEF GenuineOp, Idle, IsGenuine
  <2>3. RowsAreGenuine'
    BY <1>15, <1>a, <2>2 DEF SaveSeq, Proceed, RowsAreGenuine
  <2>4. \A d \in Device : sealed'[d] \subseteq sealed[d] \cup {Sealed(p)}
    BY <1>15 DEF SaveSeq, TypeOK
  <2>5. QED
    BY <1>15, <1>1, <2>1, <2>3, <2>4 DEF SaveSeq, NothingFromDamaged, Known
<1>16. CASE Publish(p)
  <2>1. op[p].file.intact /\ IsGenuine(op[p].file)
    BY <1>16, <1>0 DEF Publish, GenuineOp
  <2>2. RowsAreGenuine'
    BY <1>16, <1>0, <1>a, <2>1 DEF Publish, Proceed, RowsAreGenuine
  <2>3. QED
    BY <1>16, <1>1, <2>2 DEF Publish, NothingFromDamaged, Known
<1>17. CASE LoadContext(p)
  <2>1. GenuineOp([op[p] EXCEPT !.stage = "checking", !.rec = vault[Home[p]]])
    BY <1>17, <1>0 DEF LoadContext, GenuineOp, Operation
  <2>2. QED
    BY <1>17, <1>0, <1>b, <2>1 DEF LoadContext, Proceed
<1>18. CASE CheckMark(p)
  <2>1. GenuineOp([op[p] EXCEPT !.stage = "opening", !.seqSeen = mark[Home[p]]])
    BY <1>18, <1>0 DEF CheckMark, GenuineOp, Operation
  <2>2. QED
    BY <1>18, <1>0, <1>b, <2>1 DEF CheckMark, Proceed
<1>19. CASE Open(p)
  <2> DEFINE T == ToApply(Home[p], op[p].file)
             S == IF T = {} THEN "committing" ELSE "applying"
  <2>1. /\ op[p].stage = "opening"
        /\ \/ op' = [op EXCEPT ![p] = Idle]
           \/ /\ op[p].file.intact
              /\ op' = [op EXCEPT ![p] = [op[p] EXCEPT !.todo = T, !.stage = S]]
    BY <1>19, Zenon DEF Open, Opens, Proceed
  <2>2. CASE op' = [op EXCEPT ![p] = Idle]
    BY <1>19, <1>0, <1>b, <2>2 DEF Open
  <2>3. CASE /\ op[p].file.intact
             /\ op' = [op EXCEPT ![p] = [op[p] EXCEPT !.todo = T, !.stage = S]]
    <3>1. S \in {"applying", "committing"}
      OBVIOUS
    <3>2. GenuineOp([op[p] EXCEPT !.todo = T, !.stage = S])
      <4> HIDE DEF T, S
      <4> QED
        BY <1>0, <2>1, <2>3, <3>1 DEF GenuineOp, Operation
    <3>3. QED
      BY <1>19, <1>b, <2>3, <3>2 DEF Open
  <2>4. QED
    BY <2>1, <2>2, <2>3
<1>20. ASSUME NEW S \in SUBSET Task, Apply(p, S)
       PROVE  RowsAreGenuine' /\ NothingFromDamaged'
  <2> DEFINE N == IF op[p].todo = S THEN "committing" ELSE "applying"
             o == [op[p] EXCEPT !.todo = @ \ S, !.stage = N]
  <2>1. op[p].file.intact /\ IsGenuine(op[p].file) /\ op[p].file \in Snapshot
    BY <1>20, <1>0 DEF Apply, GenuineOp, Equipped
  <2>2. N \in {"committing", "applying"}
    OBVIOUS
  <2>3. GenuineOp(o)
    <3> HIDE DEF N
    <3> QED
      BY <1>0, <2>1, <2>2 DEF GenuineOp, Operation
  <2>4. RowsAreGenuine'
    BY <1>20, <1>a, <2>3 DEF Apply, Proceed, RowsAreGenuine
  <2>5. \A d \in Device, t \in Task : rows'[d][t] <= edits
    BY <1>20, <1>0, <2>1 DEF Apply, TypeOK, Rows, IsGenuine, NothingFromDamaged
  <2>6. QED
    BY <1>20, <1>1, <2>4, <2>5 DEF Apply, NothingFromDamaged, Known
<1>21. CASE Commit(p)
  <2>1. op[p].file.intact
    BY <1>21, <1>0 DEF Commit, GenuineOp
  <2>2. RowsAreGenuine'
    BY <1>21, <1>0, <1>a DEF Commit, Proceed, RowsAreGenuine
  <2>3. \A d \in Device : accepted'[d] \subseteq accepted[d] \cup {op[p].file}
    BY <1>21 DEF Commit, TypeOK
  <2>4. QED
    BY <1>21, <1>1, <2>1, <2>2, <2>3 DEF Commit, NothingFromDamaged, Known
<1>22. CASE BreakOff(p)
  BY <1>22, <1>0, <1>b DEF BreakOff
<1>23. QED
  BY <1>4, <1>5, <1>6, <1>7, <1>8, <1>9, <1>11, <1>12, <1>13, <1>14, <1>15, <1>16,
     <1>17, <1>18, <1>19, <1>20, <1>21, <1>22
  DEF PanelStep, JoinVault, RecoverVault, Readable

-----------------------------------------------------------------------------
LEMMA NextIInv == IInv /\ [Next]_vars => IInv'
<1> SUFFICES ASSUME IInv, [Next]_vars PROVE IInv'
  OBVIOUS
<1>0. TypeOK' /\ Equipped'
  BY NextType DEF IInv
<1>1. ASSUME NEW p \in Panel, PanelStep(p)
      PROVE  IInv'
  <2>1. RowsAreGenuine' /\ NothingFromDamaged'
    BY <1>0, <1>1, PanelGenuine DEF IInv
  <2>2. CASE OpenPanel(p)
    BY <2>1, <2>2, <1>0
    DEF OpenPanel, keyVars, known, IInv, Alone, ReadingIsCurrent, MarkIsNewest, Known,
        SealedOnce
  <2>3. CASE StepOf(p)
    <3>1. Alone'
      BY <2>3, StepAlone DEF IInv
    <3>2. (\A q \in Panel : Current(q)) /\ (\A d \in Device : Newest(d))
      BY MarksSplit DEF IInv
    <3>3. (\A q \in Panel : Current(q)') /\ (\A d \in Device : Newest(d)')
      BY <1>0, <1>1, <2>3, <3>2, PanelMarks DEF IInv
    <3>4. ReadingIsCurrent' /\ MarkIsNewest' /\ SealedOnce'
      BY <3>3 DEF ReadingIsCurrent, MarkIsNewest, SealedOnce, Current, Newest, Known
    <3>5. QED
      BY <1>0, <2>1, <3>1, <3>4 DEF IInv
  <2>4. QED
    BY <1>1, <2>2, <2>3, PanelIsolated DEF IInv
<1>2. ASSUME NEW d \in Device, NEW t \in Task, Edit(d, t)
      PROVE  IInv'
  <2>1. /\ UNCHANGED <<mark, op, files, sealed, accepted, disturbed>>
        /\ edits' = edits + 1 /\ edits \in Nat
    BY <1>2 DEF Edit, keyVars, known, IInv, TypeOK
  <2>2. Alone' /\ ReadingIsCurrent' /\ MarkIsNewest' /\ SealedOnce'
    BY <2>1 DEF IInv, Alone, ReadingIsCurrent, MarkIsNewest, SealedOnce, Known
  <2>3. RowsAreGenuine'
    <3>1. ASSUME NEW f, f \in Snapshot, IsGenuine(f) PROVE IsGenuine(f)'
      BY <3>1, <2>1 DEF IsGenuine, Snapshot, Rows
    <3>2. \A f \in files' : f.intact /\ IsGenuine(f)'
      BY <2>1, <3>1 DEF IInv, RowsAreGenuine, TypeOK
    <3>3. \A p \in Panel, s \in Task : op'[p].rows[s] <= edits'
      BY <2>1 DEF IInv, RowsAreGenuine, TypeOK, Operation, Rows
    <3>4. QED
      BY <2>1, <3>1, <3>2, <3>3 DEF IInv, RowsAreGenuine, Equipped
  <2>4. NothingFromDamaged'
    BY <1>2, <2>1 DEF Edit, IInv, NothingFromDamaged, Known, TypeOK, Rows
  <2>5. QED
    BY <1>0, <2>2, <2>3, <2>4 DEF IInv
<1>3. CASE UNCHANGED vars
  BY <1>0, <1>3
  DEF vars, keyVars, known, IInv, Alone, ReadingIsCurrent, MarkIsNewest, Known,
      RowsAreGenuine, IsGenuine, SealedOnce, NothingFromDamaged
<1>4. QED
  BY <1>1, <1>2, <1>3 DEF Next

\* IInv holds in every reachable state, however devices exchange snapshots.
THEOREM Invariant == Spec => []IInv
BY InitIInv, NextIInv, PTL DEF Spec

\* Every variable keeps its type.
THEOREM TypeCorrect == Spec => []TypeOK
BY Invariant, PTL DEF IInv

\* Numbers are sealed once: the next one is above every known snapshot's.
THEOREM NumbersSealedOnce == Spec => []SealedOnce
BY Invariant, PTL DEF IInv

\* Damaged files reach no store, also where operations overlap.
THEOREM DamagedFilesHarmless == Spec => []NothingFromDamaged
BY Invariant, PTL DEF IInv

LEMMA InvImpliesNeverOlder == IInv => NeverAcceptsOlder
<1> SUFFICES ASSUME IInv, NEW p \in Panel,
                    op[p].stage \in {"applying", "committing"},
                    Home[p] \notin disturbed, NEW f \in Known(Home[p])
             PROVE  op[p].file.seq >= f.seq
  BY DEF NeverAcceptsOlder
<1>1. /\ Home[p] \in Device /\ mark[Home[p]] \in Nat
      /\ f.seq \in Nat /\ op[p].file.seq \in Nat
  BY DeviceAssumption DEF IInv, TypeOK, Equipped, Known, Snapshot
<1>2. mark[Home[p]] >= f.seq
  BY <1>1 DEF IInv, MarkIsNewest
<1>3. op[p].file.seq >= mark[Home[p]]
  BY DEF IInv, ReadingIsCurrent
<1>4. QED
  BY <1>1, <1>2, <1>3

\* I4: nothing older than what a device knows is taken in, with any operation
\* broken off at any await, as long as its operations do not overlap.
THEOREM NoRollback == Spec => []NeverAcceptsOlder
BY Invariant, InvImpliesNeverOlder, PTL

-----------------------------------------------------------------------------
(* The mark is one of the vault's.                                         *)

\* A step of a panel touches no other panel and no other device's keystore.
Local(p) ==
  /\ \A d \in Device \ {Home[p]} : /\ mark'[d] = mark[d] /\ vault'[d] = vault[d]
                                   /\ sealed'[d] = sealed[d]
                                   /\ accepted'[d] = accepted[d]
                                   /\ d \in replaced' <=> d \in replaced
  /\ \A q \in Panel \ {p} : op'[q] = op[q]
  /\ disturbed \subseteq disturbed'

LEMMA PanelLocal ==
  ASSUME TypeOK, NEW p \in Panel, PanelStep(p)
  PROVE  Local(p)
<1> USE DEF keyVars, known, TypeOK
<1>1. ASSUME NEW o, Start(p, o)
      PROVE  (\A q \in Panel \ {p} : op'[q] = op[q]) /\ disturbed \subseteq disturbed'
  BY <1>1 DEF Start
<1>2. ASSUME NEW o, Proceed(p, o)
      PROVE  (\A q \in Panel \ {p} : op'[q] = op[q]) /\ disturbed \subseteq disturbed'
  BY <1>2 DEF Proceed
<1>3. CASE OpenPanel(p)
  BY <1>3 DEF OpenPanel, Local
<1>4. ASSUME NEW v \in VaultId, NEW w \in Passphrase, CreateVault(p, v, w)
      PROVE  Local(p)
  BY <1>4, <1>1 DEF CreateVault, SetUp, Local
<1>5. ASSUME NEW f, Enrol(p, f) PROVE Local(p)
  BY <1>5, <1>1 DEF Enrol, SetUp, Local
<1>6. CASE BeginChange(p)
  BY <1>6, <1>1 DEF BeginChange, Local
<1>7. ASSUME NEW w, Rewrap(p, w) PROVE Local(p)
  BY <1>7, <1>2 DEF Rewrap, Local
<1>8. CASE ClearBrowser(p)
  BY <1>8, <1>1 DEF ClearBrowser, ForgetKnown, Local
<1>9. CASE BeginClear(p)
  BY <1>9, <1>1 DEF BeginClear, Local
<1>10. ASSUME NEW entry, Deleted(p, entry)
       PROVE  /\ \A q \in Panel \ {p} : op'[q] = op[q]
              /\ disturbed \subseteq disturbed'
  BY <1>10, <1>2 DEF Deleted
<1>11. CASE DeleteVault(p)
  BY <1>11, <1>10 DEF DeleteVault, Local
<1>12. CASE DeleteMark(p)
  BY <1>12, <1>10 DEF DeleteMark, ForgetKnown, Local
<1>13. CASE BeginExport(p)
  BY <1>13, <1>1 DEF BeginExport, Local
<1>14. CASE ReadSeq(p)
  BY <1>14, <1>2 DEF ReadSeq, Answered, Local
<1>15. CASE ReadTasks(p)
  BY <1>15, <1>2 DEF ReadTasks, Answered, Local
<1>16. CASE SaveSeq(p)
  BY <1>16, <1>2 DEF SaveSeq, Local
<1>17. CASE Publish(p)
  BY <1>17, <1>2 DEF Publish, Local
<1>18. ASSUME NEW f, BeginImport(p, f) PROVE Local(p)
  BY <1>18, <1>1 DEF BeginImport, Local
<1>19. CASE LoadContext(p)
  BY <1>19, <1>2 DEF LoadContext, Local
<1>20. CASE CheckMark(p)
  BY <1>20, <1>2 DEF CheckMark, Local
<1>21. CASE Open(p)
  BY <1>21, <1>2, Zenon DEF Open, Local
<1>22. ASSUME NEW S, Apply(p, S) PROVE Local(p)
  BY <1>22, <1>2 DEF Apply, Local
<1>23. CASE Commit(p)
  BY <1>23, <1>2 DEF Commit, Local
<1>24. CASE BreakOff(p)
  BY <1>24 DEF BreakOff, Local
<1>25. QED
  BY <1>3, <1>4, <1>5, <1>6, <1>7, <1>8, <1>9, <1>11, <1>12, <1>13, <1>14, <1>15,
     <1>16, <1>17, <1>18, <1>19, <1>20, <1>21, <1>22, <1>23, <1>24
  DEF PanelStep, JoinVault, RecoverVault

\* A vault set up where there is none, or where that very vault is, inherits no
\* mark but its own.
LEMMA SetUpKeepsMark ==
  ASSUME NEW d \in Device, NEW id \in VaultId, NEW w \in Passphrase,
         Belongs(d), SetUp(d, id), d \notin replaced',
         vault'[d] = [id |-> id, phrase |-> w],
         UNCHANGED <<mark, sealed, accepted>>
  PROVE  Belongs(d)'
<1>1. vault'[d] # NoVault /\ vault'[d].id = id
  BY NoVaultAssumption
<1>2. vault[d] = NoVault \/ vault[d].id = id
  BY DEF SetUp
<1>3. QED
  BY <1>1, <1>2 DEF Belongs, Known

\* A keystore as before, and an operation that claims no more: then the panel is
\* as faithful as before.
LEMMA StillFaithful ==
  ASSUME NEW p \in Panel, Faithful(p), op[p].stage # "clearing",
         UNCHANGED <<vault, mark, sealed, accepted>>,
         op'[p].stage \notin {"clearing", "reading", "saving", "rewrapping",
                              "checking", "opening", "applying", "committing"}
  PROVE  Faithful(p)'
BY DEF Faithful, Belongs, Known

LEMMA PanelFaithful ==
  ASSUME TypeOK, TypeOK', Equipped, ReadingIsCurrent, NEW p \in Panel, Faithful(p),
         Home[p] \notin disturbed', Home[p] \notin replaced', PanelStep(p),
         Home[p] \notin disturbed
  PROVE  Faithful(p)'
<1> DEFINE d == Home[p]
<1>0. /\ d \in Device /\ op[p] \in Operation /\ mark[d] \in Nat
      /\ Idle.stage = "idle"
  BY DeviceAssumption DEF TypeOK, Idle
<1> USE DEF keyVars, known
<1>1. ASSUME NEW o, Start(p, o) PROVE op[p] = Idle /\ op'[p] = o
  BY <1>1 DEF Start, TypeOK
<1>2. ASSUME NEW o, Proceed(p, o) PROVE op'[p] = o
  BY <1>2 DEF Proceed, TypeOK
<1>3. CASE OpenPanel(p)
  BY <1>3 DEF OpenPanel, Faithful, Belongs, Known
<1>4. ASSUME NEW v \in VaultId, NEW w \in Passphrase, CreateVault(p, v, w)
      PROVE  Faithful(p)'
  <2>1. op[p] = Idle /\ op'[p] = Idle
    BY <1>1, <1>4 DEF CreateVault
  <2>2. /\ UNCHANGED <<mark, sealed, accepted>> /\ SetUp(d, v)
        /\ vault'[d] = [id |-> v, phrase |-> w]
    BY <1>0, <1>4 DEF CreateVault, TypeOK
  <2>3. Belongs(d)
    BY <1>0, <2>1 DEF Faithful
  <2>4. Belongs(d)'
    BY <1>0, <2>2, <2>3, SetUpKeepsMark
  <2>5. QED
    BY <1>0, <2>1, <2>4 DEF Faithful
<1>5. ASSUME NEW f \in Snapshot, Enrol(p, f) PROVE Faithful(p)'
  <2>1. op[p] = Idle /\ op'[p] = [Idle EXCEPT !.stage = "context", !.file = f]
    BY <1>1, <1>5 DEF Enrol
  <2>2. op'[p].stage = "context"
    BY <2>1 DEF Idle
  <2>3. /\ UNCHANGED <<mark, sealed, accepted>> /\ SetUp(d, f.id)
        /\ vault'[d] = [id |-> f.id, phrase |-> f.phrase]
        /\ f.id \in VaultId /\ f.phrase \in Passphrase
    BY <1>0, <1>5 DEF Enrol, TypeOK, Snapshot
  <2>4. Belongs(d)
    BY <1>0, <2>1 DEF Faithful
  <2>5. Belongs(d)'
    BY <1>0, <2>3, <2>4, SetUpKeepsMark
  <2>6. QED
    BY <2>2, <2>5 DEF Faithful
<1>6. CASE BeginChange(p)
  <2>1. /\ op[p] = Idle /\ vault[d] # NoVault
        /\ op'[p] = [Idle EXCEPT !.stage = "rewrapping", !.rec = vault[d]]
        /\ UNCHANGED <<vault, mark, sealed, accepted>>
    BY <1>1, <1>6 DEF BeginChange
  <2>2. op'[p].stage = "rewrapping" /\ op'[p].rec = vault[d]
    BY <2>1 DEF Idle
  <2>3. QED
    BY <1>0, <2>1, <2>2 DEF Faithful, Belongs, Known
<1>7. ASSUME NEW w \in Passphrase, Rewrap(p, w) PROVE Faithful(p)'
  <2>1. /\ op[p].stage = "rewrapping" /\ op'[p] = Idle
        /\ vault'[d] = [op[p].rec EXCEPT !.phrase = w]
        /\ op[p].rec = vault[d] /\ op[p].rec \in Record
        /\ UNCHANGED <<mark, sealed, accepted>>
    BY <1>0, <1>2, <1>7 DEF Rewrap, TypeOK, Faithful, Equipped
  <2>2. vault'[d] # NoVault /\ vault'[d].id = vault[d].id
    <3>1. vault'[d] \in Record /\ vault'[d].id = vault[d].id
      BY <2>1 DEF Record
    <3>2. QED
      BY <3>1, NoVaultAssumption DEF Record
  <2>3. QED
    BY <1>0, <2>1, <2>2 DEF Faithful, Belongs, Known
<1>8. CASE ClearBrowser(p)
  <2>1. op'[p] = Idle /\ mark'[d] = 0
    BY <1>0, <1>1, <1>8 DEF ClearBrowser, TypeOK
  <2>2. QED
    BY <1>0, <2>1 DEF Faithful, Belongs
<1>9. CASE BeginClear(p)
  <2>1. /\ op'[p] = [Idle EXCEPT !.stage = "clearing", !.todo = {"vault", "mark"}]
    BY <1>1, <1>9 DEF BeginClear
  <2>2. op'[p].stage = "clearing" /\ "mark" \in op'[p].todo
    BY <2>1 DEF Idle
  <2>3. QED
    BY <2>1, <2>2 DEF Faithful
<1>10. CASE DeleteVault(p)
  <2>1. /\ op[p].stage = "clearing" /\ mark' = mark
        /\ \/ op[p].todo = {"vault"} /\ op'[p] = Idle
           \/ op'[p] = [op[p] EXCEPT !.todo = @ \ {"vault"}]
    BY <1>2, <1>10 DEF DeleteVault, Deleted
  <2>2. CASE op[p].todo = {"vault"} /\ op'[p] = Idle
    <3>1. mark[d] = 0
      BY <2>1, <2>2 DEF Faithful
    <3>2. QED
      BY <1>0, <2>1, <2>2, <3>1 DEF Faithful, Belongs
  <2>3. CASE op'[p] = [op[p] EXCEPT !.todo = @ \ {"vault"}]
    <3>1. op'[p].stage = "clearing" /\ op'[p].todo = op[p].todo \ {"vault"}
      BY <1>0, <2>1, <2>3 DEF Operation
    <3>2. QED
      BY <2>1, <2>3, <3>1 DEF Faithful
  <2>4. QED
    BY <2>1, <2>2, <2>3
<1>11. CASE DeleteMark(p)
  <2>1. /\ op[p].stage = "clearing" /\ mark'[d] = 0
        /\ \/ op'[p] = Idle
           \/ op'[p] = [op[p] EXCEPT !.todo = @ \ {"mark"}]
    BY <1>0, <1>2, <1>11 DEF DeleteMark, Deleted, TypeOK
  <2>2. op'[p].stage \in {"idle", "clearing"}
    BY <1>0, <2>1 DEF Operation
  <2>3. QED
    BY <2>1, <2>2 DEF Faithful, Belongs
<1>12. CASE BeginExport(p)
  <2>1. /\ op[p] = Idle /\ vault[d] # NoVault
        /\ op'[p] = [Idle EXCEPT !.stage = "reading", !.rec = vault[d],
                                 !.todo = {"seq", "tasks"}]
        /\ UNCHANGED <<vault, mark, sealed, accepted>>
    BY <1>1, <1>12 DEF BeginExport
  <2>2. op'[p].stage = "reading" /\ op'[p].rec = vault[d]
    BY <2>1 DEF Idle
  <2>3. QED
    BY <1>0, <2>1, <2>2 DEF Faithful, Belongs, Known
<1>13. ASSUME NEW part, NEW o \in Operation, o.rec = op[p].rec, Answered(p, part, o)
       PROVE  Faithful(p)'
  <2>1. /\ op[p].stage = "reading"
        /\ \E s \in {"reading", "saving"} :
             op'[p] = [o EXCEPT !.todo = @ \ {part}, !.stage = s]
        /\ UNCHANGED <<vault, mark, sealed, accepted>>
    BY <1>2, <1>13 DEF Answered
  <2>2. op'[p].stage \in {"reading", "saving"} /\ op'[p].rec = op[p].rec
    BY <1>13, <2>1 DEF Operation
  <2>3. QED
    BY <2>1, <2>2 DEF Faithful, Belongs, Known
<1>14. CASE ReadSeq(p)
  <2>1. [op[p] EXCEPT !.seqSeen = mark[d]] \in Operation
    BY <1>0 DEF Operation
  <2>2. QED
    BY <1>0, <1>13, <1>14, <2>1 DEF ReadSeq, Operation
<1>15. CASE ReadTasks(p)
  <2>1. [op[p] EXCEPT !.rows = rows[d]] \in Operation
    BY <1>0 DEF Operation, TypeOK
  <2>2. QED
    BY <1>0, <1>13, <1>15, <2>1 DEF ReadTasks, Operation
<1>16. CASE SaveSeq(p)
  <2>1. /\ op[p].stage = "saving" /\ op[p].rec = vault[d] /\ vault[d] # NoVault
    BY <1>16 DEF SaveSeq, Faithful
  <2>2. /\ op'[p] = [Idle EXCEPT !.stage = "publishing", !.file = Sealed(p)]
        /\ mark'[d] = Sealed(p).seq /\ Sealed(p) \in sealed'[d]
        /\ vault' = vault
    BY <1>0, <1>2, <1>16 DEF SaveSeq, TypeOK
  <2>3. op'[p].stage = "publishing" /\ Sealed(p).id = vault[d].id
    BY <2>1, <2>2 DEF Idle, Sealed
  <2>4. Belongs(d)'
    BY <2>1, <2>2, <2>3 DEF Belongs, Known
  <2>5. QED
    BY <2>1, <2>2, <2>3, <2>4 DEF Faithful
<1>17. CASE Publish(p)
  <2>1. op[p].stage = "publishing" /\ op'[p] = Idle
        /\ UNCHANGED <<vault, mark, sealed, accepted>>
    BY <1>2, <1>17 DEF Publish
  <2>2. QED
    BY <1>0, <2>1, StillFaithful
<1>18. ASSUME NEW f \in Snapshot, BeginImport(p, f) PROVE Faithful(p)'
  <2>1. /\ op[p] = Idle /\ op'[p] = [Idle EXCEPT !.stage = "context", !.file = f]
        /\ UNCHANGED <<vault, mark, sealed, accepted>>
    BY <1>1, <1>18 DEF BeginImport
  <2>2. op'[p].stage = "context"
    BY <2>1 DEF Idle
  <2>3. QED
    BY <1>0, <2>1, <2>2, StillFaithful
<1>19. CASE LoadContext(p)
  <2>1. /\ op[p].stage = "context"
        /\ UNCHANGED <<vault, mark, sealed, accepted>>
        /\ \/ op'[p] = Idle
           \/ /\ vault[d] # NoVault /\ vault[d].id = op[p].file.id
              /\ op'[p] = [op[p] EXCEPT !.stage = "checking", !.rec = vault[d]]
    BY <1>2, <1>19 DEF LoadContext
  <2>2. CASE op'[p] = Idle
    BY <1>0, <2>1, <2>2, StillFaithful
  <2>3. CASE /\ vault[d] # NoVault /\ vault[d].id = op[p].file.id
             /\ op'[p] = [op[p] EXCEPT !.stage = "checking", !.rec = vault[d]]
    <3>1. op'[p].stage = "checking" /\ op'[p].file = op[p].file
      BY <1>0, <2>3 DEF Operation
    <3>2. QED
      BY <2>1, <2>3, <3>1 DEF Faithful, Belongs, Known
  <2>4. QED
    BY <2>1, <2>2, <2>3
<1>20. CASE CheckMark(p) \/ Open(p) \/ \E S \in SUBSET Task : Apply(p, S)
  <2>1. /\ op[p].stage \in {"checking", "opening", "applying"}
        /\ UNCHANGED <<vault, mark, sealed, accepted>>
    BY <1>20 DEF CheckMark, Open, Apply
  <2>2. \/ op'[p] = Idle
        \/ \E td, sn : \E st \in {"opening", "applying", "committing"} :
             op'[p] = [op[p] EXCEPT !.seqSeen = sn, !.todo = td, !.stage = st]
    <3>1. CASE CheckMark(p)
      <4>1. \/ op'[p] = Idle
            \/ op'[p] = [op[p] EXCEPT !.stage = "opening", !.seqSeen = mark[d]]
        BY <1>2, <3>1 DEF CheckMark
      <4>2. [op[p] EXCEPT !.stage = "opening", !.seqSeen = mark[d]]
              = [op[p] EXCEPT !.seqSeen = mark[d], !.todo = op[p].todo, !.stage = "opening"]
        BY <1>0 DEF Operation
      <4>3. QED
        BY <4>1, <4>2
    <3>2. CASE Open(p)
      <4> DEFINE T == ToApply(d, op[p].file)
                 S == IF T = {} THEN "committing" ELSE "applying"
      <4>1. \/ op'[p] = Idle
            \/ op'[p] = [op[p] EXCEPT !.todo = T, !.stage = S]
        BY <1>2, <3>2, Zenon DEF Open
      <4>2. S \in {"applying", "committing"}
        OBVIOUS
      <4> HIDE DEF T, S
      <4>3. [op[p] EXCEPT !.todo = T, !.stage = S]
              = [op[p] EXCEPT !.seqSeen = op[p].seqSeen, !.todo = T, !.stage = S]
        BY <1>0 DEF Operation
      <4>4. QED
        BY <4>1, <4>2, <4>3
    <3>3. ASSUME NEW S \in SUBSET Task, Apply(p, S)
          PROVE  \E td, sn : \E st \in {"opening", "applying", "committing"} :
                   op'[p] = [op[p] EXCEPT !.seqSeen = sn, !.todo = td, !.stage = st]
      <4> DEFINE N == IF op[p].todo = S THEN "committing" ELSE "applying"
                 T == op[p].todo \ S
      <4>1. op'[p] = [op[p] EXCEPT !.todo = T, !.stage = N]
        BY <1>2, <3>3 DEF Apply
      <4>2. N \in {"applying", "committing"}
        OBVIOUS
      <4> HIDE DEF T, N
      <4>3. [op[p] EXCEPT !.todo = T, !.stage = N]
              = [op[p] EXCEPT !.seqSeen = op[p].seqSeen, !.todo = T, !.stage = N]
        BY <1>0 DEF Operation
      <4>4. QED
        BY <4>1, <4>2, <4>3
    <3>4. QED
      BY <1>20, <3>1, <3>2, <3>3
  <2>3. CASE op'[p] = Idle
    BY <1>0, <2>1, <2>3, StillFaithful
  <2>4. ASSUME NEW td, NEW sn, NEW st \in {"opening", "applying", "committing"},
               op'[p] = [op[p] EXCEPT !.seqSeen = sn, !.todo = td, !.stage = st]
        PROVE  Faithful(p)'
    <3>1. op'[p].stage = st /\ op'[p].file = op[p].file
      BY <1>0, <2>4 DEF Operation
    <3>2. QED
      BY <2>1, <2>4, <3>1 DEF Faithful, Belongs, Known
  <2>5. QED
    BY <2>2, <2>3, <2>4
<1>21. CASE Commit(p)
  <2>1. /\ op[p].stage = "committing" /\ op[p].file \in Snapshot
        /\ op[p].seqSeen = mark[d] /\ op[p].file.seq >= op[p].seqSeen
        /\ vault[d] # NoVault /\ op[p].file.id = vault[d].id
    BY <1>21 DEF Commit, Equipped, ReadingIsCurrent, Faithful
  <2>2. /\ op'[p] = Idle /\ op[p].file \in accepted'[d]
        /\ vault' = vault
        /\ IF op[p].file.seq > op[p].seqSeen THEN mark'[d] = op[p].file.seq
                                             ELSE mark'[d] = mark[d]
    BY <1>0, <1>2, <1>21 DEF Commit, TypeOK
  <2>3. mark'[d] = op[p].file.seq
    BY <1>0, <2>1, <2>2 DEF Snapshot
  <2>4. Belongs(d)'
    BY <2>1, <2>2, <2>3 DEF Belongs, Known
  <2>5. QED
    BY <1>0, <2>2, <2>4 DEF Faithful
<1>22. CASE BreakOff(p)
  <2>1. /\ op[p].stage # "clearing" /\ op'[p] = Idle
        /\ UNCHANGED <<vault, mark, sealed, accepted>>
    BY <1>22 DEF BreakOff, TypeOK
  <2>2. QED
    BY <1>0, <2>1, StillFaithful
<1>23. QED
  BY ReadableType, <1>3, <1>4, <1>5, <1>6, <1>7, <1>8, <1>9, <1>10, <1>11, <1>12,
     <1>14, <1>15, <1>16, <1>17, <1>18, <1>19, <1>20, <1>21, <1>22
  DEF PanelStep, JoinVault, RecoverVault, TypeOK

\* A device ceases to count as one where a vault was set up over another when
\* its mark is forgotten.
LEMMA ForgottenIsFaithful ==
  ASSUME TypeOK, NEW p \in Panel, PanelStep(p),
         Home[p] \in replaced, Home[p] \notin replaced'
  PROVE  mark'[Home[p]] = 0 /\ op'[p].stage \in {"idle", "clearing"}
<1>0. Home[p] \in Device /\ op[p] \in Operation /\ Idle.stage = "idle"
  BY DeviceAssumption DEF TypeOK, Idle
<1>1. ClearBrowser(p) \/ DeleteMark(p)
  BY DEF PanelStep, OpenPanel, CreateVault, JoinVault, RecoverVault, Enrol, SetUp,
         BeginChange, Rewrap, BeginClear, DeleteVault, Deleted, BeginExport, ReadSeq,
         ReadTasks, Answered, SaveSeq, Publish, BeginImport, LoadContext, CheckMark,
         Open, Apply, Commit, BreakOff, keyVars, known
<1>2. CASE ClearBrowser(p)
  BY <1>0, <1>2 DEF ClearBrowser, Start, TypeOK
<1>3. CASE DeleteMark(p)
  <2>1. op'[p] = Idle \/ op'[p] = [op[p] EXCEPT !.todo = @ \ {"mark"}]
    BY <1>3 DEF DeleteMark, Deleted, Proceed, TypeOK
  <2>2. op'[p].stage \in {"idle", "clearing"}
    BY <1>0, <1>3, <2>1 DEF DeleteMark, Deleted, Operation
  <2>3. QED
    BY <1>0, <1>3, <2>2 DEF DeleteMark, TypeOK
<1>4. QED
  BY <1>1, <1>2, <1>3

LEMMA MarkStays == IInv /\ IInv' /\ MarkKept /\ [Next]_vars => MarkKept'
<1> SUFFICES ASSUME IInv, IInv', MarkKept, [Next]_vars PROVE MarkKept'
  OBVIOUS
<1>0. \A q \in Panel : Home[q] \in Device
  BY DeviceAssumption
<1>1. ASSUME NEW p \in Panel, PanelStep(p) PROVE MarkKept'
  <2>1. Local(p)
    BY <1>1, PanelLocal DEF IInv
  <2>2. ASSUME NEW q \in Panel, Home[q] \notin disturbed', Home[q] \notin replaced',
               Lone(q)'
        PROVE  Faithful(q)'
    <3>1. Home[q] \notin disturbed
      BY <2>1, <2>2 DEF Local
    <3>2. CASE Home[q] # Home[p]
      <4>1. /\ mark'[Home[q]] = mark[Home[q]] /\ vault'[Home[q]] = vault[Home[q]]
            /\ sealed'[Home[q]] = sealed[Home[q]]
            /\ accepted'[Home[q]] = accepted[Home[q]]
            /\ Home[q] \notin replaced /\ op'[q] = op[q]
        BY <1>0, <2>1, <2>2, <3>2 DEF Local
      <4>2. Lone(q)
        BY <2>1, <2>2, <3>2 DEF Lone, Local
      <4>3. QED
        BY <3>1, <4>1, <4>2 DEF MarkKept, Faithful, Belongs, Known
    <3>3. CASE Home[q] = Home[p] /\ OpenPanel(p)
      <4>1. UNCHANGED <<vault, mark, op, sealed, accepted, replaced>>
        BY <3>3 DEF OpenPanel, keyVars, known
      <4>2. QED
        BY <2>2, <3>1, <4>1 DEF MarkKept, Lone, Faithful, Belongs, Known
    <3>4. CASE Home[q] = Home[p] /\ StepOf(p)
      <4>1. q # p => op'[q] = Idle
        BY <2>1, <2>2, <3>4, Zenon DEF StepOf, Local
      <4>2. CASE Home[p] \in replaced
        <5>1. mark'[Home[p]] = 0 /\ op'[q].stage \in {"idle", "clearing"}
          BY <1>1, <2>2, <3>4, <4>1, <4>2, ForgottenIsFaithful DEF IInv, Idle
        <5>2. QED
          BY <3>4, <5>1 DEF Faithful, Belongs
      <4>3. CASE Home[p] \notin replaced
        <5>1. Lone(p)
          BY <2>2, <3>4, Zenon DEF Lone, StepOf
        <5>2. Faithful(p)'
          <6>1. Faithful(p)
            BY <3>1, <3>4, <4>3, <5>1 DEF MarkKept
          <6>2. QED
            BY <1>1, <2>2, <3>1, <3>4, <6>1, PanelFaithful DEF IInv
        <5>3. CASE q # p
          <6>1. op'[p] = Idle
            BY <2>2, <3>4, <5>3 DEF Lone
          <6>2. Belongs(Home[q])'
            BY <3>4, <5>2, <6>1 DEF Faithful, Idle
          <6>3. QED
            BY <4>1, <5>3, <6>2 DEF Faithful, Idle
        <5>4. QED
          BY <5>2, <5>3
      <4>4. QED
        BY <4>2, <4>3
    <3>5. QED
      BY <1>1, <3>2, <3>3, <3>4, PanelIsolated DEF IInv
  <2>3. ASSUME NEW d \in Device, \A q \in Panel : Home[q] # d PROVE mark'[d] = 0
    BY <2>1, <2>3 DEF Local, MarkKept
  <2>4. QED
    BY <2>2, <2>3 DEF MarkKept
<1>2. CASE (\E d \in Device, t \in Task : Edit(d, t)) \/ UNCHANGED vars
  <2>1. UNCHANGED <<vault, mark, op, sealed, accepted, replaced, disturbed>>
    BY <1>2 DEF Edit, vars, keyVars, known
  <2>2. QED
    BY <2>1 DEF MarkKept, Lone, Faithful, Belongs, Known
<1>3. QED
  BY <1>1, <1>2 DEF Next

\* "Both, always": with nothing under way the mark is that of a snapshot of the
\* present vault which the device has sealed or imported, whatever was created,
\* joined, exported, imported, forgotten or broken off before, from however many
\* panels, unless a vault was set up over another one or operations overlapped.
THEOREM MarkIsTheVaults == Spec => []MarkBelongs
<1>1. Init => MarkKept
  <2> SUFFICES ASSUME Init PROVE MarkKept
    OBVIOUS
  <2>1. \A p \in Panel : op[p] = Idle /\ mark[Home[p]] = 0
    BY DeviceAssumption DEF Init
  <2>2. \A p \in Panel : Faithful(p)
    BY <2>1 DEF Faithful, Belongs, Idle
  <2>3. QED
    BY <2>2 DEF MarkKept, Init
<1>2. MarkKept => MarkBelongs
  <2> SUFFICES ASSUME MarkKept, NEW d \in Device \ (disturbed \cup replaced), Quiet(d),
                      mark[d] # 0
               PROVE  Belongs(d)
    BY DEF MarkBelongs, Belongs
  <2>1. PICK p \in Panel : Home[p] = d
    BY DEF MarkKept
  <2>2. op[p] = Idle
    BY <2>1 DEF Quiet
  <2>3. Lone(p)
    BY <2>1 DEF Quiet, Lone
  <2>4. QED
    BY <2>1, <2>2, <2>3 DEF MarkKept, Faithful, Idle
<1>3. QED
  BY <1>1, <1>2, MarkStays, Invariant, PTL DEF Spec

-----------------------------------------------------------------------------
(* What an import has written stays until it reports success.              *)

\* The part of HeldSoFar about one panel.
Held(p) ==
  op[p].stage \in {"applying", "committing"} =>
    \A t \in Task : \/ op[p].stage = "applying" /\ t \in op[p].todo
                    \/ rows[Home[p]][t] >= op[p].file.rows[t]

LEMMA PanelHeld ==
  ASSUME TypeOK, Equipped, NEW p \in Panel, Held(p), PanelStep(p)
  PROVE  Held(p)'
<1> DEFINE d == Home[p]
<1>0. d \in Device /\ op[p] \in Operation /\ Idle.stage = "idle"
  BY DeviceAssumption DEF TypeOK, Idle
<1>1. CASE Open(p)
  <2> DEFINE T == ToApply(d, op[p].file)
             S == IF T = {} THEN "committing" ELSE "applying"
  <2>1. /\ op[p].stage = "opening" /\ rows' = rows
        /\ op'[p] = Idle \/ op'[p] = [op[p] EXCEPT !.todo = T, !.stage = S]
    BY <1>1, Zenon DEF Open, Proceed, TypeOK
  <2>2. op[p].file \in Snapshot /\ rows[d] \in Rows
    BY <1>0, <2>1 DEF Equipped, TypeOK
  <2>3. \A t \in Task : t \in T \/ rows[d][t] >= op[p].file.rows[t]
    BY <2>2 DEF ToApply, Rows, Snapshot
  <2>4. T = {} => S = "committing"
    OBVIOUS
  <2>5. T # {} => S = "applying"
    OBVIOUS
  <2> HIDE DEF T, S
  <2>6. CASE op'[p] = Idle
    BY <1>0, <2>6 DEF Held
  <2>7. CASE op'[p] = [op[p] EXCEPT !.todo = T, !.stage = S]
    <3>1. op'[p].todo = T /\ op'[p].stage = S /\ op'[p].file = op[p].file
      BY <1>0, <2>7 DEF Operation
    <3>2. \A t \in Task : \/ S = "applying" /\ t \in T
                          \/ rows[d][t] >= op[p].file.rows[t]
      BY <2>3, <2>4, <2>5
    <3>3. QED
      BY <2>1, <3>1, <3>2 DEF Held
  <2>8. QED
    BY <2>1, <2>6, <2>7
<1>2. ASSUME NEW S \in SUBSET Task, Apply(p, S) PROVE Held(p)'
  <2> DEFINE N == IF op[p].todo = S THEN "committing" ELSE "applying"
             T == op[p].todo \ S
  <2>1. /\ op[p].stage = "applying" /\ op[p].file \in Snapshot /\ S \subseteq op[p].todo
        /\ op'[p] = [op[p] EXCEPT !.todo = T, !.stage = N]
        /\ rows'[d] = [t \in Task |-> IF t \in S THEN op[p].file.rows[t] ELSE rows[d][t]]
    BY <1>0, <1>2 DEF Apply, Proceed, TypeOK, Equipped
  <2>2. N = "applying" \/ (N = "committing" /\ T = {})
    BY <2>1
  <2>3. \A t \in Task : t \in T \/ rows'[d][t] >= op[p].file.rows[t]
    BY <1>0, <2>1 DEF Held, Snapshot, Rows, TypeOK
  <2> HIDE DEF T, N
  <2>4. op'[p].todo = T /\ op'[p].stage = N /\ op'[p].file = op[p].file
    BY <1>0, <2>1 DEF Operation
  <2>5. QED
    BY <2>2, <2>3, <2>4 DEF Held
<1>3. ASSUME NEW o, op'[p] = o, o.stage \notin {"applying", "committing"} PROVE Held(p)'
  BY <1>3 DEF Held
<1>4. ASSUME NEW o, Start(p, o) \/ Proceed(p, o) PROVE op'[p] = o
  BY <1>4 DEF Start, Proceed, TypeOK
<1>5. CASE OpenPanel(p)
  BY <1>0, <1>5, <1>3 DEF OpenPanel
<1>6. CASE \/ \E v \in VaultId, w \in Passphrase : CreateVault(p, v, w)
           \/ \E w \in Passphrase : Rewrap(p, w)
           \/ ClearBrowser(p) \/ Publish(p) \/ Commit(p) \/ BreakOff(p)
  <2>1. op'[p] = Idle
    BY <1>4, <1>6 DEF CreateVault, Rewrap, ClearBrowser, Publish, Commit, BreakOff, TypeOK
  <2>2. QED
    BY <1>0, <1>3, <2>1
<1>7. ASSUME NEW f, Enrol(p, f) \/ BeginImport(p, f) PROVE Held(p)'
  <2>1. op'[p] = [Idle EXCEPT !.stage = "context", !.file = f]
    BY <1>4, <1>7 DEF Enrol, BeginImport
  <2>2. op'[p].stage = "context"
    BY <2>1 DEF Idle
  <2>3. QED
    BY <1>3, <2>2
<1>8. CASE BeginChange(p)
  <2>1. op'[p].stage = "rewrapping"
    BY <1>4, <1>8 DEF BeginChange, Idle
  <2>2. QED
    BY <1>3, <2>1
<1>9. CASE BeginClear(p)
  <2>1. op'[p].stage = "clearing"
    BY <1>4, <1>9 DEF BeginClear, Idle
  <2>2. QED
    BY <1>3, <2>1
<1>10. ASSUME NEW entry, Deleted(p, entry) PROVE Held(p)'
  <2>1. /\ op[p].stage = "clearing"
        /\ op'[p] = Idle \/ op'[p] = [op[p] EXCEPT !.todo = @ \ {entry}]
    BY <1>4, <1>10 DEF Deleted
  <2>2. op'[p].stage \in {"idle", "clearing"}
    BY <1>0, <2>1 DEF Operation
  <2>3. QED
    BY <1>3, <2>2
<1>11. CASE BeginExport(p)
  <2>1. op'[p].stage = "reading"
    BY <1>4, <1>11 DEF BeginExport, Idle
  <2>2. QED
    BY <1>3, <2>1
<1>12. ASSUME NEW part, NEW o \in Operation, Answered(p, part, o) PROVE Held(p)'
  <2>1. \E s \in {"reading", "saving"} :
          op'[p] = [o EXCEPT !.todo = @ \ {part}, !.stage = s]
    BY <1>4, <1>12 DEF Answered
  <2>2. op'[p].stage \in {"reading", "saving"}
    BY <1>12, <2>1 DEF Operation
  <2>3. QED
    BY <1>3, <2>2
<1>13. CASE ReadSeq(p)
  <2>1. [op[p] EXCEPT !.seqSeen = mark[d]] \in Operation
    BY <1>0 DEF Operation, TypeOK
  <2>2. QED
    BY <1>12, <1>13, <2>1 DEF ReadSeq
<1>14. CASE ReadTasks(p)
  <2>1. [op[p] EXCEPT !.rows = rows[d]] \in Operation
    BY <1>0 DEF Operation, TypeOK
  <2>2. QED
    BY <1>12, <1>14, <2>1 DEF ReadTasks
<1>15. CASE SaveSeq(p)
  <2>1. op'[p].stage = "publishing"
    BY <1>4, <1>15 DEF SaveSeq, Idle
  <2>2. QED
    BY <1>3, <2>1
<1>16. CASE LoadContext(p)
  <2>1. \/ op'[p] = Idle
        \/ op'[p] = [op[p] EXCEPT !.stage = "checking", !.rec = vault[d]]
    BY <1>4, <1>16 DEF LoadContext
  <2>2. op'[p].stage \in {"idle", "checking"}
    BY <1>0, <2>1 DEF Operation
  <2>3. QED
    BY <1>3, <2>2
<1>17. CASE CheckMark(p)
  <2>1. \/ op'[p] = Idle
        \/ op'[p] = [op[p] EXCEPT !.stage = "opening", !.seqSeen = mark[d]]
    BY <1>4, <1>17 DEF CheckMark
  <2>2. op'[p].stage \in {"idle", "opening"}
    BY <1>0, <2>1 DEF Operation
  <2>3. QED
    BY <1>3, <2>2
<1>18. QED
  BY <1>1, <1>2, <1>5, <1>6, <1>7, <1>8, <1>9, <1>10, <1>11, <1>13, <1>14, <1>15,
     <1>16, <1>17
  DEF PanelStep, JoinVault, RecoverVault, DeleteVault, DeleteMark

\* Only applying writes rows.
LEMMA RowsKept ==
  ASSUME TypeOK, NEW p \in Panel, PanelStep(p)
  PROVE  /\ rows' = rows \/ op[p].stage = "applying"
         /\ \A d \in Device \ {Home[p]} : rows'[d] = rows[d]
  BY DEF PanelStep, OpenPanel, CreateVault, JoinVault, RecoverVault, Enrol, BeginChange,
         Rewrap, ClearBrowser, BeginClear, DeleteVault, DeleteMark, Deleted,
         BeginExport, ReadSeq, ReadTasks, Answered, SaveSeq, Publish, BeginImport,
         LoadContext, CheckMark, Open, Apply, Commit, BreakOff, TypeOK

LEMMA HeldStays == IInv /\ HeldSoFar /\ [Next]_vars => HeldSoFar'
<1> SUFFICES ASSUME IInv, HeldSoFar, [Next]_vars,
                    NEW q \in Panel, Home[q] \notin disturbed'
             PROVE  Held(q)'
  BY DEF HeldSoFar, Held
<1>0. Home[q] \in Device
  BY DeviceAssumption
<1>1. ASSUME NEW p \in Panel, PanelStep(p) PROVE Held(q)'
  <2>1. Local(p) /\ Home[q] \notin disturbed
    BY <1>1, PanelLocal DEF IInv, Local
  <2>2. Held(q)
    BY <2>1 DEF HeldSoFar, Held
  <2>3. CASE q = p
    BY <1>1, <2>2, <2>3, PanelHeld DEF IInv
  <2>4. CASE q # p /\ op[q].stage \notin {"applying", "committing"}
    BY <2>1, <2>4 DEF Local, Held
  <2>5. CASE q # p /\ op[q].stage \in {"applying", "committing"}
    <3>1. rows'[Home[q]] = rows[Home[q]]
      <4>1. CASE Home[q] = Home[p]
        <5>1. op[p] = Idle
          BY <2>1, <2>5, <4>1 DEF IInv, Alone, Idle
        <5>2. QED
          BY <1>1, <5>1, RowsKept DEF IInv, Idle
      <4>2. CASE Home[q] # Home[p]
        BY <1>0, <1>1, <4>2, RowsKept DEF IInv
      <4>3. QED
        BY <4>1, <4>2
    <3>2. QED
      BY <2>1, <2>2, <2>5, <3>1 DEF Local, Held
  <2>6. QED
    BY <2>3, <2>4, <2>5
<1>2. ASSUME NEW d \in Device, NEW t \in Task, Edit(d, t) PROVE Held(q)'
  <2>1. /\ UNCHANGED <<op, disturbed>> /\ edits \in Nat
        /\ rows' = [rows EXCEPT ![d] = [@ EXCEPT ![t] = edits + 1]]
        /\ rows \in [Device -> Rows]
    BY <1>2 DEF Edit, IInv, TypeOK
  <2>2. SUFFICES ASSUME op[q].stage \in {"applying", "committing"}
                 PROVE  \A s \in Task :
                          \/ op[q].stage = "applying" /\ s \in op[q].todo
                          \/ rows'[Home[q]][s] >= op[q].file.rows[s]
    BY <2>1 DEF Held
  <2>3. op[q].file \in Snapshot /\ \A s \in Task : op[q].file.rows[s] <= edits
    BY <2>2 DEF IInv, Equipped, RowsAreGenuine, IsGenuine
  <2>4. \A s \in Task : \/ rows'[Home[q]][s] = rows[Home[q]][s]
                        \/ rows'[Home[q]][s] = edits + 1
    BY <1>0, <2>1 DEF Rows
  <2>5. \A s \in Task : op[q].file.rows[s] \in Nat
    BY <2>3 DEF Snapshot, Rows
  <2>6. \A s \in Task : \/ op[q].stage = "applying" /\ s \in op[q].todo
                        \/ rows[Home[q]][s] >= op[q].file.rows[s]
    BY <2>1, <2>2 DEF HeldSoFar
  <2>7. QED
    BY <2>1, <2>3, <2>4, <2>5, <2>6
<1>3. CASE UNCHANGED vars
  BY <1>3 DEF vars, keyVars, known, HeldSoFar, Held
<1>4. QED
  BY <1>1, <1>2, <1>3 DEF Next

\* An import that reports success leaves no row staler than the snapshot, with
\* any number of edits in between and any of its writes broken off, on any
\* device whose operations do not overlap.
THEOREM ImportsAreHeld == Spec => ImportedIsHeld
<1>1. Init => HeldSoFar
  BY DEF Init, HeldSoFar, Idle
<1>2. HeldSoFar /\ [Next]_vars =>
        [\A p \in Panel :
           /\ op[p].stage = "committing" /\ op[p].file \in accepted'[Home[p]]
           /\ Home[p] \notin disturbed
           => \A t \in Task : rows[Home[p]][t] >= op[p].file.rows[t]]_vars
  BY DEF HeldSoFar
<1>3. QED
  BY <1>1, <1>2, HeldStays, Invariant, PTL DEF Spec, ImportedIsHeld

=============================================================================
