--------------------------- MODULE NagRearmProofs ---------------------------
(***************************************************************************)
(* Re-arms of the phone that overlap in any number and order leave exactly *)
(* the plan pending, for every planner, every set of identifiers and every *)
(* number of calls, unless rows or settings change under them.             *)
(***************************************************************************)
EXTENDS NagRearm, TLAPS

\* A plan is one for the identifiers there are.
LEMMA PlanType ==
  ASSUME TypeOK
  PROVE  /\ PlanOf[<<db, knobs>>] \in Armed
         /\ \A c \in Call : PlanFor(c) \in Armed
         /\ DefaultKnobs \in Knobs
BY PlanAssumption DEF TypeOK, PlanFor

\* The initial state has no call under way and is tainted by what an earlier
\* run of the app may have left pending.
LEMMA InitIInv == Init => IInv
<1> SUFFICES ASSUME Init PROVE IInv
  OBVIOUS
<1>1. TypeOK
  BY PlanAssumption DEF Init, TypeOK, Stage, Armed
<1>2. tainted /\ ~alive /\ ~restoring
  BY Zenon DEF Init
<1>3. owed = 0 /\ stray = {} /\ \A c \in Call : stage[c] = "idle" /\ todo[c] = {}
  BY DEF Init
<1>4. QED
  BY <1>1, <1>2, <1>3 DEF IInv, ReadingsAreCurrent, WrongIsTemporary, DeadIsStill

-----------------------------------------------------------------------------
(* Type correctness, one step per group of actions.                        *)

LEMMA NextType == TypeOK /\ [Next]_vars => TypeOK'
<1> SUFFICES ASSUME TypeOK, [Next]_vars PROVE TypeOK'
  OBVIOUS
<1> USE DEF TypeOK, appVars, callVars, Stage, Armed
<1>0. /\ \A c \in Call : PlanFor(c) \in [Id -> Content \union {None}]
      /\ DefaultKnobs \in Knobs
  BY PlanType
<1>1. ASSUME NEW c \in Call, \/ Launch(c) \/ SettingsRestored(c) \/ Refresh(c)
                             \/ RearmAfterChange(c)
                             \/ \E k \in Knobs : UpdateSettings(c, k)
      PROVE  TypeOK'
  <2>1. CASE Launch(c)
    <3>1. alive' \in BOOLEAN /\ restoring' \in BOOLEAN /\ tainted' \in BOOLEAN
      BY <2>1, Zenon DEF Launch
    <3>2. QED
      BY <1>0, <2>1, <3>1 DEF Launch, Begin
  <2>2. CASE SettingsRestored(c)
    BY <2>2 DEF SettingsRestored, Begin
  <2>3. CASE Refresh(c)
    BY <2>3 DEF Refresh, Begin
  <2>4. CASE RearmAfterChange(c)
    BY <2>4 DEF RearmAfterChange, Begin
  <2>5. CASE \E k \in Knobs : UpdateSettings(c, k)
    BY <2>5 DEF UpdateSettings, Begin
  <2>6. QED
    BY <1>1, <2>1, <2>2, <2>3, <2>4, <2>5
<1>2. ASSUME NEW c \in Call, CallStep(c)
      PROVE  TypeOK'
  <2>1. CASE Load(c) \/ List(c) \/ StartScheduling(c) \/ Return(c)
    <3>1. CASE Load(c)
      <4>1. tainted' \in BOOLEAN /\ alive' \in BOOLEAN /\ restoring' \in BOOLEAN
        BY <3>1, Zenon DEF Load
      <4>2. QED
        BY <3>1, <4>1 DEF Load
    <3>2. CASE List(c) \/ StartScheduling(c) \/ Return(c)
      BY <3>2 DEF List, StartScheduling, Return
    <3>3. QED
      BY <2>1, <3>1, <3>2
  <2>2. CASE \E i \in Id : Cancel(c, i) \/ Schedule(c, i)
    <3>1. PICK i \in Id : Cancel(c, i) \/ Schedule(c, i)
      BY <2>2
    <3>2. PlanFor(c)[i] \in Content \union {None}
      BY <1>0
    <3>3. pending' \in Armed /\ todo' \in [Call -> SUBSET Id]
      BY <3>1, <3>2 DEF Cancel, Schedule
    <3>4. UNCHANGED <<appVars, stage, loaded, asked, stray, tainted, changes,
                      faults>>
      BY <3>1 DEF Cancel, Schedule
    <3>5. QED
      BY <3>3, <3>4
  <2>3. QED
    BY <1>2, <2>1, <2>2 DEF CallStep
<1>3. ASSUME NEW c \in Call, Fails(c)
      PROVE  TypeOK'
  <2>1. Asked(c) \subseteq Id \X (Content \union {None})
    BY <1>0 DEF Asked
  <2>2. stray' \subseteq Id \X (Content \union {None})
    BY <1>3, <2>1 DEF Fails
  <2>3. QED
    BY <1>3, <2>2 DEF Fails, Fault
<1>4. ASSUME NEW rows \in Db, Change(rows)
      PROVE  TypeOK'
  BY <1>4 DEF Change
<1>5. ASSUME NEW a \in stray, StrayLands(a)
      PROVE  TypeOK'
  BY <1>5 DEF StrayLands
<1>6. CASE Kill
  <2>1. alive' \in BOOLEAN /\ restoring' \in BOOLEAN /\ tainted' \in BOOLEAN
    BY <1>6, Zenon DEF Kill
  <2>2. QED
    BY <1>6, <2>1 DEF Kill, Fault
<1>7. CASE UNCHANGED vars
  BY <1>7 DEF vars
<1>8. QED
  BY <1>1, <1>2, <1>3, <1>4, <1>5, <1>6, <1>7 DEF Next, StrayStep

-----------------------------------------------------------------------------
(* The rest of the invariant, one lemma per group of actions.              *)

\* A kill, a failed call and a stray one leave or find the phone tainted.
LEMMA TaintedSteps ==
  ASSUME IInv, \/ Kill
               \/ \E c \in Call : Fails(c)
               \/ \E a \in stray : StrayLands(a)
  PROVE  ReadingsAreCurrent' /\ WrongIsTemporary' /\ DeadIsStill'
<1>1. tainted'
  <2>1. CASE Kill \/ \E c \in Call : Fails(c)
    BY <2>1, Zenon DEF Kill, Fails
  <2>2. CASE \E a \in stray : StrayLands(a)
    <3>1. tainted
      BY <2>2 DEF IInv, ReadingsAreCurrent
    <3>2. tainted' = tainted
      BY <2>2 DEF StrayLands
    <3>3. QED
      BY <3>1, <3>2, Zenon
  <2>3. QED
    BY <2>1, <2>2
<1>2. DeadIsStill'
  <2>1. CASE Kill
    <3>1. ~restoring'
      BY <2>1, Zenon DEF Kill
    <3>2. /\ owed' = 0 /\ stray' = {}
          /\ \A c \in Call : stage'[c] = "idle" /\ todo'[c] = {}
      BY <2>1 DEF Kill
    <3>3. QED
      BY <1>1, <3>1, <3>2, Zenon DEF DeadIsStill
  <2>2. CASE ~Kill
    <3>1. alive' = alive /\ alive
      <4>1. alive' = alive
        BY <2>2, Zenon DEF Fails, StrayLands, appVars
      <4>2. alive
        <5> SUFFICES ASSUME ~alive PROVE FALSE
          OBVIOUS
        <5>1. stray = {} /\ \A c \in Call : stage[c] = "idle" /\ todo[c] = {}
          BY Zenon DEF IInv, DeadIsStill
        <5>2. QED
          BY <2>2, <5>1 DEF Fails
      <4>3. QED
        BY <4>1, <4>2
    <3>2. QED
      BY <3>1, Zenon DEF DeadIsStill
  <2>3. QED
    BY <2>1, <2>2
<1>3. QED
  BY <1>1, <1>2 DEF ReadingsAreCurrent, WrongIsTemporary

\* A new call makes up for whatever is wrong; the rows and the settings may
\* change with it, or wait for it to be called.
LEMMA CallingSteps ==
  ASSUME IInv, \/ \E c \in Call : \/ Launch(c) \/ SettingsRestored(c)
                                  \/ Refresh(c) \/ RearmAfterChange(c)
                                  \/ \E k \in Knobs : UpdateSettings(c, k)
               \/ \E rows \in Db : Change(rows)
  PROVE  ReadingsAreCurrent' /\ WrongIsTemporary' /\ DeadIsStill'
<1>1. CASE \E rows \in Db : Change(rows)
  <2>1. PICK rows \in Db : Change(rows)
    BY <1>1
  <2>2. /\ stage' = stage /\ loaded' = loaded /\ asked' = asked /\ todo' = todo
        /\ stray' = stray /\ knobs' = knobs /\ owed' = owed + 1
    BY <2>1 DEF Change, callVars
  <2>3. alive /\ alive' = alive /\ tainted' = (tainted \/ Held({}))
    BY <2>1, Zenon DEF Change
  <2>4. ReadingsAreCurrent'
    <3>1. ~tainted' => stray' = {} /\ \A c \in Call : ~Holds(c)'
      BY <2>2, <2>3 DEF Held, Holds
    <3>2. QED
      BY <3>1, Zenon DEF ReadingsAreCurrent
  <2>5. WrongIsTemporary'
    BY <2>2 DEF IInv, TypeOK, WrongIsTemporary
  <2>6. QED
    BY <2>3, <2>4, <2>5, Zenon DEF DeadIsStill
<1>2. CASE \E c \in Call : \/ Launch(c) \/ SettingsRestored(c)
                           \/ Refresh(c) \/ RearmAfterChange(c)
                           \/ \E k \in Knobs : UpdateSettings(c, k)
  <2>1. PICK c \in Call : \/ Launch(c) \/ SettingsRestored(c)
                          \/ Refresh(c) \/ RearmAfterChange(c)
                          \/ \E k \in Knobs : UpdateSettings(c, k)
    BY <1>2
  <2>2. /\ stage' = [stage EXCEPT ![c] = "loading"]
        /\ loaded' = loaded /\ asked' = asked /\ stray' = stray /\ db' = db
    BY <2>1 DEF Launch, SettingsRestored, Refresh, RearmAfterChange,
                UpdateSettings, Begin, appVars
  <2>3. stage'[c] = "loading" /\ \A d \in Call : Holds(d)' => Holds(d)
    BY <2>2 DEF IInv, TypeOK, Holds
  <2>4. WrongIsTemporary'
    BY <2>3 DEF WrongIsTemporary, WillFix
  <2>5. alive'
    <3>1. CASE Launch(c) \/ Refresh(c) \/ \E k \in Knobs : UpdateSettings(c, k)
      <4>1. alive' = TRUE \/ (alive /\ alive' = alive)
        BY <3>1 DEF Launch, Refresh, UpdateSettings, appVars
      <4>2. QED
        BY <4>1
    <3>2. CASE SettingsRestored(c)
      BY <3>2, Zenon DEF SettingsRestored, IInv, DeadIsStill
    <3>3. CASE RearmAfterChange(c)
      <4>1. owed # 0
        BY <3>3 DEF RearmAfterChange
      <4>2. alive' = alive
        BY <3>3, Zenon DEF RearmAfterChange
      <4>3. QED
        BY <4>1, <4>2, Zenon DEF IInv, DeadIsStill
    <3>4. QED
      BY <2>1, <3>1, <3>2, <3>3
  <2>6. \/ tainted'
        \/ ~tainted /\ knobs' = knobs
        \/ ~tainted /\ ~Held({})
    <3>1. CASE Launch(c)
      <4>1. tainted
        BY <3>1, Zenon DEF Launch, IInv, DeadIsStill
      <4>2. QED
        BY <3>1, <4>1, Zenon DEF Launch
    <3>2. CASE SettingsRestored(c) \/ \E k \in Knobs : UpdateSettings(c, k)
      BY <3>2, Zenon DEF SettingsRestored, UpdateSettings
    <3>3. CASE Refresh(c) \/ RearmAfterChange(c)
      BY <3>3, Zenon DEF Refresh, RearmAfterChange, appVars
    <3>4. QED
      BY <2>1, <3>1, <3>2, <3>3
  <2>7. ReadingsAreCurrent'
    <3>1. CASE tainted'
      BY <3>1 DEF ReadingsAreCurrent
    <3>2. CASE ~tainted /\ knobs' = knobs
      BY <2>2, <2>3, <3>2 DEF IInv, ReadingsAreCurrent
    <3>3. CASE ~tainted /\ ~Held({})
      BY <2>2, <2>3, <3>3 DEF Held, ReadingsAreCurrent
    <3>4. QED
      BY <2>6, <3>1, <3>2, <3>3
  <2>8. QED
    BY <2>4, <2>5, <2>7, Zenon DEF DeadIsStill
<1>3. QED
  BY <1>1, <1>2

\* A step of one call: what it is about to put right it does, and it never
\* does wrong while its reading is current.
LEMMA CallSteps ==
  ASSUME IInv, NEW c \in Call, CallStep(c)
  PROVE  ReadingsAreCurrent' /\ WrongIsTemporary' /\ DeadIsStill'
<1>1. /\ db' = db /\ knobs' = knobs /\ stray' = stray /\ owed' = owed
      /\ alive' = alive /\ stage[c] # "idle"
  BY DEF CallStep, Load, List, StartScheduling, Return, Cancel, Schedule, appVars
<1>2. \A i \in Id : Planned(i)' = Planned(i)
  BY <1>1 DEF Planned
<1>3. DeadIsStill'
  <2>1. alive
    BY <1>1 DEF IInv, DeadIsStill
  <2>2. QED
    BY <1>1, <2>1, Zenon DEF DeadIsStill
<1>4. ASSUME ~Load(c), ~tainted
      PROVE  PlanFor(c) = PlanOf[<<db, knobs>>] \/ stage[c] = "loading"
  <2>1. Holds(c) => loaded[c] = db /\ asked[c] = knobs
    BY <1>4 DEF IInv, ReadingsAreCurrent
  <2>2. Holds(c) \/ stage[c] = "loading"
    BY <1>1 DEF Holds
  <2>3. QED
    BY <2>1, <2>2 DEF PlanFor
<1>5. CASE Load(c)
  <2>1. /\ stage' = [stage EXCEPT ![c] = "listing"]
        /\ loaded' = [loaded EXCEPT ![c] = db]
        /\ asked' = [asked EXCEPT ![c] = knobs]
    BY <1>5 DEF Load
  <2>2. tainted' = (tainted /\ Held({c}))
    BY <1>5, Zenon DEF Load
  <2>3. WrongIsTemporary'
    BY <2>1 DEF IInv, TypeOK, WrongIsTemporary, WillFix
  <2>4. ReadingsAreCurrent'
    <3>1. /\ loaded'[c] = db /\ asked'[c] = knobs
          /\ \A d \in Call \ {c} : /\ stage'[d] = stage[d]
                                   /\ loaded'[d] = loaded[d]
                                   /\ asked'[d] = asked[d]
      BY <2>1 DEF IInv, TypeOK
    <3>2. CASE ~tainted
      BY <1>1, <3>1, <3>2 DEF IInv, ReadingsAreCurrent, Holds
    <3>3. CASE ~Held({c})
      BY <1>1, <3>1, <3>3 DEF Held, ReadingsAreCurrent, Holds
    <3>4. CASE tainted /\ Held({c})
      BY <2>2, <3>4 DEF ReadingsAreCurrent
    <3>5. QED
      BY <3>2, <3>3, <3>4
  <2>5. QED
    BY <1>3, <2>3, <2>4
<1>6. CASE ~Load(c)
  <2>1. loaded' = loaded /\ asked' = asked /\ tainted' = tainted
    <3>1. loaded' = loaded /\ asked' = asked
      BY <1>6 DEF CallStep, List, StartScheduling, Return, Cancel, Schedule
    <3>2. tainted' = tainted
      BY <1>6, Zenon DEF CallStep, List, StartScheduling, Return, Cancel, Schedule
    <3>3. QED
      BY <3>1, <3>2
  <2>2. Holds(c) /\ \A d \in Call : Holds(d)' => Holds(d)
    BY <1>6 DEF CallStep, List, StartScheduling, Return, Cancel, Schedule,
                Holds, IInv, TypeOK
  <2>3. ReadingsAreCurrent'
    BY <1>1, <2>1, <2>2 DEF IInv, ReadingsAreCurrent
  <2>4. WrongIsTemporary'
    <3> SUFFICES ASSUME ~tainted', owed' = 0, NEW i \in Id
                 PROVE  \/ pending'[i] = Planned(i)'
                        \/ \E d \in Call : WillFix(d, i)'
      BY DEF WrongIsTemporary
    <3>1. ~tainted /\ \/ pending[i] = Planned(i)
                      \/ \E d \in Call : WillFix(d, i)
      BY <1>1, <2>1 DEF IInv, WrongIsTemporary
    <3>2. PlanFor(c)[i] = Planned(i)
      BY <1>4, <1>6, <2>2, <3>1 DEF Planned, Holds
    <3>3. \A d \in Call \ {c} : WillFix(d, i) => WillFix(d, i)'
      BY <1>2 DEF CallStep, Load, List, StartScheduling, Return, Cancel,
                  Schedule, WillFix, IInv, TypeOK
    <3>4. CASE List(c)
      BY <1>2, <3>1, <3>3, <3>4 DEF List, WillFix, IInv, TypeOK
    <3>5. CASE StartScheduling(c)
      BY <1>2, <3>1, <3>2, <3>3, <3>5 DEF StartScheduling, WillFix, IInv, TypeOK
    <3>6. CASE Return(c)
      BY <1>2, <3>1, <3>3, <3>6 DEF Return, WillFix, IInv, TypeOK
    <3>7. CASE \E k \in Id : Cancel(c, k)
      BY <1>2, <3>1, <3>3, <3>7 DEF Cancel, WillFix, IInv, TypeOK, Armed
    <3>8. CASE \E k \in Id : Schedule(c, k)
      BY <1>2, <3>1, <3>2, <3>3, <3>8 DEF Schedule, WillFix, IInv, TypeOK, Armed
    <3>9. QED
      BY <1>6, <3>4, <3>5, <3>6, <3>7, <3>8 DEF CallStep
  <2>5. QED
    BY <1>3, <2>3, <2>4
<1>7. QED
  BY <1>5, <1>6

LEMMA NextIInv == IInv /\ [Next]_vars => IInv'
<1> SUFFICES ASSUME IInv, [Next]_vars PROVE IInv'
  OBVIOUS
<1>1. TypeOK'
  BY NextType DEF IInv
<1>2. CASE UNCHANGED vars
  BY <1>2 DEF vars, appVars, callVars, IInv, TypeOK, ReadingsAreCurrent,
              WrongIsTemporary, DeadIsStill, Holds, Planned, WillFix, Stage, Armed
<1>3. CASE Next
  BY <1>1, <1>3, TaintedSteps, CallingSteps, CallSteps DEF Next, StrayStep, IInv
<1>4. QED
  BY <1>2, <1>3

\* The inductive invariant.
THEOREM Inductive == Spec => []IInv
<1>1. Init => IInv
  BY InitIInv
<1>2. IInv /\ [Next]_vars => IInv'
  BY NextIInv
<1>3. QED
  BY <1>1, <1>2, PTL DEF Spec

\* Every variable keeps its type, whatever the calls and their failures do.
THEOREM TypeCorrect == Spec => []TypeOK
<1>1. IInv => TypeOK
  BY DEF IInv
<1>2. QED
  BY <1>1, Inductive, PTL

\* Overlapping re-arms of rescheduleAllNotifications settle on the plan for the
\* present rows and settings, for every planner and any number of calls.
THEOREM RearmsSettle == Spec => []SettledMatches
<1>1. IInv => SettledMatches
  <2> SUFFICES ASSUME IInv, Quiet, ~tainted PROVE Matches
    BY DEF SettledMatches
  <2>1. owed = 0 /\ \A c \in Call : stage[c] = "idle"
    BY DEF Quiet
  <2>2. \A i \in Id : pending[i] = PlanOf[<<db, knobs>>][i]
    BY <2>1 DEF IInv, WrongIsTemporary, WillFix, Planned
  <2>3. pending \in Armed /\ PlanOf[<<db, knobs>>] \in Armed
    BY PlanType DEF IInv, TypeOK
  <2>4. QED
    BY <2>2, <2>3 DEF Matches, Armed
<1>2. QED
  BY <1>1, Inductive, PTL

=============================================================================
