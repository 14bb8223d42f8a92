--------------------------- MODULE PortableVault ---------------------------
(***************************************************************************)
(* Offline sync by encrypted snapshot files: exportSnapshot and            *)
(* importSnapshot (packages/portable-sync), the vault they are sealed for  *)
(* (packages/crypto), the keystores of phone and browser, and the panel    *)
(* that starts every operation.                                            *)
(*                                                                         *)
(* A device keeps two entries, the vault record and the highest sequence   *)
(* number it has accepted (its mark), beside its tasks.  An operation      *)
(* awaits each of its reads and writes; an action is what happens at one.  *)
(* A panel has one operation under way at a time; but two tabs, or a       *)
(* panel closed and opened again, are two panels of one device.            *)
(*                                                                         *)
(* A data key is named by the vault it was made for: an envelope opens     *)
(* under a vault's key if it was sealed for that vault and is intact.  A   *)
(* row is its timestamp, 0 if absent, as this is all that reconcileTasks   *)
(* compares.                                                               *)
(***************************************************************************)
EXTENDS Naturals

CONSTANTS
  Device,
  Browser,     \* the devices with IndexedDB and localStorage
  Panel,
  Home,        \* the device of each panel
  VaultId,     \* random identities for vaults
  Passphrase,
  Task,
  NoVault,     \* an absent vault entry
  NoFile,
  MayDamage,   \* may files be damaged on their way?
  MaxSeq,      \* bound: no export starts at a mark this high
  MaxStarts,   \* bound on operations
  MaxEdits,    \* bound on edits
  MaxFaults    \* bound on operations broken off and reads failed

ASSUME DeviceAssumption == Browser \subseteq Device /\ Home \in [Panel -> Device]
ASSUME NoVaultAssumption == NoVault \notin [id : VaultId, phrase : Passphrase]
ASSUME DamageAssumption == MayDamage \in BOOLEAN
ASSUME BoundAssumption == {MaxSeq, MaxStarts, MaxEdits, MaxFaults} \subseteq Nat

VARIABLES
  vault,      \* VAULT_KEY / VAULT_ENTRY of each device
  mark,       \* SEQ_KEY / SEQ_ENTRY of each device, 0 if absent
  rows,       \* the task store of each device
  shown,      \* panels that show a vault as set up (configured)
  op,         \* the operation under way in each panel
  files,      \* snapshots that have left their device
  made,       \* vault identities drawn so far
  sealed,     \* history: what a device has sealed since its mark was reset
  accepted,   \* history: what it has imported since then
  replaced,   \* history: devices where a vault was set up over another one
  disturbed,  \* history: devices where operations overlapped, or a clear broke off
  starts,     \* number of operations so far
  edits,      \* number of edits so far
  faults      \* number of operations broken off and of reads failed

keyVars == <<vault, mark, made>>
known == <<sealed, accepted, replaced>>
vars == <<keyVars, rows, shown, op, files, known, disturbed, starts, edits, faults>>

-----------------------------------------------------------------------------
Record == [id : VaultId, phrase : Passphrase]
Rows == [Task -> Nat]
NoRows == [t \in Task |-> 0]
Snapshot == [id : VaultId, phrase : Passphrase, seq : Nat, rows : Rows,
             by : Device, intact : BOOLEAN]

Stage == {"idle", "reading", "saving", "publishing", "context", "checking",
          "opening", "applying", "committing", "rewrapping", "clearing"}

\* What an operation remembers between its awaits.
Operation == [stage : Stage, file : Snapshot \cup {NoFile},
              rec : Record \cup {NoVault}, seqSeen : Nat, rows : Rows,
              todo : SUBSET (Task \cup {"vault", "mark", "seq", "tasks"})]
Idle == [stage |-> "idle", file |-> NoFile, rec |-> NoVault, seqSeen |-> 0,
         rows |-> NoRows, todo |-> {}]

\* A file may be damaged on its way: sequence and content are then anything.
Damaged(f, s) ==
  [f EXCEPT !.seq = s, !.rows = [t \in Task |-> MaxEdits + 1], !.intact = FALSE]
Readable ==
  files \cup {Damaged(f, s) : f \in files, s \in {n \in 0..MaxSeq : MayDamage}}

Init ==
  /\ vault = [d \in Device |-> NoVault]
  /\ mark = [d \in Device |-> 0]
  /\ rows = [d \in Device |-> NoRows]
  /\ shown = [p \in Panel |-> FALSE]
  /\ op = [p \in Panel |-> Idle]
  /\ files = {}
  /\ made = {}
  /\ sealed = [d \in Device |-> {}]
  /\ accepted = [d \in Device |-> {}]
  /\ replaced = {}
  /\ disturbed = {}
  /\ starts = 0
  /\ edits = 0
  /\ faults = 0

ForgetKnown(d) ==
  /\ sealed' = [sealed EXCEPT ![d] = {}]
  /\ accepted' = [accepted EXCEPT ![d] = {}]
  /\ replaced' = replaced \ {d}

\* A vault of this identity is set up, over another one or not.
SetUp(d, id) ==
  replaced' = IF vault[d] # NoVault /\ vault[d].id # id THEN replaced \cup {d}
                                                       ELSE replaced

\* run: a panel starts an operation when it has none; others may.
Start(p, o) ==
  /\ op[p] = Idle
  /\ starts < MaxStarts
  /\ starts' = starts + 1
  /\ op' = [op EXCEPT ![p] = o]
  /\ disturbed' = disturbed \cup
       {Home[q] : q \in {r \in Panel \ {p} : Home[r] = Home[p] /\ op[r] # Idle}}

Proceed(p, o) == op' = [op EXCEPT ![p] = o] /\ UNCHANGED <<disturbed, starts>>

\* Mounting reads isVaultConfigured, which nothing keeps up to date afterwards.
\* A browser that fails to read it is shown as one without a vault; on the phone
\* the panel goes on waiting.
OpenPanel(p) ==
  /\ op[p] = Idle
  /\ \/ /\ shown' = [shown EXCEPT ![p] = vault[Home[p]] # NoVault]
        /\ UNCHANGED faults
     \/ /\ Home[p] \in Browser
        /\ faults < MaxFaults /\ faults' = faults + 1
        /\ shown' = [shown EXCEPT ![p] = FALSE]
  /\ UNCHANGED <<keyVars, rows, op, files, known, disturbed, starts, edits>>

-----------------------------------------------------------------------------
(* The vault itself.                                                       *)

\* createDeviceVault: a new identity and key; the mark is left as it is.
CreateVault(p, v, w) ==
  /\ ~shown[p]
  /\ v \notin made
  /\ Start(p, Idle)
  /\ vault' = [vault EXCEPT ![Home[p]] = [id |-> v, phrase |-> w]]
  /\ SetUp(Home[p], v)
  /\ made' = made \cup {v}
  /\ shown' = [shown EXCEPT ![p] = TRUE]
  /\ UNCHANGED <<mark, rows, files, sealed, accepted, edits, faults>>

\* persist of what the file's header says; the import follows.
Enrol(p, f) ==
  /\ ~shown[p]
  /\ Start(p, [Idle EXCEPT !.stage = "context", !.file = f])
  /\ vault' = [vault EXCEPT ![Home[p]] = [id |-> f.id, phrase |-> f.phrase]]
  /\ SetUp(Home[p], f.id)
  /\ UNCHANGED <<mark, made, rows, shown, files, sealed, accepted, edits, faults>>

\* The passphrase opens the header, whatever became of the rest of the file.
JoinVault(p, f) == f \in Readable /\ Enrol(p, f)

\* The recovery code is tried on the whole envelope first.
RecoverVault(p, f) == f \in files /\ f.intact /\ Enrol(p, f)

\* changeDevicePassphrase reads the entry ...
BeginChange(p) ==
  /\ shown[p]
  /\ vault[Home[p]] # NoVault
  /\ Start(p, [Idle EXCEPT !.stage = "rewrapping", !.rec = vault[Home[p]]])
  /\ UNCHANGED <<keyVars, rows, shown, files, known, edits, faults>>

\* ... and writes it wrapped anew, whatever the entry holds by then.
Rewrap(p, w) ==
  /\ op[p].stage = "rewrapping"
  /\ Proceed(p, Idle)
  /\ vault' = [vault EXCEPT ![Home[p]] = [op[p].rec EXCEPT !.phrase = w]]
  /\ UNCHANGED <<mark, made, rows, shown, files, known, edits, faults>>

\* Faulty variant: an absent mark is not read as 0.
ClearBrowserMarkAbsent(p) ==
  /\ shown[p]
  /\ Home[p] \in Browser
  /\ Start(p, Idle)
  /\ vault' = [vault EXCEPT ![Home[p]] = NoVault]
  /\ mark' = [mark EXCEPT ![Home[p]] = NoVault]
  /\ shown' = [shown EXCEPT ![p] = FALSE]
  /\ ForgetKnown(Home[p])
  /\ UNCHANGED <<made, rows, files, edits, faults>>

\* clearDeviceVault in a browser: both entries in one transaction.
ClearBrowser(p) ==
  /\ shown[p]
  /\ Home[p] \in Browser
  /\ Start(p, Idle)
  /\ vault' = [vault EXCEPT ![Home[p]] = NoVault]
  /\ mark' = [mark EXCEPT ![Home[p]] = 0]
  /\ shown' = [shown EXCEPT ![p] = FALSE]
  /\ ForgetKnown(Home[p])
  /\ UNCHANGED <<made, rows, files, edits, faults>>

\* Faulty variant: forgetting the vault keeps the mark.
BeginClearVaultOnly(p) ==
  /\ shown[p]
  /\ Home[p] \notin Browser
  /\ Start(p, [Idle EXCEPT !.stage = "clearing", !.todo = {"vault"}])
  /\ UNCHANGED <<keyVars, rows, shown, files, known, edits, faults>>

\* On the phone: two deletions of the keystore, in either order.
BeginClear(p) ==
  /\ shown[p]
  /\ Home[p] \notin Browser
  /\ Start(p, [Idle EXCEPT !.stage = "clearing", !.todo = {"vault", "mark"}])
  /\ UNCHANGED <<keyVars, rows, shown, files, known, edits, faults>>

\* One deletion is done; with the last, the panel shows no vault.
Deleted(p, entry) ==
  /\ op[p].stage = "clearing"
  /\ entry \in op[p].todo
  /\ IF op[p].todo = {entry}
       THEN Proceed(p, Idle) /\ shown' = [shown EXCEPT ![p] = FALSE]
       ELSE Proceed(p, [op[p] EXCEPT !.todo = @ \ {entry}]) /\ UNCHANGED shown
  /\ UNCHANGED <<made, rows, files, edits, faults>>

DeleteVault(p) ==
  /\ Deleted(p, "vault")
  /\ vault' = [vault EXCEPT ![Home[p]] = NoVault]
  /\ UNCHANGED <<mark, known>>

DeleteMark(p) ==
  /\ Deleted(p, "mark")
  /\ mark' = [mark EXCEPT ![Home[p]] = 0]
  /\ ForgetKnown(Home[p])
  /\ UNCHANGED vault

-----------------------------------------------------------------------------
(* exportSnapshot                                                          *)

\* context: the record that the header will carry.
BeginExport(p) ==
  /\ shown[p]
  /\ vault[Home[p]] # NoVault
  /\ mark[Home[p]] < MaxSeq
  /\ Start(p, [Idle EXCEPT !.stage = "reading", !.rec = vault[Home[p]],
                           !.todo = {"seq", "tasks"}])
  /\ UNCHANGED <<keyVars, rows, shown, files, known, edits, faults>>

\* The two reads of Promise.all; the last one to be answered goes on.
Answered(p, part, o) ==
  /\ op[p].stage = "reading"
  /\ part \in op[p].todo
  /\ Proceed(p, [o EXCEPT !.todo = @ \ {part},
                          !.stage = IF op[p].todo = {part} THEN "saving"
                                                           ELSE "reading"])
  /\ UNCHANGED <<keyVars, rows, shown, files, known, edits, faults>>

ReadSeq(p) == Answered(p, "seq", [op[p] EXCEPT !.seqSeen = mark[Home[p]]])
ReadTasks(p) == Answered(p, "tasks", [op[p] EXCEPT !.rows = rows[Home[p]]])

\* Faulty variant: the number seen is used again.
SealedAtSeqSeen(p) ==
  [id |-> op[p].rec.id, phrase |-> op[p].rec.phrase, seq |-> op[p].seqSeen,
   rows |-> op[p].rows, by |-> Home[p], intact |-> TRUE]

\* sealWith at the next sequence number.
Sealed(p) ==
  [id |-> op[p].rec.id, phrase |-> op[p].rec.phrase, seq |-> op[p].seqSeen + 1,
   rows |-> op[p].rows, by |-> Home[p], intact |-> TRUE]

\* setSeqSeen(seq), before anyone sees the blob.
SaveSeq(p) ==
  /\ op[p].stage = "saving"
  /\ Proceed(p, [Idle EXCEPT !.stage = "publishing", !.file = Sealed(p)])
  /\ mark' = [mark EXCEPT ![Home[p]] = Sealed(p).seq]
  /\ sealed' = [sealed EXCEPT ![Home[p]] = @ \cup {Sealed(p)}]
  /\ UNCHANGED <<accepted, replaced, vault, made, rows, shown, files, edits,
                 faults>>

\* The share sheet or the download has the file.
Publish(p) ==
  /\ op[p].stage = "publishing"
  /\ Proceed(p, Idle)
  /\ files' = files \cup {op[p].file}
  /\ UNCHANGED <<keyVars, rows, shown, known, edits, faults>>

-----------------------------------------------------------------------------
(* importSnapshot                                                          *)

BeginImport(p, f) ==
  /\ shown[p]
  /\ f \in Readable
  /\ Start(p, [Idle EXCEPT !.stage = "context", !.file = f])
  /\ UNCHANGED <<keyVars, rows, shown, files, known, edits, faults>>

\* loadVault; no vault, or a file of another one, ends it here.
LoadContext(p) ==
  /\ op[p].stage = "context"
  /\ IF vault[Home[p]] # NoVault /\ vault[Home[p]].id = op[p].file.id
       THEN Proceed(p, [op[p] EXCEPT !.stage = "checking",
                                     !.rec = vault[Home[p]]])
       ELSE Proceed(p, Idle)
  /\ UNCHANGED <<keyVars, rows, shown, files, known, edits, faults>>

\* Faulty variant: the mark is read but not compared.
AcceptableAnything(p, seq) == TRUE

\* assertNotRollback.
Acceptable(p, seq) == seq >= mark[Home[p]]

\* getSeqSeen and the check of the header.
CheckMark(p) ==
  /\ op[p].stage = "checking"
  /\ IF Acceptable(p, op[p].file.seq)
       THEN Proceed(p, [op[p] EXCEPT !.stage = "opening",
                                     !.seqSeen = mark[Home[p]]])
       ELSE Proceed(p, Idle)
  /\ UNCHANGED <<keyVars, rows, shown, files, known, edits, faults>>

\* Faulty variant: what does not authenticate is read all the same.
OpensAlways(f) == TRUE

\* openEnvelopeWith under the key of the vault that the header names.
Opens(f) == f.intact

\* Faulty variant: rows that the device has never seen are left out.
ToApplyKnownRows(d, f) == {t \in Task : rows[d][t] # 0 /\ f.rows[t] > rows[d][t]}

\* reconcileTasks: the rows where the snapshot is newer.
ToApply(d, f) == {t \in Task : f.rows[t] > rows[d][t]}

\* Decrypt, check the authenticated number against the mark read before (it is
\* the header's, as an altered header does not authenticate), plan the rows.
Open(p) ==
  /\ op[p].stage = "opening"
  /\ IF Opens(op[p].file)
       THEN Proceed(p, [op[p] EXCEPT
              !.todo = ToApply(Home[p], op[p].file),
              !.stage = IF ToApply(Home[p], op[p].file) = {} THEN "committing"
                                                             ELSE "applying"])
       ELSE Proceed(p, Idle)
  /\ UNCHANGED <<keyVars, rows, shown, files, known, edits, faults>>

\* upsertMany: row by row on the phone, all at once in a browser.
Apply(p, S) ==
  /\ op[p].stage = "applying"
  /\ S \subseteq op[p].todo
  /\ IF Home[p] \in Browser THEN S = op[p].todo ELSE \E t \in Task : S = {t}
  /\ rows' = [rows EXCEPT ![Home[p]] =
                [t \in Task |-> IF t \in S THEN op[p].file.rows[t] ELSE @[t]]]
  /\ Proceed(p, [op[p] EXCEPT !.todo = @ \ S,
                              !.stage = IF op[p].todo = S THEN "committing"
                                                          ELSE "applying"])
  /\ UNCHANGED <<keyVars, shown, files, known, edits, faults>>

\* setSeqSeen if the number is a higher one; the import is through.
Commit(p) ==
  /\ op[p].stage = "committing"
  /\ Proceed(p, Idle)
  /\ IF op[p].file.seq > op[p].seqSeen
       THEN mark' = [mark EXCEPT ![Home[p]] = op[p].file.seq]
       ELSE UNCHANGED mark
  /\ accepted' = [accepted EXCEPT ![Home[p]] = @ \cup {op[p].file}]
  /\ shown' = [shown EXCEPT ![p] = TRUE]
  /\ UNCHANGED <<vault, made, rows, files, sealed, replaced, edits, faults>>

-----------------------------------------------------------------------------
\* The user writes a task, at a time of its own.
Edit(d, t) ==
  /\ edits < MaxEdits
  /\ edits' = edits + 1
  /\ rows' = [rows EXCEPT ![d] = [@ EXCEPT ![t] = edits + 1]]
  /\ UNCHANGED <<keyVars, shown, op, files, known, disturbed, starts, faults>>

\* A keystore or store call fails, or the app ends, between two awaits.
BreakOff(p) ==
  /\ faults < MaxFaults
  /\ op[p] # Idle
  /\ faults' = faults + 1
  /\ op' = [op EXCEPT ![p] = Idle]
  /\ disturbed' = IF op[p].stage = "clearing" THEN disturbed \cup {Home[p]}
                                              ELSE disturbed
  /\ UNCHANGED <<keyVars, rows, shown, files, known, starts, edits>>

PanelStep(p) ==
  \/ OpenPanel(p)
  \/ \E v \in VaultId, w \in Passphrase : CreateVault(p, v, w)
  \/ \E f \in Readable : JoinVault(p, f)
  \/ \E f \in files : RecoverVault(p, f)
  \/ BeginChange(p)
  \/ \E w \in Passphrase : Rewrap(p, w)
  \/ ClearBrowser(p)
  \/ BeginClear(p) \/ DeleteVault(p) \/ DeleteMark(p)
  \/ BeginExport(p) \/ ReadSeq(p) \/ ReadTasks(p) \/ SaveSeq(p) \/ Publish(p)
  \/ \E f \in Readable : BeginImport(p, f)
  \/ LoadContext(p) \/ CheckMark(p) \/ Open(p)
  \/ \E S \in SUBSET Task : Apply(p, S)
  \/ Commit(p)
  \/ BreakOff(p)

Next ==
  \/ \E p \in Panel : PanelStep(p)
  \/ \E d \in Device, t \in Task : Edit(d, t)

Spec == Init /\ [][Next]_vars

-----------------------------------------------------------------------------
TypeOK ==
  /\ vault \in [Device -> Record \cup {NoVault}]
  /\ mark \in [Device -> Nat]
  /\ rows \in [Device -> Rows]
  /\ shown \in [Panel -> BOOLEAN]
  /\ op \in [Panel -> Operation]
  /\ files \subseteq Snapshot
  /\ made \subseteq VaultId
  /\ sealed \in [Device -> SUBSET Snapshot]
  /\ accepted \in [Device -> SUBSET Snapshot]
  /\ replaced \subseteq Device
  /\ disturbed \subseteq Device
  /\ starts \in Nat
  /\ edits \in Nat
  /\ faults \in Nat

Quiet(d) == \A p \in Panel : Home[p] = d => op[p] = Idle
Known(d) == sealed[d] \cup accepted[d]

(* I4, "a client never accepts a vault state older than the newest it has  *)
(* already seen": what an import is about to write is no older than any    *)
(* snapshot of the same vault that the device has sealed or imported, also *)
(* after operations that broke off between any two awaits.                 *)
NeverAcceptsOlder ==
  \A p \in Panel :
    /\ op[p].stage \in {"applying", "committing"}
    /\ Home[p] \notin disturbed
    => \A f \in Known(Home[p]) : f.id = op[p].file.id => op[p].file.seq >= f.seq

(* exportSnapshot "burns the sequence immediately": no two snapshots that  *)
(* a device has sealed share a number, though exports are cut short at any *)
(* await and imports and further edits come in between.                    *)
SealedOnce ==
  \A d \in Device \ disturbed : \A f, g \in sealed[d] :
    f.seq = g.seq => f = g

(* "Both, always" (clearDeviceVault), and importSnapshot's use of seqSeen  *)
(* within one vault only: with nothing under way the mark is that of a     *)
(* snapshot of the present vault, so no earlier vault's mark makes the     *)
(* device refuse what it should take.  That is so until a panel that shows *)
(* no vault, as it has failed to read the one there is (web VaultPanel.tsx *)
(* 65-75) or is not told of it by another tab, creates or joins another    *)
(* one over it: then the mark of the first stays.                          *)
MarkBelongs ==
  \A d \in Device \ (disturbed \cup replaced) :
    Quiet(d) /\ mark[d] # 0 =>
      /\ vault[d] # NoVault
      /\ \E f \in Known(d) : f.id = vault[d].id /\ f.seq = mark[d]

(* I3: "nothing is written locally until decryption has succeeded".  What  *)
(* a damaged file says reaches neither rows nor known snapshots, whatever  *)
(* overlaps or breaks off.                                                 *)
NothingFromDamaged ==
  /\ \A d \in Device, t \in Task : rows[d][t] <= edits
  /\ \A d \in Device : \A f \in Known(d) : f.intact

(* An import that reports success leaves no row staler than the snapshot,  *)
(* with edits and failures in between.                                     *)
ImportedIsHeld ==
  [][\A p \in Panel :
       /\ op[p].stage = "committing" /\ op[p].file \in accepted'[Home[p]]
       /\ Home[p] \notin disturbed
       => \A t \in Task : rows[Home[p]][t] >= op[p].file.rows[t]]_vars

-----------------------------------------------------------------------------
(* The inductive invariants: IInv, behind NeverAcceptsOlder, SealedOnce    *)
(* and NothingFromDamaged; with MarkKept for MarkBelongs, and HeldSoFar    *)
(* for ImportedIsHeld.                                                     *)

\* What an operation is about to use is there.
Equipped ==
  \A p \in Panel :
    /\ op[p].stage \in {"reading", "saving", "rewrapping"} => op[p].rec \in Record
    /\ op[p].stage \in {"publishing", "context", "checking", "opening",
                         "applying", "committing"} => op[p].file \in Snapshot
    /\ op[p].stage = "applying" => op[p].todo \subseteq Task

\* On an undisturbed device operations do not overlap ...
Alone ==
  \A p, q \in Panel :
    Home[p] = Home[q] /\ Home[p] \notin disturbed /\ op[p] # Idle /\ op[q] # Idle
    => p = q

\* ... so the mark that an operation has read is still the mark ...
ReadingIsCurrent ==
  \A p \in Panel : Home[p] \notin disturbed =>
    /\ \/ op[p].stage = "saving"
       \/ op[p].stage = "reading" /\ "seq" \notin op[p].todo
       => op[p].seqSeen = mark[Home[p]]
    /\ op[p].stage \in {"opening", "applying", "committing"}
       => /\ op[p].seqSeen = mark[Home[p]]
          /\ op[p].file.seq >= op[p].seqSeen

\* ... which no snapshot known to the device exceeds.
MarkIsNewest ==
  \A d \in Device \ disturbed : \A f \in Known(d) : mark[d] >= f.seq

\* Rows come from edits, snapshots hold such rows, and what is being applied
\* has been authenticated.
IsGenuine(f) == f.intact => \A t \in Task : f.rows[t] <= edits
RowsAreGenuine ==
  /\ \A f \in files : f.intact /\ IsGenuine(f)
  /\ \A p \in Panel :
       /\ \A t \in Task : op[p].rows[t] <= edits
       /\ op[p].stage \in {"publishing", "context", "checking", "opening",
                            "applying", "committing"} => IsGenuine(op[p].file)
       /\ op[p].stage \in {"publishing", "applying", "committing"}
            => op[p].file.intact

\* Where no vault was set up over another, the mark is that of a snapshot of the
\* vault, but while both are being forgotten; so a device without a vault has no
\* mark, which is why creating or joining one inherits none; and the vault is
\* still the one that an operation began with.
Belongs(d) ==
  mark[d] # 0 => /\ vault[d] # NoVault
                 /\ \E f \in Known(d) : f.id = vault[d].id /\ f.seq = mark[d]

Faithful(p) ==
  LET d == Home[p]
      o == op[p]
  IN /\ o.stage # "clearing" => Belongs(d)
     /\ o.stage = "clearing" /\ "mark" \notin o.todo => mark[d] = 0
     /\ o.stage \in {"reading", "saving", "rewrapping"}
          => vault[d] # NoVault /\ o.rec = vault[d]
     /\ o.stage \in {"checking", "opening", "applying", "committing"}
          => vault[d] # NoVault /\ o.file.id = vault[d].id

\* No other panel of its device has an operation under way.
Lone(p) == \A q \in Panel : Home[q] = Home[p] /\ op[q] # Idle => q = p

MarkKept ==
  /\ \A p \in Panel :
       Home[p] \notin disturbed \cup replaced /\ Lone(p) => Faithful(p)
  /\ \A d \in Device : (\A p \in Panel : Home[p] # d) => mark[d] = 0

\* On an undisturbed device an import finds what it has written still there.
HeldSoFar ==
  \A p \in Panel :
    /\ Home[p] \notin disturbed
    /\ op[p].stage \in {"applying", "committing"}
    => \A t \in Task :
         \/ op[p].stage = "applying" /\ t \in op[p].todo
         \/ rows[Home[p]][t] >= op[p].file.rows[t]

IInv == /\ TypeOK /\ Equipped /\ Alone /\ ReadingIsCurrent /\ MarkIsNewest
        /\ RowsAreGenuine /\ SealedOnce /\ NothingFromDamaged
=============================================================================
