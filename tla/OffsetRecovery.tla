---------------------------- MODULE OffsetRecovery ----------------------------
(***************************************************************************)
(* Resumable offset calibration of one board of one meter: the private     *)
(* recovery record of OffsetRecovery (offset_recovery.py), the workflow    *)
(* that prepares, resumes, finalizes and begins cycles (workflow.py), the  *)
(* prepared board of CalibrationEngine (calibration_engine.py), and the    *)
(* transaction that installs the final YAML (config_transaction.py), with  *)
(* its writes and OTA as ConfigTransaction models them.                    *)
(*                                                                         *)
(* A step runs to the next await; every save is one step that may fail     *)
(* before or after it reaches the disk.  The flash of the meter holds an   *)
(* offset table for a chip and stage or none; a firmware built from a YAML *)
(* that configures the table uses that one.  Left out: preparations of     *)
(* older releases (mode "legacy", which nothing writes any more), a gain   *)
(* or offset origin retained by CalibrationSession (no preparation finds   *)
(* one here), and the interrupted marker, which CalibrationSession has.    *)
(***************************************************************************)
EXTENDS Naturals, Sequences, SequencesExt

CONSTANTS
  Chips,            \* the chips of the board
  Values, Zero,     \* contents of an offset table
  MaxOps,           \* bound on reviewed preparations and finalizations
  MaxGeneration,    \* bound on the connections of the meter
  MaxObservations,  \* _MAX_OBSERVATIONS
  MaxEdits,         \* bound on edits of the rest of the YAML
  None

ASSUME RecoveryAssumption ==
  /\ IsFiniteSet(Chips) /\ Zero \in Values /\ None \notin Values
  /\ MaxOps \in Nat /\ MaxGeneration \in Nat \ {0} /\ MaxObservations \in Nat
  /\ MaxEdits \in Nat

Stages == {1, 2}
Keys == Chips \X Stages
Tables == [Keys -> Values \cup {None}]
NoTables == [k \in Keys |-> None]

VARIABLES
  yaml,       \* the configuration at Device Builder
  meter,      \* the meter: tables in flash, firmware, connection; had is history:
              \* the finalizations whose firmware it has run
  disk,       \* the recovery record and its archived predecessor
  confirmed,  \* _confirmed_receipts and _confirmed_final_receipts
  task,       \* the operation of the workflow that holds the lease
  tx,         \* the transaction that installs the final YAML
  session,    \* the browser session, and a cancelled one's clean-up
  ops,        \* operations reviewed so far
  base, ran   \* history: flash when the cycle began; runs pressed

vars == <<yaml, meter, disk, confirmed, task, tx, session, ops, base, ran>>

-----------------------------------------------------------------------------

\* rev stands for everything of a YAML but the offset tables.
Yamls == [tables : Tables, rev : 0..MaxEdits]

Kinds == {"saved", "configuration", "first"}

NewRecord(source, obs) ==
  [orig |-> source, obs |-> obs, prep |-> None, cancelled |-> FALSE,
   attempted |-> {}, results |-> NoTables, final |-> None,
   finst |-> FALSE, fcancel |-> FALSE, selected |-> FALSE]

NoTask == [op |-> "none", pc |-> "idle", src |-> None, stage |-> 1,
           left |-> {}, chip |-> None, old |-> None, new |-> None]
NoTx == [pc |-> "none", final |-> None, guard |-> FALSE, recovered |-> FALSE]

Observation == [key : Keys, src : Yamls, kind : Kinds, val : Values,
                gen : 1..MaxGeneration]
Preparation == [id : 1..MaxOps, src : Yamls, stage : Stages,
                targets : SUBSET Chips, gen : 1..MaxGeneration,
                clear : SUBSET Chips]
Finalization == [id : 1..MaxOps, src : Yamls, proposed : Yamls,
                 targets : SUBSET Chips, seen : 0..MaxObservations,
                 results : Tables]

ASSUME NoneIsNoReview == None \notin Finalization /\ None \notin Preparation

IsRecord(r) ==
  /\ r.orig \in Yamls /\ ToSet(r.obs) \subseteq Observation
  /\ r.prep \in Preparation \cup {None} /\ r.cancelled \in BOOLEAN
  /\ r.attempted \subseteq Chips /\ r.results \in Tables
  /\ r.final \in Finalization \cup {None}
  /\ {r.finst, r.fcancel, r.selected} \subseteq BOOLEAN

\* What _encode, and so _decode, accepts.
Encodes(r) ==
  /\ r.obs # <<>> /\ Len(r.obs) <= MaxObservations
  /\ IF r.prep = None THEN ~r.cancelled
     ELSE \A c \in r.prep.targets : \E o \in ToSet(r.obs) :
            /\ o.key = <<c, r.prep.stage>>
            /\ o.src = r.prep.src /\ o.gen = r.prep.gen
  /\ r.attempted # {} => (r.prep # None /\ r.attempted \subseteq r.prep.targets)
  /\ IF r.final = None THEN ~r.finst /\ ~r.fcancel /\ ~r.selected
     ELSE /\ r.final.seen = Len(r.obs) /\ r.final.results = r.results
          /\ r.selected => r.finst /\ ~r.fcancel

TypeOK ==
  /\ yaml \in Yamls
  /\ meter \in [flash : Tables, fw : Yamls, gen : 1..MaxGeneration,
                had : SUBSET (1..MaxOps)]
  /\ \A r \in {disk.record, disk.archive} : r # None => IsRecord(r) /\ Encodes(r)
  /\ {confirmed.prep, confirmed.final} \subseteq 0..MaxOps
  /\ task.op \in {"none", "prepare", "resume", "finalize", "reconcile", "cycle"}
  /\ task.left \subseteq Chips /\ task.chip \in Chips \cup {None}
  /\ tx.pc \in {"none", "preview", "written", "ota", "mark", "check", "recover"}
  /\ session \in [live : BOOLEAN, owes : BOOLEAN]
  /\ ops \in 0..MaxOps /\ base \in Tables

Init ==
  /\ yaml = [tables |-> NoTables, rev |-> 0]
  /\ \E flash \in Tables : meter = [flash |-> flash, fw |-> yaml, gen |-> 1, had |-> {}]
  /\ disk = [record |-> None, archive |-> None]
  /\ confirmed = [prep |-> 0, final |-> 0]
  /\ task = NoTask /\ tx = NoTx /\ session = [live |-> TRUE, owes |-> FALSE]
  /\ ops = 0 /\ base = meter.flash /\ ran = {}

-----------------------------------------------------------------------------
(* The meter.                                                              *)

\* A dump reports the saved table unless the firmware configures one.
Dumped(k) == IF meter.fw.tables[k] # None THEN None ELSE meter.flash[k]

\* The table a chip calculates with.
InUse(m, k) ==
  IF m.fw.tables[k] # None THEN m.fw.tables[k]
  ELSE IF m.flash[k] # None THEN m.flash[k] ELSE Zero

\* It restarts: a new connection.
Reconnected(fw) ==
  /\ meter.gen < MaxGeneration
  /\ meter' = [meter EXCEPT !.fw = fw, !.gen = @ + 1,
       !.had = IF tx.final # None /\ fw = tx.final.proposed
               THEN @ \cup {tx.final.id} ELSE @]

-----------------------------------------------------------------------------
(* The record.                                                             *)

Record == disk.record

Results(r) == {k \in Keys : r.results[k] # None}
Targets(r) == {k[1] : k \in Results(r)}

\* _has_unfinished_preparation
Unfinished(r) ==
  r.prep # None /\ \E c \in r.prep.targets : r.results[<<c, r.prep.stage>>] = None

\* _allowed_observation_sources
Allowed(r) ==
  {r.orig} \cup (IF r.prep = None THEN {} ELSE {r.prep.src})
           \cup (IF r.final = None THEN {} ELSE {r.final.src, r.final.proposed})

\* The places of the observations of a table that count.
Seen(r, k) == {i \in DOMAIN r.obs : r.obs[i].key = k /\ r.obs[i].src \in Allowed(r)}

OfKind(r, k, kind) == {i \in Seen(r, k) : r.obs[i].kind = kind}

\* Variant: a table the helper did not capture is zero.
ZeroUnlessCaptured(r, k) == Zero

\* _offset_observation_tables: the last saved table, else the first configured.
Known(r, k) ==
  LET saved == OfKind(r, k, "saved") IN
  IF saved # {} THEN r.obs[Max(saved)].val
  ELSE IF Seen(r, k) # {} THEN r.obs[Min(Seen(r, k))].val ELSE None

\* Saving a record that was built and that the encoder accepts: it is on disk;
\* or the operation fails, and it is on disk or not.
Put(r) == r # None /\ Encodes(r) /\ disk' = [disk EXCEPT !.record = r]
PutFails(r) == Put(r) \/ UNCHANGED disk

\* is_action_ready
ActionReady(r) ==
  /\ r # None /\ r.prep # None /\ ~r.cancelled /\ r.final = None
  /\ confirmed.prep = r.prep.id

\* async_require_finalization; every save since the review is counted by
\* finst and selected, so that its revision check adds nothing here.
Required(r, f, installed, sure) ==
  /\ r # None /\ r.final = f /\ ~r.fcancel /\ r.finst = installed
  /\ installed /\ sure => confirmed.final = f.id /\ ~Unfinished(r)

\* async_cancel_finalization and async_cancel
Cancelled(r) ==
  IF r.final # None THEN [r EXCEPT !.fcancel = TRUE, !.selected = FALSE]
  ELSE [r EXCEPT !.cancelled = TRUE]

-----------------------------------------------------------------------------
(* The lease.                                                              *)

TxHolds == tx.pc \in {"written", "ota", "mark", "check"}
LeaseFree == task.op = "none" /\ ~TxHolds

Begin(op) == LeaseFree /\ session.live /\ task.op = "none"
At(op, pc) == task.op = op /\ task.pc = pc

\* The operation fails: a lost answer, a refusal of a guard, a cancellation.
Raise == task' = NoTask /\ UNCHANGED <<disk, confirmed>>

-----------------------------------------------------------------------------
(* async_preview_offset_preparation                                        *)

\* What a chip's table is taken to be, and where that is known from.
Candidates(r, k, src) ==
  LET stored == IF r = None THEN {} ELSE Seen(r, k)
      last == r.obs[Max(stored)]
      untouched == \/ r = None
                   \/ /\ \A o \in ToSet(r.obs) : o.key # k
                      /\ r.results[k] = None
                      /\ ~(r.prep # None /\ r.prep.stage = k[2] /\ k[1] \in r.attempted)
  IN IF Dumped(k) # None THEN {[kind |-> "saved", val |-> Dumped(k)]}
     ELSE IF stored # {} THEN {[kind |-> last.kind, val |-> last.val]}
     ELSE IF ~untouched THEN {}
     ELSE {[kind |-> "first", val |-> IF src.tables[k] # None THEN src.tables[k] ELSE Zero]}

Observed(k, c, src) ==
  [key |-> k, src |-> src, kind |-> c.kind, val |-> c.val, gen |-> meter.gen]

\* A chip that was calibrated or attempted has to be cleared again.
FirstUse(r, k, c) ==
  /\ c.kind = "first" /\ c.val = Zero
  /\ ~(r # None /\ r.prep # None /\ r.prep.stage = k[2] /\ k[1] \in r.attempted)

\* Both stages of the unfinished chips are dumped.
PrepareObserve(stage) ==
  LET r == Record
      done == IF r = None THEN {} ELSE Results(r)
      targets == {c \in Chips : <<c, stage>> \notin done}
      missing == {k \in targets \X Stages : k \notin done}
      found == [k \in missing |-> Candidates(r, k, yaml)]
  IN
  /\ Begin("prepare") /\ targets # {} /\ \A k \in missing : found[k] # {}
  /\ \A k \in missing : \A c \in found[k] :
       c.kind = "configuration" => meter.fw.tables[k] # None
  /\ LET item == [k \in missing |-> CHOOSE c \in found[k] : TRUE] IN
     task' = [NoTask EXCEPT !.op = "prepare", !.pc = "backup", !.src = yaml,
       !.stage = stage, !.left = targets,
       !.old = {c \in targets : ~FirstUse(r, <<c, stage>>, item[<<c, stage>>])},
       !.new = SetToSeq({Observed(k, item[k], yaml) : k \in missing})]
  /\ UNCHANGED <<yaml, meter, disk, confirmed, tx, session, ops, base, ran>>

\* Variant: another source begins a new record, whatever was run.
BackupAfresh(r, src, obs) ==
  IF r # None /\ src = r.orig THEN [r EXCEPT !.obs = @ \o obs]
  ELSE NewRecord(src, obs)

\* async_backup: observations are added to the record; a preview that was
\* never acted on gives way to the YAML of today, its observations stay.
Backup(r, src, obs) ==
  IF r = None THEN NewRecord(src, obs)
  ELSE IF src \in {r.orig} \cup (IF r.prep = None THEN {} ELSE {r.prep.src})
       THEN [r EXCEPT !.obs = @ \o obs]
  ELSE IF /\ r.prep # None /\ r.attempted = {} /\ Results(r) = {} /\ r.final = None
       THEN NewRecord(src, r.obs \o obs)
  ELSE None

PrepareBackup ==
  LET r == Backup(Record, task.src, task.new) IN
  /\ At("prepare", "backup")
  /\ UNCHANGED <<yaml, meter, confirmed, tx, session, ops, base, ran>>
  /\ \/ session.live /\ Put(r) /\ task' = [task EXCEPT !.pc = "save"]
     \/ PutFails(r) /\ task' = NoTask

\* async_prepare
PrepareSave ==
  LET prep == [id |-> ops + 1, src |-> task.src, stage |-> task.stage,
               targets |-> task.left, gen |-> meter.gen, clear |-> task.old]
      new == [Record EXCEPT !.prep = prep, !.cancelled = FALSE, !.attempted = {}]
  IN
  /\ At("prepare", "save") /\ task' = NoTask
  /\ UNCHANGED <<yaml, meter, tx, session, base, ran>>
  /\ \/ /\ Record.final = None /\ ops < MaxOps /\ ops' = ops + 1
        /\ \A c \in task.left \ task.old : \A o \in ToSet(Record.obs) :
             (o.key = <<c, task.stage>> /\ o.src = task.src /\ o.gen = meter.gen)
             => (o.kind = "first" /\ o.val = Zero)
        /\ \/ Put(new) /\ confirmed' = [confirmed EXCEPT !.prep = prep.id]
           \/ PutFails(new) /\ confirmed' = [confirmed EXCEPT !.prep = 0]
     \/ UNCHANGED <<disk, confirmed, ops>>

-----------------------------------------------------------------------------
(* async_resume_offset_calibration, async_calibrate_prepared_offset_board  *)

Key(c) == <<c, Record.prep.stage>>
Left(r) == {c \in Chips : r.results[<<c, r.prep.stage>>] = None}

\* reconcile: claim, receipt, connection and source.
Reconciles ==
  /\ session.live /\ ActionReady(Record)
  /\ Record.prep.gen = meter.gen /\ yaml = Record.prep.src

\* What was captured is still on the meter.  (A stage that is configured can
\* not be run again, and stage 2 needs stage 1, captured or configured.)
Resume ==
  LET r == Record IN
  /\ Begin("resume") /\ Reconciles
  /\ \A c \in Chips : yaml.tables[Key(c)] = None
  /\ Left(r) = {c \in r.prep.targets : r.results[Key(c)] = None}
  /\ Left(r) \cap r.attempted = {}
  /\ \A k \in Results(r) :
       Dumped(k) \in {r.results[k]} \cup (IF r.results[k] = Zero THEN {None} ELSE {})
  /\ r.prep.stage = 2 =>
       \/ \A c \in Chips : r.results[<<c, 1>>] # None
       \/ \A c \in Chips : yaml.tables[<<c, 1>>] # None
  /\ task' = [NoTask EXCEPT !.op = "resume", !.pc = "backup", !.left = Left(r)]
  /\ UNCHANGED <<yaml, meter, disk, confirmed, tx, session, ops, base, ran>>

\* The table of a chip is saved before it is cleared.
SavedFirst(r, c) ==
  IF Dumped(Key(c)) = None THEN r
  ELSE Backup(r, yaml, <<Observed(Key(c), [kind |-> "saved", val |-> Dumped(Key(c))], yaml)>>)

ResumeBackup ==
  /\ At("resume", "backup")
  /\ UNCHANGED <<yaml, meter, confirmed, tx, session, ops, base, ran>>
  /\ \E c \in task.left :
       LET new == SavedFirst(Record, c)
           bound == Seen(Record, Key(c))
           first == Record.obs[Min(bound)]
           next == task.left \ {c}
       IN \/ /\ Reconciles
             /\ Dumped(Key(c)) # None \/ bound # {}
             /\ IF new = Record THEN UNCHANGED disk ELSE Put(new)
             /\ \/ c \in Record.prep.clear
                \/ /\ Dumped(Key(c)) = None
                   /\ first.kind = "first" /\ first.val = Zero
             /\ task' = IF next # {} THEN [task EXCEPT !.left = next]
                        ELSE [task EXCEPT !.pc = "attempt", !.left = Left(Record)]
          \/ task' = NoTask /\ (IF new = Record THEN UNCHANGED disk ELSE PutFails(new))

\* Variant: the attempt is only known to the process.
AttemptForgotten(r, c) == r

\* async_begin_attempt
Attempted(r, c) == [r EXCEPT !.attempted = @ \cup {c}]

ResumeAttempt ==
  /\ At("resume", "attempt")
  /\ UNCHANGED <<yaml, meter, confirmed, tx, session, ops, base, ran>>
  /\ \E c \in task.left :
       LET new == Attempted(Record, c) IN
       /\ Reconciles /\ c \notin Record.attempted
       /\ \/ /\ Put(new)
             /\ task' = [task EXCEPT !.chip = c,
                  !.pc = IF c \in Record.prep.clear THEN "clear" ELSE "run"]
          \/ PutFails(new) /\ task' = NoTask

\* The chip is cleared; calibration that the firmware disables does nothing.
ResumeClear ==
  LET k == Key(task.chip)
      cleared == IF meter.fw.tables[k] # None THEN meter
                 ELSE [meter EXCEPT !.flash[k] = None]
  IN
  /\ At("resume", "clear") /\ Reconciles
  /\ UNCHANGED <<yaml, disk, confirmed, tx, session, ops, base, ran>>
  /\ \/ /\ meter' = cleared /\ InUse(cleared, k) = Zero
        /\ task' = [task EXCEPT !.pc = "run"]
     \/ meter' \in {meter, cleared} /\ task' = NoTask

\* The run writes a table; its evidence arrives or not.
ResumeRun ==
  LET k == Key(task.chip) IN
  /\ At("resume", "run") /\ Reconciles
  /\ UNCHANGED <<yaml, disk, confirmed, tx, session, ops, base>>
  /\ \/ /\ meter.fw.tables[k] = None
        /\ \E v \in Values :
             /\ meter' = [meter EXCEPT !.flash[k] = v]
             /\ ran' = ran \cup {<<Record.prep.id, task.chip>>}
             /\ task' \in {NoTask, [task EXCEPT !.pc = "capture", !.new = v]}
     \/ UNCHANGED <<meter, ran>> /\ task' = NoTask

\* async_capture_result
ResumeCapture ==
  LET new == [Record EXCEPT !.results[Key(task.chip)] = task.new]
      next == task.left \ {task.chip}
  IN
  /\ At("resume", "capture")
  /\ UNCHANGED <<yaml, meter, confirmed, tx, session, ops, base, ran>>
  /\ \/ /\ Reconciles /\ Put(new)
        /\ task' = IF next = {} THEN NoTask
                   ELSE [task EXCEPT !.pc = "attempt", !.left = next, !.chip = None,
                                     !.new = None]
     \/ Reconciles /\ PutFails(new) /\ task' = NoTask

-----------------------------------------------------------------------------
(* async_preview_offset_finalization                                       *)

\* The stages of the captured chips that were not run are dumped afresh.
Missing(r) == {k \in Targets(r) \X Stages : k \notin Results(r)}

\* What the table of such a stage is taken to be.
Remaining(r, k) ==
  LET firsts == OfKind(r, k, "first") IN
  IF Dumped(k) # None THEN {[kind |-> "saved", val |-> Dumped(k)]}
  ELSE IF firsts = {} THEN {}
  ELSE {[kind |-> "first", val |-> r.obs[Max(firsts)].val]}

FinalObserve ==
  LET r == Record
      found == [k \in Missing(r) |-> Remaining(r, k)]
  IN
  /\ Begin("finalize") /\ r # None /\ Results(r) # {}
  /\ r.final = None => \A k \in Missing(r) : found[k] # {}
  /\ task' = [NoTask EXCEPT !.op = "finalize", !.src = yaml,
       !.pc = IF r.final = None /\ Missing(r) # {} THEN "backup" ELSE "review",
       !.new = IF r.final # None THEN <<>>
               ELSE SetToSeq({Observed(k, CHOOSE c \in found[k] : TRUE, yaml) :
                              k \in Missing(r)})]
  /\ UNCHANGED <<yaml, meter, disk, confirmed, tx, session, ops, base, ran>>

FinalBackup ==
  LET r == Backup(Record, task.src, task.new) IN
  /\ At("finalize", "backup")
  /\ UNCHANGED <<yaml, meter, confirmed, tx, session, ops, base, ran>>
  /\ \/ Put(r) /\ task' = [task EXCEPT !.pc = "review", !.new = <<>>]
     \/ PutFails(r) /\ task' = NoTask

\* build_finalization_plan
Proposed(r, src) ==
  [src EXCEPT !.tables = [k \in Keys |->
     IF k[1] \notin Targets(r) THEN @[k]
     ELSE IF r.results[k] # None THEN r.results[k] ELSE Known(r, k)]]

\* async_review_finalization; then the transaction is previewed, or not.
FinalReview ==
  LET r == Record
      final == [id |-> ops + 1, src |-> task.src, proposed |-> Proposed(r, task.src),
                targets |-> Targets(r), seen |-> Len(r.obs), results |-> r.results]
      new == [r EXCEPT !.final = final, !.finst = FALSE, !.fcancel = FALSE,
                       !.selected = FALSE]
  IN
  /\ At("finalize", "review") /\ task' = NoTask
  /\ UNCHANGED <<yaml, meter, session, base, ran>>
  /\ \/ /\ session.live /\ ~Unfinished(r) /\ task.src \in Allowed(r) /\ ops < MaxOps
        /\ \A k \in Targets(r) \X Stages : Proposed(r, task.src).tables[k] \in Values
        /\ confirmed' = [prep |-> 0, final |-> 0] /\ ops' = ops + 1
        /\ \/ /\ Put(new)
              /\ tx' \in {tx} \cup (IF tx.pc \notin {"none", "preview"} THEN {}
                   ELSE {[NoTx EXCEPT !.pc = "preview", !.final = final, !.guard = TRUE]})
           \/ PutFails(new) /\ UNCHANGED tx
     \/ UNCHANGED <<disk, confirmed, ops, tx>>

-----------------------------------------------------------------------------
(* The transaction that installs the final YAML.                           *)

\* _check_configuration_source
SourceIs(content, installed) ==
  /\ tx.guard \/ tx.recovered
  /\ Required(Record, tx.final,
       IF tx.recovered /\ Record # None THEN Record.finst ELSE installed, ~tx.recovered)
  /\ yaml = content

TxTo(pc) == tx' = [tx EXCEPT !.pc = pc]

\* The reviewed source is replaced by the proposed YAML, under the config lease.
TxWrite ==
  /\ tx.pc = "preview" /\ task.op = "none"
  /\ \/ SourceIs(tx.final.src, FALSE) /\ yaml' = tx.final.proposed /\ TxTo("written")
     \/ UNCHANGED yaml /\ tx' = NoTx
  /\ UNCHANGED <<meter, disk, confirmed>>

TxRollback ==
  /\ tx.pc = "written" /\ tx' = NoTx
  /\ yaml' = IF yaml = tx.final.proposed THEN tx.final.src ELSE yaml
  /\ UNCHANGED <<meter, disk, confirmed>>

\* The checkpoint is saved; the OTA may fail and be tried again.
TxInstall ==
  /\ tx.pc \in {"written", "ota"} /\ UNCHANGED <<yaml, disk, confirmed>>
  /\ SourceIs(tx.final.proposed, FALSE)
  /\ \/ Reconnected(tx.final.proposed) /\ TxTo("mark")
     \/ UNCHANGED meter /\ TxTo("ota")

\* Variant: the receipt is written before the firmware is known to run.
MarkEarly == {"ota", "mark"}

\* The receipt is written after the meter came back with the firmware.
MarkAt == {"mark"}

\* async_mark_final_installed
TxMark ==
  LET new == [Record EXCEPT !.finst = TRUE] IN
  /\ tx.pc \in MarkAt /\ UNCHANGED <<yaml, meter>>
  /\ \/ /\ SourceIs(tx.final.proposed, FALSE)
        /\ IF Record.finst THEN UNCHANGED disk ELSE Put(new)
        /\ confirmed' = [confirmed EXCEPT !.final = tx.final.id] /\ TxTo("check")
     \/ /\ SourceIs(tx.final.proposed, FALSE) /\ PutFails(new)
        /\ confirmed' = [confirmed EXCEPT !.final = 0] /\ TxTo("mark")
     \/ ~SourceIs(tx.final.proposed, FALSE) /\ tx' = NoTx /\ UNCHANGED <<disk, confirmed>>

\* A source or a session that changed meanwhile takes the receipt back.
TxCheck ==
  /\ tx.pc = "check" /\ tx' = NoTx /\ UNCHANGED <<yaml, meter>>
  /\ \/ SourceIs(tx.final.proposed, TRUE) /\ UNCHANGED <<disk, confirmed>>
     \/ /\ Record # None /\ Record.final = tx.final /\ PutFails(Cancelled(Record))
        /\ confirmed' = [confirmed EXCEPT !.final = 0]

\* async_recover_install: the checkpoint names the finalization of the record.
TxRecover ==
  /\ tx.pc = "recover" /\ LeaseFree /\ yaml = tx.final.proposed
  /\ Record # None /\ Record.final = tx.final /\ ~Record.fcancel
  /\ tx' = [tx EXCEPT !.pc = "ota", !.recovered = TRUE]
  /\ UNCHANGED <<yaml, meter, disk, confirmed>>

TxAbandon ==
  /\ tx.pc \in {"ota", "mark", "recover"} /\ tx' = NoTx
  /\ UNCHANGED <<yaml, meter, disk, confirmed>>

Transaction ==
  /\ \/ TxWrite \/ TxRollback \/ TxInstall \/ TxMark \/ TxCheck
     \/ TxRecover \/ TxAbandon
  /\ UNCHANGED <<task, session, ops, base, ran>>

-----------------------------------------------------------------------------
(* async_reconcile_offset_finalization                                     *)

Selectable(r) ==
  /\ session.live /\ Required(r, r.final, TRUE, FALSE) /\ yaml = r.final.proposed
  /\ \A k \in r.final.targets \X Stages : meter.fw.tables[k] # None

\* Whatever fails, the finalization is cancelled.
ReconcileFails ==
  /\ task' = NoTask /\ PutFails(Cancelled(Record))
  /\ confirmed' = [confirmed EXCEPT !.final =
                     IF @ = Record.final.id THEN 0 ELSE @]

Confirm == confirmed' = [confirmed EXCEPT !.final = Record.final.id]

ReconcileStart ==
  /\ Begin("reconcile") /\ Record # None /\ Record.final # None
  /\ task' = [NoTask EXCEPT !.op = "reconcile", !.pc = "select"]
  /\ UNCHANGED <<disk, confirmed>>

ReconcileSelect ==
  /\ At("reconcile", "select")
  /\ \/ Selectable(Record) /\ Record.selected /\ Confirm /\ task' = NoTask /\ UNCHANGED disk
     \/ /\ Selectable(Record) /\ ~Record.selected
        /\ Put([Record EXCEPT !.selected = TRUE])
        /\ task' = [task EXCEPT !.pc = "confirm"] /\ UNCHANGED confirmed
     \/ ReconcileFails

ReconcileConfirm ==
  /\ At("reconcile", "confirm")
  /\ \/ Selectable(Record) /\ Confirm /\ task' = NoTask /\ UNCHANGED disk
     \/ ReconcileFails

Reconcile ==
  /\ (ReconcileStart \/ ReconcileSelect \/ ReconcileConfirm)
  /\ UNCHANGED <<yaml, meter, tx, session, ops, base, ran>>

-----------------------------------------------------------------------------
(* async_begin_offset_cycle, async_begin_new_cycle                         *)

\* Variant: the record gives way before its archive is written.
RotateFirst == "rotate"

\* The predecessor is archived first.
FirstStep == "archive"

CycleStart ==
  LET r == Record
      conf(k) == Observed(k, [kind |-> "configuration", val |-> yaml.tables[k]], yaml)
  IN
  /\ Begin("cycle") /\ r # None /\ r.final # None /\ r.selected /\ ~Unfinished(r)
  /\ Selectable(r) /\ Confirm
  /\ \A k \in r.final.targets \X Stages : yaml.tables[k] # None
  /\ task' = [NoTask EXCEPT !.op = "cycle", !.pc = FirstStep, !.old = r,
       !.new = NewRecord(yaml, SetToSeq({conf(k) : k \in r.final.targets \X Stages}))]
  /\ UNCHANGED <<disk, base>>

\* It is written beside the record, which stays what it is.
CycleArchive ==
  LET archived == disk' = [disk EXCEPT !.archive = task.old] IN
  /\ At("cycle", "archive") /\ UNCHANGED <<confirmed, base>>
  /\ \/ session.live /\ archived /\ task' = [task EXCEPT !.pc = "rotate"]
     \/ (archived \/ UNCHANGED disk) /\ task' = NoTask

\* The new record replaces it; the history of the flash begins anew.
CycleRotate ==
  /\ At("cycle", "rotate") /\ UNCHANGED confirmed
  /\ \/ /\ session.live /\ yaml = task.new.orig /\ Put(task.new)
        /\ base' = meter.flash /\ task' = [task EXCEPT !.pc = "verify"]
     \/ /\ task' = NoTask /\ (Put(task.new) \/ UNCHANGED disk)
        /\ base' = IF disk'.record = task.new THEN meter.flash ELSE base

\* It is read back; a change of the source restores the predecessor.
CycleVerify ==
  /\ At("cycle", "verify") /\ task' = NoTask /\ UNCHANGED base
  /\ \/ /\ session.live /\ yaml = task.new.orig /\ UNCHANGED disk
        /\ confirmed' = [prep |-> 0, final |-> 0]
     \/ Put(task.old) /\ UNCHANGED confirmed
     \/ UNCHANGED <<disk, confirmed>>

Cycle ==
  /\ (CycleStart \/ CycleArchive \/ CycleRotate \/ CycleVerify)
  /\ UNCHANGED <<yaml, meter, tx, session, ops, ran>>

-----------------------------------------------------------------------------
(* Sessions, and what others do.                                           *)

\* The session expires or is cancelled; its operation is cancelled with it.
Revoke ==
  /\ session.live /\ tx' = [tx EXCEPT !.guard = FALSE]
  /\ session' \in [live : {FALSE}, owes : IF TxHolds THEN {FALSE} ELSE BOOLEAN]
  /\ UNCHANGED <<disk, confirmed, task>>

\* Once its operation has ended, the clean-up cancels what it had prepared.
CleanupCancel ==
  LET r == Record IN
  /\ session.owes /\ task.op = "none" /\ session' = [session EXCEPT !.owes = FALSE]
  /\ UNCHANGED <<tx, task>>
  /\ \/ /\ LeaseFree /\ r # None /\ (r.final # None \/ r.prep # None)
        /\ PutFails(Cancelled(r))
        /\ confirmed' = IF r.final # None THEN [confirmed EXCEPT !.final = 0]
                        ELSE [confirmed EXCEPT !.prep = 0]
     \/ UNCHANGED <<disk, confirmed>>

StartSession ==
  /\ ~session.live /\ ~session.owes /\ task.op = "none"
  /\ session' = [session EXCEPT !.live = TRUE]
  /\ UNCHANGED <<tx, task, disk, confirmed>>

\* The operation of the session fails at an await.
Fail ==
  /\ task.op # "none" /\ task.pc \notin {"select", "confirm", "verify"} /\ Raise
  /\ UNCHANGED <<tx, session>>

Session ==
  /\ (Revoke \/ CleanupCancel \/ StartSession \/ Fail)
  /\ UNCHANGED <<yaml, meter, ops, base, ran>>

\* Home Assistant restarts: an OTA under way has left a checkpoint.
Crash ==
  /\ task' = NoTask /\ confirmed' = [prep |-> 0, final |-> 0]
  /\ session' = [live |-> FALSE, owes |-> FALSE]
  /\ tx' = IF tx.pc \in {"ota", "mark", "check", "recover"}
           THEN [NoTx EXCEPT !.pc = "recover", !.final = tx.final] ELSE NoTx
  /\ UNCHANGED <<yaml, meter, disk>>

\* Somebody edits the YAML: takes the offsets out, or changes the rest of it.
Edit ==
  \/ yaml.rev < MaxEdits /\ yaml' = [yaml EXCEPT !.rev = @ + 1]
  \/ yaml' = [yaml EXCEPT !.tables = NoTables]

\* Somebody installs it, or the meter restarts.
Restart == \E fw \in {yaml, meter.fw} : Reconnected(fw)

Others ==
  /\ \/ Crash
     \/ Edit /\ UNCHANGED <<meter, disk, confirmed, task, tx, session>>
     \/ Restart /\ UNCHANGED <<yaml, disk, confirmed, task, tx, session>>
  /\ UNCHANGED <<ops, base, ran>>

Next ==
  \/ \E stage \in Stages : PrepareObserve(stage)
  \/ PrepareBackup \/ PrepareSave
  \/ Resume \/ ResumeBackup \/ ResumeAttempt \/ ResumeClear \/ ResumeRun \/ ResumeCapture
  \/ FinalObserve \/ FinalBackup \/ FinalReview
  \/ Transaction \/ Reconcile \/ Cycle \/ Session \/ Others

Spec == Init /\ [][Next]_vars

-----------------------------------------------------------------------------
(* Properties.                                                             *)

\* A saved table the helper has cleared or overwritten since the cycle began
\* is among the observations of the record on disk (async_backup before
\* async_begin_attempt), through crashes, new previews and edited sources.
OriginalIsKept ==
  \A k \in Keys : base[k] # None /\ meter.flash[k] # base[k] =>
    /\ Record # None
    /\ \E o \in ToSet(Record.obs) : o.key = k /\ o.kind = "saved" /\ o.val = base[k]

\* A chip is run once under a reviewed preparation: a lost answer, a restart
\* of the host or of the meter never repeats it (async_begin_attempt).
NoRunIsRepeated ==
  [][At("resume", "run") /\ (meter' # meter \/ task'.pc = "capture") =>
       <<Record.prep.id, task.chip>> \notin ran]_vars

\* The final YAML changes nothing about what the meter calculates with: each
\* table of its chips is the captured one, or the one that was in use
\* (build_finalization_plan, async_preview_offset_finalization).
InstallKeepsTables ==
  [][TxInstall /\ tx'.pc = "mark" =>
       \A k \in tx.final.targets \X Stages : InUse(meter', k) = InUse(meter, k)]_vars

\* The installed receipt is only ever written after the meter has run the final
\* firmware (async_mark_final_installed), whatever fails or restarts meanwhile.
ReceiptIsTrue ==
  [][Record' # None /\ Record'.finst /\ ~Record.finst =>
       Record'.final.id \in meter.had]_vars

\* A finished operation gives way only to a new cycle, and is then in the
\* archive (async_begin_new_cycle).
FinishedIsArchived ==
  [][Record # None /\ Record.selected /\ Record'.final = None =>
       disk'.archive = Record]_vars
=============================================================================
