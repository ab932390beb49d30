------------------------- MODULE ConfigTransaction -------------------------
(***************************************************************************)
(* ConfigTransactionManager (config_transaction.py) for one meter: preview,*)
(* the first confirmation that writes and validates YAML, compile, the     *)
(* second confirmation that runs the OTA, reconnect verification, durable  *)
(* metadata, rollback, expiry, abandonment and recovery after a restart,   *)
(* of any number of transactions that share the meter's config lock, the   *)
(* YAML on Device Builder, the last firmware build and the durable record. *)
(*                                                                         *)
(* An operation runs up to the next await in one step; pc names the await  *)
(* it is suspended at ("idle": no operation of the transaction runs).  The *)
(* per-transaction operation_lock makes a second operation wait for pc =   *)
(* "idle", which is the same as starting it then.                          *)
(***************************************************************************)
EXTENDS HelperStore

CONSTANTS
  Kinds,          \* the purposes explored, a subset of {"install", "calib"}
  Faults,         \* the failures explored, a subset of FaultKinds
  InitialMeters,  \* durable records the helper may start from
  InitialYaml,    \* the YAML on Device Builder at the start
  Edits,          \* contents another user may put on Device Builder
  UploadRebuilds  \* TRUE if firmware/upload compiles the YAML it finds first

\* "builder": a Device Builder call raises, times out or its result is lost.
\* "lost": a save raises and the disk is unchanged.  "unacked": the disk has
\* changed but the read-back that verifies the save raises.  "cancel": the
\* caller of a drained save is cancelled.  "crash": Home Assistant restarts.
FaultKinds == {"builder", "lost", "unacked", "cancel", "crash"}

ASSUME ParametersAssumption ==
  /\ Kinds \subseteq {"install", "calib"}
  /\ Faults \subseteq FaultKinds
  /\ InitialMeters \subseteq Meters \cup {None}
  /\ InitialYaml \in Contents
  /\ Edits \subseteq OtherYaml
  /\ UploadRebuilds \in BOOLEAN

\* No transaction has claimed the gains the helper starts from.
ASSUME UnclaimedAssumption ==
  \A m \in InitialMeters :
    Entry(m).calib # None => Loadable(m.calib) /\ m.calib.owner = None

VARIABLES
  tx,        \* the _ConfigTransaction objects, by transaction id
  locked,    \* the meter's config lock (an asyncio.Lock has no owner)
  cal,       \* the calibration engine holds the config and calibration leases
  store,     \* the durable record of the meter (HelperStore)
  builder,   \* the YAML Device Builder holds
  built,     \* the content the last firmware build was made from
  fw         \* the content of the firmware the meter runs

remote == <<builder, built, fw>>
vars == <<tx, locked, cal, store, builder, built, fw>>

States ==
  {"none", "previewed", "write_confirmed", "written", "validated",
   "install_confirmation_required", "installing", "reconnecting",
   "verified", "rolled_back", "failed", "lost"}

Awaits ==
  {"idle", "pv_lock", "pv_read", "pv_claim", "pv_release",
   "cw_lock", "cw_revalidate", "cw_release", "cw_get", "cw_update",
   "cw_conflict", "cw_reconcile", "cw_validate", "nm_check", "nm_save",
   "rs_get", "rs_again", "rs_update", "rs_verify", "rs_release", "rs_clear",
   "cp_check", "cp_job", "cp_check2",
   "ci_adopt", "ci_retry", "ci_revoke", "ci_check", "ci_save", "ci_undo",
   "ci_check2", "up_job", "up_save", "tf_clear",
   "vf_verify", "ps_check", "ps_save", "ps_clear",
   "ab_release", "ab_check", "ab_clear", "xr_release", "rv_lock", "rv_get"}

Transaction ==
  [open : BOOLEAN, st : States, pc : Awaits,
   kind : {"install", "calib"}, full : BOOLEAN, vid : Vids \cup {None},
   src : Contents \cup {None}, prop : Contents \cup {None},
   fp : Meters \cup {None}, lease : BOOLEAN, ws : BOOLEAN, resv : BOOLEAN,
   rb : BOOLEAN, ck : BOOLEAN, rec : BOOLEAN, restored : BOOLEAN,
   ota : {"no", "attempted", "uploaded"}, due : BOOLEAN, xstart : BOOLEAN,
   pcs : BOOLEAN]

\* A transaction that was never opened, or was scrubbed and removed.  open:
\* registered and not closed.  ws, resv, rb, ck, rec, restored, xstart, pcs:
\* write_started, reservation_claimed, rollback_available, checkpoint_saved,
\* recovered, CONFIG_RESTORED in progress, expiry_cleanup_started and
\* persistence_commit_started.  due: the clock is past expires_at.
Blank ==
  [open |-> FALSE, st |-> "none", pc |-> "idle", kind |-> "install",
   full |-> TRUE, vid |-> None, src |-> None, prop |-> None, fp |-> None,
   lease |-> FALSE, ws |-> FALSE, resv |-> FALSE, rb |-> FALSE, ck |-> FALSE,
   rec |-> FALSE, restored |-> FALSE, ota |-> "no", due |-> FALSE,
   xstart |-> FALSE, pcs |-> FALSE]

TypeOK ==
  /\ tx \in [Txns -> Transaction]
  /\ locked \in BOOLEAN
  /\ cal \in BOOLEAN
  /\ store \in Stores
  /\ builder \in Contents
  /\ built \in Contents
  /\ fw \in Contents

Init ==
  /\ tx = [t \in Txns |-> Blank]
  /\ locked = FALSE
  /\ cal = FALSE
  /\ store \in [meter : InitialMeters, ck : {None}]
  /\ builder = InitialYaml
  /\ built = InitialYaml
  /\ fw = InitialYaml

-----------------------------------------------------------------------------
(* Steps of one transaction.                                               *)

Fault(kind) == kind \in Faults

At(t, label) == tx[t].pc = label

\* Variant: closing any transaction unlocks the meter, whoever holds it.
BecomeUnlocked(t, r) ==
  /\ tx' = [tx EXCEPT ![t] = r]
  /\ locked' = (locked /\ r.lease)

\* Replace t's object by r; releasing a lease unlocks the lock if it is locked.
Become(t, r) ==
  /\ tx' = [tx EXCEPT ![t] = r]
  /\ locked' = (locked /\ (tx[t].lease => r.lease))

\* sessions.async_acquire_config: some waiter gets a free lock.
Acquire(t, r) ==
  /\ ~locked
  /\ tx' = [tx EXCEPT ![t] = [r EXCEPT !.lease = TRUE]]
  /\ locked' = TRUE

Goto(t, label) == [tx[t] EXCEPT !.pc = label]

\* _finish: the lease is released, the object scrubbed and removed.
Finish(state) == [Blank EXCEPT !.st = state]


\* _retain_install_retry
RetainInstallRetry(r) ==
  [r EXCEPT !.pc = "idle", !.st = "install_confirmation_required",
            !.rb = ~r.rec /\ r.ota = "no", !.due = FALSE]

\* _retain_install_retry with PERSISTENCE_FAILED
RetainUnpersisted(r) == [RetainInstallRetry(r) EXCEPT !.rb = FALSE]

\* _retain_write_recovery of an open transaction
RetainWriteRecovery(r) ==
  IF r.rec \/ r.ota # "no"
  THEN RetainInstallRetry(r)
  ELSE [r EXCEPT !.pc = "idle", !.st = "failed", !.rb = TRUE, !.due = FALSE]

\* Variant: a transaction that lost its source is simply closed.
SourceForgotten(r) == Finish("failed")

\* The error path of _check_configuration_source, which then raises; a
\* transaction that checks before any write holds no reservation.
SourceLost(r) == IF r.ws THEN RetainWriteRecovery(r) ELSE Finish("failed")

\* Variant: a rollback that is over when the YAML is back.
RestoredOnly(r) == Finish("rolled_back")

\* _rollback_locked once the prior YAML is restored: write_started is cleared,
\* then the reservation and the checkpoint go, if there are any.
AfterRestore(r) ==
  LET done == [r EXCEPT !.ws = FALSE, !.restored = TRUE, !.rb = FALSE] IN
  CASE r.resv -> [done EXCEPT !.pc = "rs_release"]
    [] ~r.resv /\ r.ck -> [done EXCEPT !.pc = "rs_clear"]
    [] OTHER -> Finish("rolled_back")

StartRollback(r) ==
  IF r.restored THEN AfterRestore(r)
  ELSE [r EXCEPT !.pc = "rs_get", !.rb = FALSE]

\* _check_configuration_source(proposed=True) at the await "from".
CheckSource(t, from, ok, lost) ==
  /\ At(t, from)
  /\ \/ builder = tx[t].prop /\ Become(t, ok)
     \/ (builder # tx[t].prop \/ Fault("builder")) /\ Become(t, lost)
  /\ UNCHANGED <<cal, store, remote>>

\* Variant: a save is not read back, so that a lost one is taken for done.
SaveUnread(new, acknowledged) ==
  acknowledged /\ store' \in {new} \cup {s \in {store} : Fault("lost")}

\* A drained save of record new: the disk, and what the caller is told.
Save(new, acknowledged) ==
  \/ acknowledged /\ store' = new
  \/ ~acknowledged /\ Fault("lost") /\ store' = store
  \/ ~acknowledged /\ Fault("unacked") /\ store' = new

SaveMeter(m, acknowledged) == Save([store EXCEPT !.meter = m], acknowledged)

\* _install_checkpoint
Checkpoint(t, r) ==
  [txn |-> t, kind |-> r.kind, full |-> r.full, vid |-> r.vid, src |-> r.src,
   prop |-> r.prop, fp |-> r.fp, uploaded |-> r.ota = "uploaded"]

SaveCheckpoint(t, acknowledged) ==
  Save([store EXCEPT !.ck = Checkpoint(t, tx[t])], acknowledged)

\* _clear_install_checkpoint; it raises on another transaction's checkpoint.
ClearCheckpoint(t, acknowledged) ==
  \/ CanClear(store.ck, t) /\ Save([store EXCEPT !.ck = None], acknowledged)
  \/ ~CanClear(store.ck, t) /\ ~acknowledged /\ store' = store

\* reservation_release of the transaction's verification id.
ReleaseReservation(t, acknowledged) ==
  SaveMeter(Release(store.meter, tx[t].vid, t), acknowledged)

\* _transaction: an open, unexpired transaction whose last operation ended.
Ready(t) == tx[t].open /\ At(t, "idle") /\ ~tx[t].due

-----------------------------------------------------------------------------
(* Previews.                                                               *)

\* async_preview with a full meter configuration: the proposed content is new,
\* or equal to the source when only metadata changes.
Preview(t) ==
  /\ "install" \in Kinds /\ tx[t] = Blank
  /\ \E proposed \in {t, builder} :
       Become(t, [Blank EXCEPT !.open = TRUE, !.st = "previewed",
                    !.src = builder, !.prop = proposed, !.fp = store.meter])
  /\ UNCHANGED <<cal, store, remote>>

\* async_preview_calibrated_gains runs under its own lease.
PreviewGains(t) ==
  /\ "calib" \in Kinds /\ tx[t] = Blank
  /\ \E v \in Vids :
       Become(t, [Blank EXCEPT !.pc = "pv_lock", !.kind = "calib", !.vid = v])
  /\ UNCHANGED <<cal, store, remote>>

PreviewGainsLock(t) ==
  /\ At(t, "pv_lock")
  /\ Acquire(t, Goto(t, "pv_read"))
  /\ UNCHANGED <<cal, store, remote>>

\* The verified record must be unused and built on the YAML that is read; the
\* transaction is registered by the nested async_preview.
PreviewGainsRead(t) ==
  LET v == tx[t].vid IN
  /\ At(t, "pv_read")
  /\ \/ /\ CanClaim(store.meter, v) /\ store.meter.calib.src = builder
        /\ Become(t, [tx[t] EXCEPT
             !.open = TRUE, !.st = "previewed", !.pc = "pv_claim",
             !.src = builder, !.prop = t,
             !.full = store.meter.hash = builder /\ store.meter.conf # None])
     \/ /\ \/ ~CanClaim(store.meter, v) \/ Fault("builder")
           \/ CanClaim(store.meter, v) /\ store.meter.calib.src # builder
        /\ Become(t, Blank)
  /\ UNCHANGED <<cal, store, remote>>

\* _claim_verified_calibration.  The reservation counts as claimed while the
\* outcome is unknown; a cancelled caller gives it back.
PreviewGainsClaim(t) ==
  /\ At(t, "pv_claim")
  /\ \/ /\ ~CanClaim(store.meter, tx[t].vid)
        /\ Become(t, Finish("failed")) /\ UNCHANGED store
     \/ /\ CanClaim(store.meter, tx[t].vid)
        /\ \E ok \in BOOLEAN :
             /\ SaveMeter(Claim(store.meter, t), ok)
             /\ \/ /\ ok
                   /\ Become(t, [Goto(t, "idle") EXCEPT !.lease = FALSE,
                                                        !.resv = TRUE])
                \/ /\ ~ok \/ Fault("cancel")
                   /\ Become(t, [Goto(t, "pv_release") EXCEPT !.resv = TRUE])
  /\ UNCHANGED <<cal, remote>>

PreviewGainsRelease(t) ==
  /\ At(t, "pv_release")
  /\ \E ok \in BOOLEAN :
       /\ ReleaseReservation(t, ok)
       /\ Become(t, IF ok THEN Finish("failed")
                    ELSE [Goto(t, "idle") EXCEPT !.lease = FALSE])
  /\ UNCHANGED <<cal, remote>>

-----------------------------------------------------------------------------
(* async_confirm_write.                                                    *)

ConfirmWrite(t) ==
  /\ Ready(t) /\ tx[t].st = "previewed"
  /\ Become(t, Goto(t, "cw_lock"))
  /\ UNCHANGED <<cal, store, remote>>

\* What follows a current verification: a metadata-only save, or the write.
BeginWrite(r) ==
  IF r.kind = "install" /\ r.prop = r.src
  THEN [r EXCEPT !.pc = "nm_check"]
  ELSE [r EXCEPT !.pc = "cw_get", !.st = "write_confirmed", !.ws = TRUE]

ConfirmWriteLock(t) ==
  /\ At(t, "cw_lock")
  /\ Acquire(t, IF tx[t].vid = None THEN BeginWrite(tx[t])
                ELSE Goto(t, "cw_revalidate"))
  /\ UNCHANGED <<cal, store, remote>>

ConfirmWriteRevalidate(t) ==
  LET current == IsReserved(store.meter, tx[t].vid, t) IN
  /\ At(t, "cw_revalidate")
  /\ \/ current /\ Become(t, BeginWrite(tx[t]))
     \/ /\ ~current \/ Fault("lost")
        /\ Become(t, IF tx[t].resv THEN Goto(t, "cw_release")
                     ELSE Finish("failed"))
  /\ UNCHANGED <<cal, store, remote>>

\* A failed release keeps the preview, and the lease it already acquired.
ConfirmWriteRelease(t) ==
  /\ At(t, "cw_release")
  /\ \E ok \in BOOLEAN :
       /\ ReleaseReservation(t, ok)
       /\ Become(t, IF ok THEN Finish("failed") ELSE Goto(t, "idle"))
  /\ UNCHANGED <<cal, remote>>

\* An unchanged configuration only commits its metadata.
MetadataCheck(t) ==
  CheckSource(t, "nm_check", Goto(t, "nm_save"), SourceLost(tx[t]))

MetadataSave(t) ==
  LET r == tx[t]
      can == CanSaveConfiguration(store.meter, t, r.prop, r.fp)
  IN
  /\ At(t, "nm_save")
  /\ \E ok \in BOOLEAN :
       /\ IF can THEN SaveMeter(SaveConfiguration(store.meter, t, r.prop), ok)
          ELSE ~ok /\ UNCHANGED store
       /\ Become(t, Finish(IF ok THEN "verified" ELSE "failed"))
  /\ UNCHANGED <<cal, remote>>

\* DeviceBuilderClient.async_update_config compares the hash, then writes.
WriteGet(t) ==
  /\ At(t, "cw_get")
  /\ \/ builder = tx[t].src /\ Become(t, Goto(t, "cw_update"))
     \/ /\ builder # tx[t].src
        /\ Become(t, IF tx[t].resv
                     THEN [Goto(t, "cw_conflict") EXCEPT !.ws = FALSE]
                     ELSE Finish("failed"))
     \/ Fault("builder") /\ Become(t, Goto(t, "cw_reconcile"))
  /\ UNCHANGED <<cal, store, remote>>

\* A lost acknowledgement leaves the write applied or not.
WriteUpdate(t) ==
  /\ At(t, "cw_update")
  /\ \/ /\ builder' = tx[t].prop
        /\ Become(t, [Goto(t, "cw_validate") EXCEPT !.st = "written"])
     \/ /\ Fault("builder") /\ builder' \in {builder, tx[t].prop}
        /\ Become(t, Goto(t, "cw_reconcile"))
  /\ UNCHANGED <<cal, store, built, fw>>

\* ConfigChangedError: the reservation is given back before anything is written.
WriteConflict(t) ==
  /\ At(t, "cw_conflict")
  /\ \E ok \in BOOLEAN :
       /\ ReleaseReservation(t, ok)
       /\ Become(t, IF ok THEN Finish("failed") ELSE Goto(t, "idle"))
  /\ UNCHANGED <<cal, remote>>

\* _reconcile_uncertain_update
Reconcile(t) ==
  /\ At(t, "cw_reconcile")
  /\ \/ builder = tx[t].src /\ Become(t, Finish("failed"))
     \/ /\ builder = tx[t].prop /\ builder # tx[t].src
        /\ Become(t, StartRollback(tx[t]))
     \/ /\ builder \notin {tx[t].src, tx[t].prop} \/ Fault("builder")
        /\ Become(t, RetainWriteRecovery(tx[t]))
  /\ UNCHANGED <<cal, store, remote>>

\* Validation may reject any content, and rejection rolls the write back.
Validate(t) ==
  /\ At(t, "cw_validate")
  /\ \/ Become(t, [Goto(t, "idle") EXCEPT !.st = "validated", !.due = FALSE])
     \/ Become(t, StartRollback(tx[t]))
  /\ UNCHANGED <<cal, store, remote>>

-----------------------------------------------------------------------------
(* _rollback_locked and DeviceBuilderClient.async_restore_content.         *)

\* async_rollback
Rollback(t) ==
  /\ Ready(t) /\ tx[t].rb
  /\ tx[t].st \in {"failed", "install_confirmation_required"}
  /\ Become(t, StartRollback(tx[t]))
  /\ UNCHANGED <<cal, store, remote>>

RestoreGet(t) ==
  /\ At(t, "rs_get")
  /\ \/ builder = tx[t].prop /\ Become(t, Goto(t, "rs_update"))
     \/ builder # tx[t].prop /\ Become(t, Goto(t, "rs_again"))
     \/ Fault("builder") /\ Become(t, RetainWriteRecovery(tx[t]))
  /\ UNCHANGED <<cal, store, remote>>

\* The YAML is not the proposed one: it may have been restored already.
RestoreAgain(t) ==
  /\ At(t, "rs_again")
  /\ \/ builder = tx[t].src /\ Become(t, Goto(t, "rs_verify"))
     \/ /\ builder # tx[t].src \/ Fault("builder")
        /\ Become(t, RetainWriteRecovery(tx[t]))
  /\ UNCHANGED <<cal, store, remote>>

RestoreUpdate(t) ==
  /\ At(t, "rs_update")
  /\ \/ builder' = tx[t].src /\ Become(t, Goto(t, "rs_verify"))
     \/ /\ Fault("builder") /\ builder' \in {builder, tx[t].src}
        /\ Become(t, RetainWriteRecovery(tx[t]))
  /\ UNCHANGED <<cal, store, built, fw>>

\* Restoring ends with one validation and a read of what is there.
RestoreVerify(t) ==
  /\ At(t, "rs_verify")
  /\ \/ builder = tx[t].src /\ Become(t, AfterRestore(tx[t]))
     \/ /\ builder # tx[t].src \/ Fault("builder")
        /\ Become(t, RetainWriteRecovery(tx[t]))
  /\ UNCHANGED <<cal, store, remote>>

\* A cancelled caller ends the rollback without removing a checkpoint.
RollbackRelease(t) ==
  /\ At(t, "rs_release")
  /\ \E ok \in BOOLEAN :
       /\ ReleaseReservation(t, ok)
       /\ \/ Become(t, IF ok THEN AfterRestore([tx[t] EXCEPT !.resv = FALSE])
                       ELSE RetainWriteRecovery(tx[t]))
          \/ ok /\ Fault("cancel") /\ Become(t, Finish("rolled_back"))
  /\ UNCHANGED <<cal, remote>>

RollbackClear(t) ==
  /\ At(t, "rs_clear")
  /\ \E ok \in BOOLEAN :
       /\ ClearCheckpoint(t, ok)
       /\ Become(t, IF ok THEN Finish("rolled_back")
                    ELSE RetainWriteRecovery(tx[t]))
  /\ UNCHANGED <<cal, remote>>

-----------------------------------------------------------------------------
(* async_compile.                                                          *)

Compile(t) ==
  /\ Ready(t) /\ tx[t].st = "validated"
  /\ Become(t, Goto(t, "cp_check"))
  /\ UNCHANGED <<cal, store, remote>>

CompileCheck(t) ==
  CheckSource(t, "cp_check", Goto(t, "cp_job"), SourceLost(tx[t]))

\* A failed build waits for the user, a cancelled one is rolled back at once;
\* a build whose outcome is lost may have replaced the artifact.
CompileJob(t) ==
  /\ At(t, "cp_job")
  /\ \/ built' = builder /\ Become(t, Goto(t, "cp_check2"))
     \/ /\ built' \in {built} \cup {b \in {builder} : Fault("builder")}
        /\ Become(t, [Goto(t, "idle") EXCEPT !.st = "failed", !.rb = TRUE])
     \/ /\ Fault("cancel") /\ built' \in {built, builder}
        /\ Become(t, StartRollback(tx[t]))
  /\ UNCHANGED <<cal, store, builder, fw>>

CompileCheck2(t) ==
  CheckSource(t, "cp_check2",
    [Goto(t, "idle") EXCEPT !.st = "install_confirmation_required",
                            !.due = FALSE],
    SourceLost(tx[t]))

-----------------------------------------------------------------------------
(* async_confirm_install: revoke, checkpoint, OTA, verify, persist.        *)

\* A retry of an attempted OTA re-checks the source; a first one revokes the
\* old install receipt before anything else.
ConfirmInstall(t) ==
  /\ Ready(t) /\ tx[t].st = "install_confirmation_required"
  /\ Become(t, Goto(t, CASE tx[t].ota = "no" -> "ci_revoke"
                         [] tx[t].ota # "no" /\ tx[t].rec -> "ci_adopt"
                         [] OTHER -> "ci_retry"))
  /\ UNCHANGED <<cal, store, remote>>

\* The start of _upload_locked and of _verify_existing_upload_locked.
BeginUpload(r) ==
  [r EXCEPT !.pc = "up_job", !.st = "installing", !.rb = FALSE,
            !.ota = "attempted"]
BeginVerify(r) == [r EXCEPT !.pc = "vf_verify", !.st = "reconnecting"]

\* A recovered install has no plan until the exact proposed YAML is read.
AdoptSource(t) ==
  /\ At(t, "ci_adopt")
  /\ \/ builder = tx[t].prop /\ Become(t, Goto(t, "ci_retry"))
     \/ builder # tx[t].prop /\ Become(t, RetainInstallRetry(tx[t]))
     \/ Fault("builder") /\ Become(t, Goto(t, "idle"))
  /\ UNCHANGED <<cal, store, remote>>

\* Variant: a retry uploads again whatever is known of the first upload.
RetryUpload(t) ==
  CheckSource(t, "ci_retry", BeginUpload(tx[t]), SourceLost(tx[t]))

RetryCheck(t) ==
  CheckSource(t, "ci_retry",
    IF tx[t].ota = "uploaded" THEN BeginVerify(tx[t]) ELSE BeginUpload(tx[t]),
    SourceLost(tx[t]))

\* async_revoke_installed_calibration; an install compares the fingerprint of
\* the record taken at its preview, and remembers the revoked one.
RevokeReceipt(t) ==
  LET r == tx[t]
      m == store.meter
      allowed == r.kind = "calib" \/ m = r.fp
  IN
  /\ At(t, "ci_revoke")
  /\ \E ok \in BOOLEAN :
       /\ IF allowed /\ Installed(m) THEN SaveMeter(Revoke(m), ok)
          ELSE /\ ok => allowed
               /\ ~ok => ~allowed \/ Fault("lost")
               /\ UNCHANGED store
       /\ \/ /\ ok
             /\ Become(t, [Goto(t, "ci_check") EXCEPT
                  !.fp = IF r.kind = "install" THEN Revoke(m) ELSE @])
          \/ (~ok \/ Fault("cancel")) /\ Become(t, Finish("failed"))
  /\ UNCHANGED <<cal, remote>>

InstallCheck(t) ==
  CheckSource(t, "ci_check", [Goto(t, "ci_save") EXCEPT !.st = "installing"],
              SourceLost(tx[t]))

\* The checkpoint is durable before the OTA starts.  checkpoint_saved is set
\* only when the save is acknowledged.
InstallCheckpoint(t) ==
  /\ At(t, "ci_save")
  /\ \E ok \in BOOLEAN :
       /\ SaveCheckpoint(t, ok)
       /\ \/ ok /\ Become(t, [Goto(t, "ci_check2") EXCEPT !.ck = TRUE])
          \/ ~ok /\ Become(t, Finish("failed"))
          \/ Fault("cancel") /\ Become(t, [Goto(t, "ci_undo") EXCEPT !.ck = ok])
  /\ UNCHANGED <<cal, remote>>

\* A cancelled caller removes the checkpoint again; if that fails the
\* exception leaves the transaction installing, its lease held.
InstallUndo(t) ==
  /\ At(t, "ci_undo")
  /\ \E ok \in BOOLEAN :
       /\ ClearCheckpoint(t, ok)
       /\ Become(t, IF ok THEN Finish("failed") ELSE Goto(t, "idle"))
  /\ UNCHANGED <<cal, remote>>

InstallCheck2(t) ==
  CheckSource(t, "ci_check2", BeginUpload(tx[t]), SourceLost(tx[t]))

\* firmware/upload flashes the last build.  Its outcome is success, failure
\* (nothing was flashed) or unknown.
UploadJob(t) ==
  LET image == IF UploadRebuilds THEN builder ELSE built IN
  /\ At(t, "up_job")
  /\ \/ /\ fw' = image /\ built' = image
        /\ Become(t, IF tx[t].ck
                     THEN [Goto(t, "up_save") EXCEPT !.ota = "uploaded"]
                     ELSE BeginVerify([tx[t] EXCEPT !.ota = "uploaded"]))
     \/ UNCHANGED <<fw, built>> /\ Become(t, Goto(t, "tf_clear"))
     \/ /\ Fault("builder") /\ fw' \in {fw, image} /\ built' \in {built, image}
        /\ Become(t, RetainInstallRetry(tx[t]))
  /\ UNCHANGED <<cal, store, builder>>

UploadSave(t) ==
  /\ At(t, "up_save")
  /\ \E ok \in BOOLEAN :
       /\ SaveCheckpoint(t, ok)
       /\ \/ ok /\ Become(t, BeginVerify([tx[t] EXCEPT !.pcs = FALSE]))
          \/ /\ ~ok \/ Fault("cancel")
             /\ Become(t, RetainInstallRetry([tx[t] EXCEPT !.pcs = FALSE]))
  /\ UNCHANGED <<cal, remote>>

\* _finish_terminal_install_failure
TerminalFailure(t) ==
  /\ At(t, "tf_clear")
  /\ \E ok \in BOOLEAN :
       /\ ClearCheckpoint(t, ok)
       /\ Become(t, IF ok THEN Finish("failed")
                    ELSE RetainUnpersisted([tx[t] EXCEPT !.pcs = FALSE]))
  /\ UNCHANGED <<cal, remote>>

\* The reconnect loop: verified, out of time or interrupted, or the wrong
\* device or topology.
VerifyReconnect(t) ==
  /\ At(t, "vf_verify")
  /\ \/ Become(t, [Goto(t, "ps_check") EXCEPT !.pcs = TRUE])
     \/ Become(t, RetainInstallRetry(tx[t]))
     \/ Become(t, Goto(t, "tf_clear"))
  /\ UNCHANGED <<cal, store, remote>>

PersistCheck(t) ==
  CheckSource(t, "ps_check", Goto(t, "ps_save"), RetainUnpersisted(tx[t]))

\* _persist_configuration_metadata
CanPersist(m, t, r) ==
  IF r.kind = "install"
  THEN CanSaveConfiguration(m, t, r.prop, r.fp)
  ELSE CanSaveAndMark(m, r.vid, t, r.src, r.prop, IF r.full THEN t ELSE None)

Persisted(m, t, r) ==
  IF r.kind = "install" THEN SaveConfiguration(m, t, r.prop)
  ELSE SaveAndMark(m, r.prop, IF r.full THEN t ELSE None)

PersistSave(t) ==
  /\ At(t, "ps_save")
  /\ \E ok \in BOOLEAN :
       /\ IF CanPersist(store.meter, t, tx[t])
          THEN SaveMeter(Persisted(store.meter, t, tx[t]), ok)
          ELSE ~ok /\ UNCHANGED store
       /\ Become(t, IF ok THEN Goto(t, "ps_clear")
                    ELSE RetainUnpersisted(tx[t]))
  /\ UNCHANGED <<cal, remote>>

PersistClear(t) ==
  /\ At(t, "ps_clear")
  /\ \E ok \in BOOLEAN :
       /\ ClearCheckpoint(t, ok)
       /\ Become(t, IF ok THEN Finish("verified")
                    ELSE RetainUnpersisted(tx[t]))
  /\ UNCHANGED <<cal, remote>>

-----------------------------------------------------------------------------
(* async_abandon.                                                          *)

Abandon(t) ==
  LET r == tx[t] IN
  /\ Ready(t)
  /\ \/ /\ r.st = "previewed"
        /\ Become(t, IF r.resv THEN Goto(t, "ab_release") ELSE Finish("failed"))
     \/ /\ r.st = "install_confirmation_required" /\ r.kind = "install"
        /\ r.ota # "no"
        /\ Become(t, Goto(t, IF r.rec THEN "ab_clear" ELSE "ab_check"))
  /\ UNCHANGED <<cal, store, remote>>

\* A cancelled caller leaves a preview without its reservation.
AbandonRelease(t) ==
  /\ At(t, "ab_release")
  /\ \E ok \in BOOLEAN :
       /\ ReleaseReservation(t, ok)
       /\ \/ Become(t, IF ok THEN Finish("failed") ELSE Goto(t, "idle"))
          \/ /\ ok /\ Fault("cancel")
             /\ Become(t, [Goto(t, "idle") EXCEPT !.resv = FALSE])
  /\ UNCHANGED <<cal, remote>>

AbandonCheck(t) ==
  CheckSource(t, "ab_check", Goto(t, "ab_clear"), SourceLost(tx[t]))

AbandonClear(t) ==
  /\ At(t, "ab_clear")
  /\ \E ok \in BOOLEAN :
       /\ ClearCheckpoint(t, ok)
       /\ Become(t, IF ok THEN Finish("failed") ELSE Goto(t, "idle"))
  /\ UNCHANGED <<cal, remote>>

-----------------------------------------------------------------------------
(* Deadlines.                                                              *)

\* The clock passes expires_at.
Due(t) ==
  /\ tx[t].open /\ At(t, "idle") /\ ~tx[t].due
  /\ Become(t, [tx[t] EXCEPT !.due = TRUE])
  /\ UNCHANGED <<cal, store, remote>>

CompiledStates ==
  {"install_confirmation_required", "installing", "reconnecting", "verified"}

\* _expire, run by the first lookup of a transaction that is due.
Expire(t) ==
  LET r == tx[t]
      recover == ~r.rec /\ r.ws /\ r.ota = "no" /\ r.st \notin CompiledStates
  IN
  /\ r.open /\ At(t, "idle") /\ r.due /\ ~r.xstart /\ ~r.pcs
  /\ Become(t,
       CASE recover ->
              StartRollback([r EXCEPT !.st = "failed", !.due = FALSE,
                                      !.xstart = TRUE])
         [] ~recover /\ r.resv /\ ~r.ws ->
              [Goto(t, "xr_release") EXCEPT !.st = "failed", !.lease = FALSE,
                                            !.xstart = TRUE]
         [] OTHER -> Finish("failed"))
  /\ UNCHANGED <<cal, store, remote>>

\* release_then_scrub: the transaction goes even if the release fails.
ExpireRelease(t) ==
  /\ At(t, "xr_release")
  /\ \E ok \in BOOLEAN : ReleaseReservation(t, ok)
  /\ Become(t, Finish("failed"))
  /\ UNCHANGED <<cal, remote>>

-----------------------------------------------------------------------------
(* Restart and recovery.                                                   *)

\* _restore_install_checkpoint
Restored(c) ==
  [Blank EXCEPT !.kind = c.kind, !.full = c.full, !.vid = c.vid,
     !.src = c.src, !.prop = c.prop, !.fp = c.fp,
     !.st = "install_confirmation_required", !.ws = TRUE, !.ck = TRUE,
     !.rec = TRUE, !.ota = IF c.uploaded THEN "uploaded" ELSE "attempted"]

\* A transaction that is due but that _expire leaves alone is not live.
Refused(u) == At(u, "idle") /\ tx[u].due /\ (tx[u].xstart \/ tx[u].pcs)

\* async_recover_install with no live transaction of the meter: it reads the
\* checkpoint, then takes the config lock if it is free (the checkpoint of a
\* refused transaction is not reopened, for that one still holds the lock).
Recover(t) ==
  /\ ~tx[t].open
  /\ \A u \in Txns : tx[u].open => Refused(u)
  /\ store.ck # None /\ store.ck.txn = t /\ At(t, "idle")
  /\ Become(t, [Restored(store.ck) EXCEPT !.pc = "rv_lock"])
  /\ UNCHANGED <<cal, store, remote>>

RecoverLock(t) ==
  /\ At(t, "rv_lock")
  /\ \/ Acquire(t, Goto(t, "rv_get"))
     \/ locked /\ Become(t, Finish("lost"))
  /\ UNCHANGED <<cal, store, remote>>

\* The transaction is reopened whether or not the YAML is still the proposed
\* one, but not if the checkpoint changed meanwhile.
RecoverGet(t) ==
  /\ At(t, "rv_get")
  /\ \/ /\ store.ck = Checkpoint(t, tx[t])
        /\ Become(t, [Goto(t, "idle") EXCEPT !.open = TRUE])
     \/ /\ store.ck # Checkpoint(t, tx[t]) \/ Fault("builder")
        /\ Become(t, Finish("lost"))
  /\ UNCHANGED <<cal, store, remote>>

\* Home Assistant stops and starts: only the disk and the builder survive.
Crash ==
  /\ Fault("crash")
  /\ tx' = [t \in Txns |-> IF tx[t] = Blank THEN Blank ELSE Finish("lost")]
  /\ locked' = FALSE
  /\ cal' = FALSE
  /\ UNCHANGED <<store, remote>>

-----------------------------------------------------------------------------
(* The calibration engine and other users of Device Builder.               *)

\* A calibration step owns the config and calibration locks (refused when
\* busy) and leaves its interrupted-session marker.
BeginCalibration ==
  /\ "calib" \in Kinds /\ ~locked /\ ~cal
  /\ cal' = TRUE /\ locked' = TRUE
  /\ SaveMeter(SaveMarker(store.meter, TRUE), TRUE)
  /\ UNCHANGED <<tx, remote>>

EndCalibration ==
  /\ cal /\ cal' = FALSE /\ locked' = FALSE
  /\ \E marked \in BOOLEAN : SaveMeter(SaveMarker(store.meter, marked), TRUE)
  /\ UNCHANGED <<tx, remote>>

\* A fresh verification id names the verified gains, for the YAML the session
\* started from; offsets cannot be handed over.
FinalizeCalibration ==
  /\ cal /\ cal' = FALSE /\ locked' = FALSE
  /\ \E v \in Vids, offsets \in BOOLEAN :
       /\ ~Identifies(store.meter, v)
       /\ \A t \in Txns : tx[t].vid # v
       /\ store.ck # None => store.ck.vid # v
       /\ SaveMeter(Finalize(store.meter, v, builder, offsets), TRUE)
  /\ UNCHANGED <<tx, remote>>

\* async_clear_calibration_flash, after an installed hand-over.
ClearFlash ==
  /\ cal /\ cal' = FALSE /\ locked' = FALSE
  /\ \E v \in Vids, t \in Txns :
       /\ CanComplete(store.meter, v, t)
       /\ SaveMeter(Complete(store.meter), TRUE)
  /\ UNCHANGED <<tx, remote>>

\* Somebody edits the file in Device Builder.
EditYaml ==
  /\ builder' \in Edits
  /\ UNCHANGED <<tx, locked, cal, store, built, fw>>

-----------------------------------------------------------------------------
Operations(t) ==
  \/ Preview(t) \/ PreviewGains(t) \/ ConfirmWrite(t) \/ Compile(t)
  \/ ConfirmInstall(t) \/ Rollback(t) \/ Abandon(t) \/ Recover(t)

\* The rest of an operation that has started.
Acquires(t) == PreviewGainsLock(t) \/ ConfirmWriteLock(t)

Continues(t) ==
  \/ PreviewGainsRead(t) \/ PreviewGainsClaim(t) \/ PreviewGainsRelease(t)
  \/ ConfirmWriteRevalidate(t) \/ ConfirmWriteRelease(t)
  \/ MetadataCheck(t) \/ MetadataSave(t)
  \/ WriteGet(t) \/ WriteUpdate(t) \/ WriteConflict(t) \/ Reconcile(t)
  \/ Validate(t)
  \/ RestoreGet(t) \/ RestoreAgain(t) \/ RestoreUpdate(t) \/ RestoreVerify(t)
  \/ RollbackRelease(t) \/ RollbackClear(t)
  \/ CompileCheck(t) \/ CompileJob(t) \/ CompileCheck2(t)
  \/ AdoptSource(t) \/ RetryCheck(t) \/ RevokeReceipt(t) \/ InstallCheck(t)
  \/ InstallCheckpoint(t) \/ InstallUndo(t) \/ InstallCheck2(t)
  \/ UploadJob(t) \/ UploadSave(t) \/ TerminalFailure(t)
  \/ VerifyReconnect(t) \/ PersistCheck(t) \/ PersistSave(t) \/ PersistClear(t)
  \/ AbandonRelease(t) \/ AbandonCheck(t) \/ AbandonClear(t)
  \/ ExpireRelease(t) \/ RecoverLock(t) \/ RecoverGet(t)

Calibration ==
  BeginCalibration \/ EndCalibration \/ FinalizeCalibration \/ ClearFlash

Next ==
  \/ \E t \in Txns : \/ Operations(t) \/ Acquires(t) \/ Continues(t)
                     \/ Due(t) \/ Expire(t)
  \/ Calibration \/ EditYaml \/ Crash

Spec == Init /\ [][Next]_vars
-----------------------------------------------------------------------------
(* What the manager promises.                                              *)

\* The config lock is the lease of exactly one transaction or of the
\* calibration engine, and it is free when nobody holds a lease: no path of
\* the manager (finish, expiry, recovery, release of a preview) leaks the lock
\* or gives it to two owners, although asyncio.Lock knows no owner.
Holders == {t \in Txns : tx[t].lease}

ExclusiveLease ==
  /\ \A t, u \in Holders : t = u
  /\ cal => Holders = {}
  /\ locked <=> cal \/ Holders # {}

\* While firmware is uploaded the disk names this transaction, so that a
\* restart finds the install, and does not know the upload as acknowledged
\* already: such an upload is verified, never repeated (async_confirm_install,
\* _upload_locked, async_recover_install).
OtaIsRecoverable ==
  \A t \in Txns :
    At(t, "up_job") =>
      store.ck # None /\ store.ck.txn = t /\ ~store.ck.uploaded

\* A transaction that has written calibrated gains owns the durable claim, and
\* every calibration record written can be read back by __post_init__.
WriterOwnsReservation ==
  \A t \in Txns :
    LET r == tx[t] IN
    r.open /\ r.ws /\ r.vid # None /\ ~r.rec
      => IsReserved(store.meter, r.vid, t)

RecordIsSound ==
  /\ WriterOwnsReservation
  /\ Entry(store.meter).calib # None => Loadable(store.meter.calib)

Turns(t, state) == tx[t].st # state /\ tx'[t].st = state

\* A rollback ends only with the prior YAML in place (or someone's later
\* edit) and without the reservation of the verified gains; and the manager
\* never replaces the YAML of a transaction that owns the meter and attempted
\* its OTA, for the firmware may have been built from it.
RollbackRestores ==
  [][/\ \A t \in Txns : Turns(t, "rolled_back") =>
          /\ builder \in {tx[t].src} \cup Edits
          /\ ~IsReserved(store'.meter, tx[t].vid, t)
     /\ builder' # builder /\ builder' \notin Edits =>
          \A t \in Holders : tx[t].ota = "no"]_vars

\* A verified transaction is on record, and its checkpoint is gone.
VerifiedIsRecorded ==
  [][\A t \in Txns : Turns(t, "verified") =>
       /\ store'.meter # None /\ store'.meter.hash = tx[t].prop
       /\ store'.ck # None => store'.ck.txn # t]_vars

\* A transaction never closes over its own uncompiled write (a restart aside).
UncompiledWriteIsRestored ==
  [][\A t \in Txns :
       tx[t].open /\ ~tx'[t].open /\ tx'[t].st # "lost" /\ builder = t
         => tx[t].st \in CompiledStates]_vars

\* An install receipt vouches for the firmware that runs, if an upload builds
\* the YAML it was checked against.
ReceiptMatchesFirmware ==
  Installed(store.meter) => fw = store.meter.hash

\* While firmware is uploaded, no install receipt vouches for anything but what
\* this very transaction proposes: the receipt of an earlier firmware is revoked
\* before its OTA, however often that is retried, recovered or edited around.
UploadRevokesReceipt ==
  \A t \in Txns :
    At(t, "up_job") /\ Installed(store.meter) => store.meter.hash = tx[t].prop

\* The durable calibration record implements the hand-over it stands for: gains
\* are claimed by one transaction at a time, go back only while they are not
\* installed, and are never offered a second time once they are.
gains ==
  IF Entry(store.meter).calib = None
  THEN [vid |-> None, stage |-> "absent", owner |-> None]
  ELSE LET c == store.meter.calib IN
       [vid |-> c.vid, owner |-> c.owner,
        stage |-> CASE c.yaml -> "yaml"
                    [] ~c.yaml /\ c.inst -> "installed"
                    [] c.avail -> "free"
                    [] ~c.avail /\ ~c.inst /\ c.owner # None -> "claimed"
                    [] OTHER -> "flash"]

Handover ==
  INSTANCE GainsHandover
    WITH Txns <- Txns, Vids <- Vids, None <- None, gains <- gains

HandsGainsOverOnce == Handover!Spec
-----------------------------------------------------------------------------
(* Liveness.                                                               *)

\* The awaits of Device Builder that have no timeout (async_command).  The
\* reconciliation, a restoration and the reconnect have one.
BuilderCalls ==
  {"pv_read", "cw_get", "cw_update", "cw_validate", "nm_check", "cp_check",
   "cp_job", "cp_check2", "ci_adopt", "ci_retry", "ci_check", "ci_check2",
   "up_job", "ps_check", "ab_check", "rv_get"}

Unanswered(t) == tx[t].pc \in BuilderCalls

\* Every other await ends, an asyncio.Lock serves its waiters in turn, and time
\* passes.  Nobody has to answer, to come back to a transaction, or to look up
\* one that is due: active_status stops at the first live one it meets.
Fairness ==
  /\ \A t \in Txns : /\ WF_vars(Continues(t) /\ ~Unanswered(t))
                     /\ SF_vars(Acquires(t)) /\ WF_vars(Due(t))
  /\ WF_vars(EndCalibration)

FairSpec == Spec /\ Fairness

\* Device Builder answers as well, a deadline passes even for a transaction
\* that is retried, and every one that is due is looked up.
Attended ==
  \A t \in Txns : WF_vars(Continues(t)) /\ SF_vars(Due(t)) /\ WF_vars(Expire(t))

AttendedSpec == FairSpec /\ Attended

Waits(t) == tx[t].pc \in {"cw_lock", "pv_lock"}

\* Between two operations, where its administrator may leave a transaction; a
\* look-up can still end it once it is due.
Lapsing(t) == tx[t].open /\ At(t, "idle") /\ ~Refused(t)


-----------------------------------------------------------------------------
(* What the code does not keep.                                            *)

\* _expire: "Refuse an expired handle and recover any uncompiled remote write."
\* A write that is due is restored, unless somebody still works on it.
ExpiredWriteIsRecovered ==
  \A t \in Txns :
    LET stale == tx[t].open /\ tx[t].due /\ tx[t].ws /\ tx[t].ota = "no"
    IN stale ~> ~stale
=============================================================================
