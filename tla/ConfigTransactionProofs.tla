---------------------- MODULE ConfigTransactionProofs ----------------------
(***************************************************************************)
(* Proofs about ConfigTransaction: the state is always well formed, and the*)
(* config lock of the meter always is the lease of exactly one owner.      *)
(***************************************************************************)
EXTENDS ConfigTransaction, TLAPS

(* The operations of HelperStore keep the record well formed, whatever     *)
(* transactions, verifications and YAML contents there are.                *)

\* Replacing the calibration of a meter entry leaves a meter entry.
LEMMA CalibrationUpdate ==
  ASSUME NEW m \in Meters, NEW c \in Calibrations \cup {None}
  PROVE  [m EXCEPT !.calib = c] \in Meters
BY DEF Meters

\* A record that names a verification holds a calibration.
LEMMA IdentifiedType ==
  ASSUME NEW m \in Meters \cup {None}, NEW v, Identifies(m, v)
  PROVE  m \in Meters /\ m.calib \in Calibrations
BY DEF Identifies, Entry, NoMeter, Meters

\* The entry a reader sees is a meter entry, present or not.
LEMMA EntryType ==
  ASSUME NEW m \in Meters \cup {None}
  PROVE  Entry(m) \in Meters
BY DEF Entry, NoMeter, Meters

\* async_claim_verified_calibration writes a record.
LEMMA ClaimType ==
  ASSUME NEW m \in Meters \cup {None}, NEW v, NEW t \in Txns, CanClaim(m, v)
  PROVE  Claim(m, t) \in Meters
<1> DEFINE c == [m.calib EXCEPT !.avail = FALSE, !.owner = t, !.inst = FALSE]
<1>1. m \in Meters /\ m.calib \in Calibrations
  BY IdentifiedType DEF CanClaim
<1>2. c \in Calibrations
  BY <1>1 DEF Calibrations
<1>3. Claim(m, t) = [m EXCEPT !.calib = c]
  BY <1>1 DEF Claim, Meters, Calibrations
<1> QED BY <1>1, <1>2, <1>3, CalibrationUpdate

\* async_release_verified_calibration leaves a record, and none if there was
\* none.
LEMMA ReleaseType ==
  ASSUME NEW m \in Meters \cup {None}, NEW v, NEW t
  PROVE  Release(m, v, t) \in Meters \cup {None}
<1>1. CASE ~CanRelease(m, v, t)
  BY <1>1 DEF Release
<1>2. CASE CanRelease(m, v, t)
  <2> DEFINE b == ~m.calib.offsets
             c == [m.calib EXCEPT !.avail = b, !.owner = None, !.inst = FALSE]
  <2>1. m \in Meters /\ m.calib \in Calibrations
    BY <1>2, IdentifiedType DEF CanRelease
  <2>2. Release(m, v, t) = [m EXCEPT !.calib.avail = b, !.calib.owner = None,
                                     !.calib.inst = FALSE]
    BY <1>2, Zenon DEF Release
  <2>3. b \in BOOLEAN
    OBVIOUS
  <2> HIDE DEF b
  <2>4. \A d \in Calibrations :
          [d EXCEPT !.avail = b, !.owner = None, !.inst = FALSE]
            \in Calibrations
    BY <2>3, Zenon DEF Calibrations
  <2>5. Release(m, v, t) = [m EXCEPT !.calib = c]
    BY <2>1, <2>2 DEF Meters, Calibrations
  <2> QED BY <2>1, <2>4, <2>5, CalibrationUpdate
<1> QED BY <1>1, <1>2

\* async_revoke_installed_calibration leaves a record.
LEMMA RevokeType ==
  ASSUME NEW m \in Meters \cup {None}
  PROVE  Revoke(m) \in Meters \cup {None}
BY DEF Revoke, Installed, Entry, NoMeter, Meters

\* async_complete_source_handoff writes a record.
LEMMA CompleteType ==
  ASSUME NEW m \in Meters \cup {None}, NEW v, NEW t, CanComplete(m, v, t)
  PROVE  Complete(m) \in Meters
<1> DEFINE c == [m.calib EXCEPT !.yaml = TRUE]
<1>1. m \in Meters /\ m.calib \in Calibrations
  BY IdentifiedType DEF CanComplete, IsReserved
<1>2. c \in Calibrations
  BY <1>1 DEF Calibrations
<1>3. Complete(m) = [m EXCEPT !.calib = c]
  BY <1>1 DEF Complete, Meters, Calibrations
<1> QED BY <1>1, <1>2, <1>3, CalibrationUpdate

\* async_finalize_verified_calibration writes a record.
LEMMA FinalizeType ==
  ASSUME NEW m \in Meters \cup {None}, NEW v \in Vids,
         NEW src \in Contents \cup {None}, NEW offsets \in BOOLEAN
  PROVE  Finalize(m, v, src, offsets) \in Meters
<1> DEFINE b == src # None /\ ~offsets
           c == [vid |-> v, src |-> src, offsets |-> offsets, owner |-> None,
                 avail |-> b, inst |-> FALSE, yaml |-> FALSE]
<1>1. b \in BOOLEAN
  OBVIOUS
<1>2. c \in Calibrations
  <2> HIDE DEF b
  <2> QED BY <1>1, Zenon DEF Calibrations
<1>3. Finalize(m, v, src, offsets)
        = [Entry(m) EXCEPT !.mark = "null", !.calib = c]
  BY Zenon DEF Finalize
<1> HIDE DEF c
<1>4. \A e \in Meters : [e EXCEPT !.mark = "null", !.calib = c] \in Meters
  BY <1>2 DEF Meters
<1> QED BY <1>3, <1>4, EntryType

\* async_save_interrupted_session writes a record.
LEMMA SaveMarkerType ==
  ASSUME NEW m \in Meters \cup {None}, NEW marked \in BOOLEAN
  PROVE  SaveMarker(m, marked) \in Meters
<1>1. \A e \in Meters, k \in {"set", "null"} : [e EXCEPT !.mark = k] \in Meters
  BY DEF Meters
<1> QED BY <1>1, EntryType DEF SaveMarker

\* async_save_verified_meter_configuration writes a record.
LEMMA SaveConfigurationType ==
  ASSUME NEW m \in Meters \cup {None}, NEW t \in Txns, NEW prop \in Contents
  PROVE  SaveConfiguration(m, t, prop) \in Meters
<1> DEFINE c == IF Installed(m) THEN None ELSE Entry(m).calib
<1>1. c \in Calibrations \cup {None}
  BY EntryType DEF Meters
<1>2. SaveConfiguration(m, t, prop)
        = [Entry(m) EXCEPT !.hash = prop, !.conf = t, !.calib = c]
  BY EntryType DEF SaveConfiguration, Meters
<1> HIDE DEF c
<1>3. \A e \in Meters :
        [e EXCEPT !.hash = prop, !.conf = t, !.calib = c] \in Meters
  BY <1>1 DEF Meters, Contents
<1> QED BY <1>2, <1>3, EntryType

\* The ..._and_mark_verified_calibration_installed operations write a record.
LEMMA SaveAndMarkType ==
  ASSUME NEW m \in Meters \cup {None}, NEW v, NEW t, NEW src,
         NEW prop \in Contents, NEW conf \in Contents \cup {None},
         CanSaveAndMark(m, v, t, src, prop, conf)
  PROVE  SaveAndMark(m, prop, conf) \in Meters
<1> DEFINE c == [m.calib EXCEPT !.inst = TRUE]
<1>1. m \in Meters /\ m.calib \in Calibrations
  BY IdentifiedType DEF CanSaveAndMark, IsReserved
<1>2. c \in Calibrations
  BY <1>1 DEF Calibrations
<1>3. SaveAndMark(m, prop, conf)
        = [m EXCEPT !.hash = prop, !.conf = conf, !.calib = c]
  BY <1>1 DEF SaveAndMark, Meters, Calibrations
<1> HIDE DEF c
<1>4. [m EXCEPT !.hash = prop, !.conf = conf, !.calib = c] \in Meters
  BY <1>1, <1>2 DEF Meters
<1> QED BY <1>3, <1>4

-----------------------------------------------------------------------------

(* What a step of one transaction does to the objects: it replaces the     *)
(* transaction's own object, either keeping its lease or releasing it      *)
(* (Keeps), or acquiring the free lock (Takes).                            *)

\* A transaction that is open, or past the reading of its source, has a plan:
\* the source it replaces and the content it proposes.
Working(r) == r.open \/ r.pc \notin {"idle", "pv_lock", "pv_read"}
HasPlan(r) == r.src \in Contents /\ r.prop \in Contents

Planned == \A t \in Txns : Working(tx[t]) => HasPlan(tx[t])

\* u continues r: the same plan, and no lease that r did not hold.
Extends(r, u) ==
  u \in Transaction /\ (u.lease => r.lease) /\ (HasPlan(r) => HasPlan(u))

\* u is a transaction at rest.
Closes(u) == u \in Transaction /\ ~u.lease /\ ~Working(u)

Fits(r, u) == Extends(r, u) \/ Closes(u)

\* What a step makes of an object r.
Sound(r, u) ==
  u \in Transaction /\ (u.lease => r.lease) /\ (Working(u) => HasPlan(u))

Keeps(t) == \E r : Sound(tx[t], r) /\ Become(t, r)
Takes(t) ==
  \E r \in Transaction : (Working(r) => HasPlan(r)) /\ Acquire(t, r)

\* The rest of the state after a step of a transaction.
Elsewhere ==
  /\ cal' = cal /\ store' \in Stores
  /\ builder' \in Contents /\ built' \in Contents /\ fw' \in Contents

LEMMA ExtendsTransitive ==
  ASSUME NEW a, NEW b, NEW c, Extends(a, b), Extends(b, c)
  PROVE  Extends(a, c)
BY DEF Extends

LEMMA FitsTransitive ==
  ASSUME NEW a, NEW b, NEW c, Extends(a, b), Fits(b, c)
  PROVE  Fits(a, c)
BY DEF Fits, Extends

\* What continues a transaction with a plan is sound.
LEMMA FitsSound ==
  ASSUME NEW r, HasPlan(r)
  PROVE  \A u : Fits(r, u) => Sound(r, u)
BY DEF Fits, Extends, Closes, Sound

LEMMA ClosesSound ==
  ASSUME NEW r, NEW u, Closes(u)
  PROVE  Sound(r, u)
BY DEF Closes, Sound

LEMMA BlankType == Blank \in Transaction
BY DEF Blank, Transaction, States, Awaits

\* A closed transaction holds no lease.
LEMMA FinishCloses ==
  ASSUME NEW state \in States
  PROVE  Closes(Finish(state))
BY DEF Closes, Working, Finish, Blank, Transaction, States, Awaits

LEMMA BlankCloses == Closes(Blank)
BY DEF Closes, Working, Blank, Transaction, States, Awaits

LEMMA FinishFits ==
  ASSUME NEW r, NEW state \in States
  PROVE  Fits(r, Finish(state))
BY FinishCloses DEF Fits

(* The updates the actions make keep the object's type and its lease.      *)

LEMMA FlagUpdates ==
  ASSUME NEW r \in Transaction
  PROVE  /\ Extends(r, [r EXCEPT !.resv = TRUE])
         /\ Extends(r, [r EXCEPT !.resv = FALSE])
         /\ Extends(r, [r EXCEPT !.lease = FALSE])
         /\ Extends(r, [r EXCEPT !.lease = FALSE, !.resv = TRUE])
         /\ Extends(r, [r EXCEPT !.ws = FALSE])
         /\ Extends(r, [r EXCEPT !.ck = TRUE])
         /\ Extends(r, [r EXCEPT !.ota = "uploaded"])
         /\ Extends(r, [r EXCEPT !.pcs = FALSE])
         /\ Extends(r, [r EXCEPT !.pcs = TRUE])
         /\ Extends(r, [r EXCEPT !.due = TRUE])
         /\ Extends(r, [r EXCEPT !.open = TRUE])
         /\ Extends(r, [r EXCEPT !.rb = FALSE])
         /\ Extends(r, [r EXCEPT !.ws = FALSE, !.restored = TRUE, !.rb = FALSE])
<1> USE DEF Extends, HasPlan, Transaction
<1>1. Extends(r, [r EXCEPT !.resv = TRUE])
  OBVIOUS
<1>2. Extends(r, [r EXCEPT !.resv = FALSE])
  OBVIOUS
<1>3. Extends(r, [r EXCEPT !.lease = FALSE])
  OBVIOUS
<1>4. Extends(r, [r EXCEPT !.lease = FALSE, !.resv = TRUE])
  OBVIOUS
<1>5. Extends(r, [r EXCEPT !.ws = FALSE])
  OBVIOUS
<1>6. Extends(r, [r EXCEPT !.ck = TRUE])
  OBVIOUS
<1>7. Extends(r, [r EXCEPT !.ota = "uploaded"])
  OBVIOUS
<1>8. Extends(r, [r EXCEPT !.pcs = FALSE])
  OBVIOUS
<1>9. Extends(r, [r EXCEPT !.pcs = TRUE])
  OBVIOUS
<1>10. Extends(r, [r EXCEPT !.due = TRUE])
  OBVIOUS
<1>11. Extends(r, [r EXCEPT !.open = TRUE])
  OBVIOUS
<1>12. Extends(r, [r EXCEPT !.rb = FALSE])
  OBVIOUS
<1>13. Extends(r, [r EXCEPT !.ws = FALSE, !.restored = TRUE, !.rb = FALSE])
  OBVIOUS
<1> HIDE DEF Extends, HasPlan, Transaction
<1> QED BY <1>1, <1>2, <1>3, <1>4, <1>5, <1>6, <1>7, <1>8, <1>9, <1>10, <1>11, <1>12, <1>13

LEMMA StateUpdates ==
  ASSUME NEW r \in Transaction, NEW s \in States
  PROVE  /\ Extends(r, [r EXCEPT !.st = s])
         /\ Extends(r, [r EXCEPT !.st = s, !.due = FALSE])
         /\ Extends(r, [r EXCEPT !.st = s, !.rb = TRUE])
         /\ Extends(r, [r EXCEPT !.st = s, !.due = FALSE, !.xstart = TRUE])
         /\ Extends(r, [r EXCEPT !.st = s, !.lease = FALSE, !.xstart = TRUE])
<1> USE DEF Extends, HasPlan, Transaction
<1>1. Extends(r, [r EXCEPT !.st = s])
  OBVIOUS
<1>2. Extends(r, [r EXCEPT !.st = s, !.due = FALSE])
  OBVIOUS
<1>3. Extends(r, [r EXCEPT !.st = s, !.rb = TRUE])
  OBVIOUS
<1>4. Extends(r, [r EXCEPT !.st = s, !.due = FALSE, !.xstart = TRUE])
  OBVIOUS
<1>5. Extends(r, [r EXCEPT !.st = s, !.lease = FALSE, !.xstart = TRUE])
  OBVIOUS
<1> HIDE DEF Extends, HasPlan, Transaction
<1> QED BY <1>1, <1>2, <1>3, <1>4, <1>5

LEMMA AwaitUpdates ==
  ASSUME NEW r \in Transaction, NEW p \in Awaits
  PROVE  /\ Extends(r, [r EXCEPT !.pc = p])
         /\ Extends(r, [r EXCEPT !.pc = p, !.rb = FALSE])
<1> USE DEF Extends, HasPlan, Transaction
<1>1. Extends(r, [r EXCEPT !.pc = p])
  OBVIOUS
<1>2. Extends(r, [r EXCEPT !.pc = p, !.rb = FALSE])
  OBVIOUS
<1> HIDE DEF Extends, HasPlan, Transaction
<1> QED BY <1>1, <1>2

LEMMA StepUpdates ==
  ASSUME NEW r \in Transaction, NEW p \in Awaits, NEW s \in States
  PROVE  /\ Extends(r, [r EXCEPT !.pc = p, !.st = s])
         /\ Extends(r, [r EXCEPT !.pc = p, !.st = s, !.ws = TRUE])
         /\ Extends(r, [r EXCEPT !.pc = p, !.st = s, !.rb = TRUE, !.due = FALSE])
         /\ Extends(r, [r EXCEPT !.pc = p, !.st = s, !.rb = FALSE, !.ota = "attempted"])
<1> USE DEF Extends, HasPlan, Transaction
<1>1. Extends(r, [r EXCEPT !.pc = p, !.st = s])
  OBVIOUS
<1>2. Extends(r, [r EXCEPT !.pc = p, !.st = s, !.ws = TRUE])
  OBVIOUS
<1>3. Extends(r, [r EXCEPT !.pc = p, !.st = s, !.rb = TRUE, !.due = FALSE])
  OBVIOUS
<1>4. Extends(r, [r EXCEPT !.pc = p, !.st = s, !.rb = FALSE, !.ota = "attempted"])
  OBVIOUS
<1> HIDE DEF Extends, HasPlan, Transaction
<1> QED BY <1>1, <1>2, <1>3, <1>4

LEMMA FingerprintUpdate ==
  ASSUME NEW r \in Transaction, NEW m \in Meters \cup {None}
  PROVE  Extends(r, [r EXCEPT !.fp = m])
BY DEF Extends, HasPlan, Transaction

LEMMA KindUpdate ==
  ASSUME NEW r \in Transaction, NEW p \in Awaits, NEW v \in Vids
  PROVE  Extends(r, [r EXCEPT !.pc = p, !.kind = "calib", !.vid = v])
BY DEF Extends, HasPlan, Transaction

LEMMA PlanUpdate ==
  ASSUME NEW r \in Transaction, NEW s \in States, NEW c \in Contents,
         NEW d \in Contents, NEW m \in Meters \cup {None}
  PROVE  Extends(r, [r EXCEPT !.open = TRUE, !.st = s, !.src = c, !.prop = d,
                           !.fp = m])
BY DEF Extends, HasPlan, Transaction

\* Updates with a computed flag.
LEMMA CheckpointedUpdate ==
  ASSUME NEW r \in Transaction, NEW b \in BOOLEAN
  PROVE  Extends(r, [r EXCEPT !.ck = b])
BY Zenon DEF Extends, HasPlan, Transaction

LEMMA RollbackUpdate ==
  ASSUME NEW r \in Transaction, NEW b \in BOOLEAN, NEW p \in Awaits,
         NEW s \in States
  PROVE  Extends(r, [r EXCEPT !.pc = p, !.st = s, !.rb = b, !.due = FALSE])
BY Zenon DEF Extends, HasPlan, Transaction

LEMMA GainsPlanUpdate ==
  ASSUME NEW r \in Transaction, NEW b \in BOOLEAN, NEW p \in Awaits,
         NEW s \in States, NEW c \in Contents, NEW d \in Contents
  PROVE  Extends(r, [r EXCEPT !.open = TRUE, !.st = s, !.pc = p, !.src = c,
                           !.prop = d, !.full = b])
BY Zenon DEF Extends, HasPlan, Transaction

LEMMA GotoExtends ==
  ASSUME NEW t \in Txns, tx[t] \in Transaction, NEW label \in Awaits
  PROVE  Goto(t, label) \in Transaction /\ Extends(tx[t], Goto(t, label))
BY DEF Goto, Extends, HasPlan, Transaction

\* A step from the await an action goes to, with one more update, still fits.
LEMMA GotoFits ==
  ASSUME NEW t \in Txns, tx[t] \in Transaction, NEW label \in Awaits
  PROVE  Fits(tx[t], Goto(t, label))
BY GotoExtends DEF Fits

LEMMA GotoThen ==
  ASSUME NEW t \in Txns, tx[t] \in Transaction, NEW label \in Awaits, NEW u,
         Extends(Goto(t, label), u)
  PROVE  Fits(tx[t], u)
BY GotoExtends, ExtendsTransitive DEF Fits

LEMMA RetainInstallRetryExtends ==
  ASSUME NEW r \in Transaction
  PROVE  Extends(r, RetainInstallRetry(r))
<1> DEFINE b == ~r.rec /\ r.ota = "no"
<1>1. b \in BOOLEAN
  OBVIOUS
<1>2. RetainInstallRetry(r)
        = [r EXCEPT !.pc = "idle", !.st = "install_confirmation_required",
                    !.rb = b, !.due = FALSE]
  BY Zenon DEF RetainInstallRetry
<1>3. "idle" \in Awaits /\ "install_confirmation_required" \in States
  BY DEF Awaits, States
<1> HIDE DEF b
<1>4. Extends(r, [r EXCEPT !.pc = "idle", !.st = "install_confirmation_required",
                        !.rb = b, !.due = FALSE])
  BY <1>1, <1>3, RollbackUpdate, Zenon
<1> QED BY <1>2, <1>4, Zenon

LEMMA RetainUnpersistedExtends ==
  ASSUME NEW r \in Transaction
  PROVE  Extends(r, RetainUnpersisted(r))
<1>1. Extends(r, RetainInstallRetry(r)) /\ RetainInstallRetry(r) \in Transaction
  BY RetainInstallRetryExtends DEF Extends
<1>2. Extends(RetainInstallRetry(r), RetainUnpersisted(r))
  BY <1>1, FlagUpdates DEF RetainUnpersisted
<1> QED BY <1>1, <1>2, ExtendsTransitive

LEMMA RetainWriteRecoveryExtends ==
  ASSUME NEW r \in Transaction
  PROVE  Extends(r, RetainWriteRecovery(r))
<1>1. "idle" \in Awaits /\ "failed" \in States
  BY DEF Awaits, States
<1>2. Extends(r, [r EXCEPT !.pc = "idle", !.st = "failed", !.rb = TRUE,
                        !.due = FALSE])
  BY <1>1, StepUpdates
<1> QED BY <1>2, RetainInstallRetryExtends DEF RetainWriteRecovery

LEMMA RetainFits ==
  ASSUME NEW r \in Transaction
  PROVE  /\ Fits(r, RetainInstallRetry(r))
         /\ Fits(r, RetainUnpersisted(r))
         /\ Fits(r, RetainWriteRecovery(r))
BY RetainInstallRetryExtends, RetainUnpersistedExtends,
   RetainWriteRecoveryExtends DEF Fits

LEMMA SourceLostFits ==
  ASSUME NEW r \in Transaction
  PROVE  Fits(r, SourceLost(r))
BY RetainFits, FinishFits DEF SourceLost, States

LEMMA AfterRestoreFits ==
  ASSUME NEW r \in Transaction
  PROVE  Fits(r, AfterRestore(r))
<1> DEFINE done == [r EXCEPT !.ws = FALSE, !.restored = TRUE, !.rb = FALSE]
<1>1. Extends(r, done) /\ done \in Transaction
  BY FlagUpdates DEF Extends
<1>2. AfterRestore(r) \in {[done EXCEPT !.pc = "rs_release"],
                           [done EXCEPT !.pc = "rs_clear"],
                           Finish("rolled_back")}
  BY DEF AfterRestore
<1> HIDE DEF done
<1>3. "rs_release" \in Awaits /\ "rs_clear" \in Awaits
       /\ "rolled_back" \in States
  BY DEF Awaits, States
<1>4. /\ Fits(r, [done EXCEPT !.pc = "rs_release"])
      /\ Fits(r, [done EXCEPT !.pc = "rs_clear"])
  BY <1>1, <1>3, AwaitUpdates, ExtendsTransitive DEF Fits
<1>5. Fits(r, Finish("rolled_back"))
  BY <1>3, FinishFits
<1> QED BY <1>2, <1>4, <1>5

LEMMA StartRollbackFits ==
  ASSUME NEW r \in Transaction
  PROVE  Fits(r, StartRollback(r))
<1>1. "rs_get" \in Awaits
  BY DEF Awaits
<1>2. Fits(r, [r EXCEPT !.pc = "rs_get", !.rb = FALSE])
  BY <1>1, AwaitUpdates DEF Fits
<1> QED BY <1>2, AfterRestoreFits DEF StartRollback

LEMMA BeginWriteExtends ==
  ASSUME NEW r \in Transaction
  PROVE  Extends(r, BeginWrite(r))
<1>1. "nm_check" \in Awaits /\ "cw_get" \in Awaits
       /\ "write_confirmed" \in States
  BY DEF Awaits, States
<1> QED BY <1>1, AwaitUpdates, StepUpdates DEF BeginWrite

LEMMA BeginUploadExtends ==
  ASSUME NEW r \in Transaction
  PROVE  Extends(r, BeginUpload(r))
<1>1. "up_job" \in Awaits /\ "installing" \in States
  BY DEF Awaits, States
<1> QED BY <1>1, StepUpdates DEF BeginUpload

LEMMA BeginVerifyExtends ==
  ASSUME NEW r \in Transaction
  PROVE  Extends(r, BeginVerify(r))
<1>1. "vf_verify" \in Awaits /\ "reconnecting" \in States
  BY DEF Awaits, States
<1> QED BY <1>1, StepUpdates DEF BeginVerify

LEMMA BeginFits ==
  ASSUME NEW r \in Transaction
  PROVE  /\ Fits(r, BeginWrite(r))
         /\ Fits(r, BeginUpload(r))
         /\ Fits(r, BeginVerify(r))
BY BeginWriteExtends, BeginUploadExtends, BeginVerifyExtends DEF Fits

\* A re-check of the source keeps or loses the transaction as it is told.
LEMMA CheckSourceKeeps ==
  ASSUME NEW t, NEW from, NEW ok, NEW lost, HasPlan(tx[t]),
         CheckSource(t, from, ok, lost), Fits(tx[t], ok), Fits(tx[t], lost)
  PROVE  Keeps(t)
BY FitsSound DEF CheckSource, Keeps
-----------------------------------------------------------------------------
(* One lemma per group of operations: a step changes only the object of    *)
(* its transaction.                                                        *)

LEMMA PreviewSteps ==
  ASSUME TypeOK, Planned, NEW t \in Txns,
         \/ Preview(t) \/ PreviewGains(t) \/ PreviewGainsLock(t)
         \/ PreviewGainsRead(t) \/ PreviewGainsClaim(t)
         \/ PreviewGainsRelease(t)
  PROVE  Keeps(t) \/ Takes(t)
<1> USE DEF Awaits, States
<1>0. /\ tx[t] \in Transaction /\ store.meter \in Meters \cup {None}
      /\ builder \in Contents /\ t \in Contents
  BY DEF TypeOK, Stores, Contents
<1>plan. At(t, "pv_claim") \/ At(t, "pv_release")
           => \A u : Fits(tx[t], u) => Sound(tx[t], u)
  <2>1. At(t, "pv_claim") \/ At(t, "pv_release") => HasPlan(tx[t])
    BY DEF At, Planned, Working
  <2> QED BY <2>1, FitsSound
<1>1. CASE Preview(t)
  <2> DEFINE u(d) == [Blank EXCEPT !.open = TRUE, !.st = "previewed",
                        !.src = builder, !.prop = d, !.fp = store.meter]
  <2>1. \A d \in Contents : Extends(Blank, u(d))
    BY <1>0, BlankType, PlanUpdate
  <2>2. \A d \in Contents : HasPlan(u(d))
    BY <1>0 DEF HasPlan, Blank
  <2>3. \A d \in Contents : Sound(tx[t], u(d))
    BY <2>1, <2>2, BlankCloses DEF Extends, Closes, Sound
  <2>4. \E d \in Contents : Become(t, u(d))
    BY <1>0, <1>1 DEF Preview
  <2> QED BY <2>3, <2>4 DEF Keeps
<1>2. CASE PreviewGains(t)
  <2> DEFINE u(v) == [Blank EXCEPT !.pc = "pv_lock", !.kind = "calib",
                                   !.vid = v]
  <2>1. \A v \in Vids : Extends(Blank, u(v))
    BY BlankType, KindUpdate
  <2>2. \A v \in Vids : ~Working(u(v))
    BY DEF Working, Blank
  <2>3. \A v \in Vids : Sound(tx[t], u(v))
    BY <2>1, <2>2, BlankCloses DEF Extends, Closes, Sound
  <2> QED BY <1>2, <2>3 DEF PreviewGains, Keeps
<1>3. CASE PreviewGainsLock(t)
  <2>1. Goto(t, "pv_read") \in Transaction
    BY <1>0, GotoExtends DEF Extends
  <2>2. Working(Goto(t, "pv_read")) => HasPlan(Goto(t, "pv_read"))
    <3>1. /\ Goto(t, "pv_read").pc = "pv_read"
          /\ Goto(t, "pv_read").open = tx[t].open
      BY <1>0 DEF Goto, Transaction
    <3>2. tx[t].open => HasPlan(tx[t])
      BY DEF Planned, Working
    <3>3. HasPlan(tx[t]) => HasPlan(Goto(t, "pv_read"))
      BY <1>0, GotoExtends DEF Extends
    <3> QED BY <3>1, <3>2, <3>3 DEF Working
  <2> QED BY <1>3, <2>1, <2>2 DEF PreviewGainsLock, Takes
<1>4. CASE PreviewGainsRead(t)
  <2> DEFINE b == store.meter.hash = builder /\ store.meter.conf # None
             u == [tx[t] EXCEPT
                     !.open = TRUE, !.st = "previewed", !.pc = "pv_claim",
                     !.src = builder, !.prop = t, !.full = b]
  <2>1. b \in BOOLEAN
    OBVIOUS
  <2>2. Extends(tx[t], u)
    <3>1. "previewed" \in States /\ "pv_claim" \in Awaits
      OBVIOUS
    <3> HIDE DEF b, States, Awaits
    <3> QED BY <1>0, <2>1, <3>1, GainsPlanUpdate, Zenon
  <2>3. HasPlan(u)
    <3> HIDE DEF b
    <3> QED BY <1>0 DEF HasPlan, Transaction
  <2>4. Become(t, u) \/ Become(t, Blank)
    BY <1>4, Zenon DEF PreviewGainsRead
  <2> HIDE DEF u
  <2>5. Sound(tx[t], u)
    BY <2>2, <2>3 DEF Extends, Sound
  <2>6. Sound(tx[t], Blank)
    BY BlankCloses, ClosesSound
  <2> QED BY <2>4, <2>5, <2>6 DEF Keeps
<1>5. CASE PreviewGainsClaim(t)
  <2>1. /\ Fits(tx[t], [Goto(t, "idle") EXCEPT !.lease = FALSE, !.resv = TRUE])
        /\ Fits(tx[t], [Goto(t, "pv_release") EXCEPT !.resv = TRUE])
    BY <1>0, GotoExtends, GotoThen, FlagUpdates
  <2> QED BY <1>plan, <1>5, <2>1, FinishFits DEF PreviewGainsClaim, Keeps
<1>6. CASE PreviewGainsRelease(t)
  <2>1. Fits(tx[t], [Goto(t, "idle") EXCEPT !.lease = FALSE])
    BY <1>0, GotoExtends, GotoThen, FlagUpdates
  <2> QED BY <1>plan, <1>6, <2>1, FinishFits DEF PreviewGainsRelease, Keeps
<1> QED BY <1>1, <1>2, <1>3, <1>4, <1>5, <1>6

LEMMA WriteSteps ==
  ASSUME TypeOK, Planned, NEW t \in Txns,
         \/ ConfirmWrite(t) \/ ConfirmWriteLock(t) \/ ConfirmWriteRevalidate(t)
         \/ ConfirmWriteRelease(t) \/ MetadataCheck(t) \/ MetadataSave(t)
         \/ WriteGet(t) \/ WriteUpdate(t) \/ WriteConflict(t) \/ Reconcile(t)
         \/ Validate(t)
  PROVE  Keeps(t) \/ Takes(t)
<1> USE DEF Awaits, States
<1>0. tx[t] \in Transaction
  BY DEF TypeOK
<1>work. Working(tx[t])
  BY DEF ConfirmWrite, ConfirmWriteLock, ConfirmWriteRevalidate,
         ConfirmWriteRelease, MetadataCheck, MetadataSave, WriteGet,
         WriteUpdate, WriteConflict, Reconcile, Validate, CheckSource,
         At, Ready, Working
<1>plan. HasPlan(tx[t]) /\ \A u : Fits(tx[t], u) => Sound(tx[t], u)
  BY <1>work, FitsSound DEF Planned
<1>1. CASE ConfirmWrite(t)
  BY <1>plan, <1>0, <1>1, GotoFits DEF ConfirmWrite, Keeps
<1>2. CASE ConfirmWriteLock(t)
  BY <1>plan, <1>0, <1>2, BeginFits, GotoFits
             DEF ConfirmWriteLock, Takes, Sound
<1>3. CASE ConfirmWriteRevalidate(t)
  BY <1>plan, <1>0, <1>3, GotoFits, FinishFits, BeginFits
     DEF ConfirmWriteRevalidate, Keeps
<1>4. CASE ConfirmWriteRelease(t)
  BY <1>plan, <1>0, <1>4, GotoFits, FinishFits DEF ConfirmWriteRelease, Keeps
<1>5. CASE MetadataCheck(t)
  BY <1>plan, <1>0, <1>5, GotoFits, SourceLostFits, CheckSourceKeeps
     DEF MetadataCheck
<1>6. CASE MetadataSave(t)
  BY <1>plan, <1>6, FinishFits DEF MetadataSave, Keeps
<1>7. CASE WriteGet(t)
  <2>1. Fits(tx[t], [Goto(t, "cw_conflict") EXCEPT !.ws = FALSE])
    BY <1>0, GotoExtends, GotoThen, FlagUpdates
  <2> QED BY <1>plan, <1>0, <1>7, <2>1, GotoFits, FinishFits DEF WriteGet, Keeps
<1>8. CASE WriteUpdate(t)
  <2>1. Fits(tx[t], [Goto(t, "cw_validate") EXCEPT !.st = "written"])
    BY <1>0, GotoExtends, GotoThen, StateUpdates
  <2> QED BY <1>plan, <1>0, <1>8, <2>1, GotoFits DEF WriteUpdate, Keeps
<1>9. CASE WriteConflict(t)
  BY <1>plan, <1>0, <1>9, GotoFits, FinishFits DEF WriteConflict, Keeps
<1>10. CASE Reconcile(t)
  BY <1>plan, <1>0, <1>10, FinishFits, StartRollbackFits, RetainFits
     DEF Reconcile, Keeps
<1>11. CASE Validate(t)
  <2>1. Fits(tx[t], [Goto(t, "idle") EXCEPT !.st = "validated", !.due = FALSE])
    BY <1>0, GotoExtends, GotoThen, StateUpdates
  <2> QED BY <1>plan, <1>0, <1>11, <2>1, StartRollbackFits DEF Validate, Keeps
<1> QED
  BY <1>1, <1>2, <1>3, <1>4, <1>5, <1>6, <1>7, <1>8, <1>9, <1>10, <1>11

LEMMA RollbackSteps ==
  ASSUME TypeOK, Planned, NEW t \in Txns,
         \/ Rollback(t) \/ RestoreGet(t) \/ RestoreAgain(t) \/ RestoreUpdate(t)
         \/ RestoreVerify(t) \/ RollbackRelease(t) \/ RollbackClear(t)
  PROVE  Keeps(t)
<1> USE DEF Awaits, States
<1>0. tx[t] \in Transaction
  BY DEF TypeOK
<1>work. Working(tx[t])
  BY DEF Rollback, RestoreGet, RestoreAgain, RestoreUpdate,
         RestoreVerify, RollbackRelease, RollbackClear, At, Ready,
         Working
<1>plan. HasPlan(tx[t]) /\ \A u : Fits(tx[t], u) => Sound(tx[t], u)
  BY <1>work, FitsSound DEF Planned
<1>1. CASE Rollback(t)
  BY <1>plan, <1>0, <1>1, StartRollbackFits DEF Rollback, Keeps
<1>2. CASE RestoreGet(t)
  BY <1>plan, <1>0, <1>2, GotoFits, RetainFits DEF RestoreGet, Keeps
<1>3. CASE RestoreAgain(t)
  BY <1>plan, <1>0, <1>3, GotoFits, RetainFits DEF RestoreAgain, Keeps
<1>4. CASE RestoreUpdate(t)
  BY <1>plan, <1>0, <1>4, GotoFits, RetainFits DEF RestoreUpdate, Keeps
<1>5. CASE RestoreVerify(t)
  BY <1>plan, <1>0, <1>5, AfterRestoreFits, RetainFits
     DEF RestoreVerify, Keeps
<1>6. CASE RollbackRelease(t)
  <2> DEFINE u == [tx[t] EXCEPT !.resv = FALSE]
  <2>1. Extends(tx[t], u) /\ u \in Transaction
    BY <1>0, FlagUpdates DEF Extends
  <2>2. Fits(tx[t], AfterRestore(u))
    BY <2>1, AfterRestoreFits, FitsTransitive
  <2> QED BY <1>plan, <1>0, <1>6, <2>2, FinishFits, RetainFits
             DEF RollbackRelease, Keeps
<1>7. CASE RollbackClear(t)
  BY <1>plan, <1>0, <1>7, FinishFits, RetainFits DEF RollbackClear, Keeps
<1> QED BY <1>1, <1>2, <1>3, <1>4, <1>5, <1>6, <1>7

LEMMA CompileSteps ==
  ASSUME TypeOK, Planned, NEW t \in Txns,
         \/ Compile(t) \/ CompileCheck(t) \/ CompileJob(t) \/ CompileCheck2(t)
  PROVE  Keeps(t)
<1> USE DEF Awaits, States
<1>0. tx[t] \in Transaction
  BY DEF TypeOK
<1>work. Working(tx[t])
  BY DEF Compile, CompileCheck, CompileJob, CompileCheck2, CheckSource,
         At, Ready, Working
<1>plan. HasPlan(tx[t]) /\ \A u : Fits(tx[t], u) => Sound(tx[t], u)
  BY <1>work, FitsSound DEF Planned
<1>1. CASE Compile(t)
  BY <1>plan, <1>0, <1>1, GotoFits DEF Compile, Keeps
<1>2. CASE CompileCheck(t)
  BY <1>plan, <1>0, <1>2, GotoFits, SourceLostFits, CheckSourceKeeps DEF CompileCheck
<1>3. CASE CompileJob(t)
  <2>1. Fits(tx[t], [Goto(t, "idle") EXCEPT !.st = "failed", !.rb = TRUE])
    BY <1>0, GotoExtends, GotoThen, StateUpdates
  <2> QED BY <1>plan, <1>0, <1>3, <2>1, GotoFits, StartRollbackFits
             DEF CompileJob, Keeps
<1>4. CASE CompileCheck2(t)
  <2>1. Fits(tx[t], [Goto(t, "idle") EXCEPT
                       !.st = "install_confirmation_required", !.due = FALSE])
    BY <1>0, GotoExtends, GotoThen, StateUpdates
  <2> QED BY <1>plan, <1>0, <1>4, <2>1, SourceLostFits, CheckSourceKeeps
             DEF CompileCheck2
<1> QED BY <1>1, <1>2, <1>3, <1>4

LEMMA InstallSteps ==
  ASSUME TypeOK, Planned, NEW t \in Txns,
         \/ ConfirmInstall(t) \/ AdoptSource(t) \/ RetryCheck(t)
         \/ RevokeReceipt(t) \/ InstallCheck(t) \/ InstallCheckpoint(t)
         \/ InstallUndo(t) \/ InstallCheck2(t) \/ UploadJob(t) \/ UploadSave(t)
         \/ TerminalFailure(t)
  PROVE  Keeps(t)
<1> USE DEF Awaits, States
<1>0. tx[t] \in Transaction /\ store.meter \in Meters \cup {None}
  BY DEF TypeOK, Stores
<1>work. Working(tx[t])
  BY DEF ConfirmInstall, AdoptSource, RetryCheck, RevokeReceipt,
         InstallCheck, InstallCheckpoint, InstallUndo, InstallCheck2,
         UploadJob, UploadSave, TerminalFailure, CheckSource, At, Ready,
         Working
<1>plan. HasPlan(tx[t]) /\ \A u : Fits(tx[t], u) => Sound(tx[t], u)
  BY <1>work, FitsSound DEF Planned
<1>1. CASE ConfirmInstall(t)
  <2>1. \E label \in {"ci_revoke", "ci_adopt", "ci_retry"} :
           Become(t, Goto(t, label))
    BY <1>1 DEF ConfirmInstall
  <2> QED BY <1>plan, <1>0, <2>1, GotoFits DEF Keeps
<1>2. CASE AdoptSource(t)
  BY <1>plan, <1>0, <1>2, GotoFits, RetainFits DEF AdoptSource, Keeps
<1>3. CASE RetryCheck(t)
  BY <1>plan, <1>0, <1>3, BeginFits, SourceLostFits,
     CheckSourceKeeps DEF RetryCheck
<1>4. CASE RevokeReceipt(t)
  <2> DEFINE fp == IF tx[t].kind = "install" THEN Revoke(store.meter)
                   ELSE Goto(t, "ci_check").fp
             u == [Goto(t, "ci_check") EXCEPT !.fp = fp]
  <2>1. fp \in Meters \cup {None}
    BY <1>0, RevokeType, GotoExtends DEF Extends, Transaction
  <2>2. Fits(tx[t], u)
    <3> HIDE DEF fp
    <3>1. Goto(t, "ci_check") \in Transaction
      BY <1>0, GotoExtends
    <3>2. Extends(Goto(t, "ci_check"), u)
      BY <2>1, <3>1, FingerprintUpdate
    <3> HIDE DEF u
    <3> QED BY <1>0, <3>2, GotoThen
  <2>3. Become(t, u) \/ Become(t, Finish("failed"))
    BY <1>4 DEF RevokeReceipt
  <2> HIDE DEF u
  <2> QED BY <1>plan, <2>2, <2>3, FinishFits DEF Keeps
<1>5. CASE InstallCheck(t)
  <2>1. Fits(tx[t], [Goto(t, "ci_save") EXCEPT !.st = "installing"])
    BY <1>0, GotoExtends, GotoThen, StateUpdates
  <2> QED BY <1>plan, <1>0, <1>5, <2>1, SourceLostFits, CheckSourceKeeps
             DEF InstallCheck
<1>6. CASE InstallCheckpoint(t)
  <2>1. Fits(tx[t], [Goto(t, "ci_check2") EXCEPT !.ck = TRUE])
    BY <1>0, GotoExtends, GotoThen, FlagUpdates
  <2>2. \A ok \in BOOLEAN :
          Extends(Goto(t, "ci_undo"), [Goto(t, "ci_undo") EXCEPT !.ck = ok])
    BY <1>0, GotoExtends, CheckpointedUpdate, Zenon DEF Extends
  <2>3. \A ok \in BOOLEAN :
          Fits(tx[t], [Goto(t, "ci_undo") EXCEPT !.ck = ok])
    BY <1>0, <2>2, GotoThen
  <2>4. \E ok \in BOOLEAN :
          \/ Become(t, [Goto(t, "ci_check2") EXCEPT !.ck = TRUE])
          \/ Become(t, Finish("failed"))
          \/ Become(t, [Goto(t, "ci_undo") EXCEPT !.ck = ok])
    BY <1>6, Zenon DEF InstallCheckpoint
  <2>5. Fits(tx[t], Finish("failed"))
    BY FinishFits
  <2>6. /\ Sound(tx[t], [Goto(t, "ci_check2") EXCEPT !.ck = TRUE])
        /\ \A ok \in BOOLEAN :
             Sound(tx[t], [Goto(t, "ci_undo") EXCEPT !.ck = ok])
        /\ Sound(tx[t], Finish("failed"))
    BY <1>plan, <2>1, <2>3, <2>5, Zenon
  <2> QED BY <2>4, <2>6, Zenon DEF Keeps
<1>7. CASE InstallUndo(t)
  BY <1>plan, <1>0, <1>7, GotoFits, FinishFits DEF InstallUndo, Keeps
<1>8. CASE InstallCheck2(t)
  BY <1>plan, <1>0, <1>8, BeginFits, SourceLostFits, CheckSourceKeeps
     DEF InstallCheck2
<1>9. CASE UploadJob(t)
  <2> DEFINE u == [tx[t] EXCEPT !.ota = "uploaded"]
  <2>1. Fits(tx[t], [Goto(t, "up_save") EXCEPT !.ota = "uploaded"])
    BY <1>0, GotoExtends, GotoThen, FlagUpdates
  <2>2. Extends(tx[t], u) /\ u \in Transaction
    BY <1>0, FlagUpdates DEF Extends
  <2>3. Fits(tx[t], BeginVerify(u))
    BY <2>2, BeginFits, FitsTransitive
  <2> QED BY <1>plan, <1>0, <1>9, <2>1, <2>3, GotoFits, RetainFits
             DEF UploadJob, Keeps
<1>10. CASE UploadSave(t)
  <2> DEFINE u == [tx[t] EXCEPT !.pcs = FALSE]
  <2>1. Extends(tx[t], u) /\ u \in Transaction
    BY <1>0, FlagUpdates DEF Extends
  <2>2. Fits(tx[t], BeginVerify(u)) /\ Fits(tx[t], RetainInstallRetry(u))
    BY <2>1, BeginFits, RetainFits, FitsTransitive
  <2> QED BY <1>plan, <1>10, <2>2 DEF UploadSave, Keeps
<1>11. CASE TerminalFailure(t)
  <2> DEFINE u == [tx[t] EXCEPT !.pcs = FALSE]
  <2>1. Extends(tx[t], u) /\ u \in Transaction
    BY <1>0, FlagUpdates DEF Extends
  <2>2. Fits(tx[t], RetainUnpersisted(u))
    BY <2>1, RetainFits, FitsTransitive
  <2> QED BY <1>plan, <1>11, <2>2, FinishFits DEF TerminalFailure, Keeps
<1> QED
  BY <1>1, <1>2, <1>3, <1>4, <1>5, <1>6, <1>7, <1>8, <1>9, <1>10, <1>11

LEMMA PersistSteps ==
  ASSUME TypeOK, Planned, NEW t \in Txns,
         \/ VerifyReconnect(t) \/ PersistCheck(t) \/ PersistSave(t)
         \/ PersistClear(t) \/ Abandon(t) \/ AbandonRelease(t)
         \/ AbandonCheck(t) \/ AbandonClear(t)
  PROVE  Keeps(t)
<1> USE DEF Awaits, States
<1>0. tx[t] \in Transaction
  BY DEF TypeOK
<1>work. Working(tx[t])
  BY DEF VerifyReconnect, PersistCheck, PersistSave, PersistClear,
         Abandon, AbandonRelease, AbandonCheck, AbandonClear,
         CheckSource, At, Ready, Working
<1>plan. HasPlan(tx[t]) /\ \A u : Fits(tx[t], u) => Sound(tx[t], u)
  BY <1>work, FitsSound DEF Planned
<1>1. CASE VerifyReconnect(t)
  <2>1. Fits(tx[t], [Goto(t, "ps_check") EXCEPT !.pcs = TRUE])
    BY <1>0, GotoExtends, GotoThen, FlagUpdates
  <2> QED BY <1>plan, <1>0, <1>1, <2>1, GotoFits, RetainFits
             DEF VerifyReconnect, Keeps
<1>2. CASE PersistCheck(t)
  BY <1>plan, <1>0, <1>2, GotoFits, RetainFits, CheckSourceKeeps
     DEF PersistCheck
<1>3. CASE PersistSave(t)
  BY <1>plan, <1>0, <1>3, GotoFits, RetainFits DEF PersistSave, Keeps
<1>4. CASE PersistClear(t)
  BY <1>plan, <1>0, <1>4, FinishFits, RetainFits DEF PersistClear, Keeps
<1>5. CASE Abandon(t)
  BY <1>plan, <1>0, <1>5, GotoFits, FinishFits DEF Abandon, Keeps
<1>6. CASE AbandonRelease(t)
  <2>1. Fits(tx[t], [Goto(t, "idle") EXCEPT !.resv = FALSE])
    BY <1>0, GotoExtends, GotoThen, FlagUpdates
  <2> QED BY <1>plan, <1>0, <1>6, <2>1, GotoFits, FinishFits DEF AbandonRelease, Keeps
<1>7. CASE AbandonCheck(t)
  BY <1>plan, <1>0, <1>7, GotoFits, SourceLostFits, CheckSourceKeeps DEF AbandonCheck
<1>8. CASE AbandonClear(t)
  BY <1>plan, <1>0, <1>8, GotoFits, FinishFits DEF AbandonClear, Keeps
<1> QED BY <1>1, <1>2, <1>3, <1>4, <1>5, <1>6, <1>7, <1>8

LEMMA RestoredUpdate ==
  ASSUME NEW r \in Transaction, NEW c \in Checkpoints, NEW st \in States,
         NEW ota \in {"no", "attempted", "uploaded"}
  PROVE  Extends(r, [r EXCEPT !.kind = c.kind, !.full = c.full, !.vid = c.vid,
                              !.src = c.src, !.prop = c.prop, !.fp = c.fp,
                              !.st = st, !.ws = TRUE, !.ck = TRUE,
                              !.rec = TRUE, !.ota = ota])
<1>1. /\ c.kind \in {"install", "calib"} /\ c.full \in BOOLEAN
      /\ c.vid \in Vids \cup {None} /\ c.src \in Contents
      /\ c.prop \in Contents /\ c.fp \in Meters \cup {None}
  BY DEF Checkpoints
<1> QED BY <1>1, ZenonT(60) DEF Extends, HasPlan, Transaction

\* The checkpoint a restart finds is restored with its plan, without a lease.
LEMMA RestoredSound ==
  ASSUME NEW r, NEW c \in Checkpoints
  PROVE  Sound(r, [Restored(c) EXCEPT !.pc = "rv_lock"])
<1> DEFINE ota == IF c.uploaded THEN "uploaded" ELSE "attempted"
           u == [Blank EXCEPT
                   !.kind = c.kind, !.full = c.full, !.vid = c.vid,
                   !.src = c.src, !.prop = c.prop, !.fp = c.fp,
                   !.st = "install_confirmation_required", !.ws = TRUE,
                   !.ck = TRUE, !.rec = TRUE, !.ota = ota]
<1>1. ota \in {"no", "attempted", "uploaded"}
  OBVIOUS
<1>2. "install_confirmation_required" \in States /\ "rv_lock" \in Awaits
  BY DEF States, Awaits
<1>3. Restored(c) = u
  BY Zenon DEF Restored
<1> HIDE DEF ota
<1>4. Extends(Blank, u)
  BY <1>1, <1>2, BlankType, RestoredUpdate, Zenon
<1>5. HasPlan(u)
  BY DEF HasPlan, Checkpoints, Blank
<1> HIDE DEF u
<1>6. u \in Transaction /\ ~u.lease
  BY <1>4, BlankCloses DEF Extends, Closes
<1>7. Extends(u, [u EXCEPT !.pc = "rv_lock"])
  BY <1>2, <1>6, AwaitUpdates
<1> QED BY <1>3, <1>5, <1>6, <1>7 DEF Extends, Sound

LEMMA ExpiryAndRecoverySteps ==
  ASSUME TypeOK, Planned, NEW t \in Txns,
         \/ Due(t) \/ Expire(t) \/ ExpireRelease(t)
         \/ Recover(t) \/ RecoverLock(t) \/ RecoverGet(t)
  PROVE  Keeps(t) \/ Takes(t)
<1> USE DEF Awaits, States
<1>0. tx[t] \in Transaction
  BY DEF TypeOK
<1>plan. ~Recover(t)
           => HasPlan(tx[t]) /\ \A u : Fits(tx[t], u) => Sound(tx[t], u)
  <2>1. ~Recover(t) => Working(tx[t])
    BY DEF Due, Expire, ExpireRelease, RecoverLock, RecoverGet, At, Working
  <2> QED BY <2>1, FitsSound DEF Planned
<1>1. CASE Due(t)
  <2>1. ~Recover(t)
    BY <1>1 DEF Due, Recover
  <2>2. Fits(tx[t], [tx[t] EXCEPT !.due = TRUE])
    BY <1>0, FlagUpdates DEF Fits
  <2> QED BY <1>plan, <1>1, <2>1, <2>2 DEF Due, Keeps
<1>2. CASE Expire(t)
  <2> DEFINE r == tx[t]
             u == [r EXCEPT !.st = "failed", !.due = FALSE, !.xstart = TRUE]
             w == [Goto(t, "xr_release") EXCEPT
                     !.st = "failed", !.lease = FALSE, !.xstart = TRUE]
  <2>1. ~Recover(t)
    BY <1>2 DEF Expire, Recover
  <2>2. Extends(r, u) /\ u \in Transaction
    BY <1>0, StateUpdates DEF Extends
  <2>3. Fits(r, StartRollback(u))
    BY <2>2, StartRollbackFits, FitsTransitive
  <2>4. Fits(r, w)
    BY <1>0, GotoExtends, GotoThen, StateUpdates
  <2>5. \E x \in {StartRollback(u), w, Finish("failed")} : Become(t, x)
    BY <1>2 DEF Expire
  <2>6. Fits(r, Finish("failed"))
    BY FinishFits
  <2> QED BY <1>plan, <2>1, <2>3, <2>4, <2>5, <2>6 DEF Keeps
<1>3. CASE ExpireRelease(t)
  BY <1>3, FinishCloses, ClosesSound DEF ExpireRelease, Keeps
<1>4. CASE Recover(t)
  <2>1. store.ck \in Checkpoints
    BY <1>4 DEF Recover, TypeOK, Stores
  <2> QED BY <1>4, <2>1, RestoredSound DEF Recover, Keeps
<1>5. CASE RecoverLock(t)
  <2>1. ~Recover(t)
    BY <1>5 DEF RecoverLock, Recover, At
  <2>2. Sound(tx[t], Goto(t, "rv_get")) /\ Sound(tx[t], Finish("lost"))
    BY <1>0, <1>plan, <2>1, GotoFits, FinishFits
  <2> QED BY <1>5, <2>2 DEF RecoverLock, Keeps, Takes, Sound
<1>6. CASE RecoverGet(t)
  <2>1. ~Recover(t)
    BY <1>6 DEF RecoverGet, Recover, At
  <2>2. Fits(tx[t], [Goto(t, "idle") EXCEPT !.open = TRUE])
    BY <1>0, GotoExtends, GotoThen, FlagUpdates
  <2> QED BY <1>plan, <1>6, <2>1, <2>2, FinishFits DEF RecoverGet, Keeps
<1> QED BY <1>1, <1>2, <1>3, <1>4, <1>5, <1>6

ByTransaction(t) ==
  Operations(t) \/ Acquires(t) \/ Continues(t) \/ Due(t) \/ Expire(t)

LEMMA ObjectStep ==
  ASSUME TypeOK, Planned, NEW t \in Txns, ByTransaction(t)
  PROVE  Keeps(t) \/ Takes(t)
BY PreviewSteps, WriteSteps, RollbackSteps, CompileSteps, InstallSteps,
   PersistSteps, ExpiryAndRecoverySteps
   DEF ByTransaction, Operations, Acquires, Continues
-----------------------------------------------------------------------------
(* A step of a transaction writes only well-formed records and contents.   *)

LEMMA SaveType ==
  ASSUME store \in Stores, NEW new \in Stores, NEW ok, Save(new, ok)
  PROVE  store' \in Stores
BY DEF Save

LEMMA SaveMeterType ==
  ASSUME store \in Stores, NEW m \in Meters \cup {None}, NEW ok,
         SaveMeter(m, ok)
  PROVE  store' \in Stores
<1>1. [store EXCEPT !.meter = m] \in Stores
  BY DEF Stores
<1> QED BY <1>1, SaveType DEF SaveMeter

LEMMA ReleaseReservationType ==
  ASSUME store \in Stores, NEW t, NEW ok, ReleaseReservation(t, ok)
  PROVE  store' \in Stores
<1>1. store.meter \in Meters \cup {None}
  BY DEF Stores
<1>2. Release(store.meter, tx[t].vid, t) \in Meters \cup {None}
  BY <1>1, ReleaseType
<1> QED BY <1>2, SaveMeterType DEF ReleaseReservation

\* Only a transaction with a plan has a checkpoint to write.
LEMMA CheckpointType ==
  ASSUME NEW t \in Txns, NEW r \in Transaction, HasPlan(r)
  PROVE  Checkpoint(t, r) \in Checkpoints
<1> DEFINE b == r.ota = "uploaded"
<1>1. b \in BOOLEAN
  OBVIOUS
<1>2. Checkpoint(t, r)
        = [txn |-> t, kind |-> r.kind, full |-> r.full, vid |-> r.vid,
           src |-> r.src, prop |-> r.prop, fp |-> r.fp, uploaded |-> b]
  BY Zenon DEF Checkpoint
<1>3. /\ r.kind \in {"install", "calib"} /\ r.full \in BOOLEAN
      /\ r.vid \in Vids \cup {None} /\ r.fp \in Meters \cup {None}
  BY DEF Transaction
<1>4. r.src \in Contents /\ r.prop \in Contents
  BY DEF HasPlan
<1> HIDE DEF b
<1>5. [txn |-> t, kind |-> r.kind, full |-> r.full, vid |-> r.vid,
       src |-> r.src, prop |-> r.prop, fp |-> r.fp, uploaded |-> b]
        \in Checkpoints
  BY <1>1, <1>3, <1>4, ZenonT(60) DEF Checkpoints
<1> QED BY <1>2, <1>5, Zenon

LEMMA SaveCheckpointType ==
  ASSUME store \in Stores, NEW t \in Txns, tx[t] \in Transaction,
         HasPlan(tx[t]), NEW ok, SaveCheckpoint(t, ok)
  PROVE  store' \in Stores
<1>1. \A c \in Checkpoints : [store EXCEPT !.ck = c] \in Stores
  BY DEF Stores
<1> QED BY <1>1, CheckpointType, SaveType DEF SaveCheckpoint

LEMMA ClearCheckpointType ==
  ASSUME store \in Stores, NEW t, NEW ok, ClearCheckpoint(t, ok)
  PROVE  store' \in Stores
<1>1. [store EXCEPT !.ck = None] \in Stores
  BY DEF Stores
<1> QED BY <1>1, SaveType DEF ClearCheckpoint

LEMMA PersistedType ==
  ASSUME store \in Stores, NEW t \in Txns, tx[t] \in Transaction,
         HasPlan(tx[t]), CanPersist(store.meter, t, tx[t])
  PROVE  Persisted(store.meter, t, tx[t]) \in Meters
<1> DEFINE conf == IF tx[t].full THEN t ELSE None
<1>1. store.meter \in Meters \cup {None} /\ tx[t].prop \in Contents
  BY DEF Stores, HasPlan
<1>2. CASE tx[t].kind = "install"
  BY <1>1, <1>2, SaveConfigurationType DEF Persisted
<1>3. CASE tx[t].kind # "install"
  <2>1. conf \in Contents \cup {None}
    BY DEF Contents
  <2>2. CanSaveAndMark(store.meter, tx[t].vid, t, tx[t].src, tx[t].prop, conf)
    BY <1>3 DEF CanPersist
  <2>3. SaveAndMark(store.meter, tx[t].prop, conf) \in Meters
    BY <1>1, <2>1, <2>2, SaveAndMarkType
  <2> QED BY <1>3, <2>3 DEF Persisted
<1> QED BY <1>2, <1>3

\* Steps that only release a reservation or remove a checkpoint.
LEMMA ReleaseSteps ==
  ASSUME TypeOK, NEW t \in Txns,
         \/ PreviewGainsRelease(t) \/ ConfirmWriteRelease(t)
         \/ WriteConflict(t) \/ RollbackRelease(t) \/ RollbackClear(t)
         \/ InstallUndo(t) \/ TerminalFailure(t) \/ PersistClear(t)
         \/ AbandonRelease(t) \/ AbandonClear(t) \/ ExpireRelease(t)
  PROVE  Elsewhere
<1>1. /\ cal' = cal /\ UNCHANGED remote
      /\ \E ok : ReleaseReservation(t, ok) \/ ClearCheckpoint(t, ok)
  BY DEF PreviewGainsRelease, ConfirmWriteRelease, WriteConflict,
         RollbackRelease, RollbackClear, InstallUndo, TerminalFailure,
         PersistClear, AbandonRelease, AbandonClear, ExpireRelease
<1>2. store' \in Stores
  BY <1>1, ReleaseReservationType, ClearCheckpointType DEF TypeOK
<1> QED BY <1>1, <1>2 DEF Elsewhere, remote, TypeOK

\* The other steps that save the record of the meter or the checkpoint.
LEMMA RecordSteps ==
  ASSUME TypeOK, Planned, NEW t \in Txns,
         \/ PreviewGainsClaim(t) \/ MetadataSave(t) \/ RevokeReceipt(t)
         \/ InstallCheckpoint(t) \/ UploadSave(t) \/ PersistSave(t)
  PROVE  Elsewhere
<1>0. /\ tx[t] \in Transaction /\ store \in Stores
      /\ store.meter \in Meters \cup {None}
  BY DEF TypeOK, Stores
<1>plan. HasPlan(tx[t])
  <2>1. tx[t].pc \in {"pv_claim", "nm_save", "ci_revoke", "ci_save", "up_save",
                      "ps_save"}
    BY DEF PreviewGainsClaim, MetadataSave, RevokeReceipt, InstallCheckpoint,
           UploadSave, PersistSave, At
  <2> QED BY <2>1 DEF Planned, Working
<1>rest. cal' = cal /\ UNCHANGED remote
  BY DEF PreviewGainsClaim, MetadataSave, RevokeReceipt, InstallCheckpoint,
         UploadSave, PersistSave
<1>1. CASE PreviewGainsClaim(t)
  <2>1. \/ UNCHANGED store
        \/ /\ CanClaim(store.meter, tx[t].vid)
           /\ \E ok : SaveMeter(Claim(store.meter, t), ok)
    BY <1>1 DEF PreviewGainsClaim
  <2> QED BY <1>0, <1>rest, <2>1, ClaimType, SaveMeterType
             DEF Elsewhere, remote, TypeOK
<1>2. CASE MetadataSave(t)
  <2>1. \/ UNCHANGED store
        \/ \E ok : SaveMeter(SaveConfiguration(store.meter, t, tx[t].prop), ok)
    BY <1>2 DEF MetadataSave
  <2>2. SaveConfiguration(store.meter, t, tx[t].prop) \in Meters
    BY <1>0, <1>plan, SaveConfigurationType DEF HasPlan
  <2> QED BY <1>0, <1>rest, <2>1, <2>2, SaveMeterType
             DEF Elsewhere, remote, TypeOK
<1>3. CASE RevokeReceipt(t)
  <2>1. UNCHANGED store \/ \E ok : SaveMeter(Revoke(store.meter), ok)
    BY <1>3 DEF RevokeReceipt
  <2> QED BY <1>0, <1>rest, <2>1, RevokeType, SaveMeterType
             DEF Elsewhere, remote, TypeOK
<1>4. CASE InstallCheckpoint(t) \/ UploadSave(t)
  <2>1. \E ok : SaveCheckpoint(t, ok)
    BY <1>4 DEF InstallCheckpoint, UploadSave
  <2> QED BY <1>0, <1>plan, <1>rest, <2>1, SaveCheckpointType
             DEF Elsewhere, remote, TypeOK
<1>5. CASE PersistSave(t)
  <2>1. \/ UNCHANGED store
        \/ /\ CanPersist(store.meter, t, tx[t])
           /\ \E ok : SaveMeter(Persisted(store.meter, t, tx[t]), ok)
    BY <1>5 DEF PersistSave
  <2> QED BY <1>0, <1>plan, <1>rest, <2>1, PersistedType, SaveMeterType
             DEF Elsewhere, remote, TypeOK
<1> QED BY <1>1, <1>2, <1>3, <1>4, <1>5

\* Steps that write YAML or run a firmware job.
LEMMA RemoteSteps ==
  ASSUME TypeOK, Planned, NEW t \in Txns,
         \/ WriteUpdate(t) \/ RestoreUpdate(t) \/ CompileJob(t) \/ UploadJob(t)
  PROVE  Elsewhere
<1>1. HasPlan(tx[t])
  <2>1. tx[t].pc \in {"cw_update", "rs_update", "cp_job", "up_job"}
    BY DEF WriteUpdate, RestoreUpdate, CompileJob, UploadJob, At
  <2> QED BY <2>1 DEF Planned, Working
<1>2. /\ cal' = cal /\ store' = store
      /\ builder' \in {builder, tx[t].src, tx[t].prop}
      /\ built' \in {built, builder}
      /\ fw' \in {fw, built, builder}
  BY DEF WriteUpdate, RestoreUpdate, CompileJob, UploadJob
<1> QED BY <1>1, <1>2 DEF Elsewhere, TypeOK, HasPlan

LEMMA StoreStep ==
  ASSUME TypeOK, Planned, NEW t \in Txns, ByTransaction(t)
  PROVE  Elsewhere
<1>1. CASE \/ Preview(t) \/ PreviewGains(t) \/ ConfirmWrite(t) \/ Compile(t)
           \/ ConfirmInstall(t) \/ Rollback(t) \/ Abandon(t) \/ Recover(t)
           \/ PreviewGainsLock(t) \/ ConfirmWriteLock(t)
           \/ PreviewGainsRead(t) \/ ConfirmWriteRevalidate(t)
           \/ MetadataCheck(t) \/ WriteGet(t) \/ Reconcile(t) \/ Validate(t)
           \/ RestoreGet(t) \/ RestoreAgain(t) \/ RestoreVerify(t)
           \/ CompileCheck(t) \/ CompileCheck2(t) \/ AdoptSource(t)
           \/ RetryCheck(t) \/ InstallCheck(t) \/ InstallCheck2(t)
           \/ VerifyReconnect(t) \/ PersistCheck(t) \/ AbandonCheck(t)
           \/ RecoverLock(t) \/ RecoverGet(t) \/ Due(t) \/ Expire(t)
  <2>1. UNCHANGED <<cal, store, remote>>
    BY <1>1 DEF Preview, PreviewGains, ConfirmWrite, Compile, ConfirmInstall,
         Rollback, Abandon, Recover, PreviewGainsLock, ConfirmWriteLock,
         PreviewGainsRead, ConfirmWriteRevalidate, MetadataCheck, WriteGet,
         Reconcile, Validate, RestoreGet, RestoreAgain, RestoreVerify,
         CompileCheck, CompileCheck2, AdoptSource, RetryCheck, InstallCheck,
         InstallCheck2, VerifyReconnect, PersistCheck, AbandonCheck,
         RecoverLock, RecoverGet, Due, Expire, CheckSource
  <2> QED BY <2>1 DEF Elsewhere, remote, TypeOK
<1> QED BY <1>1, ReleaseSteps, RecordSteps, RemoteSteps
           DEF ByTransaction, Operations, Acquires, Continues
-----------------------------------------------------------------------------
(* The inductive invariant: types, plans and the exclusive lease.          *)

IInv == TypeOK /\ Planned /\ ExclusiveLease

LEMMA InitIInv == Init => IInv
<1> SUFFICES ASSUME Init PROVE IInv
  OBVIOUS
<1>1. \A t \in Txns : tx[t] = Blank
  BY DEF Init
<1>2. TypeOK
  <2>1. store \in Stores
    BY ParametersAssumption DEF Init, Stores
  <2>2. tx \in [Txns -> Transaction]
    BY BlankType DEF Init
  <2> QED BY <2>1, <2>2, ParametersAssumption DEF Init, TypeOK
<1>3. Planned /\ Holders = {}
  BY <1>1, BlankCloses DEF Planned, Closes, Holders
<1> QED BY <1>2, <1>3 DEF Init, IInv, ExclusiveLease

\* Keeping or releasing its lease, a transaction leaves it exclusive.
LEMMA KeepsIInv ==
  ASSUME IInv, NEW t \in Txns, Keeps(t), Elsewhere
  PROVE  IInv'
<1>1. PICK r : Sound(tx[t], r) /\ Become(t, r)
  BY DEF Keeps
<1>2. tx' = [tx EXCEPT ![t] = r] /\ r \in Transaction
  BY <1>1 DEF Become, Sound
<1>3. TypeOK'
  BY <1>1, <1>2 DEF IInv, TypeOK, Elsewhere, Become
<1>4. Planned'
  BY <1>1, <1>2 DEF IInv, TypeOK, Planned, Sound
<1>5. /\ Holders' = IF r.lease THEN Holders ELSE Holders \ {t}
      /\ r.lease => t \in Holders
  BY <1>1, <1>2 DEF IInv, TypeOK, Sound, Holders
<1>6. locked' = (locked /\ (t \in Holders => r.lease)) /\ cal' = cal
  BY <1>1 DEF Become, Holders, Elsewhere
<1>7. ExclusiveLease'
  BY <1>5, <1>6 DEF IInv, ExclusiveLease
<1> QED BY <1>3, <1>4, <1>7 DEF IInv

\* Only a free lock is acquired.
LEMMA TakesIInv ==
  ASSUME IInv, NEW t \in Txns, Takes(t), Elsewhere
  PROVE  IInv'
<1>1. PICK r \in Transaction : (Working(r) => HasPlan(r)) /\ Acquire(t, r)
  BY DEF Takes
<1> DEFINE u == [r EXCEPT !.lease = TRUE]
<1>2. /\ u \in Transaction /\ u.lease
      /\ u.open = r.open /\ u.pc = r.pc /\ u.src = r.src /\ u.prop = r.prop
  BY DEF Transaction
<1>3. /\ tx' = [tx EXCEPT ![t] = u] /\ ~locked /\ locked' = TRUE /\ cal' = cal
  BY <1>1 DEF Acquire, Elsewhere
<1> HIDE DEF u
<1>4. TypeOK'
  BY <1>2, <1>3 DEF IInv, TypeOK, Elsewhere
<1>5. Planned'
  BY <1>1, <1>2, <1>3 DEF IInv, TypeOK, Planned, Working, HasPlan
<1>6. Holders = {} /\ ~cal
  BY <1>3 DEF IInv, ExclusiveLease
<1>7. Holders' = {t}
  BY <1>2, <1>3, <1>6 DEF IInv, TypeOK, Holders
<1>8. ExclusiveLease'
  BY <1>3, <1>6, <1>7 DEF ExclusiveLease
<1> QED BY <1>4, <1>5, <1>8 DEF IInv

\* The calibration engine takes the lock only when it is free, and gives it
\* back once.
LEMMA CalibrationIInv ==
  ASSUME IInv, Calibration
  PROVE  IInv'
<1>0. store \in Stores /\ store.meter \in Meters \cup {None} /\ builder \in Contents
  BY DEF IInv, TypeOK, Stores
<1>1. tx' = tx /\ UNCHANGED remote
  BY DEF Calibration, BeginCalibration, EndCalibration, FinalizeCalibration,
         ClearFlash
<1>2. store' \in Stores
  <2>1. CASE BeginCalibration \/ EndCalibration
    <3>1. \E marked \in BOOLEAN : SaveMeter(SaveMarker(store.meter, marked), TRUE)
      BY <2>1 DEF BeginCalibration, EndCalibration
    <3> QED BY <1>0, <3>1, SaveMarkerType, SaveMeterType
  <2>2. CASE FinalizeCalibration
    <3>1. \E v \in Vids, offsets \in BOOLEAN :
             SaveMeter(Finalize(store.meter, v, builder, offsets), TRUE)
      BY <2>2 DEF FinalizeCalibration
    <3> QED BY <1>0, <3>1, FinalizeType, SaveMeterType
  <2>3. CASE ClearFlash
    <3>1. \E v \in Vids, t \in Txns :
             CanComplete(store.meter, v, t) /\ SaveMeter(Complete(store.meter), TRUE)
      BY <2>3 DEF ClearFlash
    <3> QED BY <1>0, <3>1, CompleteType, SaveMeterType
  <2> QED BY <2>1, <2>2, <2>3 DEF Calibration
<1>3. /\ Holders' = Holders
      /\ \/ ~locked /\ ~cal /\ locked' = TRUE /\ cal' = TRUE
         \/ cal /\ locked' = FALSE /\ cal' = FALSE
  BY <1>1 DEF Calibration, BeginCalibration, EndCalibration,
              FinalizeCalibration, ClearFlash, Holders
<1>4. TypeOK' /\ Planned'
  BY <1>1, <1>2, <1>3 DEF IInv, TypeOK, Planned, remote
<1>5. ExclusiveLease'
  BY <1>3 DEF IInv, ExclusiveLease
<1> QED BY <1>4, <1>5 DEF IInv

\* After a restart nobody holds the lock.
LEMMA CrashIInv ==
  ASSUME IInv, Crash
  PROVE  IInv'
<1>1. "lost" \in States
  BY DEF States
<1>2. /\ Finish("lost") \in Transaction /\ ~Finish("lost").lease
      /\ ~Working(Finish("lost"))
  BY <1>1, FinishCloses DEF Closes
<1>3. Blank \in Transaction /\ ~Blank.lease /\ ~Working(Blank)
  BY BlankCloses DEF Closes
<1>4. /\ tx' \in [Txns -> {Blank, Finish("lost")}]
      /\ locked' = FALSE /\ cal' = FALSE /\ UNCHANGED <<store, remote>>
  BY DEF Crash
<1>5. TypeOK'
  BY <1>2, <1>3, <1>4 DEF IInv, TypeOK, remote
<1>6. \A t \in Txns : tx'[t] \in {Blank, Finish("lost")}
  BY <1>4
<1>7. Planned' /\ Holders' = {}
  BY <1>2, <1>3, <1>6 DEF Planned, Holders
<1>8. ExclusiveLease'
  BY <1>4, <1>7 DEF ExclusiveLease
<1> QED BY <1>5, <1>7, <1>8 DEF IInv

LEMMA NextIInv == IInv /\ [Next]_vars => IInv'
<1> SUFFICES ASSUME IInv, [Next]_vars PROVE IInv'
  OBVIOUS
<1>1. CASE \E t \in Txns : ByTransaction(t)
  BY <1>1, ObjectStep, StoreStep, KeepsIInv, TakesIInv DEF IInv
<1>2. CASE Calibration
  BY <1>2, CalibrationIInv
<1>3. CASE EditYaml
  <2>1. builder' \in Contents
    BY <1>3, ParametersAssumption DEF EditYaml, Contents
  <2>2. UNCHANGED <<tx, locked, cal, store, built, fw>>
    BY <1>3 DEF EditYaml
  <2> QED BY <2>1, <2>2
          DEF IInv, TypeOK, Planned, ExclusiveLease, Holders
<1>4. CASE Crash
  BY <1>4, CrashIInv
<1>5. CASE UNCHANGED vars
  BY <1>5 DEF IInv, TypeOK, Planned, ExclusiveLease, Holders, vars
<1> QED BY <1>1, <1>2, <1>3, <1>4, <1>5 DEF Next, ByTransaction

\* The state of the helper is well formed at every moment, for any number of
\* transactions, calibrations and failures.
THEOREM TypeInvariant == Spec => []TypeOK
<1>1. IInv => TypeOK
  BY DEF IInv
<1> QED BY <1>1, InitIInv, NextIInv, PTL DEF Spec

\* The config lock of the meter is the lease of exactly one transaction or of
\* the calibration engine, whatever fails and whoever is cancelled
\* (session_manager.py and every path of config_transaction.py that releases).
THEOREM LeaseIsExclusive == Spec => []ExclusiveLease
<1>1. IInv => ExclusiveLease
  BY DEF IInv
<1> QED BY <1>1, InitIInv, NextIInv, PTL DEF Spec
=============================================================================
