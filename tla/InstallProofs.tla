---------------------------- MODULE InstallProofs ----------------------------
(***************************************************************************)
(* What the durable record and the YAML say of an install: an interrupted  *)
(* OTA is found again, a verified transaction is on record, a rollback ends*)
(* with the prior YAML and without a reservation, no upload runs under the *)
(* receipt of other firmware, and no transaction closes over its own       *)
(* uncompiled write.                                                       *)
(***************************************************************************)
EXTENDS HandoverProofs

\* A transaction that has written nothing and confirmed nothing.
Unborn == {"none", "previewed"}

\* Awaits past the acknowledged upload.
Acked == {"up_save", "vf_verify", "ps_check", "ps_save", "ps_clear"}

\* What the await and the flags of a transaction say of each other, beyond Good.
Shaped(r) ==
  /\ r.pc \in {"cw_lock", "cw_revalidate", "cw_release", "nm_check", "nm_save"}
       => r.st = "previewed"
  /\ r.pc = "up_job" => r.ota = "attempted"
  /\ r.pc \in Acked => r.ota = "uploaded"
  /\ r.pc \in Resumed => r.ota # "no"
  /\ r.pc \in {"rs_release", "rs_clear"} => r.restored
  /\ r.restored =>
       /\ ~r.ws
       /\ \/ r.pc \in {"rs_release", "rs_clear", "xr_release"}
          \/ r.pc = "idle" /\ r.st = "failed" /\ r.rb
  /\ r.restored /\ r.pc # "xr_release" => r.lease
  /\ r.pc = "rs_clear" => ~r.resv

\* The OTA was attempted, and the object is not one a recovery is still
\* comparing with the checkpoint.
Ota(r) == r.lease /\ r.ota # "no" /\ r.pc # "rv_get"

\* The prior YAML is back (or somebody edited it since).
Back(r) == builder \in {r.src} \cup Edits

\* The checkpoint on disk names t and what it proposes.
Names(c, t) == c # None /\ c.txn = t /\ c.prop = tx[t].prop

ObjectsShaped == \A t \in Txns : Shaped(tx[t])

\* A verified save is on record before its checkpoint is cleared.
SavedIsThere ==
  \A t \in Txns : At(t, "ps_clear") =>
    store.meter # None /\ store.meter.hash = tx[t].prop

\* A checkpoint is of a transaction that has confirmed its write.
CheckpointIsConfirmed ==
  \A t \in Txns :
    store.ck # None /\ store.ck.txn = t => tx[t].st \notin Unborn

\* The object of a transaction knows of its reservation.
ReservationIsKnown ==
  \A t \in Txns :
    ~tx[t].rec /\ tx[t].vid # None /\ IsReserved(store.meter, tx[t].vid, t)
      => tx[t].resv

\* While a restored transaction keeps the lease, its source stays in place.
RestoredStays ==
  \A t \in Txns :
    tx[t].restored /\ tx[t].pc # "xr_release" => Back(tx[t])

JInv ==
  /\ ObjectsShaped /\ SavedIsThere /\ CheckpointIsConfirmed
  /\ ReservationIsKnown /\ RestoredStays

\* With saves that are what their read-back says: the checkpoint outlives the
\* OTA it names, and does not know more of the upload than the transaction.
OtaIsNamed ==
  \A t \in Txns : Ota(tx[t]) =>
    Names(store.ck, t) /\ (store.ck.uploaded => tx[t].ota = "uploaded")

CheckedIsNamed ==
  \A t \in Txns : At(t, "ci_check2") =>
    Names(store.ck, t) /\ ~store.ck.uploaded

KInv == OtaIsNamed /\ CheckedIsNamed

\* A receipt on disk is of what the checkpoint on disk proposes, there is none
\* while a checkpoint is written, and a transaction whose OTA was attempted
\* proposes what both say.
ReceiptIsCheckpoint ==
  store.ck # None /\ Installed(store.meter) => store.meter.hash = store.ck.prop

ReceiptIsRevoked ==
  \A t \in Txns :
    tx[t].pc \in {"ci_check", "ci_save", "ci_check2"} => ~Installed(store.meter)

CheckpointIsOwn ==
  \A t \in Txns : Ota(tx[t]) \/ At(t, "ci_check2") =>
    (store.ck # None => store.ck.prop = tx[t].prop)

ReceiptIsOwn ==
  \A t \in Txns : Ota(tx[t]) =>
    (Installed(store.meter) => store.meter.hash = tx[t].prop)

FInv ==
  /\ ReceiptIsCheckpoint /\ ReceiptIsRevoked /\ CheckpointIsOwn /\ ReceiptIsOwn

-----------------------------------------------------------------------------
(* What an ordinary step makes of an object r.                             *)

Awaited == {"ci_check", "ci_save", "ci_check2", "up_job", "ps_clear"}

Tame(r, u) ==
  /\ Shaped(u)
  /\ u.st \in Unborn => r.st \in Unborn
  /\ Ota(u) => Ota(r) /\ u.ota = r.ota /\ u.prop = r.prop
  /\ u.pc \notin Awaited
  /\ u.restored /\ u.pc # "xr_release" =>
       r.restored /\ r.pc # "xr_release" /\ u.src = r.src
  /\ u.vid # None /\ ~u.rec /\ ~u.resv =>
       u.st = "none" \/ (u.vid = r.vid /\ ~r.rec /\ ~r.resv)
  /\ u.st = "verified" => r.st = "verified"
  /\ u.st = "rolled_back" =>
       \/ r.st = "rolled_back"
       \/ r.restored /\ ~r.resv /\ r.pc # "xr_release"

\* A transaction under way that no recovery is still reading.
Live(r) == r \in Transaction /\ Good(r) /\ Shaped(r) /\ r.pc # "rv_get"

LEMMA FinishTame ==
  ASSUME NEW r, NEW s \in {"failed", "lost"}
  PROVE  Tame(r, Finish(s))
BY DEF Tame, Shaped, Ota, Finish, Blank, Awaited, Acked, Resumed, Unborn

\* Keeping a transaction for another attempt at the install.
LEMMA RetryTame ==
  ASSUME NEW r, Live(r), r.ws, r.lease
  PROVE  Tame(r, RetainInstallRetry(r)) /\ Tame(r, RetainUnpersisted(r))
<1> DEFINE b == ~r.rec /\ r.ota = "no"
           u(c) == [r EXCEPT !.pc = "idle",
                             !.st = "install_confirmation_required",
                             !.rb = c, !.due = FALSE]
<1>1. /\ RetainInstallRetry(r) = u(b)
      /\ RetainUnpersisted(r) = [u(b) EXCEPT !.rb = FALSE]
  BY Zenon DEF RetainInstallRetry, RetainUnpersisted
<1>2. b \in BOOLEAN
  OBVIOUS
<1> HIDE DEF b
<1>3. \A c \in BOOLEAN : Tame(r, u(c))
  BY DEF Live, Tame, Shaped, Ota, Transaction, Awaited, Acked, Resumed, Unborn
<1>4. [u(b) EXCEPT !.rb = FALSE] = u(FALSE)
  BY DEF Live, Transaction
<1> HIDE DEF u
<1> QED BY <1>1, <1>2, <1>3, <1>4

\* Keeping it for a rollback, unless its OTA was attempted.
LEMMA RecoveryTame ==
  ASSUME NEW r, Live(r), r.lease, r.pc # "xr_release"
  PROVE  Tame(r, RetainWriteRecovery(r)) /\ Tame(r, SourceLost(r))
<1>1. r.rec \/ r.ota # "no" => r.ws
  BY DEF Live, Good
<1>2. ASSUME r.ota = "no", ~r.rec
      PROVE  Tame(r, [r EXCEPT !.pc = "idle", !.st = "failed", !.rb = TRUE,
                               !.due = FALSE])
  BY <1>2 DEF Live, Tame, Shaped, Ota, Transaction, Awaited, Acked, Resumed,
              Unborn
<1>3. Tame(r, RetainWriteRecovery(r))
  BY <1>1, <1>2, RetryTame DEF RetainWriteRecovery
<1> QED BY <1>3, FinishTame DEF SourceLost

\* Ending a rollback whose YAML is back.
LEMMA RestoredTame ==
  ASSUME NEW r, Live(r), r.ota = "no", r.restored, r.pc # "xr_release"
  PROVE  Tame(r, AfterRestore(r))
<1> DEFINE w == [r EXCEPT !.ws = FALSE, !.restored = TRUE, !.rb = FALSE]
<1>1. r.resv => Tame(r, [w EXCEPT !.pc = "rs_release"])
  BY DEF Live, Tame, Shaped, Ota, Transaction, Awaited, Acked, Resumed, Unborn
<1>2. ~r.resv => Tame(r, [w EXCEPT !.pc = "rs_clear"])
  BY DEF Live, Tame, Shaped, Ota, Transaction, Awaited, Acked, Resumed, Unborn
<1>3. ~r.resv => Tame(r, Finish("rolled_back"))
  BY DEF Tame, Shaped, Ota, Finish, Blank, Awaited, Acked, Resumed, Unborn
<1> HIDE DEF w
<1>4. \/ r.resv /\ AfterRestore(r) = [w EXCEPT !.pc = "rs_release"]
      \/ ~r.resv /\ AfterRestore(r) = [w EXCEPT !.pc = "rs_clear"]
      \/ ~r.resv /\ AfterRestore(r) = Finish("rolled_back")
  BY DEF AfterRestore, w, Live, Transaction
<1> QED BY <1>1, <1>2, <1>3, <1>4

LEMMA StartTame ==
  ASSUME NEW r, Live(r), r.ota = "no", r.pc # "xr_release", r.st # "none"
  PROVE  Tame(r, StartRollback(r))
<1>1. ~r.restored => Tame(r, [r EXCEPT !.pc = "rs_get", !.rb = FALSE])
  BY DEF Live, Tame, Shaped, Ota, Transaction, Awaited, Acked, Resumed, Unborn
<1> QED BY <1>1, RestoredTame DEF StartRollback

\* Going on to the await p.
LEMMA GotoTame ==
  ASSUME NEW r, Live(r), ~r.restored,
         NEW p \in Awaits \ (Awaited \cup Acked \cup Resumed
           \cup {"cw_lock", "cw_revalidate", "cw_release", "nm_check", "nm_save",
                 "rs_release", "rs_clear"})
  PROVE  Tame(r, [r EXCEPT !.pc = p])
BY DEF Live, Tame, Shaped, Ota, Transaction, Awaited, Acked, Resumed, Unborn

\* Awaits that say more of the transaction.
LEMMA AckedTame ==
  ASSUME NEW r, Live(r), r.ota = "uploaded", ~r.restored,
         NEW p \in {"vf_verify", "ps_check", "ps_save"}
  PROVE  /\ Tame(r, [r EXCEPT !.pc = p])
         /\ Tame(r, [[r EXCEPT !.pc = p] EXCEPT !.pcs = TRUE])
         /\ Tame(r, BeginVerify(r)) /\ Tame(r, BeginVerify([r EXCEPT !.pcs = FALSE]))
<1> USE DEF Live, Tame, Shaped, Ota, Transaction, Awaited, Acked, Resumed, Unborn
<1>1. Tame(r, [r EXCEPT !.pc = p])
  OBVIOUS
<1>2. Tame(r, [[r EXCEPT !.pc = p] EXCEPT !.pcs = TRUE])
  OBVIOUS
<1>3. Tame(r, BeginVerify(r))
  BY DEF BeginVerify
<1>4. Tame(r, BeginVerify([r EXCEPT !.pcs = FALSE]))
  BY DEF BeginVerify
<1> HIDE DEF Live, Tame, Shaped, Ota, Transaction, Awaited, Acked, Resumed, Unborn
<1> QED BY <1>1, <1>2, <1>3, <1>4

LEMMA ResumedTame ==
  ASSUME NEW r, Live(r), r.ota # "no", ~r.restored, NEW p \in Resumed
  PROVE  Tame(r, [r EXCEPT !.pc = p])
BY DEF Live, Tame, Shaped, Ota, Transaction, Awaited, Acked, Resumed, Unborn

LEMMA PreviewedTame ==
  ASSUME NEW r, Live(r), r.st = "previewed", ~r.restored,
         NEW p \in {"cw_lock", "cw_release", "nm_save", "ab_release", "idle"}
  PROVE  /\ Tame(r, [r EXCEPT !.pc = p])
         /\ Tame(r, [r EXCEPT !.pc = p, !.lease = FALSE])
         /\ Tame(r, [r EXCEPT !.pc = p, !.lease = FALSE, !.resv = TRUE])
<1> USE DEF Live, Good, Tame, Shaped, Ota, Transaction, Awaited, Acked, Resumed,
            Unborn
<1>1. Tame(r, [r EXCEPT !.pc = p])
  OBVIOUS
<1>2. Tame(r, [r EXCEPT !.pc = p, !.lease = FALSE])
  OBVIOUS
<1>3. Tame(r, [r EXCEPT !.pc = p, !.lease = FALSE, !.resv = TRUE])
  OBVIOUS
<1> HIDE DEF Live, Good, Tame, Shaped, Ota, Transaction, Awaited, Acked, Resumed,
            Unborn
<1> QED BY <1>1, <1>2, <1>3

\* Stopping in another state.
LEMMA StopTame ==
  ASSUME NEW r, Live(r), ~r.restored,
         NEW s \in States \ (Unborn \cup {"verified", "rolled_back"})
  PROVE  /\ Tame(r, [[r EXCEPT !.pc = "idle"] EXCEPT !.st = s, !.due = FALSE])
         /\ Tame(r, [[r EXCEPT !.pc = "idle"] EXCEPT !.st = s, !.rb = TRUE])
         /\ Tame(r, [[r EXCEPT !.pc = "cw_validate"] EXCEPT !.st = s])
         /\ Tame(r, [r EXCEPT !.pc = "cw_get", !.st = s, !.ws = TRUE])
         /\ r.ota = "no" =>
              Tame(r, [[r EXCEPT !.pc = "cw_get", !.st = s, !.ws = TRUE]
                         EXCEPT !.lease = TRUE])
         /\ Tame(r, [[r EXCEPT !.pc = "cw_conflict"] EXCEPT !.ws = FALSE])
<1> USE DEF Live, Good, Tame, Shaped, Ota, Transaction, Awaited, Acked, Resumed,
            Unborn
<1>1. Tame(r, [[r EXCEPT !.pc = "idle"] EXCEPT !.st = s, !.due = FALSE])
  OBVIOUS
<1>2. Tame(r, [[r EXCEPT !.pc = "idle"] EXCEPT !.st = s, !.rb = TRUE])
  OBVIOUS
<1>3. Tame(r, [[r EXCEPT !.pc = "cw_validate"] EXCEPT !.st = s])
  OBVIOUS
<1>4. Tame(r, [r EXCEPT !.pc = "cw_get", !.st = s, !.ws = TRUE])
  OBVIOUS
<1>5. Tame(r, [[r EXCEPT !.pc = "cw_conflict"] EXCEPT !.ws = FALSE])
  OBVIOUS
<1>6. r.ota = "no" => Tame(r, [[r EXCEPT !.pc = "cw_get", !.st = s, !.ws = TRUE]
                 EXCEPT !.lease = TRUE])
  OBVIOUS
<1> HIDE DEF Live, Good, Tame, Shaped, Ota, Transaction, Awaited, Acked, Resumed,
            Unborn
<1> QED BY <1>1, <1>2, <1>3, <1>4, <1>5, <1>6

-----------------------------------------------------------------------------
(* The steps that are ordinary for the transaction that makes them.        *)

BeTame(t) == \E u : Tame(tx[t], u) /\ tx' = [tx EXCEPT ![t] = u]

LEMMA BecomeTame ==
  ASSUME NEW t \in Txns, NEW u, Become(t, u), Tame(tx[t], u)
  PROVE  BeTame(t)
BY DEF Become, BeTame

LEMMA AcquireTame ==
  ASSUME NEW t \in Txns, NEW u, Acquire(t, u),
         Tame(tx[t], [u EXCEPT !.lease = TRUE])
  PROVE  BeTame(t)
BY DEF Acquire, BeTame

LEMMA CheckSourceTame ==
  ASSUME NEW t \in Txns, NEW from, NEW ok, NEW lost,
         CheckSource(t, from, ok, lost), Tame(tx[t], ok), Tame(tx[t], lost)
  PROVE  BeTame(t)
BY BecomeTame DEF CheckSource

LEMMA LiveAt ==
  ASSUME NEW t \in Txns, TypeOK, HInv, ObjectsShaped, tx[t].pc # "rv_get"
  PROVE  Live(tx[t])
BY DEF HInv, TypeOK, ObjectsShaped, Live

\* The awaits at which the YAML may be restored already.
LEMMA NotRestored ==
  ASSUME NEW r, Shaped(r),
         \/ r.pc \notin {"idle", "rs_release", "rs_clear", "xr_release"}
         \/ r.pc = "idle" /\ (r.st # "failed" \/ r.ws)
  PROVE  ~r.restored
BY DEF Shaped

LEMMA OpeningTame ==
  ASSUME NEW r, Live(r)
  PROVE  /\ \A a, b, c : Tame(r, [Blank EXCEPT !.open = TRUE, !.st = "previewed",
                                    !.src = a, !.prop = b, !.fp = c])
                           \/ r.st \notin Unborn
         /\ \A v : Tame(r, [Blank EXCEPT !.pc = "pv_lock", !.kind = "calib",
                                         !.vid = v])
                     \/ r.st \notin Unborn
         /\ r.pc = "pv_lock" =>
              Tame(r, [[r EXCEPT !.pc = "pv_read"] EXCEPT !.lease = TRUE])
         /\ r.pc = "pv_read" =>
              /\ Tame(r, Blank)
              /\ \A a, b, c : Tame(r, [r EXCEPT !.open = TRUE, !.st = "previewed",
                    !.pc = "pv_claim", !.src = a, !.prop = b, !.full = c])
         /\ r.pc = "pv_claim" =>
              Tame(r, [[r EXCEPT !.pc = "pv_release"] EXCEPT !.resv = TRUE])
<1> USE DEF Live, Good, Placed, Tame, Shaped, Ota, Transaction, Awaited, Acked,
            Resumed, Unborn, Unwritten, Prepared, Restoring, Uploading, Early
<1>1. \A a, b, c : Tame(r, [Blank EXCEPT !.open = TRUE, !.st = "previewed",
                              !.src = a, !.prop = b, !.fp = c])
                     \/ r.st \notin Unborn
  BY DEF Blank
<1>2. \A v : Tame(r, [Blank EXCEPT !.pc = "pv_lock", !.kind = "calib", !.vid = v])
               \/ r.st \notin Unborn
  BY DEF Blank
<1>3. r.pc = "pv_lock" => Tame(r, [[r EXCEPT !.pc = "pv_read"] EXCEPT !.lease = TRUE])
  OBVIOUS
<1>4. r.pc = "pv_read" => Tame(r, Blank)
  BY DEF Blank
<1>5. r.pc = "pv_read" =>
        \A a, b, c : Tame(r, [r EXCEPT !.open = TRUE, !.st = "previewed",
                    !.pc = "pv_claim", !.src = a, !.prop = b, !.full = c])
  OBVIOUS
<1>6. r.pc = "pv_claim" =>
        Tame(r, [[r EXCEPT !.pc = "pv_release"] EXCEPT !.resv = TRUE])
  OBVIOUS
<1> HIDE DEF Live, Good, Placed, Tame, Shaped, Ota, Transaction, Awaited, Acked,
            Resumed, Unborn, Unwritten, Prepared, Restoring, Uploading, Early
<1> QED BY <1>1, <1>2, <1>3, <1>4, <1>5, <1>6, Zenon

\* A preview that ends with its reservation known.
LEMMA ClaimedTame ==
  ASSUME NEW r, Live(r), r.pc \in {"pv_claim", "pv_release"}
  PROVE  /\ Tame(r, [[r EXCEPT !.pc = "idle"] EXCEPT !.lease = FALSE, !.resv = TRUE])
         /\ Tame(r, [[r EXCEPT !.pc = "idle"] EXCEPT !.lease = FALSE])
<1> USE DEF Live, Good, Placed, Tame, Shaped, Ota, Transaction, Awaited, Acked,
            Resumed, Unborn, Unwritten, Prepared, Restoring, Uploading, Early
<1>1. Tame(r, [[r EXCEPT !.pc = "idle"] EXCEPT !.lease = FALSE, !.resv = TRUE])
  OBVIOUS
<1>2. Tame(r, [[r EXCEPT !.pc = "idle"] EXCEPT !.lease = FALSE])
  OBVIOUS
<1> HIDE DEF Live, Good, Placed, Tame, Shaped, Ota, Transaction, Awaited, Acked,
            Resumed, Unborn, Unwritten, Prepared, Restoring, Uploading, Early
<1> QED BY <1>1, <1>2

LEMMA PreviewTame ==
  ASSUME NEW t \in Txns, TypeOK, HInv, ObjectsShaped,
         \/ Preview(t) \/ PreviewGains(t) \/ PreviewGainsLock(t)
         \/ PreviewGainsRead(t) \/ PreviewGainsClaim(t) \/ PreviewGainsRelease(t)
  PROVE  BeTame(t)
<1>1. /\ tx[t] = Blank => tx[t].pc # "rv_get" /\ tx[t].st \in Unborn
      /\ tx[t].pc # "rv_get" => Live(tx[t])
  BY LiveAt DEF Blank, Unborn
<1>2. CASE Preview(t)
  BY <1>1, <1>2, OpeningTame, BecomeTame DEF Preview
<1>3. CASE PreviewGains(t)
  BY <1>1, <1>3, OpeningTame, BecomeTame DEF PreviewGains
<1>4. CASE PreviewGainsLock(t)
  BY <1>1, <1>4, OpeningTame, AcquireTame DEF PreviewGainsLock, At, Goto
<1>5. CASE PreviewGainsRead(t)
  BY <1>1, <1>5, OpeningTame, BecomeTame DEF PreviewGainsRead, At
<1>6. CASE PreviewGainsClaim(t)
  BY <1>1, <1>6, OpeningTame, ClaimedTame, FinishTame, BecomeTame
     DEF PreviewGainsClaim, At, Goto
<1>7. CASE PreviewGainsRelease(t)
  BY <1>1, <1>7, ClaimedTame, FinishTame, BecomeTame
     DEF PreviewGainsRelease, At, Goto
<1> QED BY <1>2, <1>3, <1>4, <1>5, <1>6, <1>7

\* The write begins, or its verification is checked first.
LEMMA WritingTame ==
  ASSUME NEW r, Live(r), r.pc \in {"cw_lock", "cw_revalidate"}
  PROVE  /\ Tame(r, BeginWrite(r))
         /\ Tame(r, [BeginWrite(r) EXCEPT !.lease = TRUE])
         /\ Tame(r, [[r EXCEPT !.pc = "cw_revalidate"] EXCEPT !.lease = TRUE])
<1>1. r.st = "previewed" /\ r.ota = "no" /\ ~r.restored
  BY DEF Live, Shaped, Good
<1>2. /\ Tame(r, [r EXCEPT !.pc = "cw_get", !.st = "write_confirmed", !.ws = TRUE])
      /\ Tame(r, [[r EXCEPT !.pc = "cw_get", !.st = "write_confirmed", !.ws = TRUE]
                    EXCEPT !.lease = TRUE])
  BY <1>1, StopTame DEF States, Unborn
<1> USE <1>1 DEF Live, Tame, Shaped, Ota, Transaction, Awaited, Acked, Resumed,
                 Unborn
<1>3. Tame(r, [r EXCEPT !.pc = "nm_check"])
  OBVIOUS
<1>4. Tame(r, [[r EXCEPT !.pc = "nm_check"] EXCEPT !.lease = TRUE])
  OBVIOUS
<1>5. Tame(r, [[r EXCEPT !.pc = "cw_revalidate"] EXCEPT !.lease = TRUE])
  OBVIOUS
<1> HIDE DEF Live, Tame, Shaped, Ota, Transaction, Awaited, Acked, Resumed,
             Unborn
<1>6. \/ BeginWrite(r) = [r EXCEPT !.pc = "nm_check"]
      \/ BeginWrite(r)
           = [r EXCEPT !.pc = "cw_get", !.st = "write_confirmed", !.ws = TRUE]
  BY Zenon DEF BeginWrite
<1>7. CASE BeginWrite(r) = [r EXCEPT !.pc = "nm_check"]
  BY <1>3, <1>4, <1>5, <1>7, Zenon
<1>8. CASE BeginWrite(r)
             = [r EXCEPT !.pc = "cw_get", !.st = "write_confirmed", !.ws = TRUE]
  BY <1>2, <1>5, <1>8, Zenon
<1> QED BY <1>6, <1>7, <1>8

\* A transaction that runs an operation on the meter, with its lease.
LEMMA Leased ==
  ASSUME NEW t \in Txns, TypeOK, HInv, ObjectsShaped,
         tx[t].pc \notin Unleased \cup {"rv_get"}
  PROVE  /\ Live(tx[t]) /\ tx[t].lease
         /\ tx[t].pc # "pv_read" => tx[t].st # "none"
         /\ tx[t].pc \in Prepared \cup Uploading \cup Resumed => tx[t].ws
         /\ tx[t].pc \in Unwritten \cup Prepared \cup Restoring => tx[t].ota = "no"
         /\ tx[t].pc \notin {"rs_release", "rs_clear"} => ~tx[t].restored
<1>1. Live(tx[t])
  BY LiveAt DEF Unleased
<1> QED BY <1>1 DEF Live, Good, Placed, Shaped, Unleased

LEMMA WriteTame ==
  ASSUME NEW t \in Txns, TypeOK, HInv, ObjectsShaped,
         \/ ConfirmWrite(t) \/ ConfirmWriteLock(t) \/ ConfirmWriteRevalidate(t)
         \/ ConfirmWriteRelease(t) \/ MetadataCheck(t) \/ WriteGet(t)
         \/ WriteUpdate(t) \/ WriteConflict(t) \/ Reconcile(t) \/ Validate(t)
  PROVE  BeTame(t)
<1> DEFINE r == tx[t]
<1>1. CASE ConfirmWrite(t)
  <2>1. Live(r) /\ r.st = "previewed" /\ ~r.restored
    BY <1>1, LiveAt, NotRestored DEF ConfirmWrite, Ready, At, Live
  <2> QED BY <1>1, <2>1, PreviewedTame, BecomeTame DEF ConfirmWrite, Goto
<1>2. CASE ConfirmWriteLock(t)
  <2>1. Live(r) /\ r.pc = "cw_lock"
    BY <1>2, LiveAt DEF ConfirmWriteLock, At
  <2>2. Acquire(t, BeginWrite(r)) \/ Acquire(t, Goto(t, "cw_revalidate"))
    BY <1>2 DEF ConfirmWriteLock
  <2> QED BY <2>1, <2>2, WritingTame, AcquireTame DEF Goto
<1>3. CASE ConfirmWriteRevalidate(t)
  <2>1. Live(r) /\ r.pc = "cw_revalidate"
    BY <1>3, LiveAt DEF ConfirmWriteRevalidate, At
  <2>2. Tame(r, Goto(t, "cw_release"))
    <3>1. r.st = "previewed" /\ ~r.restored
      BY <2>1 DEF Live, Shaped
    <3> QED BY <2>1, <3>1, PreviewedTame DEF Goto
  <2> QED BY <1>3, <2>1, <2>2, WritingTame, FinishTame, BecomeTame
             DEF ConfirmWriteRevalidate
<1>4. CASE ConfirmWriteRelease(t)
  <2>1. Live(r) /\ r.pc = "cw_release"
    BY <1>4, LiveAt DEF ConfirmWriteRelease, At
  <2>2. r.st = "previewed" /\ ~r.restored
    BY <2>1 DEF Live, Shaped
  <2>3. Tame(r, Goto(t, "idle"))
    BY <2>1, <2>2, PreviewedTame DEF Goto
  <2> QED BY <1>4, <2>3, FinishTame, BecomeTame DEF ConfirmWriteRelease
<1>5. CASE MetadataCheck(t)
  <2>1. Live(r) /\ r.pc = "nm_check" /\ r.lease
    BY <1>5, Leased DEF MetadataCheck, CheckSource, At, Unleased
  <2>2. r.st = "previewed" /\ ~r.restored
    BY <2>1 DEF Live, Shaped
  <2>3. Tame(r, Goto(t, "nm_save"))
    BY <2>1, <2>2, PreviewedTame DEF Goto
  <2> QED BY <1>5, <2>1, <2>3, RecoveryTame, CheckSourceTame DEF MetadataCheck
<1>6. CASE WriteGet(t) \/ WriteUpdate(t) \/ Reconcile(t) \/ Validate(t)
  <2>1. r.pc \in {"cw_get", "cw_update", "cw_reconcile", "cw_validate"}
    BY <1>6 DEF WriteGet, WriteUpdate, Reconcile, Validate, At
  <2>2. Live(r) /\ r.lease /\ ~r.restored /\ r.ota = "no" /\ r.st # "none"
    BY <2>1, Leased DEF Unleased, Prepared
  <2>3. \A p \in {"cw_update", "cw_reconcile"} : Tame(r, Goto(t, p))
    BY <2>2, GotoTame DEF Goto, Awaits, Awaited, Acked, Resumed
  <2>4. /\ Tame(r, [Goto(t, "cw_conflict") EXCEPT !.ws = FALSE])
        /\ Tame(r, [Goto(t, "cw_validate") EXCEPT !.st = "written"])
        /\ Tame(r, [Goto(t, "idle") EXCEPT !.st = "validated", !.due = FALSE])
    <3>1. \A s \in {"written", "validated"} :
            s \in States \ (Unborn \cup {"verified", "rolled_back"})
      BY DEF States, Unborn
    <3> QED BY <2>2, <3>1, StopTame DEF Goto
  <2>5. Tame(r, StartRollback(r)) /\ Tame(r, RetainWriteRecovery(r))
    BY <2>1, <2>2, StartTame, RecoveryTame
  <2>6. CASE WriteGet(t)
    BY <2>3, <2>4, <2>6, FinishTame, BecomeTame DEF WriteGet
  <2>7. CASE WriteUpdate(t)
    BY <2>3, <2>4, <2>7, BecomeTame DEF WriteUpdate
  <2>8. CASE Reconcile(t)
    BY <2>5, <2>8, FinishTame, BecomeTame DEF Reconcile
  <2>9. CASE Validate(t)
    BY <2>4, <2>5, <2>9, BecomeTame DEF Validate
  <2> QED BY <1>6, <2>6, <2>7, <2>8, <2>9
<1>7. CASE WriteConflict(t)
  <2>1. Live(r) /\ r.pc = "cw_conflict" /\ ~r.restored
    BY <1>7, Leased DEF WriteConflict, At, Unleased
  <2>2. Tame(r, Goto(t, "idle"))
    BY <2>1, GotoTame DEF Goto, Awaits, Awaited, Acked, Resumed
  <2> QED BY <1>7, <2>2, FinishTame, BecomeTame DEF WriteConflict
<1> QED BY <1>1, <1>2, <1>3, <1>4, <1>5, <1>6, <1>7

LEMMA RollbackTame ==
  ASSUME NEW t \in Txns, TypeOK, HInv, ObjectsShaped,
         \/ Rollback(t) \/ RestoreGet(t) \/ RestoreAgain(t) \/ RestoreUpdate(t)
         \/ RollbackClear(t)
  PROVE  BeTame(t)
<1> DEFINE r == tx[t]
<1>1. CASE Rollback(t)
  <2>1. r.open /\ r.rb /\ r.pc = "idle"
    BY <1>1 DEF Rollback, Ready, At
  <2>2. Live(r) /\ r.ota = "no" /\ r.st # "none"
    BY <2>1, LiveAt DEF Live, Good
  <2> QED BY <1>1, <2>1, <2>2, StartTame, BecomeTame DEF Rollback
<1>2. CASE RestoreGet(t) \/ RestoreAgain(t) \/ RestoreUpdate(t)
  <2>1. r.pc \in {"rs_get", "rs_again", "rs_update"}
    BY <1>2 DEF RestoreGet, RestoreAgain, RestoreUpdate, At
  <2>2. Live(r) /\ r.lease /\ ~r.restored /\ r.st # "none"
    BY <2>1, Leased DEF Unleased
  <2>3. \A p \in {"rs_again", "rs_update", "rs_verify"} : Tame(r, Goto(t, p))
    BY <2>2, GotoTame DEF Goto, Awaits, Awaited, Acked, Resumed
  <2>4. Tame(r, RetainWriteRecovery(r))
    BY <2>1, <2>2, RecoveryTame
  <2> QED BY <1>2, <2>3, <2>4, BecomeTame DEF RestoreGet, RestoreAgain, RestoreUpdate
<1>3. CASE RollbackClear(t)
  <2>1. Live(r) /\ r.pc = "rs_clear" /\ r.lease
    BY <1>3, Leased DEF RollbackClear, At, Unleased
  <2>2. r.restored /\ ~r.resv
    BY <2>1 DEF Live, Shaped
  <2>3. Tame(r, Finish("rolled_back"))
    BY <2>1, <2>2
       DEF Tame, Shaped, Ota, Finish, Blank, Awaited, Acked, Resumed, Unborn
  <2>4. Tame(r, RetainWriteRecovery(r))
    BY <2>1, RecoveryTame
  <2> QED BY <1>3, <2>3, <2>4, BecomeTame DEF RollbackClear
<1> QED BY <1>1, <1>2, <1>3

LEMMA CompileTame ==
  ASSUME NEW t \in Txns, TypeOK, HInv, ObjectsShaped,
         Compile(t) \/ CompileCheck(t) \/ CompileJob(t) \/ CompileCheck2(t)
  PROVE  BeTame(t)
<1> DEFINE r == tx[t]
<1>1. CASE Compile(t)
  <2>1. Live(r) /\ ~r.restored
    BY <1>1, LiveAt, NotRestored DEF Compile, Ready, At, Live
  <2>2. Tame(r, Goto(t, "cp_check"))
    BY <2>1, GotoTame DEF Goto, Awaits, Awaited, Acked, Resumed
  <2> QED BY <1>1, <2>2, BecomeTame DEF Compile
<1>2. CASE CompileCheck(t) \/ CompileJob(t) \/ CompileCheck2(t)
  <2>1. r.pc \in {"cp_check", "cp_job", "cp_check2"}
    BY <1>2 DEF CompileCheck, CompileJob, CompileCheck2, CheckSource, At
  <2>2. Live(r) /\ r.lease /\ ~r.restored /\ r.ota = "no" /\ r.st # "none"
    BY <2>1, Leased DEF Unleased, Prepared
  <2>3. \A p \in {"cp_job", "cp_check2"} : Tame(r, Goto(t, p))
    BY <2>2, GotoTame DEF Goto, Awaits, Awaited, Acked, Resumed
  <2>4. /\ Tame(r, [Goto(t, "idle") EXCEPT !.st = "failed", !.rb = TRUE])
        /\ Tame(r, [Goto(t, "idle") EXCEPT
                      !.st = "install_confirmation_required", !.due = FALSE])
    BY <2>2, StopTame DEF Goto, States, Unborn
  <2>5. Tame(r, StartRollback(r)) /\ Tame(r, SourceLost(r))
    BY <2>1, <2>2, StartTame, RecoveryTame
  <2>6. CASE CompileCheck(t)
    BY <2>3, <2>5, <2>6, CheckSourceTame DEF CompileCheck
  <2>7. CASE CompileJob(t)
    BY <2>3, <2>4, <2>5, <2>7, BecomeTame DEF CompileJob
  <2>8. CASE CompileCheck2(t)
    BY <2>4, <2>5, <2>8, CheckSourceTame DEF CompileCheck2
  <2> QED BY <1>2, <2>6, <2>7, <2>8
<1> QED BY <1>1, <1>2

\* The steps of an install that are ordinary for its transaction.
LEMMA InstallTame ==
  ASSUME NEW t \in Txns, TypeOK, HInv, ObjectsShaped,
         \/ ConfirmInstall(t) \/ AdoptSource(t) \/ InstallUndo(t)
  PROVE  BeTame(t)
<1> DEFINE r == tx[t]
<1>1. CASE ConfirmInstall(t)
  <2>1. Live(r) /\ ~r.restored
    BY <1>1, LiveAt, NotRestored DEF ConfirmInstall, Ready, At, Live
  <2>2. Tame(r, Goto(t, "ci_revoke"))
    BY <2>1, GotoTame DEF Goto, Awaits, Awaited, Acked, Resumed
  <2>3. r.ota # "no" => \A p \in {"ci_adopt", "ci_retry"} : Tame(r, Goto(t, p))
    BY <2>1, ResumedTame DEF Goto, Resumed
  <2>4. \/ Become(t, Goto(t, "ci_revoke"))
        \/ r.ota # "no" /\ \E p \in {"ci_adopt", "ci_retry"} : Become(t, Goto(t, p))
    <3>1. Become(t, Goto(t, CASE r.ota = "no" -> "ci_revoke"
                              [] r.ota # "no" /\ r.rec -> "ci_adopt"
                              [] OTHER -> "ci_retry"))
      BY <1>1 DEF ConfirmInstall
    <3>2. CASE r.ota = "no"
      BY <3>1, <3>2
    <3>3. CASE r.ota # "no" /\ r.rec
      BY <3>1, <3>3
    <3>4. CASE r.ota # "no" /\ ~r.rec
      BY <3>1, <3>4
    <3> QED BY <3>2, <3>3, <3>4
  <2> QED BY <2>2, <2>3, <2>4, BecomeTame
<1>2. CASE AdoptSource(t)
  <2>1. r.pc = "ci_adopt"
    BY <1>2 DEF AdoptSource, At
  <2>2. Live(r) /\ r.lease /\ ~r.restored /\ r.ws
    BY <2>1, Leased DEF Unleased, Resumed
  <2>3. r.ota # "no"
    BY <2>1, <2>2 DEF Live, Shaped, Resumed
  <2>4. Tame(r, Goto(t, "ci_retry")) /\ Tame(r, Goto(t, "idle"))
    <3>1. Tame(r, Goto(t, "idle"))
      BY <2>2, GotoTame DEF Goto, Awaits, Awaited, Acked, Resumed
    <3> QED BY <2>2, <2>3, <3>1, ResumedTame DEF Goto, Resumed
  <2>5. Tame(r, RetainInstallRetry(r))
    BY <2>2, RetryTame
  <2> QED BY <1>2, <2>4, <2>5, BecomeTame DEF AdoptSource
<1>3. CASE InstallUndo(t)
  <2>1. Live(r) /\ ~r.restored
    BY <1>3, Leased DEF InstallUndo, At, Unleased
  <2>2. Tame(r, Goto(t, "idle"))
    BY <2>1, GotoTame DEF Goto, Awaits, Awaited, Acked, Resumed
  <2> QED BY <1>3, <2>2, FinishTame, BecomeTame DEF InstallUndo
<1> QED BY <1>1, <1>2, <1>3

\* Forgetting the commit in progress.
LEMMA UncommittedTame ==
  ASSUME NEW r, Live(r), r.ws, r.lease
  PROVE  /\ Tame(r, RetainInstallRetry([r EXCEPT !.pcs = FALSE]))
         /\ Tame(r, RetainUnpersisted([r EXCEPT !.pcs = FALSE]))
<1> DEFINE w == [r EXCEPT !.pcs = FALSE]
<1>1. w \in Transaction /\ w.ws /\ w.lease /\ Good(w) /\ Shaped(w) /\ w.pc # "rv_get"
  <2>1. w \in Transaction
    BY FlagUpdates DEF Live, Extends
  <2>2. /\ w.ws = r.ws /\ w.lease = r.lease /\ w.pc = r.pc /\ w.ota = r.ota
        /\ w.st = r.st /\ w.rb = r.rb /\ w.rec = r.rec /\ w.open = r.open
        /\ w.vid = r.vid /\ w.kind = r.kind /\ w.restored = r.restored
        /\ w.resv = r.resv
    BY DEF Live, Transaction
  <2> HIDE DEF w
  <2> QED BY <2>1, <2>2 DEF Live, Good, Placed, Shaped
<1>2. Tame(w, RetainInstallRetry(w)) /\ Tame(w, RetainUnpersisted(w))
  <2> HIDE DEF w
  <2> QED BY <1>1, RetryTame DEF Live
<1>3. \A u : Tame(w, u) => Tame(r, u)
  BY DEF Live, Tame, Ota, Transaction
<1> QED BY <1>2, <1>3

LEMMA OtaTame ==
  ASSUME NEW t \in Txns, TypeOK, HInv, ObjectsShaped,
         \/ UploadSave(t) \/ TerminalFailure(t) \/ VerifyReconnect(t)
         \/ PersistCheck(t)
  PROVE  BeTame(t)
<1> DEFINE r == tx[t]
<1>1. r.pc \in {"up_save", "tf_clear", "vf_verify", "ps_check"}
  BY DEF UploadSave, TerminalFailure, VerifyReconnect, PersistCheck, CheckSource, At
<1>2. Live(r) /\ r.lease /\ r.ws /\ ~r.restored
  BY <1>1, Leased DEF Unleased, Uploading
<1>3. r.pc # "tf_clear" => r.ota = "uploaded"
  BY <1>1, <1>2 DEF Live, Shaped, Acked
<1>4. /\ Tame(r, RetainInstallRetry(r)) /\ Tame(r, RetainUnpersisted(r))
      /\ Tame(r, RetainInstallRetry([r EXCEPT !.pcs = FALSE]))
      /\ Tame(r, RetainUnpersisted([r EXCEPT !.pcs = FALSE]))
  BY <1>2, RetryTame, UncommittedTame
<1>5. CASE UploadSave(t)
  <2>1. Tame(r, BeginVerify([r EXCEPT !.pcs = FALSE]))
    BY <1>2, <1>3, <1>5, AckedTame DEF UploadSave, At
  <2> QED BY <1>4, <1>5, <2>1, BecomeTame DEF UploadSave
<1>6. CASE TerminalFailure(t)
  BY <1>4, <1>6, FinishTame, BecomeTame DEF TerminalFailure
<1>7. CASE VerifyReconnect(t)
  <2>1. Tame(r, [Goto(t, "ps_check") EXCEPT !.pcs = TRUE])
    BY <1>2, <1>3, <1>7, AckedTame DEF VerifyReconnect, At, Goto
  <2>2. Tame(r, Goto(t, "tf_clear"))
    BY <1>2, GotoTame DEF Goto, Awaits, Awaited, Acked, Resumed
  <2> QED BY <1>4, <1>7, <2>1, <2>2, BecomeTame DEF VerifyReconnect
<1>8. CASE PersistCheck(t)
  <2>1. Tame(r, Goto(t, "ps_save"))
    BY <1>2, <1>3, <1>8, AckedTame DEF PersistCheck, CheckSource, At, Goto
  <2> QED BY <1>4, <1>8, <2>1, CheckSourceTame DEF PersistCheck
<1> QED BY <1>5, <1>6, <1>7, <1>8

LEMMA AbandonTame ==
  ASSUME NEW t \in Txns, TypeOK, HInv, ObjectsShaped,
         Abandon(t) \/ AbandonCheck(t) \/ AbandonClear(t)
  PROVE  BeTame(t)
<1> DEFINE r == tx[t]
<1>1. CASE Abandon(t)
  <2>1. Live(r) /\ r.pc = "idle"
    BY <1>1, LiveAt DEF Abandon, Ready, At
  <2>2. r.st = "previewed" => ~r.restored /\ Tame(r, Goto(t, "ab_release"))
    <3>1. r.st = "previewed" => ~r.restored
      BY <2>1 DEF Live, Shaped
    <3> QED BY <2>1, <3>1, PreviewedTame DEF Goto
  <2>3. r.st = "install_confirmation_required" /\ r.ota # "no" =>
          \A p \in {"ab_check", "ab_clear"} : Tame(r, Goto(t, p))
    <3>1. r.st = "install_confirmation_required" => ~r.restored
      BY <2>1 DEF Live, Shaped
    <3> QED BY <2>1, <3>1, ResumedTame DEF Goto, Resumed
  <2>4. \/ r.st = "previewed" /\ Become(t, Goto(t, "ab_release"))
        \/ Become(t, Finish("failed"))
        \/ /\ r.st = "install_confirmation_required" /\ r.ota # "no"
           /\ \E p \in {"ab_check", "ab_clear"} : Become(t, Goto(t, p))
    BY <1>1 DEF Abandon
  <2> QED BY <2>2, <2>3, <2>4, FinishTame, BecomeTame
<1>2. CASE AbandonCheck(t) \/ AbandonClear(t)
  <2>1. r.pc \in {"ab_check", "ab_clear"}
    BY <1>2 DEF AbandonCheck, AbandonClear, CheckSource, At
  <2>2. Live(r) /\ r.lease /\ ~r.restored
    BY <2>1, Leased DEF Unleased
  <2>3. r.ota # "no"
    BY <2>1, <2>2 DEF Live, Shaped, Resumed
  <2>4. Tame(r, Goto(t, "ab_clear"))
    BY <2>2, <2>3, ResumedTame DEF Goto, Resumed
  <2>5. Tame(r, Goto(t, "idle"))
    BY <2>2, GotoTame DEF Goto, Awaits, Awaited, Acked, Resumed
  <2>6. Tame(r, SourceLost(r))
    BY <2>1, <2>2, RecoveryTame
  <2>7. CASE AbandonCheck(t)
    BY <2>4, <2>6, <2>7, CheckSourceTame DEF AbandonCheck
  <2>8. CASE AbandonClear(t)
    BY <2>5, <2>8, FinishTame, BecomeTame DEF AbandonClear
  <2> QED BY <1>2, <2>7, <2>8
<1> QED BY <1>1, <1>2

\* A recovery that starts: it knows of an OTA and holds no lease yet.
LEMMA RecoverTame ==
  ASSUME NEW r, NEW c
  PROVE  Tame(r, [Restored(c) EXCEPT !.pc = "rv_lock"])
<1> DEFINE ota == IF c.uploaded THEN "uploaded" ELSE "attempted"
           u == [Restored(c) EXCEPT !.pc = "rv_lock"]
<1>1. ota # "no"
  OBVIOUS
<1>2. Restored(c) = [Blank EXCEPT
                       !.kind = c.kind, !.full = c.full, !.vid = c.vid,
                       !.src = c.src, !.prop = c.prop, !.fp = c.fp,
                       !.st = "install_confirmation_required", !.ws = TRUE,
                       !.ck = TRUE, !.rec = TRUE, !.ota = ota]
  BY Zenon DEF Restored
<1> HIDE DEF ota
<1>3. /\ u.pc = "rv_lock" /\ u.rec /\ ~u.lease /\ ~u.restored /\ u.ota = ota
      /\ u.st = "install_confirmation_required"
  BY <1>2 DEF Blank
<1> HIDE DEF u
<1>4. Tame(r, u)
  BY <1>1, <1>3 DEF Tame, Shaped, Ota, Awaited, Acked, Resumed, Unborn
<1> QED BY <1>4 DEF u

LEMMA DeadlineTame ==
  ASSUME NEW t \in Txns, TypeOK, HInv, ObjectsShaped,
         \/ Due(t) \/ Expire(t) \/ ExpireRelease(t)
         \/ Recover(t) \/ RecoverLock(t)
  PROVE  BeTame(t)
<1> DEFINE r == tx[t]
<1>1. CASE Due(t)
  <2>1. Live(r) /\ r.pc = "idle"
    BY <1>1, LiveAt DEF Due, At
  <2>2. Tame(r, [r EXCEPT !.due = TRUE])
    BY <2>1
       DEF Live, Tame, Shaped, Ota, Transaction, Awaited, Acked, Resumed, Unborn
  <2> QED BY <1>1, <2>2, BecomeTame DEF Due
<1>2. CASE Expire(t)
  <2> DEFINE w == [r EXCEPT !.st = "failed", !.due = FALSE, !.xstart = TRUE]
             x == [Goto(t, "xr_release") EXCEPT
                     !.st = "failed", !.lease = FALSE, !.xstart = TRUE]
  <2>1. Live(r) /\ r.pc = "idle" /\ r.open
    BY <1>2, LiveAt DEF Expire, At
  <2>2. Tame(r, x)
    BY <2>1 DEF Goto, Live, Tame, Shaped, Ota, Transaction, Awaited, Acked,
                Resumed, Unborn
  <2>3. ASSUME r.ws, r.ota = "no"
        PROVE  Tame(r, StartRollback(w))
    <3>1. Busy(w) /\ w.ota = "no" /\ w.st # "none"
      BY <2>1, <2>3, DeadlineUpdates DEF Live
    <3>2. /\ w.pc = "idle" /\ w.st = "failed" /\ ~w.restored /\ w.ws
          /\ \A f \in {"vid", "rec", "resv", "restored", "src", "pc", "ota", "prop",
                       "lease"} : w[f] = r[f]
      BY <2>1, <2>3 DEF Live, Shaped, Transaction
    <3> HIDE DEF w
    <3>3. Live(w)
      BY <3>1, <3>2 DEF Live, Busy, Shaped, Acked, Resumed
    <3>4. Tame(w, StartRollback(w))
      BY <3>1, <3>2, <3>3, StartTame
    <3>5. \A u : Tame(w, u) => Tame(r, u)
      BY <3>2 DEF Tame, Ota, Unborn
    <3> QED BY <3>4, <3>5
  <2>4. \/ r.ws /\ r.ota = "no" /\ Become(t, StartRollback(w))
        \/ Become(t, x)
        \/ Become(t, Finish("failed"))
    BY <1>2, Zenon DEF Expire
  <2> HIDE DEF w, x
  <2> QED BY <2>2, <2>3, <2>4, FinishTame, BecomeTame
<1>3. CASE ExpireRelease(t)
  BY <1>3, FinishTame, BecomeTame DEF ExpireRelease
<1>4. CASE Recover(t)
  BY <1>4, RecoverTame, BecomeTame DEF Recover
<1>5. CASE RecoverLock(t)
  <2>1. Live(r) /\ r.pc = "rv_lock"
    BY <1>5, LiveAt DEF RecoverLock, At
  <2>2. Tame(r, [Goto(t, "rv_get") EXCEPT !.lease = TRUE])
    BY <2>1 DEF Goto, Live, Tame, Shaped, Ota, Transaction, Awaited, Acked,
                Resumed, Unborn
  <2> QED BY <1>5, <2>2, FinishTame, BecomeTame, AcquireTame DEF RecoverLock
<1> QED BY <1>1, <1>2, <1>3, <1>4, <1>5

-----------------------------------------------------------------------------
(* What a step of transaction t makes of it, in terms of the shared state. *)

\* t is on record as verified and its checkpoint is gone.
Recorded(t) ==
  /\ store'.meter # None /\ store'.meter.hash = tx[t].prop
  /\ store'.ck # None => store'.ck.txn # t

\* Why an object whose OTA was attempted has the lease.
OtaFrom(t, u) ==
  LET r == tx[t] IN
  \/ Ota(r) /\ u.ota = r.ota
  \/ r.pc = "ci_check2" /\ u.ota = "attempted"
  \/ r.pc = "up_job" /\ u.ota = "uploaded" /\ (UploadRebuilds => fw' = builder)
  \/ u.open /\ store.ck = Checkpoint(t, u) /\ UNCHANGED <<store, fw>>

TracksInstall(t, u) ==
  LET r == tx[t] IN
  /\ Ota(u) => u.prop = r.prop /\ OtaFrom(t, u)
  /\ u.pc = "ci_check2" =>
       store'.ck = Checkpoint(t, r) /\ u.prop = r.prop /\ r.ota = "no"
  /\ u.pc = "ci_check" => ~Installed(store'.meter)
  /\ u.pc \in {"ci_save", "ci_check2"} => r.pc \in {"ci_check", "ci_save"}
  /\ u.pc = "up_job" => builder = u.prop
  /\ u.pc = "ps_clear" => store'.meter # None /\ store'.meter.hash = u.prop

TracksRollback(t, u) ==
  LET r == tx[t] IN
  /\ u.restored /\ u.pc # "xr_release" => Back(u)
  /\ u.vid # None /\ ~u.rec /\ ~u.resv =>
       \/ u.st = "none"
       \/ u.vid = r.vid /\ ~r.rec /\ ~r.resv
       \/ ~IsReserved(store'.meter, u.vid, t)
  /\ u.st = "verified" => r.st = "verified" \/ Recorded(t)
  /\ u.st = "rolled_back" =>
       r.st = "rolled_back" \/ (Back(r) /\ ~IsReserved(store'.meter, r.vid, t))

Tracks(t, u) ==
  /\ tx' = [tx EXCEPT ![t] = u]
  /\ Shaped(u)
  /\ u.st \in Unborn => tx[t].st \in Unborn
  /\ TracksInstall(t, u) /\ TracksRollback(t, u)

\* A transaction without a known reservation has none.
LEMMA NotReserved ==
  ASSUME NEW t \in Txns, TypeOK, JInv, ~tx[t].rec, ~tx[t].resv
  PROVE  ~IsReserved(store.meter, tx[t].vid, t)
<1>1. CASE tx[t].vid # None
  BY <1>1 DEF JInv, ReservationIsKnown
<1>2. CASE tx[t].vid = None
  <2>1. Entry(store.meter).calib # None => store.meter.calib \in Calibrations
    BY CalibType
  <2> QED BY <1>2, <2>1, NoneIsFresh DEF IsReserved, Identifies, Calibrations
<1> QED BY <1>1, <1>2

LEMMA TameTracks ==
  ASSUME NEW t \in Txns, TypeOK, HInv, JInv, NEW u, Tame(tx[t], u),
         tx' = [tx EXCEPT ![t] = u],
         u.st = "rolled_back" =>
           \A v : IsReserved(store'.meter, v, t) => IsReserved(store.meter, v, t)
  PROVE  Tracks(t, u)
<1> DEFINE r == tx[t]
<1>1. Shaped(r) /\ Good(r)
  BY DEF JInv, ObjectsShaped, HInv
<1>2. r.restored => ~r.rec
  BY <1>1 DEF Shaped, Good
<1>3. r.restored /\ r.pc # "xr_release" => Back(r)
  BY DEF JInv, RestoredStays
<1>4. r.restored /\ ~r.resv => ~IsReserved(store.meter, r.vid, t)
  BY <1>2, NotReserved
<1>5. TracksInstall(t, u)
  BY DEF Tame, TracksInstall, OtaFrom, Awaited
<1>6. TracksRollback(t, u)
  BY <1>3, <1>4 DEF Tame, TracksRollback, Back
<1> QED BY <1>5, <1>6 DEF Tame, Tracks

\* The outcomes of a save.
LEMMA MeterSaved ==
  ASSUME TypeOK, NEW m, NEW ok \in BOOLEAN, SaveMeter(m, ok)
  PROVE  /\ store'.ck = store.ck
         /\ store'.meter = store.meter \/ store'.meter = m
         /\ ok => store'.meter = m
<1>1. [store EXCEPT !.meter = m].meter = m /\ [store EXCEPT !.meter = m].ck = store.ck
  BY DEF TypeOK, Stores
<1> QED BY <1>1 DEF SaveMeter, Save

LEMMA CheckpointSaved ==
  ASSUME TypeOK, NEW t, NEW ok \in BOOLEAN, SaveCheckpoint(t, ok)
  PROVE  /\ store'.meter = store.meter
         /\ store'.ck = store.ck \/ store'.ck = Checkpoint(t, tx[t])
         /\ ok => store'.ck = Checkpoint(t, tx[t])
<1>1. \A c : [store EXCEPT !.ck = c].ck = c /\ [store EXCEPT !.ck = c].meter = store.meter
  BY DEF TypeOK, Stores
<1> HIDE DEF Checkpoint
<1> QED BY <1>1 DEF SaveCheckpoint, Save

LEMMA CheckpointCleared ==
  ASSUME TypeOK, NEW t, NEW ok \in BOOLEAN, ClearCheckpoint(t, ok)
  PROVE  /\ store'.meter = store.meter
         /\ store'.ck = store.ck \/ store'.ck = None
         /\ ok => store'.ck = None
         /\ ~ok /\ "unacked" \notin Faults => store'.ck = store.ck
<1>1. \A c : [store EXCEPT !.ck = c].ck = c /\ [store EXCEPT !.ck = c].meter = store.meter
  BY DEF TypeOK, Stores
<1> QED BY <1>1 DEF ClearCheckpoint, Save, Fault

\* A release takes the claim away, and nothing else.
LEMMA ReleaseTakes ==
  ASSUME NEW m \in Meters \cup {None}, NEW v, NEW t
  PROVE  /\ ~IsReserved(Release(m, v, t), v, t)
         /\ \A w, x : IsReserved(Release(m, v, t), w, x) => IsReserved(m, w, x)
         /\ m # None => Release(m, v, t) # None /\ Release(m, v, t).hash = m.hash
         /\ Installed(Release(m, v, t)) => Installed(m)
<1> DEFINE n == Release(m, v, t)
<1>1. CASE ~CanRelease(m, v, t)
  <2>1. n = m
    BY <1>1 DEF Release
  <2> QED BY <1>1, <2>1 DEF CanRelease, IsReserved
<1>2. CASE CanRelease(m, v, t)
  <2> DEFINE b == ~m.calib.offsets
             c == [m.calib EXCEPT !.avail = b, !.owner = None, !.inst = FALSE]
  <2>1. m \in Meters /\ m.calib \in Calibrations
    BY <1>2, IdentifiedType DEF CanRelease
  <2>2. n = [m EXCEPT !.calib.avail = b, !.calib.owner = None, !.calib.inst = FALSE]
    BY <1>2, Zenon DEF Release
  <2>3. n = [m EXCEPT !.calib = c]
    BY <2>1, <2>2 DEF Meters, Calibrations
  <2>4. /\ c.avail = b /\ c.owner = None /\ c.inst = FALSE
        /\ c.vid = m.calib.vid /\ c.offsets = m.calib.offsets
    BY <2>1 DEF Calibrations
  <2> HIDE DEF c
  <2>5. n.calib = c /\ n.hash = m.hash /\ n # None
    <3>1. n \in Meters \cup {None} /\ n.calib = c /\ n.hash = m.hash
      BY <2>1, <2>3, ReleaseType DEF Meters
    <3>2. n # None
      <4>1. CASE c \in Calibrations
        <5>1. [m EXCEPT !.calib = c] \in Meters
          BY <2>1, <4>1, CalibrationUpdate
        <5> QED BY <2>3, <5>1, NoneIsNoRecord
      <4>2. c \in Calibrations
        <5>1. b \in BOOLEAN
          OBVIOUS
        <5> HIDE DEF b
        <5>2. \A d \in Calibrations :
                [d EXCEPT !.avail = b, !.owner = None, !.inst = FALSE] \in Calibrations
          BY <5>1, Zenon DEF Calibrations
        <5> QED BY <2>1, <5>2 DEF c
      <4> QED BY <4>1, <4>2
    <3> QED BY <3>1, <3>2
  <2> HIDE DEF n
  <2>6. Entry(n) = n /\ Entry(m) = m
    BY <2>1, <2>5, NoneIsNoRecord DEF Entry
  <2>7. ~IsReserved(n, v, t) /\ \A w, x : ~IsReserved(n, w, x)
    BY <2>4, <2>5, <2>6 DEF IsReserved
  <2>8. ~Installed(n)
    BY <2>4, <2>5 DEF Installed
  <2> QED BY <2>5, <2>7, <2>8 DEF n
<1> QED BY <1>1, <1>2

-----------------------------------------------------------------------------
(* The steps that are not ordinary.                                        *)

Tracked(t) == \E u : Tracks(t, u)

LEMMA BecomeTracked ==
  ASSUME NEW t \in Txns, NEW u, Become(t, u), tx' = [tx EXCEPT ![t] = u] => Tracks(t, u)
  PROVE  Tracked(t)
BY DEF Become, Tracked

\* Outcomes of a step that is ordinary but for one of them.
LEMMA BecomeTameTracked ==
  ASSUME NEW t \in Txns, TypeOK, HInv, JInv, NEW u, Become(t, u), Tame(tx[t], u),
         u.st # "rolled_back"
  PROVE  Tracked(t)
BY TameTracks DEF Become, Tracked

LEMMA TameTracked ==
  ASSUME NEW t \in Txns, TypeOK, HInv, JInv, BeTame(t),
         \A v : IsReserved(store'.meter, v, t) => IsReserved(store.meter, v, t)
  PROVE  Tracked(t)
BY TameTracks DEF BeTame, Tracked

\* An object that is over, with nothing left to say of it.
LEMMA FinishTracks ==
  ASSUME NEW t \in Txns, NEW s \in {"failed", "lost", "verified", "rolled_back"},
         tx' = [tx EXCEPT ![t] = Finish(s)],
         s = "verified" => Recorded(t),
         s = "rolled_back" =>
           Back(tx[t]) /\ ~IsReserved(store'.meter, tx[t].vid, t)
  PROVE  Tracks(t, Finish(s))
<1> DEFINE u == Finish(s)
<1>1. /\ u.st = s /\ u.pc = "idle" /\ ~u.lease /\ ~u.restored /\ u.vid = None
      /\ ~u.rec /\ u.ota = "no" /\ ~u.ws
  BY DEF Finish, Blank
<1> HIDE DEF u
<1>2. Shaped(u) /\ ~Ota(u)
  BY <1>1 DEF Shaped, Ota, Acked, Resumed
<1>3. TracksInstall(t, u) /\ TracksRollback(t, u)
  BY <1>1, <1>2 DEF TracksInstall, TracksRollback
<1> QED BY <1>1, <1>2, <1>3 DEF Tracks, Unborn, u

LEMMA FinishTracked ==
  ASSUME NEW t \in Txns, NEW s \in {"failed", "lost", "verified", "rolled_back"},
         Become(t, Finish(s)),
         s = "verified" => Recorded(t),
         s = "rolled_back" =>
           Back(tx[t]) /\ ~IsReserved(store'.meter, tx[t].vid, t)
  PROVE  Tracked(t)
BY FinishTracks DEF Become, Tracked

LEMMA MetadataTracked ==
  ASSUME NEW t \in Txns, TypeOK, Planned, HInv, JInv, MetadataSave(t)
  PROVE  Tracked(t)
<1> DEFINE r == tx[t]
           m == SaveConfiguration(store.meter, t, r.prop)
<1>1. r.pc = "nm_save"
  BY DEF MetadataSave, At
<1>2. r.st = "previewed" /\ r.prop \in Contents
  BY <1>1 DEF JInv, ObjectsShaped, Shaped, Planned, Working, HasPlan
<1>3. \/ Become(t, Finish("failed"))
      \/ SaveMeter(m, TRUE) /\ Become(t, Finish("verified"))
  BY Zenon DEF MetadataSave
<1>4. ASSUME SaveMeter(m, TRUE)
      PROVE  Recorded(t)
  <2>1. store'.meter = m /\ store'.ck = store.ck
    BY <1>4, MeterSaved
  <2>2. m # None /\ m.hash = r.prop
    <3>1. store.meter \in Meters \cup {None}
      BY DEF TypeOK, Stores
    <3>2. m \in Meters
      BY <1>2, <3>1, SaveConfigurationType
    <3>3. m.hash = r.prop
      BY <3>1, EntryType DEF SaveConfiguration, Meters
    <3> QED BY <3>2, <3>3, NoneIsNoRecord
  <2>3. store.ck # None => store.ck.txn # t
    BY <1>2 DEF JInv, CheckpointIsConfirmed, Unborn
  <2> QED BY <2>1, <2>2, <2>3 DEF Recorded
<1> QED BY <1>3, <1>4, FinishTracked

LEMMA PersistClearTracked ==
  ASSUME NEW t \in Txns, TypeOK, HInv, JInv, PersistClear(t)
  PROVE  Tracked(t)
<1> DEFINE r == tx[t]
<1>1. r.pc = "ps_clear"
  BY DEF PersistClear, At
<1>2. Live(r) /\ r.lease /\ r.ws
  BY <1>1, Leased DEF Unleased, Uploading, JInv
<1>3. store.meter # None /\ store.meter.hash = r.prop
  BY <1>1 DEF JInv, SavedIsThere, At
<1>4. \/ ClearCheckpoint(t, TRUE) /\ Become(t, Finish("verified"))
      \/ Become(t, RetainUnpersisted(r))
  BY Zenon DEF PersistClear
<1>5. CASE ClearCheckpoint(t, TRUE) /\ Become(t, Finish("verified"))
  <2>1. Recorded(t)
    BY <1>3, <1>5, CheckpointCleared DEF Recorded
  <2> QED BY <1>5, <2>1, FinishTracked
<1>6. CASE Become(t, RetainUnpersisted(r))
  <2>1. Tame(r, RetainUnpersisted(r))
    BY <1>2, RetryTame
  <2>2. RetainUnpersisted(r).st # "rolled_back"
    BY <1>2 DEF RetainUnpersisted, RetainInstallRetry, Live, Transaction
  <2> QED BY <1>6, <2>1, <2>2, BecomeTameTracked
<1> QED BY <1>4, <1>5, <1>6

\* A rollback that goes on after the YAML was restored.
LEMMA RestoredTracks ==
  ASSUME NEW t \in Txns, TypeOK, HInv, JInv, tx[t].lease, tx[t].pc # "rv_get",
         Back(tx[t]), tx[t].ota = "no", NEW w \in {tx[t], [tx[t] EXCEPT !.resv = FALSE]},
         ~w.resv => ~IsReserved(store'.meter, tx[t].vid, t),
         Become(t, AfterRestore(w))
  PROVE  Tracked(t)
<1> DEFINE r == tx[t]
           d == [w EXCEPT !.ws = FALSE, !.restored = TRUE, !.rb = FALSE]
<1>2. /\ r \in Transaction /\ w \in Transaction
      /\ w.lease = r.lease /\ w.st = r.st /\ w.vid = r.vid /\ w.rec = r.rec
      /\ w.src = r.src /\ w.ota = "no" /\ w.prop = r.prop
  <2>1. r \in Transaction
    BY DEF TypeOK
  <2>2. CASE w = r
    BY <2>1, <2>2
  <2>3. CASE w = [r EXCEPT !.resv = FALSE]
    BY <2>1, <2>3 DEF Transaction
  <2> QED BY <2>2, <2>3
<1>3. \/ w.resv /\ AfterRestore(w) = [d EXCEPT !.pc = "rs_release"]
      \/ ~w.resv /\ AfterRestore(w) = [d EXCEPT !.pc = "rs_clear"]
      \/ ~w.resv /\ AfterRestore(w) = Finish("rolled_back")
  BY <1>2 DEF AfterRestore, Transaction
<1>5. \A p \in {"rs_release", "rs_clear"} :
        LET u == [d EXCEPT !.pc = p] IN
        /\ u.pc = p /\ u.st = r.st /\ u.vid = r.vid /\ u.rec = r.rec
        /\ u.src = r.src /\ u.ota = "no" /\ ~u.ws /\ u.restored /\ u.resv = w.resv
        /\ u.lease
  BY <1>2 DEF Transaction
<1> HIDE DEF d
<1>6. ASSUME NEW p \in {"rs_release", "rs_clear"}, NEW u, u = [d EXCEPT !.pc = p],
             tx' = [tx EXCEPT ![t] = u], (p = "rs_clear") = (~w.resv)
      PROVE  Tracks(t, u)
  <2>1. /\ u.pc = p /\ u.st = r.st /\ u.vid = r.vid /\ u.rec = r.rec
        /\ u.src = r.src /\ u.ota = "no" /\ ~u.ws /\ u.restored /\ u.resv = w.resv
        /\ u.lease
    BY <1>5, <1>6
  <2>2. Shaped(u) /\ ~Ota(u)
    BY <1>6, <2>1 DEF Shaped, Ota, Acked, Resumed
  <2>3. TracksInstall(t, u)
    BY <2>1, <2>2 DEF TracksInstall
  <2>4. TracksRollback(t, u)
    BY <2>1 DEF TracksRollback, Back
  <2> QED BY <1>6, <2>1, <2>2, <2>3, <2>4 DEF Tracks
<1>7. CASE w.resv /\ AfterRestore(w) = [d EXCEPT !.pc = "rs_release"]
  BY <1>6, <1>7, BecomeTracked
<1>8. CASE ~w.resv /\ AfterRestore(w) = [d EXCEPT !.pc = "rs_clear"]
  BY <1>6, <1>8, BecomeTracked
<1>9. CASE ~w.resv /\ AfterRestore(w) = Finish("rolled_back")
  BY <1>9, FinishTracked
<1> QED BY <1>3, <1>7, <1>8, <1>9

\* Keeping the object for another attempt is ordinary.
LEMMA RetainStates ==
  ASSUME NEW r \in Transaction
  PROVE  /\ RetainInstallRetry(r).st # "rolled_back"
         /\ RetainUnpersisted(r).st # "rolled_back"
         /\ RetainWriteRecovery(r).st # "rolled_back"
         /\ SourceLost(r).st # "rolled_back"
<1> DEFINE b == ~r.rec /\ r.ota = "no"
           u == [r EXCEPT !.pc = "idle", !.st = "install_confirmation_required",
                          !.rb = b, !.due = FALSE]
<1>1. RetainInstallRetry(r) = u /\ RetainUnpersisted(r) = [u EXCEPT !.rb = FALSE]
  BY Zenon DEF RetainInstallRetry, RetainUnpersisted
<1>2. b \in BOOLEAN
  OBVIOUS
<1> HIDE DEF b
<1>3. u.st # "rolled_back" /\ [u EXCEPT !.rb = FALSE].st # "rolled_back"
  BY <1>2 DEF Transaction
<1> HIDE DEF u
<1>4. [r EXCEPT !.pc = "idle", !.st = "failed", !.rb = TRUE, !.due = FALSE].st
        # "rolled_back"
  BY DEF Transaction
<1>5. RetainWriteRecovery(r).st # "rolled_back"
  BY <1>1, <1>3, <1>4 DEF RetainWriteRecovery
<1>6. Finish("failed").st # "rolled_back"
  BY DEF Finish, Blank
<1> QED BY <1>1, <1>3, <1>5, <1>6 DEF SourceLost

LEMMA RetainTracked ==
  ASSUME NEW t \in Txns, TypeOK, HInv, JInv, Live(tx[t]), tx[t].lease,
         tx[t].pc # "xr_release",
         \/ Become(t, RetainWriteRecovery(tx[t])) \/ Become(t, SourceLost(tx[t]))
         \/ tx[t].ws /\ Become(t, RetainInstallRetry(tx[t]))
         \/ tx[t].ws /\ Become(t, RetainUnpersisted(tx[t]))
  PROVE  Tracked(t)
<1> DEFINE r == tx[t]
<1>1. r \in Transaction
  BY DEF Live
<1>2. Tame(r, RetainWriteRecovery(r)) /\ Tame(r, SourceLost(r))
  BY RecoveryTame
<1>3. r.ws => Tame(r, RetainInstallRetry(r)) /\ Tame(r, RetainUnpersisted(r))
  BY RetryTame
<1> QED BY <1>1, <1>2, <1>3, RetainStates, BecomeTameTracked

LEMMA FailedTracked ==
  ASSUME NEW t \in Txns, Become(t, Finish("failed")) \/ Become(t, Finish("lost"))
  PROVE  Tracked(t)
BY FinishTracked

\* An install that goes on, with its plan and its reservation.
LEMMA InstallTracks ==
  ASSUME NEW t \in Txns, NEW u, tx' = [tx EXCEPT ![t] = u],
         Shaped(u), ~u.restored,
         u.st \notin Unborn \cup {"verified", "rolled_back"},
         u.vid = tx[t].vid, u.rec = tx[t].rec, u.resv = tx[t].resv,
         TracksInstall(t, u)
  PROVE  Tracks(t, u)
<1>1. TracksRollback(t, u)
  BY DEF TracksRollback, Unborn
<1> QED BY <1>1 DEF Tracks

LEMMA RestoreVerifyTracked ==
  ASSUME NEW t \in Txns, TypeOK, HInv, JInv, RestoreVerify(t)
  PROVE  Tracked(t)
<1> DEFINE r == tx[t]
<1>1. r.pc = "rs_verify" /\ store' = store
  BY DEF RestoreVerify, At
<1>2. Live(r) /\ r.lease /\ r.ota = "no"
  BY <1>1, Leased DEF Unleased, Restoring, JInv
<1>3. CASE builder = r.src /\ Become(t, AfterRestore(r))
  <2>1. ~r.resv => ~IsReserved(store'.meter, r.vid, t)
    BY <1>1, <1>2, NotReserved DEF Live, Good
  <2> QED BY <1>1, <1>2, <1>3, <2>1, RestoredTracks DEF Back
<1>4. CASE Become(t, RetainWriteRecovery(r))
  BY <1>1, <1>2, <1>4, RetainTracked
<1> QED BY <1>3, <1>4 DEF RestoreVerify

\* A release that was acknowledged leaves no reservation of the transaction.
LEMMA Released ==
  ASSUME NEW t \in Txns, TypeOK, NEW ok \in BOOLEAN, ReleaseReservation(t, ok)
  PROVE  /\ ok => ~IsReserved(store'.meter, tx[t].vid, t)
         /\ \A v, x : IsReserved(store'.meter, v, x) => IsReserved(store.meter, v, x)
         /\ store'.ck = store.ck
         /\ store.meter # None => /\ store'.meter # None
                                  /\ store'.meter.hash = store.meter.hash
         /\ Installed(store'.meter) => Installed(store.meter)
<1>1. store.meter \in Meters \cup {None}
  BY DEF TypeOK, Stores
<1> DEFINE n == Release(store.meter, tx[t].vid, t)
<1>2. /\ store'.ck = store.ck
      /\ store'.meter = store.meter \/ store'.meter = n
      /\ ok => store'.meter = n
  BY MeterSaved DEF ReleaseReservation
<1>3. /\ ~IsReserved(n, tx[t].vid, t)
      /\ \A v, x : IsReserved(n, v, x) => IsReserved(store.meter, v, x)
      /\ store.meter # None => n # None /\ n.hash = store.meter.hash
      /\ Installed(n) => Installed(store.meter)
  BY <1>1, ReleaseTakes
<1> HIDE DEF n
<1>4. store'.ck = store.ck
  BY MeterSaved DEF ReleaseReservation
<1> QED BY <1>2, <1>3, <1>4

LEMMA RollbackReleaseTracked ==
  ASSUME NEW t \in Txns, TypeOK, HInv, JInv, RollbackRelease(t)
  PROVE  Tracked(t)
<1> DEFINE r == tx[t]
<1>1. r.pc = "rs_release"
  BY DEF RollbackRelease, At
<1>2. Live(r) /\ r.lease /\ r.ota = "no"
  BY <1>1, Leased DEF Unleased, Unwritten, JInv
<1>3. Back(r)
  BY <1>1, <1>2 DEF JInv, RestoredStays, Live, Shaped
<1>4. PICK ok \in BOOLEAN :
        /\ ReleaseReservation(t, ok)
        /\ \/ ok /\ Become(t, AfterRestore([r EXCEPT !.resv = FALSE]))
           \/ Become(t, RetainWriteRecovery(r))
           \/ ok /\ Become(t, Finish("rolled_back"))
  BY DEF RollbackRelease
<1>5. ok => ~IsReserved(store'.meter, r.vid, t)
  BY <1>4, Released
<1>6. CASE ok /\ Become(t, AfterRestore([r EXCEPT !.resv = FALSE]))
  BY <1>1, <1>2, <1>3, <1>5, <1>6, RestoredTracks
<1>7. CASE Become(t, RetainWriteRecovery(r))
  BY <1>1, <1>2, <1>7, RetainTracked
<1>8. CASE ok /\ Become(t, Finish("rolled_back"))
  BY <1>3, <1>5, <1>8, FinishTracked
<1> QED BY <1>4, <1>6, <1>7, <1>8

LEMMA AbandonReleaseTracked ==
  ASSUME NEW t \in Txns, TypeOK, HInv, JInv, AbandonRelease(t)
  PROVE  Tracked(t)
<1> DEFINE r == tx[t]
           u == [Goto(t, "idle") EXCEPT !.resv = FALSE]
<1>1. r.pc = "ab_release"
  BY DEF AbandonRelease, At
<1>2. /\ Live(r) /\ ~r.restored /\ r.st \in {"previewed", "write_confirmed"}
      /\ r.ota = "no" /\ r \in Transaction
  BY <1>1, LiveAt DEF Live, Good, Placed, Shaped, Early, Unwritten, JInv
<1>3. PICK ok \in BOOLEAN :
        /\ ReleaseReservation(t, ok)
        /\ \/ Become(t, Finish("failed")) \/ Become(t, Goto(t, "idle"))
           \/ ok /\ Become(t, u)
  BY DEF AbandonRelease
<1>4. ok => ~IsReserved(store'.meter, r.vid, t)
  BY <1>3, Released
<1>5. CASE Become(t, Goto(t, "idle"))
  <2>1. Tame(r, Goto(t, "idle"))
    BY <1>2, GotoTame DEF Goto, Awaits, Awaited, Acked, Resumed
  <2>2. Goto(t, "idle").st # "rolled_back"
    BY <1>2 DEF Goto, Transaction
  <2> QED BY <1>5, <2>1, <2>2, BecomeTameTracked
<1>6. CASE ok /\ Become(t, u)
  <2>1. /\ u.pc = "idle" /\ u.vid = r.vid /\ u.rec = r.rec /\ u.st = r.st
        /\ ~u.restored /\ u.ota = "no" /\ tx' = [tx EXCEPT ![t] = u]
    BY <1>2, <1>6 DEF Goto, Transaction, Become
  <2> HIDE DEF u
  <2>2. Shaped(u) /\ ~Ota(u)
    BY <2>1 DEF Shaped, Ota, Acked, Resumed
  <2>3. TracksInstall(t, u) /\ TracksRollback(t, u)
    BY <1>2, <1>4, <1>6, <2>1, <2>2 DEF TracksInstall, TracksRollback
  <2> QED BY <2>1, <2>2, <2>3 DEF Tracks, Tracked
<1> QED BY <1>3, <1>5, <1>6, FailedTracked

LEMMA RevokeTracked ==
  ASSUME NEW t \in Txns, TypeOK, HInv, JInv, RevokeReceipt(t)
  PROVE  Tracked(t)
<1> DEFINE r == tx[t]
           fp == IF r.kind = "install" THEN Revoke(store.meter) ELSE r.fp
           u == [Goto(t, "ci_check") EXCEPT !.fp = fp]
<1>1. r.pc = "ci_revoke"
  BY DEF RevokeReceipt, At
<1>2. Live(r) /\ ~r.restored /\ r.ota = "no" /\ r.ws /\ r \in Transaction
  BY <1>1, Leased DEF Unleased, Prepared, JInv, Live
<1>3. CASE Become(t, Finish("failed"))
  BY <1>3, FailedTracked
<1>4. CASE ~Become(t, Finish("failed"))
  <2>1. [Goto(t, "ci_check") EXCEPT
                  !.fp = IF r.kind = "install" THEN Revoke(store.meter) ELSE @] = u
    BY <1>2 DEF Goto, Transaction
  <2>2. /\ Become(t, u)
        /\ \/ Installed(store.meter) /\ SaveMeter(Revoke(store.meter), TRUE)
           \/ ~Installed(store.meter) /\ UNCHANGED store
    BY <1>4, <2>1, Zenon DEF RevokeReceipt
  <2>3. ~Installed(store'.meter)
    <3>1. CASE Installed(store.meter) /\ SaveMeter(Revoke(store.meter), TRUE)
      <4>1. store'.meter = Revoke(store.meter)
        BY <3>1, MeterSaved
      <4>2. store.meter \in Meters
        BY <3>1 DEF TypeOK, Stores, Installed, Entry, NoMeter
      <4> QED BY <3>1, <4>1, <4>2 DEF Revoke, Installed, Entry, NoMeter, Meters
    <3> QED BY <2>2, <3>1
  <2>4. /\ u.pc = "ci_check" /\ u.st = r.st /\ u.vid = r.vid /\ u.rec = r.rec
        /\ u.resv = r.resv /\ ~u.restored /\ u.ota = "no"
    BY <1>2 DEF Goto, Transaction
  <2>5. tx' = [tx EXCEPT ![t] = u]
    BY <2>2 DEF Become
  <2> HIDE DEF u
  <2>6. Shaped(u) /\ ~Ota(u)
    BY <2>4 DEF Shaped, Ota, Acked, Resumed
  <2>7. TracksInstall(t, u) /\ TracksRollback(t, u)
    <3>1. TracksInstall(t, u)
      BY <2>3, <2>4, <2>6 DEF TracksInstall
    <3> QED BY <2>4, <3>1 DEF TracksRollback
  <2> QED BY <2>4, <2>5, <2>6, <2>7 DEF Tracks, Tracked
<1> QED BY <1>3, <1>4

LEMMA InstallCheckTracked ==
  ASSUME NEW t \in Txns, TypeOK, HInv, JInv, InstallCheck(t)
  PROVE  Tracked(t)
<1> DEFINE r == tx[t]
           u == [Goto(t, "ci_save") EXCEPT !.st = "installing"]
<1>1. r.pc = "ci_check"
  BY DEF InstallCheck, CheckSource, At
<1>2. /\ Live(r) /\ ~r.restored /\ r.ota = "no" /\ r.ws /\ r.lease
      /\ r \in Transaction
  BY <1>1, Leased DEF Unleased, Prepared, JInv, Live
<1>3. Become(t, u) \/ Become(t, SourceLost(r))
  BY DEF InstallCheck, CheckSource
<1>4. CASE Become(t, u)
  <2>1. /\ u.pc = "ci_save" /\ u.st = "installing" /\ u.vid = r.vid
        /\ u.rec = r.rec /\ u.resv = r.resv /\ ~u.restored /\ u.ota = "no"
    BY <1>2 DEF Goto, Transaction
  <2> HIDE DEF u
  <2>2. Shaped(u) /\ ~Ota(u)
    BY <2>1 DEF Shaped, Ota, Acked, Resumed
  <2>3. TracksInstall(t, u)
    BY <1>1, <2>1, <2>2 DEF TracksInstall
  <2>4. tx' = [tx EXCEPT ![t] = u]
    BY <1>4 DEF Become
  <2> QED BY <2>1, <2>2, <2>3, <2>4, InstallTracks DEF Unborn, Tracked
<1>5. CASE Become(t, SourceLost(r))
  BY <1>1, <1>2, <1>5, RetainTracked
<1> QED BY <1>3, <1>4, <1>5

LEMMA InstallCheckpointTracked ==
  ASSUME NEW t \in Txns, TypeOK, HInv, JInv, InstallCheckpoint(t)
  PROVE  Tracked(t)
<1> DEFINE r == tx[t]
           u == [Goto(t, "ci_check2") EXCEPT !.ck = TRUE]
           w(ok) == [Goto(t, "ci_undo") EXCEPT !.ck = ok]
<1>1. r.pc = "ci_save"
  BY DEF InstallCheckpoint, At
<1>2. /\ Live(r) /\ ~r.restored /\ r.ota = "no" /\ r.ws /\ r.lease
      /\ r \in Transaction
  BY <1>1, Leased DEF Unleased, Prepared, JInv, Live
<1>3. PICK ok \in BOOLEAN :
        /\ SaveCheckpoint(t, ok)
        /\ \/ ok /\ Become(t, u)
           \/ Become(t, Finish("failed"))
           \/ Become(t, w(ok))
  BY DEF InstallCheckpoint
<1>4. CASE ok /\ Become(t, u)
  <2>1. store'.ck = Checkpoint(t, r)
    BY <1>3, <1>4, CheckpointSaved
  <2>2. /\ u.pc = "ci_check2" /\ u.st = r.st /\ u.vid = r.vid
        /\ u.rec = r.rec /\ u.resv = r.resv /\ ~u.restored /\ u.ota = "no"
        /\ u.prop = r.prop
    BY <1>2 DEF Goto, Transaction
  <2>3. tx' = [tx EXCEPT ![t] = u]
    BY <1>4 DEF Become
  <2> HIDE DEF u
  <2>4. Shaped(u) /\ ~Ota(u)
    BY <2>2 DEF Shaped, Ota, Acked, Resumed
  <2>5. TracksInstall(t, u)
    BY <1>1, <1>2, <2>1, <2>2, <2>4 DEF TracksInstall
  <2>6. TracksRollback(t, u)
    BY <2>2 DEF TracksRollback
  <2> QED BY <2>2, <2>3, <2>4, <2>5, <2>6 DEF Tracks, Tracked
<1>5. CASE Become(t, w(ok))
  <2>1. Tame(r, w(ok))
    <3>1. Tame(r, [Goto(t, "ci_undo") EXCEPT !.ck = ok])
      BY <1>2 DEF Goto, Live, Good, Tame, Shaped, Ota, Transaction, Awaited, Acked,
                  Resumed, Unborn
    <3> QED BY <3>1
  <2>2. store'.meter = store.meter
    BY <1>3, CheckpointSaved
  <2> HIDE DEF w
  <2> QED BY <1>5, <2>1, <2>2, BecomeTame, TameTracked
<1> QED BY <1>3, <1>4, <1>5, FailedTracked

\* The upload begins, of the content that was just checked.
LEMMA BeginUploadTracked ==
  ASSUME NEW t \in Txns, Live(tx[t]), ~tx[t].restored, builder = tx[t].prop,
         \/ tx[t].pc = "ci_check2"
         \/ tx[t].pc = "ci_retry" /\ Ota(tx[t]) /\ tx[t].ota = "attempted",
         Become(t, BeginUpload(tx[t]))
  PROVE  Tracked(t)
<1> DEFINE r == tx[t]
           u == BeginUpload(r)
<1>1. /\ u.pc = "up_job" /\ u.st = "installing" /\ u.vid = r.vid
      /\ u.rec = r.rec /\ u.resv = r.resv /\ ~u.restored /\ u.ota = "attempted"
      /\ u.prop = r.prop /\ u.lease = r.lease
  BY DEF BeginUpload, Live, Transaction
<1>2. tx' = [tx EXCEPT ![t] = u]
  BY DEF Become
<1> HIDE DEF u
<1>3. Shaped(u)
  BY <1>1 DEF Shaped, Acked, Resumed
<1>4. TracksInstall(t, u)
  BY <1>1 DEF TracksInstall, OtaFrom
<1> QED BY <1>1, <1>2, <1>3, <1>4, InstallTracks DEF Unborn, Tracked

LEMMA RecheckTracked ==
  ASSUME NEW t \in Txns, TypeOK, HInv, JInv, InstallCheck2(t) \/ RetryCheck(t)
  PROVE  Tracked(t)
<1> DEFINE r == tx[t]
<1>1. r.pc \in {"ci_check2", "ci_retry"}
  BY DEF InstallCheck2, RetryCheck, CheckSource, At
<1>2. Live(r) /\ ~r.restored /\ r.ws /\ r.lease /\ r \in Transaction
  BY <1>1, Leased DEF Unleased, Prepared, Resumed, JInv, Live
<1>3. r.pc = "ci_retry" => r.ota # "no" /\ Ota(r)
  BY <1>2 DEF Live, Shaped, Resumed, Ota
<1>4. \/ builder = r.prop /\ Become(t, BeginUpload(r))
         /\ (r.pc = "ci_retry" => r.ota # "uploaded")
      \/ r.ota = "uploaded" /\ Become(t, BeginVerify(r))
      \/ Become(t, SourceLost(r))
  BY <1>1 DEF InstallCheck2, RetryCheck, CheckSource, At
<1>5. r.ota \in {"no", "attempted", "uploaded"}
  BY <1>2 DEF Transaction
<1>6. CASE r.ota = "uploaded" /\ Become(t, BeginVerify(r))
  <2>1. Tame(r, BeginVerify(r))
    <3>1. Live(r) /\ r.ota = "uploaded" /\ ~r.restored
      BY <1>2, <1>6
    <3>2. "vf_verify" \in {"vf_verify", "ps_check", "ps_save"}
      OBVIOUS
    <3> QED BY <3>1, <3>2, AckedTame, Zenon
  <2>2. BeginVerify(r).st = "reconnecting"
    BY <1>2 DEF BeginVerify, Transaction
  <2> QED BY <1>6, <2>1, <2>2, BecomeTameTracked
<1>7. CASE Become(t, SourceLost(r))
  BY <1>1, <1>2, <1>7, RetainTracked
<1> QED BY <1>1, <1>2, <1>3, <1>4, <1>5, <1>6, <1>7, BeginUploadTracked

LEMMA UploadJobTracked ==
  ASSUME NEW t \in Txns, TypeOK, HInv, JInv, UploadJob(t)
  PROVE  Tracked(t)
<1> DEFINE r == tx[t]
           u == [Goto(t, "up_save") EXCEPT !.ota = "uploaded"]
           w == BeginVerify([tx[t] EXCEPT !.ota = "uploaded"])
<1>1. r.pc = "up_job" /\ store' = store
  BY DEF UploadJob, At
<1>2. /\ Live(r) /\ ~r.restored /\ r.ota = "attempted" /\ r.ws /\ r.lease
      /\ r \in Transaction
  BY <1>1, Leased DEF Unleased, Uploading, JInv, Live, Shaped
<1>3. \/ /\ UploadRebuilds => fw' = builder
         /\ Become(t, u) \/ Become(t, w)
      \/ Become(t, Goto(t, "tf_clear"))
      \/ Become(t, RetainInstallRetry(r))
  BY Zenon DEF UploadJob
<1>4. ASSUME UploadRebuilds => fw' = builder, NEW x \in {u, w}, Become(t, x)
      PROVE  Tracked(t)
  <2>1. /\ u.pc = "up_save" /\ u.st = r.st /\ u.vid = r.vid /\ u.rec = r.rec
        /\ u.resv = r.resv /\ ~u.restored /\ u.ota = "uploaded" /\ u.prop = r.prop
    BY <1>2 DEF Goto, Transaction
  <2>2. /\ w.pc = "vf_verify" /\ w.st = "reconnecting" /\ w.vid = r.vid
        /\ w.rec = r.rec /\ w.resv = r.resv /\ ~w.restored /\ w.ota = "uploaded"
        /\ w.prop = r.prop
    BY <1>2 DEF BeginVerify, Transaction
  <2>3. tx' = [tx EXCEPT ![t] = x]
    BY <1>4 DEF Become
  <2>4. /\ x.pc \in {"up_save", "vf_verify"} /\ x.st \in {r.st, "reconnecting"}
        /\ x.vid = r.vid /\ x.rec = r.rec /\ x.resv = r.resv /\ ~x.restored
        /\ x.ota = "uploaded" /\ x.prop = r.prop
    BY <1>4, <2>1, <2>2
  <2> HIDE DEF u, w
  <2>5. Shaped(x)
    BY <2>4 DEF Shaped, Acked, Resumed
  <2>6. TracksInstall(t, x)
    BY <1>1, <1>4, <2>4 DEF TracksInstall, OtaFrom
  <2>7. TracksRollback(t, x)
    BY <2>4 DEF TracksRollback
  <2> QED BY <2>3, <2>4, <2>5, <2>6, <2>7 DEF Tracks, Tracked, Unborn
<1>5. CASE Become(t, Goto(t, "tf_clear"))
  <2>1. Tame(r, Goto(t, "tf_clear"))
    BY <1>2, GotoTame DEF Goto, Awaits, Awaited, Acked, Resumed
  <2> QED BY <1>1, <1>5, <2>1, BecomeTame, TameTracked
<1>6. CASE Become(t, RetainInstallRetry(r))
  BY <1>1, <1>2, <1>6, RetainTracked
<1> QED BY <1>3, <1>4, <1>5, <1>6

LEMMA PersistedHash ==
  ASSUME TypeOK, NEW t \in Txns, HasPlan(tx[t]), CanPersist(store.meter, t, tx[t])
  PROVE  /\ Persisted(store.meter, t, tx[t]) # None
         /\ Persisted(store.meter, t, tx[t]).hash = tx[t].prop
<1> DEFINE r == tx[t]
           m == store.meter
           conf == IF r.full THEN t ELSE None
<1>1. m \in Meters \cup {None} /\ r \in Transaction /\ store \in Stores
  BY DEF TypeOK, Stores
<1>2. Persisted(m, t, r) \in Meters
  BY <1>1, PersistedType
<1>3. Persisted(m, t, r).hash = r.prop
  <2>1. CASE r.kind = "install"
    <3>1. Persisted(m, t, r) = SaveConfiguration(m, t, r.prop)
      BY <2>1 DEF Persisted
    <3>2. SaveConfiguration(m, t, r.prop).hash = r.prop
      BY <1>1, EntryType DEF SaveConfiguration, Meters
    <3> QED BY <3>1, <3>2
  <2>2. CASE r.kind # "install"
    <3>1. CanSaveAndMark(m, r.vid, t, r.src, r.prop, conf)
      BY <2>2 DEF CanPersist
    <3>2. m \in Meters /\ m.calib \in Calibrations
      BY <1>1, <3>1, IdentifiedType DEF CanSaveAndMark, IsReserved
    <3>3. Persisted(m, t, r) = SaveAndMark(m, r.prop, conf)
      BY <2>2 DEF Persisted
    <3> HIDE DEF conf
    <3>4. SaveAndMark(m, r.prop, conf).hash = r.prop
      BY <3>2 DEF SaveAndMark, Meters
    <3> QED BY <3>3, <3>4
  <2> QED BY <2>1, <2>2
<1> QED BY <1>2, <1>3, NoneIsNoRecord

LEMMA PersistSaveTracked ==
  ASSUME NEW t \in Txns, TypeOK, Planned, HInv, JInv, PersistSave(t)
  PROVE  Tracked(t)
<1> DEFINE r == tx[t]
           u == Goto(t, "ps_clear")
<1>1. r.pc = "ps_save"
  BY DEF PersistSave, At
<1>2. /\ Live(r) /\ ~r.restored /\ r.ws /\ r.lease /\ r.ota = "uploaded"
      /\ r \in Transaction /\ HasPlan(r)
  BY <1>1, Leased DEF Unleased, Uploading, JInv, Live, Shaped, Acked, Planned, Working
<1>3. \/ /\ CanPersist(store.meter, t, r)
         /\ SaveMeter(Persisted(store.meter, t, r), TRUE)
         /\ Become(t, u)
      \/ Become(t, RetainUnpersisted(r))
  BY Zenon DEF PersistSave
<1>4. CASE /\ CanPersist(store.meter, t, r)
           /\ SaveMeter(Persisted(store.meter, t, r), TRUE)
           /\ Become(t, u)
  <2>1. store'.meter # None /\ store'.meter.hash = r.prop
    BY <1>2, <1>4, MeterSaved, PersistedHash
  <2>2. /\ u.pc = "ps_clear" /\ u.st = r.st /\ u.vid = r.vid /\ u.rec = r.rec
        /\ u.resv = r.resv /\ ~u.restored /\ u.ota = "uploaded" /\ u.prop = r.prop
    BY <1>2 DEF Goto, Transaction
  <2>3. tx' = [tx EXCEPT ![t] = u]
    BY <1>4 DEF Become
  <2> HIDE DEF u
  <2>4. Shaped(u)
    BY <2>2 DEF Shaped, Resumed
  <2>5. Ota(r)
    BY <1>1, <1>2 DEF Ota
  <2>6. TracksInstall(t, u)
    BY <1>2, <2>1, <2>2, <2>5 DEF TracksInstall, OtaFrom
  <2>7. TracksRollback(t, u)
    BY <2>2 DEF TracksRollback
  <2> QED BY <2>2, <2>3, <2>4, <2>6, <2>7 DEF Tracks, Tracked
<1>5. CASE Become(t, RetainUnpersisted(r))
  BY <1>1, <1>2, <1>5, RetainTracked
<1> QED BY <1>3, <1>4, <1>5

LEMMA RecoverGetTracked ==
  ASSUME NEW t \in Txns, TypeOK, HInv, JInv, RecoverGet(t)
  PROVE  Tracked(t)
<1> DEFINE r == tx[t]
           u == [Goto(t, "idle") EXCEPT !.open = TRUE]
<1>1. r.pc = "rv_get" /\ UNCHANGED <<store, fw>>
  BY DEF RecoverGet, At, remote
<1>2. r \in Transaction /\ ~r.restored /\ r.rec
  BY <1>1 DEF TypeOK, JInv, ObjectsShaped, Shaped, HInv, Good
<1>3. \/ store.ck = Checkpoint(t, r) /\ Become(t, u)
      \/ Become(t, Finish("lost"))
  BY DEF RecoverGet
<1>4. CASE store.ck = Checkpoint(t, r) /\ Become(t, u)
  <2>1. /\ u.pc = "idle" /\ u.st = r.st /\ u.vid = r.vid /\ u.rec = r.rec
        /\ u.resv = r.resv /\ ~u.restored /\ u.ota = r.ota /\ u.prop = r.prop
        /\ u.kind = r.kind /\ u.full = r.full /\ u.src = r.src /\ u.fp = r.fp
        /\ u.open
    BY <1>2 DEF Goto, Transaction
  <2>2. tx' = [tx EXCEPT ![t] = u]
    BY <1>4 DEF Become
  <2> HIDE DEF u
  <2>3. Shaped(u)
    BY <2>1 DEF Shaped, Acked, Resumed
  <2>4. Checkpoint(t, u) = Checkpoint(t, r)
    BY <2>1 DEF Checkpoint
  <2>5. TracksInstall(t, u)
    BY <1>1, <1>4, <2>1, <2>4 DEF TracksInstall, OtaFrom
  <2>6. TracksRollback(t, u)
    BY <1>2, <2>1 DEF TracksRollback
  <2> QED BY <2>1, <2>2, <2>3, <2>5, <2>6 DEF Tracks, Tracked
<1> QED BY <1>3, <1>4, FailedTracked

LEMMA ClaimTracked ==
  ASSUME NEW t \in Txns, TypeOK, HInv, JInv, PreviewGainsClaim(t)
  PROVE  Tracked(t)
<1> DEFINE r == tx[t]
           u == [Goto(t, "idle") EXCEPT !.lease = FALSE, !.resv = TRUE]
           w == [Goto(t, "pv_release") EXCEPT !.resv = TRUE]
<1>1. r.pc = "pv_claim"
  BY DEF PreviewGainsClaim, At
<1>2. Live(r) /\ r \in Transaction /\ r.st \in {"previewed", "write_confirmed"}
  BY <1>1, LiveAt DEF Live, Good, Early, JInv
<1>3. Tame(r, u) /\ Tame(r, w)
  <2>1. Tame(r, [[r EXCEPT !.pc = "pv_release"] EXCEPT !.resv = TRUE])
    BY <1>1, <1>2, OpeningTame, Zenon
  <2>2. Tame(r, [[r EXCEPT !.pc = "idle"] EXCEPT !.lease = FALSE, !.resv = TRUE])
    <3>1. r.pc \in {"pv_claim", "pv_release"}
      BY <1>1
    <3> QED BY <1>2, <3>1, ClaimedTame, Zenon
  <2> QED BY <2>1, <2>2, Zenon DEF Goto
<1>4. u.st # "rolled_back" /\ w.st # "rolled_back"
  BY <1>2 DEF Goto, Transaction
<1>5. Become(t, u) \/ Become(t, w) \/ Become(t, Finish("failed"))
  BY DEF PreviewGainsClaim
<1> HIDE DEF u, w
<1> QED BY <1>3, <1>4, <1>5, FailedTracked, BecomeTameTracked

\* The ordinary steps that take no reservation.
LEMMA OrdinaryTracked ==
  ASSUME NEW t \in Txns, TypeOK, HInv, JInv,
         \/ Preview(t) \/ PreviewGains(t) \/ PreviewGainsLock(t)
         \/ PreviewGainsRead(t) \/ PreviewGainsRelease(t)
         \/ ConfirmWrite(t) \/ ConfirmWriteLock(t) \/ ConfirmWriteRevalidate(t)
         \/ ConfirmWriteRelease(t) \/ MetadataCheck(t) \/ WriteGet(t)
         \/ WriteUpdate(t) \/ WriteConflict(t) \/ Reconcile(t) \/ Validate(t)
         \/ Rollback(t) \/ RestoreGet(t) \/ RestoreAgain(t) \/ RestoreUpdate(t)
         \/ RollbackClear(t)
         \/ Compile(t) \/ CompileCheck(t) \/ CompileJob(t) \/ CompileCheck2(t)
         \/ ConfirmInstall(t) \/ AdoptSource(t) \/ InstallUndo(t)
         \/ UploadSave(t) \/ TerminalFailure(t) \/ VerifyReconnect(t)
         \/ PersistCheck(t)
         \/ Abandon(t) \/ AbandonCheck(t) \/ AbandonClear(t)
         \/ Due(t) \/ Expire(t) \/ ExpireRelease(t)
         \/ Recover(t) \/ RecoverLock(t)
  PROVE  Tracked(t)
<1>1. BeTame(t)
  BY PreviewTame, WriteTame, RollbackTame, CompileTame, InstallTame, OtaTame,
     AbandonTame, DeadlineTame DEF JInv
<1>2. \/ store' = store
      \/ \E ok \in BOOLEAN : ReleaseReservation(t, ok)
      \/ \E ok \in BOOLEAN : ClearCheckpoint(t, ok)
      \/ \E ok \in BOOLEAN : SaveCheckpoint(t, ok)
  <2>1. CASE \/ PreviewGainsRelease(t) \/ ConfirmWriteRelease(t)
             \/ WriteConflict(t) \/ RollbackClear(t) \/ InstallUndo(t)
             \/ UploadSave(t) \/ TerminalFailure(t) \/ AbandonClear(t)
             \/ ExpireRelease(t)
    BY <2>1 DEF PreviewGainsRelease, ConfirmWriteRelease, WriteConflict,
       RollbackClear, InstallUndo, UploadSave, TerminalFailure, AbandonClear,
       ExpireRelease
  <2>2. CASE \/ Preview(t) \/ PreviewGains(t) \/ PreviewGainsLock(t)
             \/ PreviewGainsRead(t) \/ ConfirmWrite(t) \/ ConfirmWriteLock(t)
             \/ ConfirmWriteRevalidate(t) \/ WriteGet(t) \/ WriteUpdate(t)
             \/ Reconcile(t) \/ Validate(t) \/ Rollback(t) \/ RestoreGet(t)
             \/ RestoreAgain(t) \/ RestoreUpdate(t)
    BY <2>2, Zenon DEF Preview, PreviewGains, PreviewGainsLock, PreviewGainsRead,
       ConfirmWrite, ConfirmWriteLock, ConfirmWriteRevalidate, WriteGet,
       WriteUpdate, Reconcile, Validate, Rollback, RestoreGet, RestoreAgain,
       RestoreUpdate
  <2>3. CASE \/ MetadataCheck(t) \/ CompileCheck(t) \/ CompileCheck2(t)
             \/ PersistCheck(t) \/ AbandonCheck(t)
    <3>1. \A from, ok, lost : CheckSource(t, from, ok, lost) => store' = store
      BY DEF CheckSource
    <3> QED BY <2>3, <3>1 DEF MetadataCheck, CompileCheck, CompileCheck2,
       PersistCheck, AbandonCheck
  <2>4. CASE \/ Compile(t) \/ CompileJob(t) \/ ConfirmInstall(t)
             \/ AdoptSource(t) \/ VerifyReconnect(t) \/ Abandon(t)
             \/ Due(t) \/ Expire(t) \/ Recover(t) \/ RecoverLock(t)
    <3>1. \/ store' = store
          \/ ~(\/ Compile(t) \/ CompileJob(t) \/ AdoptSource(t)
                \/ VerifyReconnect(t) \/ Abandon(t) \/ Due(t) \/ Recover(t)
                \/ RecoverLock(t))
      BY DEF Compile, CompileJob, AdoptSource, VerifyReconnect, Abandon, Due,
         Recover, RecoverLock
    <3>2. ConfirmInstall(t) \/ Expire(t) => store' = store
      BY Zenon DEF ConfirmInstall, Expire
    <3> QED BY <2>4, <3>1, <3>2
  <2> QED BY <2>1, <2>2, <2>3, <2>4
<1>3. \A v : IsReserved(store'.meter, v, t) => IsReserved(store.meter, v, t)
  BY <1>2, Released, CheckpointCleared, CheckpointSaved
<1> QED BY <1>1, <1>3, TameTracked

LEMMA TransactionTracked ==
  ASSUME NEW t \in Txns, IInv, HInv, JInv, ByTransaction(t)
  PROVE  Tracked(t)
<1>1. TypeOK /\ Planned
  BY DEF IInv
<1>2. CASE \/ MetadataSave(t) \/ PersistClear(t) \/ RestoreVerify(t)
           \/ RollbackRelease(t) \/ AbandonRelease(t) \/ RevokeReceipt(t)
           \/ InstallCheck(t) \/ InstallCheckpoint(t) \/ InstallCheck2(t)
           \/ RetryCheck(t) \/ UploadJob(t) \/ PersistSave(t) \/ RecoverGet(t)
           \/ PreviewGainsClaim(t)
  BY <1>1, <1>2, MetadataTracked, PersistClearTracked, RestoreVerifyTracked,
     RollbackReleaseTracked, AbandonReleaseTracked, RevokeTracked,
     InstallCheckTracked, InstallCheckpointTracked, RecheckTracked,
     UploadJobTracked, PersistSaveTracked, RecoverGetTracked, ClaimTracked
<1> QED BY <1>1, <1>2, OrdinaryTracked
           DEF ByTransaction, Operations, Acquires, Continues

-----------------------------------------------------------------------------
(* What a step of transaction t does to the state it shares.               *)

\* An installed record m follows from the one before, or is the one t persists.
SharesMeter(t) ==
  LET m == store.meter
      n == store'.meter
  IN
  /\ \/ tx[t].lease
     \/ m # None => n # None /\ n.hash = m.hash
  /\ Installed(n) =>
       \/ Installed(m) /\ n.hash = m.hash
       \/ tx[t].pc = "ps_save" /\ n.hash = tx[t].prop
  /\ \A v : \A x \in Txns : IsReserved(n, v, x) =>
       IsReserved(m, v, x) \/ (x = t /\ tx'[t].resv)

SharesCheckpoint(t) ==
  \/ store'.ck = store.ck
  \/ /\ store'.ck = None /\ tx[t].lease /\ tx'[t].pc # "ci_check2"
     /\ "unacked" \notin Faults => ~Ota(tx'[t])
  \/ /\ store'.ck = Checkpoint(t, tx[t]) /\ tx[t].lease
     /\ tx[t].pc \in {"ci_save", "up_save"}

SharesRemote(t) ==
  /\ \/ builder' = builder
     \/ /\ tx[t].lease /\ tx[t].ota = "no"
        /\ ~tx'[t].restored /\ tx'[t].pc # "up_job"
  /\ \/ fw' = fw
     \/ tx[t].pc = "up_job" /\ (UploadRebuilds => fw' = builder)

Shares(t) == SharesMeter(t) /\ SharesCheckpoint(t) /\ SharesRemote(t)

LEMMA BecomeIs ==
  ASSUME NEW t \in Txns, TypeOK, NEW u, Become(t, u)
  PROVE  tx'[t] = u
BY DEF Become, TypeOK

\* A meter record that is kept.
LEMMA KeptMeter ==
  ASSUME NEW t, store'.meter = store.meter
  PROVE  SharesMeter(t)
BY DEF SharesMeter

\* Steps that leave the record and the remote state alone.
LEMMA QuietShares ==
  ASSUME NEW t, store' = store, UNCHANGED remote
  PROVE  Shares(t)
BY KeptMeter DEF Shares, SharesCheckpoint, SharesRemote, remote

LEMMA ReleaseShares ==
  ASSUME NEW t \in Txns, TypeOK,
         \E ok \in BOOLEAN : ReleaseReservation(t, ok), UNCHANGED remote
  PROVE  Shares(t)
<1>1. /\ store'.ck = store.ck
      /\ \A v, x : IsReserved(store'.meter, v, x) => IsReserved(store.meter, v, x)
      /\ store.meter # None => /\ store'.meter # None
                               /\ store'.meter.hash = store.meter.hash
      /\ Installed(store'.meter) => Installed(store.meter)
  BY Released
<1>2. Installed(store.meter) => store.meter # None
  BY DEF Installed, Entry, NoMeter
<1>3. SharesMeter(t)
  BY <1>1, <1>2 DEF SharesMeter
<1> QED BY <1>1, <1>3 DEF Shares, SharesCheckpoint, SharesRemote, remote

\* Clearing a checkpoint: the OTA it named is over.
LEMMA ClearShares ==
  ASSUME NEW t \in Txns, TypeOK, NEW ok \in BOOLEAN, ClearCheckpoint(t, ok),
         UNCHANGED remote, tx[t].lease, tx'[t].pc # "ci_check2",
         ok => ~Ota(tx'[t])
  PROVE  Shares(t)
<1>1. /\ store'.meter = store.meter
      /\ store'.ck = store.ck \/ store'.ck = None
      /\ ok => store'.ck = None
      /\ ~ok /\ "unacked" \notin Faults => store'.ck = store.ck
  BY CheckpointCleared
<1> QED BY <1>1, KeptMeter DEF Shares, SharesCheckpoint, SharesRemote, remote

LEMMA FinishQuiet ==
  ASSUME NEW s PROVE ~Ota(Finish(s)) /\ Finish(s).pc = "idle"
BY DEF Finish, Blank, Ota

LEMMA RetainAwaits ==
  ASSUME NEW r \in Transaction
  PROVE  /\ RetainUnpersisted(r).pc = "idle"
         /\ RetainUnpersisted([r EXCEPT !.pcs = FALSE]).pc = "idle"
         /\ RetainWriteRecovery(r).pc = "idle"
<1> DEFINE u(x, c) == [x EXCEPT !.pc = "idle",
                             !.st = "install_confirmation_required",
                             !.rb = c, !.due = FALSE]
<1>1. \A x \in Transaction, c \in BOOLEAN :
        u(x, c).pc = "idle" /\ [u(x, c) EXCEPT !.rb = FALSE].pc = "idle"
  BY DEF Transaction
<1>2. [r EXCEPT !.pcs = FALSE] \in Transaction
  BY DEF Transaction
<1>3. \A x \in Transaction : RetainInstallRetry(x).pc = "idle"
                               /\ RetainUnpersisted(x).pc = "idle"
  <2> SUFFICES ASSUME NEW x \in Transaction
               PROVE  RetainInstallRetry(x).pc = "idle"
                        /\ RetainUnpersisted(x).pc = "idle"
    OBVIOUS
  <2> DEFINE c == ~x.rec /\ x.ota = "no"
  <2>1. c \in BOOLEAN
    OBVIOUS
  <2>2. RetainInstallRetry(x) = u(x, c)
        /\ RetainUnpersisted(x) = [u(x, c) EXCEPT !.rb = FALSE]
    BY Zenon DEF RetainInstallRetry, RetainUnpersisted
  <2> HIDE DEF c, u
  <2> QED BY <1>1, <2>1, <2>2
<1>4. [r EXCEPT !.pc = "idle", !.st = "failed", !.rb = TRUE, !.due = FALSE].pc = "idle"
  BY DEF Transaction
<1> QED BY <1>2, <1>3, <1>4 DEF RetainWriteRecovery

LEMMA ClearSteps ==
  ASSUME NEW t \in Txns, TypeOK, HInv, ObjectsShaped,
         \/ RollbackClear(t) \/ InstallUndo(t) \/ TerminalFailure(t)
         \/ PersistClear(t) \/ AbandonClear(t)
  PROVE  Shares(t)
<1> DEFINE r == tx[t]
<1>1. r.pc \in {"rs_clear", "ci_undo", "tf_clear", "ps_clear", "ab_clear"}
  BY DEF RollbackClear, InstallUndo, TerminalFailure, PersistClear, AbandonClear, At
<1>2. r.lease /\ r \in Transaction
  BY <1>1, Leased DEF Unleased, Live
<1>3. UNCHANGED remote
  BY DEF RollbackClear, InstallUndo, TerminalFailure, PersistClear, AbandonClear
<1>4. PICK ok \in BOOLEAN :
        /\ ClearCheckpoint(t, ok)
        /\ \/ \E s \in States : Become(t, Finish(s))
           \/ /\ ~ok
              /\ \/ Become(t, RetainWriteRecovery(r)) \/ Become(t, Goto(t, "idle"))
                 \/ Become(t, RetainUnpersisted([r EXCEPT !.pcs = FALSE]))
                 \/ Become(t, RetainUnpersisted(r))
  <2>1. \A s \in {"failed", "verified", "rolled_back"} : s \in States
    BY DEF States
  <2> QED BY <2>1 DEF RollbackClear, InstallUndo, TerminalFailure, PersistClear,
                      AbandonClear
<1>5. tx'[t].pc # "ci_check2" /\ (ok => ~Ota(tx'[t]))
  <2>1. Goto(t, "idle").pc = "idle"
    BY <1>2 DEF Goto, Transaction
  <2> QED BY <1>2, <1>4, <2>1, BecomeIs, FinishQuiet, RetainAwaits
<1> QED BY <1>2, <1>3, <1>4, <1>5, ClearShares

LEMMA SaveCheckpointSteps ==
  ASSUME NEW t \in Txns, TypeOK, HInv, ObjectsShaped,
         InstallCheckpoint(t) \/ UploadSave(t)
  PROVE  Shares(t)
<1>1. tx[t].pc \in {"ci_save", "up_save"} /\ UNCHANGED remote
  BY DEF InstallCheckpoint, UploadSave, At
<1>2. tx[t].lease
  BY <1>1, Leased DEF Unleased
<1>3. \E ok \in BOOLEAN : SaveCheckpoint(t, ok)
  BY DEF InstallCheckpoint, UploadSave
<1>4. /\ store'.meter = store.meter
      /\ store'.ck = store.ck \/ store'.ck = Checkpoint(t, tx[t])
  BY <1>3, CheckpointSaved
<1> QED BY <1>1, <1>2, <1>4, KeptMeter
           DEF Shares, SharesCheckpoint, SharesRemote, remote

\* What an entry that is there says of its calibration.
LEMMA EntryFields ==
  ASSUME NEW n \in Meters
  PROVE  /\ n # None
         /\ Installed(n) <=> n.calib # None /\ n.calib.inst
         /\ \A v, x : IsReserved(n, v, x) <=>
              /\ n.calib # None /\ n.calib.vid = v
              /\ ~n.calib.avail /\ ~n.calib.offsets /\ n.calib.owner = x
<1>1. n # None
  BY NoneIsNoRecord
<1>2. Entry(n) = n
  BY <1>1 DEF Entry
<1> QED BY <1>1, <1>2 DEF Installed, IsReserved, Identifies

LEMMA ClaimFields ==
  ASSUME NEW m \in Meters \cup {None}, NEW v, NEW t \in Txns, CanClaim(m, v)
  PROVE  /\ m # None => Claim(m, t) # None /\ Claim(m, t).hash = m.hash
         /\ ~Installed(Claim(m, t))
         /\ \A w, x : IsReserved(Claim(m, t), w, x) => x = t
<1> DEFINE c == [m.calib EXCEPT !.avail = FALSE, !.owner = t, !.inst = FALSE]
           n == Claim(m, t)
<1>1. m \in Meters /\ m.calib \in Calibrations
  BY IdentifiedType DEF CanClaim
<1>2. ~c.inst /\ c.owner = t
  BY <1>1 DEF Calibrations
<1>3. n = [m EXCEPT !.calib = c]
  BY <1>1 DEF Claim, Meters, Calibrations
<1>4. n \in Meters
  BY ClaimType
<1> HIDE DEF c, n
<1>5. n.hash = m.hash /\ n.calib = c
  BY <1>1, <1>3 DEF Meters
<1>6. n # None /\ ~Installed(n) /\ \A w, x : IsReserved(n, w, x) => x = t
  BY <1>2, <1>4, <1>5, EntryFields
<1> QED BY <1>5, <1>6 DEF n

LEMMA ConfigurationFields ==
  ASSUME NEW m \in Meters \cup {None}, NEW t \in Txns, NEW prop \in Contents
  PROVE  /\ ~Installed(SaveConfiguration(m, t, prop))
         /\ \A w, x : IsReserved(SaveConfiguration(m, t, prop), w, x)
                        => IsReserved(m, w, x)
<1> DEFINE c == IF Installed(m) THEN None ELSE Entry(m).calib
           n == SaveConfiguration(m, t, prop)
<1>1. Entry(m) \in Meters
  BY EntryType
<1>2. n = [Entry(m) EXCEPT !.hash = prop, !.conf = t, !.calib = c]
  BY <1>1 DEF SaveConfiguration, Meters
<1>3. c # None => c = m.calib /\ ~Installed(m) /\ Entry(m).calib # None
  BY DEF Entry, NoMeter
<1>4. n \in Meters
  BY SaveConfigurationType
<1> HIDE DEF c, n
<1>5. n.calib = c
  BY <1>1, <1>2 DEF Meters
<1>6. ~Installed(n)
  BY <1>3, <1>4, <1>5, EntryFields DEF Installed
<1>7. ASSUME NEW w, NEW x, IsReserved(n, w, x)
      PROVE  IsReserved(m, w, x)
  <2>1. /\ n.calib # None /\ n.calib.vid = w
        /\ ~n.calib.avail /\ ~n.calib.offsets /\ n.calib.owner = x
    BY <1>4, <1>7, EntryFields
  <2> QED BY <1>3, <1>5, <2>1 DEF IsReserved, Identifies
<1> QED BY <1>6, <1>7 DEF n

LEMMA RevokeFields ==
  ASSUME NEW m \in Meters \cup {None}
  PROVE  /\ m # None => Revoke(m) # None /\ Revoke(m).hash = m.hash
         /\ ~Installed(Revoke(m))
         /\ \A w, x : IsReserved(Revoke(m), w, x) => IsReserved(m, w, x)
<1>1. CASE ~Installed(m)
  BY <1>1 DEF Revoke
<1>2. CASE Installed(m)
  <2> DEFINE n == Revoke(m)
  <2>1. m \in Meters
    BY <1>2 DEF Installed, Entry, NoMeter
  <2>2. n = [m EXCEPT !.calib = None]
    BY <1>2 DEF Revoke
  <2> HIDE DEF n
  <2>3. n \in Meters /\ n.hash = m.hash /\ n.calib = None
    BY <2>1, <2>2 DEF Meters
  <2>4. n # None /\ ~Installed(n) /\ \A w, x : ~IsReserved(n, w, x)
    BY <2>3, EntryFields
  <2> QED BY <2>3, <2>4 DEF n
<1> QED BY <1>1, <1>2

LEMMA MarkFields ==
  ASSUME NEW m \in Meters \cup {None}, NEW v, NEW t, NEW src,
         NEW prop \in Contents, NEW conf \in Contents \cup {None},
         CanSaveAndMark(m, v, t, src, prop, conf)
  PROVE  \A w, x : IsReserved(SaveAndMark(m, prop, conf), w, x) => IsReserved(m, w, x)
<1> DEFINE c == [m.calib EXCEPT !.inst = TRUE]
           n == SaveAndMark(m, prop, conf)
<1>1. m \in Meters /\ m.calib \in Calibrations
  BY IdentifiedType DEF CanSaveAndMark, IsReserved
<1>2. /\ c.vid = m.calib.vid /\ c.avail = m.calib.avail
      /\ c.offsets = m.calib.offsets /\ c.owner = m.calib.owner
  BY <1>1 DEF Calibrations
<1>3. n = [m EXCEPT !.hash = prop, !.conf = conf, !.calib = c]
  BY <1>1 DEF SaveAndMark, Meters
<1>4. Entry(m).calib # None
  BY DEF CanSaveAndMark, IsReserved, Identifies
<1>5. n \in Meters
  BY SaveAndMarkType
<1> HIDE DEF c, n
<1>6. n.calib = c
  BY <1>1, <1>3 DEF Meters
<1>7. ASSUME NEW w, NEW x, IsReserved(n, w, x)
      PROVE  IsReserved(m, w, x)
  <2>1. n.calib.vid = w /\ ~n.calib.avail /\ ~n.calib.offsets /\ n.calib.owner = x
    BY <1>5, <1>7, EntryFields
  <2> QED BY <1>2, <1>4, <1>6, <2>1 DEF IsReserved, Identifies
<1> QED BY <1>7 DEF n

LEMMA ClaimShares ==
  ASSUME NEW t \in Txns, TypeOK, PreviewGainsClaim(t)
  PROVE  Shares(t)
<1>1. UNCHANGED remote
  BY DEF PreviewGainsClaim
<1>2. CASE UNCHANGED store
  BY <1>1, <1>2, QuietShares
<1>3. CASE /\ CanClaim(store.meter, tx[t].vid)
           /\ \E ok \in BOOLEAN :
                /\ SaveMeter(Claim(store.meter, t), ok)
                /\ \/ Become(t, [Goto(t, "idle") EXCEPT !.lease = FALSE, !.resv = TRUE])
                   \/ Become(t, [Goto(t, "pv_release") EXCEPT !.resv = TRUE])
  <2>1. /\ store'.ck = store.ck
        /\ store'.meter \in {store.meter, Claim(store.meter, t)}
    BY <1>3, MeterSaved
  <2>2. store.meter \in Meters \cup {None} /\ tx[t] \in Transaction
    BY DEF TypeOK, Stores
  <2>3. tx'[t].resv
    BY <1>3, <2>2, BecomeIs DEF Goto, Transaction
  <2>4. CASE store'.meter = Claim(store.meter, t)
    <3>1. SharesMeter(t)
      BY <1>3, <2>2, <2>3, <2>4, ClaimFields DEF SharesMeter
    <3> QED BY <1>1, <2>1, <3>1 DEF Shares, SharesCheckpoint, SharesRemote, remote
  <2>5. CASE store'.meter = store.meter
    BY <1>1, <2>1, <2>5, KeptMeter DEF Shares, SharesCheckpoint, SharesRemote, remote
  <2> QED BY <2>1, <2>4, <2>5
<1> QED BY <1>2, <1>3, Zenon DEF PreviewGainsClaim

LEMMA RecordShares ==
  ASSUME NEW t \in Txns, TypeOK, Planned, HInv, ObjectsShaped,
         MetadataSave(t) \/ RevokeReceipt(t) \/ PersistSave(t)
  PROVE  Shares(t)
<1> DEFINE r == tx[t]
           m == store.meter
<1>1. UNCHANGED remote /\ m \in Meters \cup {None}
  BY DEF MetadataSave, RevokeReceipt, PersistSave, TypeOK, Stores
<1>2. r.pc \in {"nm_save", "ci_revoke", "ps_save"}
  BY DEF MetadataSave, RevokeReceipt, PersistSave, At
<1>3. r.lease /\ HasPlan(r) /\ r \in Transaction
  BY <1>2, Leased DEF Unleased, Planned, Working, Live
<1>4. \/ store' = store
      \/ \E ok \in BOOLEAN : SaveMeter(SaveConfiguration(m, t, r.prop), ok)
      \/ \E ok \in BOOLEAN : SaveMeter(Revoke(m), ok)
      \/ /\ r.pc = "ps_save" /\ CanPersist(m, t, r)
         /\ \E ok \in BOOLEAN : SaveMeter(Persisted(m, t, r), ok)
  BY DEF MetadataSave, RevokeReceipt, PersistSave, At
<1>5. CASE store' = store
  BY <1>1, <1>5, QuietShares
<1>6. ASSUME NEW n, \E ok \in BOOLEAN : SaveMeter(n, ok),
             \A v, x : IsReserved(n, v, x) => IsReserved(m, v, x),
             Installed(n) => \/ Installed(m) /\ n.hash = m.hash
                             \/ r.pc = "ps_save" /\ n.hash = r.prop
      PROVE  Shares(t)
  <2>1. store'.ck = store.ck /\ store'.meter \in {m, n}
    BY <1>6, MeterSaved
  <2>2. SharesMeter(t)
    BY <1>3, <1>6, <2>1 DEF SharesMeter
  <2> QED BY <1>1, <2>1, <2>2 DEF Shares, SharesCheckpoint, SharesRemote, remote
<1>7. ASSUME \E ok \in BOOLEAN : SaveMeter(SaveConfiguration(m, t, r.prop), ok)
      PROVE  Shares(t)
  BY <1>1, <1>3, <1>6, <1>7, ConfigurationFields DEF HasPlan
<1>8. ASSUME \E ok \in BOOLEAN : SaveMeter(Revoke(m), ok)
      PROVE  Shares(t)
  BY <1>1, <1>6, <1>8, RevokeFields
<1>9. ASSUME r.pc = "ps_save", CanPersist(m, t, r),
             \E ok \in BOOLEAN : SaveMeter(Persisted(m, t, r), ok)
      PROVE  Shares(t)
  <2>1. Persisted(m, t, r).hash = r.prop
    BY <1>3, <1>9, PersistedHash
  <2>2. \A v, x : IsReserved(Persisted(m, t, r), v, x) => IsReserved(m, v, x)
    <3> DEFINE conf == IF r.full THEN t ELSE None
    <3>1. CASE r.kind = "install"
      <4>1. Persisted(m, t, r) = SaveConfiguration(m, t, r.prop)
        BY <3>1 DEF Persisted
      <4> QED BY <1>1, <1>3, <4>1, ConfigurationFields DEF HasPlan
    <3>2. CASE r.kind # "install"
      <4>1. /\ Persisted(m, t, r) = SaveAndMark(m, r.prop, conf)
            /\ CanSaveAndMark(m, r.vid, t, r.src, r.prop, conf)
        BY <1>9, <3>2 DEF Persisted, CanPersist
      <4>2. conf \in Contents \cup {None} /\ r.prop \in Contents
        BY <1>3 DEF Contents, HasPlan
      <4> HIDE DEF conf
      <4> QED BY <1>1, <4>1, <4>2, MarkFields
    <3> QED BY <3>1, <3>2
  <2> QED BY <1>6, <1>9, <2>1, <2>2
<1> QED BY <1>4, <1>5, <1>7, <1>8, <1>9

\* The steps that write the YAML or run a firmware job.
LEMMA RemoteShares ==
  ASSUME NEW t \in Txns, TypeOK, HInv, JInv,
         WriteUpdate(t) \/ RestoreUpdate(t) \/ CompileJob(t) \/ UploadJob(t)
  PROVE  Shares(t)
<1> DEFINE r == tx[t]
<1>1. store' = store
  BY DEF WriteUpdate, RestoreUpdate, CompileJob, UploadJob
<1>2. CASE WriteUpdate(t) \/ RestoreUpdate(t)
  <2>1. r.pc \in {"cw_update", "rs_update"} /\ fw' = fw
    BY <1>2 DEF WriteUpdate, RestoreUpdate, At
  <2>2. /\ Live(r) /\ r.lease /\ r.ota = "no" /\ ~r.restored /\ r \in Transaction
    BY <2>1, Leased DEF Unleased, Prepared, Restoring, JInv, Live
  <2>3. \/ Become(t, [Goto(t, "cw_validate") EXCEPT !.st = "written"])
        \/ Become(t, Goto(t, "cw_reconcile")) \/ Become(t, Goto(t, "rs_verify"))
        \/ Become(t, RetainWriteRecovery(r))
    BY <1>2 DEF WriteUpdate, RestoreUpdate
  <2>4. RetainWriteRecovery(r).pc = "idle" /\ ~RetainWriteRecovery(r).restored
    <3>1. ~r.rec
      BY <2>2 DEF Live, Good
    <3>2. RetainWriteRecovery(r)
            = [r EXCEPT !.pc = "idle", !.st = "failed", !.rb = TRUE, !.due = FALSE]
      BY <2>2, <3>1, Zenon DEF RetainWriteRecovery
    <3> QED BY <2>2, <3>2 DEF Transaction
  <2>5. /\ [Goto(t, "cw_validate") EXCEPT !.st = "written"].pc = "cw_validate"
        /\ ~[Goto(t, "cw_validate") EXCEPT !.st = "written"].restored
        /\ \A p \in Awaits : Goto(t, p).pc = p /\ ~Goto(t, p).restored
    BY <2>2 DEF Goto, Transaction
  <2>6. "cw_reconcile" \in Awaits /\ "rs_verify" \in Awaits
    BY DEF Awaits
  <2>7. ~tx'[t].restored /\ tx'[t].pc # "up_job"
    BY <2>3, <2>4, <2>5, <2>6, BecomeIs
  <2> QED BY <1>1, <2>1, <2>2, <2>7, KeptMeter
             DEF Shares, SharesCheckpoint, SharesRemote
<1>3. CASE CompileJob(t) \/ UploadJob(t)
  <2>1. builder' = builder
    BY <1>3 DEF CompileJob, UploadJob
  <2>2. fw' = fw \/ (r.pc = "up_job" /\ (UploadRebuilds => fw' = builder))
    <3>1. CompileJob(t) => fw' = fw
      BY DEF CompileJob
    <3>2. UploadJob(t) =>
            fw' = fw \/ (r.pc = "up_job" /\ (UploadRebuilds => fw' = builder))
      BY Zenon DEF UploadJob, At
    <3> QED BY <1>3, <3>1, <3>2
  <2> QED BY <1>1, <2>1, <2>2, KeptMeter DEF Shares, SharesCheckpoint, SharesRemote
<1> QED BY <1>2, <1>3

LEMMA TransactionShares ==
  ASSUME NEW t \in Txns, IInv, HInv, JInv, ByTransaction(t)
  PROVE  Shares(t)
<1>1. TypeOK /\ Planned /\ ObjectsShaped
  BY DEF IInv, JInv
<1>2. CASE \/ PreviewGainsRelease(t) \/ ConfirmWriteRelease(t) \/ WriteConflict(t)
           \/ RollbackRelease(t) \/ AbandonRelease(t) \/ ExpireRelease(t)
  <2>1. (\E ok \in BOOLEAN : ReleaseReservation(t, ok)) /\ UNCHANGED remote
    BY <1>2 DEF PreviewGainsRelease, ConfirmWriteRelease, WriteConflict,
                RollbackRelease, AbandonRelease, ExpireRelease
  <2> QED BY <1>1, <2>1, ReleaseShares
<1>3. CASE \/ RollbackClear(t) \/ InstallUndo(t) \/ TerminalFailure(t)
           \/ PersistClear(t) \/ AbandonClear(t)
           \/ InstallCheckpoint(t) \/ UploadSave(t)
  BY <1>1, <1>3, ClearSteps, SaveCheckpointSteps
<1>4. CASE \/ PreviewGainsClaim(t) \/ MetadataSave(t) \/ RevokeReceipt(t)
           \/ PersistSave(t)
  BY <1>1, <1>4, ClaimShares, RecordShares
<1>5. CASE \/ WriteUpdate(t) \/ RestoreUpdate(t) \/ CompileJob(t) \/ UploadJob(t)
  BY <1>1, <1>5, RemoteShares
<1>6. CASE \/ Preview(t) \/ PreviewGains(t) \/ PreviewGainsLock(t)
           \/ PreviewGainsRead(t) \/ ConfirmWrite(t) \/ ConfirmWriteLock(t)
           \/ ConfirmWriteRevalidate(t) \/ WriteGet(t) \/ Reconcile(t)
           \/ Validate(t) \/ Rollback(t) \/ RestoreGet(t) \/ RestoreAgain(t)
           \/ RestoreVerify(t)
  <2>1. store' = store /\ UNCHANGED remote
    BY <1>6, Zenon DEF Preview, PreviewGains, PreviewGainsLock, PreviewGainsRead,
       ConfirmWrite, ConfirmWriteLock, ConfirmWriteRevalidate, WriteGet,
       Reconcile, Validate, Rollback, RestoreGet, RestoreAgain, RestoreVerify
  <2> QED BY <2>1, QuietShares
<1>7. CASE \/ MetadataCheck(t) \/ CompileCheck(t) \/ CompileCheck2(t)
           \/ RetryCheck(t) \/ InstallCheck(t) \/ InstallCheck2(t)
           \/ PersistCheck(t) \/ AbandonCheck(t)
  <2>1. \A from, ok, lost : CheckSource(t, from, ok, lost) =>
          store' = store /\ UNCHANGED remote
    BY DEF CheckSource
  <2>2. store' = store /\ UNCHANGED remote
    BY <1>7, <2>1 DEF MetadataCheck, CompileCheck, CompileCheck2, RetryCheck,
       InstallCheck, InstallCheck2, PersistCheck, AbandonCheck
  <2> QED BY <2>2, QuietShares
<1>8. CASE \/ Compile(t) \/ ConfirmInstall(t) \/ AdoptSource(t)
           \/ VerifyReconnect(t) \/ Abandon(t) \/ Due(t) \/ Expire(t)
           \/ Recover(t) \/ RecoverLock(t) \/ RecoverGet(t)
  <2>1. store' = store /\ UNCHANGED remote
    BY <1>8, Zenon DEF Compile, ConfirmInstall, AdoptSource, VerifyReconnect,
       Abandon, Due, Expire, Recover, RecoverLock, RecoverGet
  <2> QED BY <2>1, QuietShares
<1> QED BY <1>2, <1>3, <1>4, <1>5, <1>6, <1>7, <1>8
           DEF ByTransaction, Operations, Acquires, Continues

-----------------------------------------------------------------------------
(* The invariants are kept.                                                *)

\* What the lease of t says of the others.
LEMMA OthersHold ==
  ASSUME IInv, NEW t \in Txns, NEW x \in Txns \ {t}, tx[x].lease
  PROVE  ~tx[t].lease
BY DEF IInv, ExclusiveLease, Holders

\* The awaits and flags that come with the lease.
LEMMA HoldsLease ==
  ASSUME HInv, JInv, NEW x \in Txns
  PROVE  /\ tx[x].pc \notin Unleased => tx[x].lease
         /\ tx[x].restored /\ tx[x].pc # "xr_release" => tx[x].lease
         /\ tx[x].pc \in {"up_job", "up_save", "ps_save", "ps_clear"} =>
              Ota(tx[x]) /\ tx[x].st \notin Unborn
         /\ tx[x].pc \in {"ci_check", "ci_save", "ci_check2"} =>
              tx[x].lease /\ tx[x].ota = "no" /\ tx[x].st \notin Unborn
<1>1. Good(tx[x]) /\ Shaped(tx[x])
  BY DEF HInv, JInv, ObjectsShaped
<1>2. tx[x].pc \in {"up_job", "up_save", "ps_save", "ps_clear"} =>
        Ota(tx[x]) /\ tx[x].st \notin Unborn
  BY <1>1 DEF Good, Placed, Ota, Uploading, Unleased, Unborn, Unwritten
<1>3. tx[x].pc \in {"ci_check", "ci_save", "ci_check2"} =>
        tx[x].lease /\ tx[x].ota = "no" /\ tx[x].st \notin Unborn
  BY <1>1 DEF Good, Placed, Prepared, Unleased, Unborn
<1> QED BY <1>1, <1>2, <1>3 DEF Good, Shaped

\* The transaction that steps, and the others.
LEMMA Stepping ==
  ASSUME TypeOK, NEW t \in Txns, Tracked(t)
  PROVE  /\ Tracks(t, tx'[t])
         /\ \A x \in Txns \ {t} : tx'[x] = tx[x]
BY DEF TypeOK, Tracked, Tracks

LEMMA CheckpointIs ==
  ASSUME NEW t, NEW r
  PROVE  /\ Checkpoint(t, r).txn = t /\ Checkpoint(t, r).prop = r.prop
         /\ Checkpoint(t, r).uploaded <=> r.ota = "uploaded"
BY DEF Checkpoint

LEMMA StepJInv ==
  ASSUME NEW t \in Txns, IInv, HInv, HInv', JInv, Tracked(t), Shares(t)
  PROVE  JInv'
<1> DEFINE r == tx[t]
           u == tx'[t]
<1>1. /\ Shaped(u) /\ (u.st \in Unborn => r.st \in Unborn)
      /\ TracksInstall(t, u) /\ TracksRollback(t, u)
      /\ \A x \in Txns \ {t} : tx'[x] = tx[x]
  BY Stepping DEF IInv, Tracks
<1>2. ObjectsShaped'
  BY <1>1 DEF JInv, ObjectsShaped, Shaped
<1>3. SavedIsThere'
  <2> SUFFICES ASSUME NEW x \in Txns, tx'[x].pc = "ps_clear"
               PROVE  store'.meter # None /\ store'.meter.hash = tx'[x].prop
    BY DEF SavedIsThere, At
  <2>1. CASE x = t
    BY <1>1, <2>1 DEF TracksInstall
  <2>2. CASE x # t
    <3>1. /\ tx[x].pc = "ps_clear" /\ store.meter # None
          /\ store.meter.hash = tx[x].prop /\ tx[x].lease
      BY <1>1, <2>2, HoldsLease DEF JInv, SavedIsThere, At, Ota
    <3> QED BY <1>1, <2>2, <3>1, OthersHold DEF Shares, SharesMeter
  <2> QED BY <2>1, <2>2
<1>4. CheckpointIsConfirmed'
  <2> SUFFICES ASSUME NEW x \in Txns, store'.ck # None, store'.ck.txn = x
               PROVE  tx'[x].st \notin Unborn
    BY DEF CheckpointIsConfirmed
  <2>1. tx[x].st \notin Unborn
    <3>1. CASE store'.ck = store.ck
      BY <3>1 DEF JInv, CheckpointIsConfirmed
    <3>2. CASE store'.ck = Checkpoint(t, r) /\ r.pc \in {"ci_save", "up_save"}
      BY <3>2, CheckpointIs, HoldsLease
    <3> QED BY <3>1, <3>2 DEF Shares, SharesCheckpoint
  <2> QED BY <1>1, <2>1
<1>5. ReservationIsKnown'
  <2> SUFFICES ASSUME NEW x \in Txns, ~tx'[x].rec, tx'[x].vid # None,
                      IsReserved(store'.meter, tx'[x].vid, x), ~tx'[x].resv
               PROVE  FALSE
    BY DEF ReservationIsKnown
  <2>1. IsReserved(store.meter, tx'[x].vid, x)
    BY DEF Shares, SharesMeter
  <2>2. CASE x # t
    BY <1>1, <2>1, <2>2 DEF JInv, ReservationIsKnown
  <2>3. CASE x = t
    <3>1. u.st # "none"
      <4>1. Entry(store'.meter).calib # None /\ store'.meter.calib.owner = t
        BY <2>3 DEF IsReserved, Identifies
      <4>2. Entry(store'.meter).calib # None =>
              \A y \in Txns : store'.meter.calib.owner = y => tx'[y].st # "none"
        BY DEF HInv, RecordOf
      <4> QED BY <4>1, <4>2
    <3>2. u.vid = r.vid /\ ~r.rec /\ ~r.resv
      BY <1>1, <2>3, <3>1 DEF TracksRollback
    <3> QED BY <2>1, <2>3, <3>2 DEF JInv, ReservationIsKnown
  <2> QED BY <2>2, <2>3
<1>6. RestoredStays'
  <2> SUFFICES ASSUME NEW x \in Txns, tx'[x].restored, tx'[x].pc # "xr_release"
               PROVE  builder' \in {tx'[x].src} \cup Edits
    BY DEF RestoredStays, Back
  <2>1. CASE x = t
    BY <1>1, <2>1 DEF TracksRollback, Back, Shares, SharesRemote
  <2>2. CASE x # t
    <3>1. tx[x].lease /\ builder \in {tx[x].src} \cup Edits
      BY <1>1, <2>2, HoldsLease DEF JInv, RestoredStays, Back
    <3>2. builder' = builder
      BY <2>2, <3>1, OthersHold DEF Shares, SharesRemote
    <3> QED BY <1>1, <2>2, <3>1, <3>2
  <2> QED BY <2>1, <2>2
<1> QED BY <1>2, <1>3, <1>4, <1>5, <1>6 DEF JInv

\* The calibration engine works on a meter without transactions at work, and
\* keeps what the record says of the YAML and of reservations.
LEMMA CalibrationShares ==
  ASSUME IInv, Calibration
  PROVE  /\ tx' = tx /\ UNCHANGED remote /\ store'.ck = store.ck
         /\ \A x \in Txns : ~tx[x].lease
         /\ \A v : \A x \in Txns :
              IsReserved(store'.meter, v, x) => IsReserved(store.meter, v, x)
         /\ Installed(store'.meter) =>
              Installed(store.meter) /\ store'.meter.hash = store.meter.hash
<1> DEFINE m == store.meter
           n == store'.meter
<1>1. TypeOK /\ m \in Meters \cup {None} /\ Entry(m) \in Meters
  <2>1. TypeOK /\ m \in Meters \cup {None}
    BY DEF IInv, TypeOK, Stores
  <2> QED BY <2>1, EntryType
<1>2. tx' = tx /\ UNCHANGED remote
  BY DEF Calibration, BeginCalibration, EndCalibration, FinalizeCalibration,
         ClearFlash
<1>3. \A x \in Txns : ~tx[x].lease
  <2>1. ~locked \/ cal
    BY DEF Calibration, BeginCalibration, EndCalibration, FinalizeCalibration,
           ClearFlash
  <2> QED BY <2>1 DEF IInv, ExclusiveLease, Holders
<1>4. \A k : SaveMeter(k, TRUE) => n = k /\ store'.ck = store.ck
  BY <1>1, MeterSaved
<1>5. ASSUME NEW c, n \in Meters, n.calib = c, n.hash = Entry(m).hash,
             \/ c # None /\ ~c.inst /\ c.owner = None
             \/ /\ c # None <=> Entry(m).calib # None
                /\ c # None =>
                     /\ c.inst = m.calib.inst /\ c.vid = m.calib.vid
                     /\ c.avail = m.calib.avail /\ c.owner = m.calib.owner
                     /\ c.offsets = m.calib.offsets
      PROVE  /\ \A v : \A x \in Txns : IsReserved(n, v, x) => IsReserved(m, v, x)
             /\ Installed(n) => Installed(m) /\ n.hash = m.hash
  <2>1. /\ Installed(n) <=> c # None /\ c.inst
        /\ \A v, x : IsReserved(n, v, x) <=>
             /\ c # None /\ c.vid = v /\ ~c.avail /\ ~c.offsets /\ c.owner = x
    BY <1>5, EntryFields
  <2>2. Entry(m).calib # None => Entry(m) = m
    BY DEF Entry, NoMeter
  <2>3. \A x \in Txns : x # None
    BY NoneIsFresh
  <2> QED BY <1>5, <2>1, <2>2, <2>3 DEF Installed, IsReserved, Identifies
<1>6. CASE BeginCalibration \/ EndCalibration
  <2>1. PICK marked \in BOOLEAN : SaveMeter(SaveMarker(m, marked), TRUE)
    BY <1>6 DEF BeginCalibration, EndCalibration
  <2>2. n = SaveMarker(m, marked) /\ store'.ck = store.ck
    BY <1>4, <2>1
  <2>3. n \in Meters /\ n.calib = Entry(m).calib /\ n.hash = Entry(m).hash
    BY <1>1, <2>2, SaveMarkerType DEF SaveMarker, Meters
  <2>4. Entry(m).calib # None => m.calib = Entry(m).calib
    BY DEF Entry, NoMeter
  <2> QED BY <1>2, <1>3, <1>5, <2>2, <2>3, <2>4
<1>7. CASE FinalizeCalibration
  <2>1. PICK v \in Vids, offsets \in BOOLEAN :
          SaveMeter(Finalize(m, v, builder, offsets), TRUE)
    BY <1>7, Zenon DEF FinalizeCalibration
  <2>2. n = Finalize(m, v, builder, offsets) /\ store'.ck = store.ck
    BY <1>4, <2>1
  <2> DEFINE b == builder # None /\ ~offsets
             c == [vid |-> v, src |-> builder, offsets |-> offsets, owner |-> None,
                   avail |-> b, inst |-> FALSE, yaml |-> FALSE]
  <2>3. n = [Entry(m) EXCEPT !.mark = "null", !.calib = c]
    BY <2>2, Zenon DEF Finalize
  <2>4. builder \in Contents \cup {None}
    BY <1>1 DEF TypeOK
  <2>5. n \in Meters
    BY <1>1, <2>2, <2>4, FinalizeType
  <2>6. b \in BOOLEAN
    OBVIOUS
  <2> HIDE DEF b
  <2>7. ~c.inst /\ c.owner = None /\ c \in Calibrations
    <3>1. c \in Calibrations
      BY <2>4, <2>6, Zenon DEF Calibrations
    <3> QED BY <3>1
  <2> HIDE DEF c
  <2>8. n.calib = c /\ n.hash = Entry(m).hash
    BY <1>1, <2>3 DEF Meters
  <2>9. c # None
    BY <2>7, NoneIsNoRecord
  <2> QED BY <1>2, <1>3, <1>5, <2>2, <2>5, <2>7, <2>8, <2>9
<1>8. CASE ClearFlash
  <2>1. PICK v \in Vids, t \in Txns :
          CanComplete(m, v, t) /\ SaveMeter(Complete(m), TRUE)
    BY <1>8, Zenon DEF ClearFlash
  <2>2. n = Complete(m) /\ store'.ck = store.ck
    BY <1>4, <2>1
  <2> DEFINE c == [m.calib EXCEPT !.yaml = TRUE]
  <2>3. m \in Meters /\ m.calib \in Calibrations /\ Entry(m).calib # None
    BY <1>1, <2>1, IdentifiedType DEF CanComplete, IsReserved, Identifies
  <2>4. n = [m EXCEPT !.calib = c]
    BY <2>2, <2>3 DEF Complete, Meters
  <2>5. n \in Meters
    BY <1>1, <2>1, <2>2, CompleteType
  <2>6. /\ c \in Calibrations /\ c.inst = m.calib.inst /\ c.vid = m.calib.vid
        /\ c.avail = m.calib.avail /\ c.owner = m.calib.owner
        /\ c.offsets = m.calib.offsets
    BY <2>3 DEF Calibrations
  <2> HIDE DEF c
  <2>7. n.calib = c /\ n.hash = m.hash /\ Entry(m) = m /\ c # None
    <3>1. n.calib = c /\ n.hash = m.hash
      BY <2>3, <2>4 DEF Meters
    <3> QED BY <2>3, <2>6, <3>1, NoneIsNoRecord DEF Entry
  <2> QED BY <1>2, <1>3, <1>5, <2>2, <2>3, <2>5, <2>6, <2>7
<1> QED BY <1>6, <1>7, <1>8 DEF Calibration

LEMMA CalibrationJInv ==
  ASSUME IInv, HInv, JInv, Calibration
  PROVE  JInv'
<1>1. /\ tx' = tx /\ UNCHANGED remote /\ store'.ck = store.ck
      /\ \A x \in Txns : ~tx[x].lease
      /\ \A v : \A x \in Txns :
           IsReserved(store'.meter, v, x) => IsReserved(store.meter, v, x)
  BY CalibrationShares
<1>2. \A x \in Txns : tx[x].pc # "ps_clear"
  BY <1>1, HoldsLease DEF Ota
<1>3. SavedIsThere'
  BY <1>1, <1>2 DEF SavedIsThere, At
<1>4. ReservationIsKnown'
  BY <1>1 DEF JInv, ReservationIsKnown
<1> QED BY <1>1, <1>3, <1>4
        DEF JInv, ObjectsShaped, CheckpointIsConfirmed, RestoredStays, Back, remote

LEMMA CrashedObjects ==
  ASSUME Crash
  PROVE  /\ store' = store /\ UNCHANGED remote
         /\ \A t \in Txns :
              /\ tx'[t] = IF tx[t] = Blank THEN Blank ELSE Finish("lost")
              /\ Shaped(tx'[t]) /\ ~Ota(tx'[t]) /\ tx'[t].pc = "idle"
              /\ tx'[t].vid = None /\ ~tx'[t].restored
              /\ tx'[t].st = IF tx[t] = Blank THEN "none" ELSE "lost"
<1>1. store' = store /\ UNCHANGED remote
  BY DEF Crash
<1>2. \A t \in Txns : tx'[t] = IF tx[t] = Blank THEN Blank ELSE Finish("lost")
  BY DEF Crash
<1>3. \A u \in {Blank, Finish("lost")} :
        /\ Shaped(u) /\ ~Ota(u) /\ u.pc = "idle" /\ u.vid = None /\ ~u.restored
  BY DEF Blank, Finish, Shaped, Ota, Acked, Resumed
<1>4. Blank.st = "none" /\ Finish("lost").st = "lost"
  BY DEF Blank, Finish
<1> QED BY <1>1, <1>2, <1>3, <1>4

LEMMA CrashJInv ==
  ASSUME JInv, Crash
  PROVE  JInv'
<1>1. ObjectsShaped'
  BY CrashedObjects DEF ObjectsShaped, Shaped
<1>2. SavedIsThere' /\ ReservationIsKnown' /\ RestoredStays'
  BY CrashedObjects DEF SavedIsThere, At, ReservationIsKnown, RestoredStays
<1>3. CheckpointIsConfirmed'
  <2>1. \A t \in Txns : tx[t].st \notin Unborn => tx'[t].st \notin Unborn
    BY CrashedObjects DEF Unborn, Blank
  <2> QED BY <2>1, CrashedObjects DEF JInv, CheckpointIsConfirmed
<1> QED BY <1>1, <1>2, <1>3 DEF JInv

LEMMA NextJInv ==
  ASSUME IInv, HInv, HInv', JInv, [Next]_vars
  PROVE  JInv'
<1>1. CASE \E t \in Txns : ByTransaction(t)
  BY <1>1, TransactionTracked, TransactionShares, StepJInv
<1>2. CASE Calibration
  BY <1>2, CalibrationJInv
<1>3. CASE Crash
  BY <1>3, CrashJInv
<1>4. CASE EditYaml
  BY <1>4 DEF EditYaml, JInv, ObjectsShaped, SavedIsThere, At,
     CheckpointIsConfirmed, ReservationIsKnown, RestoredStays, Back
<1>5. CASE UNCHANGED vars
  BY <1>5 DEF vars, JInv, ObjectsShaped, SavedIsThere, At,
     CheckpointIsConfirmed, ReservationIsKnown, RestoredStays, Back
<1> QED BY <1>1, <1>2, <1>3, <1>4, <1>5 DEF Next, ByTransaction

LEMMA InitJInv == Init => JInv
<1> SUFFICES ASSUME Init PROVE JInv
  OBVIOUS
<1>1. \A t \in Txns : tx[t] = Blank
  BY Zenon DEF Init
<1>2. store.ck = None
  <2>1. store \in [meter : InitialMeters, ck : {None}]
    BY Zenon DEF Init
  <2> QED BY <2>1
<1>3. /\ Shaped(Blank) /\ Blank.pc = "idle" /\ Blank.vid = None
      /\ ~Blank.restored
  BY DEF Blank, Shaped, Acked, Resumed
<1> QED BY <1>1, <1>2, <1>3
        DEF JInv, ObjectsShaped, SavedIsThere, At, CheckpointIsConfirmed,
            ReservationIsKnown, RestoredStays

-----------------------------------------------------------------------------
(* Saves that are what their read-back says: the OTA is named on disk.     *)

LEMMA CheckpointThere ==
  ASSUME NEW t \in Txns, NEW r \in Transaction, HasPlan(r)
  PROVE  Checkpoint(t, r) # None
BY CheckpointType, NoneIsNoRecord

LEMMA StepKInv ==
  ASSUME NEW t \in Txns, "unacked" \notin Faults, IInv, IInv', HInv, JInv, KInv,
         Tracked(t), Shares(t)
  PROVE  KInv'
<1> DEFINE r == tx[t]
           u == tx'[t]
<1>1. /\ TracksInstall(t, u) /\ \A x \in Txns \ {t} : tx'[x] = tx[x]
  BY Stepping DEF IInv, Tracks
<1>2. \A x \in Txns \ {t} : tx[x].lease => store'.ck = store.ck
  BY OthersHold DEF Shares, SharesCheckpoint
<1>3. /\ r \in Transaction /\ u \in Transaction
      /\ Working(r) => HasPlan(r)
      /\ Working(u) => HasPlan(u)
  BY DEF IInv, TypeOK, Planned
<1>4. ASSUME NEW x \in Txns, Ota(tx'[x])
      PROVE  /\ store'.ck # None /\ store'.ck.txn = x
             /\ store'.ck.prop = tx'[x].prop
             /\ store'.ck.uploaded => tx'[x].ota = "uploaded"
  <2>1. CASE x # t
    <3>1. tx'[x] = tx[x] /\ store'.ck = store.ck
      BY <1>1, <1>2, <1>4, <2>1 DEF Ota
    <3> QED BY <1>4, <3>1 DEF KInv, OtaIsNamed, Names
  <2>2. CASE x = t
    <3>1. u.prop = r.prop /\ OtaFrom(t, u)
      BY <1>1, <1>4, <2>2 DEF TracksInstall
    <3>2. CASE store'.ck = store.ck
      <4>1. CASE Ota(r) /\ u.ota = r.ota
        BY <2>2, <3>1, <3>2, <4>1 DEF KInv, OtaIsNamed, Names
      <4>2. CASE r.pc = "ci_check2" /\ u.ota = "attempted"
        BY <2>2, <3>1, <3>2, <4>2 DEF KInv, CheckedIsNamed, At, Names
      <4>3. CASE r.pc = "up_job" /\ u.ota = "uploaded"
        <5>1. Ota(r)
          BY <4>3, HoldsLease
        <5> QED BY <2>2, <3>1, <3>2, <4>3, <5>1 DEF KInv, OtaIsNamed, Names
      <4>4. CASE u.open /\ store.ck = Checkpoint(t, u) /\ UNCHANGED <<store, fw>>
        <5>1. Working(u)
          BY <4>4 DEF Working
        <5>2. Checkpoint(t, u) # None
          BY <1>3, <5>1, CheckpointThere
        <5> QED BY <2>2, <4>4, <5>2, CheckpointIs
      <4> QED BY <3>1, <4>1, <4>2, <4>3, <4>4 DEF OtaFrom
    <3>3. CASE /\ store'.ck = Checkpoint(t, r) /\ store'.ck # store.ck
               /\ r.pc \in {"ci_save", "up_save"}
      <4>1. Checkpoint(t, r) # None
        BY <1>3, <3>3, CheckpointThere DEF Working
      <4>2. Ota(r) /\ u.ota = r.ota
        BY <3>1, <3>3 DEF OtaFrom
      <4> QED BY <2>2, <3>1, <3>3, <4>1, <4>2, CheckpointIs
    <3>4. CASE store'.ck = None /\ ~Ota(u)
      BY <1>4, <2>2, <3>4
    <3> QED BY <3>2, <3>3, <3>4 DEF Shares, SharesCheckpoint
  <2> QED BY <2>1, <2>2
<1>5. ASSUME NEW x \in Txns, tx'[x].pc = "ci_check2"
      PROVE  /\ store'.ck # None /\ store'.ck.txn = x
             /\ store'.ck.prop = tx'[x].prop /\ ~store'.ck.uploaded
  <2>1. CASE x # t
    <3>1. tx'[x] = tx[x] /\ tx[x].lease
      BY <1>1, <1>5, <2>1, HoldsLease
    <3>2. store'.ck = store.ck
      BY <1>2, <2>1, <3>1
    <3> QED BY <1>5, <3>1, <3>2 DEF KInv, CheckedIsNamed, At, Names
  <2>2. CASE x = t
    <3>1. /\ store'.ck = Checkpoint(t, r) /\ u.prop = r.prop /\ r.ota = "no"
          /\ r.pc \in {"ci_check", "ci_save"}
      BY <1>1, <1>5, <2>2 DEF TracksInstall
    <3>2. Checkpoint(t, r) # None
      BY <1>3, <3>1, CheckpointThere DEF Working
    <3> QED BY <2>2, <3>1, <3>2, CheckpointIs
  <2> QED BY <2>1, <2>2
<1> QED BY <1>4, <1>5 DEF KInv, OtaIsNamed, CheckedIsNamed, Names, At

LEMMA OthersKInv ==
  ASSUME IInv, HInv, JInv, KInv, Calibration \/ Crash \/ EditYaml \/ UNCHANGED vars
  PROVE  KInv'
<1>1. CASE Calibration
  <2>1. tx' = tx /\ \A x \in Txns : ~tx[x].lease
    BY <1>1, CalibrationShares
  <2>2. \A x \in Txns : tx[x].pc # "ci_check2"
    BY <2>1, HoldsLease
  <2> QED BY <2>1, <2>2 DEF KInv, OtaIsNamed, CheckedIsNamed, Ota, At
<1>2. CASE Crash
  BY <1>2, CrashedObjects DEF KInv, OtaIsNamed, CheckedIsNamed, Ota, At
<1>3. CASE EditYaml \/ UNCHANGED vars
  <2>1. tx' = tx /\ store' = store
    BY <1>3 DEF EditYaml, vars
  <2> QED BY <2>1 DEF KInv, OtaIsNamed, CheckedIsNamed, Ota, At, Names
<1> QED BY <1>1, <1>2, <1>3

LEMMA NextKInv ==
  ASSUME "unacked" \notin Faults, IInv, IInv', HInv, JInv, KInv, [Next]_vars
  PROVE  KInv'
<1>1. CASE \E t \in Txns : ByTransaction(t)
  BY <1>1, TransactionTracked, TransactionShares, StepKInv
<1> QED BY <1>1, OthersKInv DEF Next, ByTransaction

LEMMA InitKInv == Init => KInv
<1>1. Init => \A t \in Txns : tx[t] = Blank
  BY Zenon DEF Init
<1>2. ~Ota(Blank) /\ Blank.pc # "ci_check2"
  BY DEF Blank, Ota
<1> QED BY <1>1, <1>2 DEF KInv, OtaIsNamed, CheckedIsNamed, At

LEMMA NamedIsRecoverable ==
  ASSUME HInv, JInv, KInv
  PROVE  OtaIsRecoverable
<1> SUFFICES ASSUME NEW t \in Txns, tx[t].pc = "up_job"
             PROVE  store.ck # None /\ store.ck.txn = t /\ ~store.ck.uploaded
  BY DEF OtaIsRecoverable, At
<1>1. Ota(tx[t]) /\ tx[t].ota = "attempted"
  BY HoldsLease DEF JInv, ObjectsShaped, Shaped
<1> QED BY <1>1 DEF KInv, OtaIsNamed, Names

-----------------------------------------------------------------------------
(* Receipts, checkpoints and the transaction whose OTA was attempted.      *)

\* Where an installed record of the next state comes from, if t steps.
LEMMA InstalledFrom ==
  ASSUME NEW t \in Txns, Shares(t), Installed(store'.meter)
  PROVE  \/ Installed(store.meter) /\ store'.meter.hash = store.meter.hash
         \/ tx[t].pc = "ps_save" /\ store'.meter.hash = tx[t].prop
BY DEF Shares, SharesMeter

LEMMA StepFInv ==
  ASSUME NEW t \in Txns, IInv, IInv', HInv, JInv, FInv, Tracked(t), Shares(t)
  PROVE  FInv'
<1> DEFINE r == tx[t]
           u == tx'[t]
<1>1. /\ TracksInstall(t, u) /\ \A x \in Txns \ {t} : tx'[x] = tx[x]
  BY Stepping DEF IInv, Tracks
<1>2. \A x \in Txns \ {t} : tx[x].lease => ~r.lease /\ store'.ck = store.ck
  BY OthersHold DEF Shares, SharesCheckpoint
<1>3. /\ Shaped(r)
      /\ r.pc \in {"up_job", "up_save", "ps_save"} => Ota(r)
      /\ r.pc = "ci_save" => ~Ota(r)
  BY HoldsLease DEF JInv, ObjectsShaped, Shaped, Acked, Ota
<1>4. /\ Ota(r) =>
           /\ store.ck # None => store.ck.prop = r.prop
           /\ Installed(store.meter) => store.meter.hash = r.prop
      /\ r.pc = "ci_check2" /\ store.ck # None => store.ck.prop = r.prop
      /\ store.ck # None /\ Installed(store.meter) => store.meter.hash = store.ck.prop
      /\ r.pc \in {"ci_check", "ci_save", "ci_check2"} => ~Installed(store.meter)
  BY DEF FInv, CheckpointIsOwn, ReceiptIsOwn, ReceiptIsCheckpoint,
         ReceiptIsRevoked, At
<1>5. \/ store'.ck = store.ck
      \/ store'.ck = None
      \/ store'.ck = Checkpoint(t, r) /\ r.pc \in {"ci_save", "up_save"}
  BY DEF Shares, SharesCheckpoint
<1>6. Checkpoint(t, r).prop = r.prop
  BY CheckpointIs
<1>7. ReceiptIsCheckpoint'
  <2> SUFFICES ASSUME store'.ck # None, Installed(store'.meter)
               PROVE  store'.meter.hash = store'.ck.prop
    BY DEF ReceiptIsCheckpoint
  <2>1. CASE store'.ck = store.ck
    BY <1>3, <1>4, <2>1, InstalledFrom
  <2>2. CASE store'.ck = Checkpoint(t, r) /\ r.pc \in {"ci_save", "up_save"}
    <3>1. Installed(store.meter) /\ store'.meter.hash = store.meter.hash
      BY <2>2, InstalledFrom
    <3> QED BY <1>3, <1>4, <1>6, <2>2, <3>1
  <2> QED BY <1>5, <2>1, <2>2
<1>8. ReceiptIsRevoked'
  <2> SUFFICES ASSUME NEW x \in Txns, Installed(store'.meter),
                      tx'[x].pc \in {"ci_check", "ci_save", "ci_check2"}
               PROVE  FALSE
    BY DEF ReceiptIsRevoked
  <2>1. CASE x # t
    <3>1. tx[x].lease /\ ~Installed(store.meter)
      BY <1>1, <2>1, HoldsLease DEF FInv, ReceiptIsRevoked
    <3>2. r.pc # "ps_save"
      BY <1>2, <1>3, <2>1, <3>1 DEF Ota
    <3> QED BY <3>1, <3>2, InstalledFrom
  <2>2. CASE x = t
    <3>1. CASE u.pc = "ci_check"
      BY <1>1, <3>1 DEF TracksInstall
    <3>2. CASE u.pc \in {"ci_save", "ci_check2"}
      <4>1. r.pc \in {"ci_check", "ci_save"}
        BY <1>1, <3>2 DEF TracksInstall
      <4> QED BY <1>4, <4>1, InstalledFrom
    <3> QED BY <2>2, <3>1, <3>2
  <2> QED BY <2>1, <2>2
<1>9. ASSUME NEW x \in Txns, x # t, Ota(tx'[x]) \/ tx'[x].pc = "ci_check2"
      PROVE  /\ store'.ck # None => store'.ck.prop = tx'[x].prop
             /\ Ota(tx'[x]) /\ Installed(store'.meter) =>
                  store'.meter.hash = tx'[x].prop
  <2>1. tx'[x] = tx[x] /\ tx[x].lease
    BY <1>1, <1>9, HoldsLease DEF Ota
  <2>2. store'.ck = store.ck /\ r.pc # "ps_save"
    BY <1>2, <1>3, <1>9, <2>1 DEF Ota
  <2> QED BY <1>9, <2>1, <2>2, InstalledFrom
          DEF FInv, CheckpointIsOwn, ReceiptIsOwn, At
<1>10. ASSUME Ota(u)
       PROVE  /\ store'.ck # None => store'.ck.prop = u.prop
              /\ Installed(store'.meter) => store'.meter.hash = u.prop
  <2>1. u.prop = r.prop /\ OtaFrom(t, u)
    BY <1>1, <1>10 DEF TracksInstall
  <2>2. CASE Ota(r) \/ r.pc = "ci_check2"
    BY <1>4, <1>5, <1>6, <2>1, <2>2, InstalledFrom
  <2>3. CASE u.open /\ store.ck = Checkpoint(t, u) /\ UNCHANGED <<store, fw>>
    <3>1. Checkpoint(t, u) # None
      <4>1. u \in Transaction /\ (Working(u) => HasPlan(u))
        BY DEF IInv, TypeOK, Planned
      <4> QED BY <2>3, <4>1, CheckpointThere DEF Working
    <3> QED BY <1>4, <2>3, <3>1, CheckpointIs
  <2> QED BY <1>3, <2>1, <2>2, <2>3 DEF OtaFrom
<1>11. u.pc = "ci_check2" /\ store'.ck # None => store'.ck.prop = u.prop
  BY <1>1, <1>6 DEF TracksInstall
<1>12. CheckpointIsOwn' /\ ReceiptIsOwn'
  BY <1>9, <1>10, <1>11 DEF CheckpointIsOwn, ReceiptIsOwn, At
<1> QED BY <1>7, <1>8, <1>12 DEF FInv

LEMMA OthersFInv ==
  ASSUME IInv, HInv, JInv, FInv, Calibration \/ Crash \/ EditYaml \/ UNCHANGED vars
  PROVE  FInv'
<1> USE DEF FInv, ReceiptIsCheckpoint, ReceiptIsRevoked, CheckpointIsOwn, ReceiptIsOwn
<1>1. CASE Calibration
  <2>1. /\ tx' = tx /\ store'.ck = store.ck
        /\ \A x \in Txns : ~tx[x].lease
        /\ Installed(store'.meter) =>
              Installed(store.meter) /\ store'.meter.hash = store.meter.hash
    BY <1>1, CalibrationShares
  <2>2. \A x \in Txns :
          ~Ota(tx[x]) /\ tx[x].pc \notin {"ci_check", "ci_save", "ci_check2"}
    BY <2>1, HoldsLease DEF Ota
  <2> QED BY <2>1, <2>2 DEF At
<1>2. CASE Crash
  BY <1>2, CrashedObjects DEF At, Ota
<1>3. CASE EditYaml \/ UNCHANGED vars
  <2>1. tx' = tx /\ store' = store
    BY <1>3 DEF EditYaml, vars
  <2> QED BY <2>1 DEF At
<1> QED BY <1>1, <1>2, <1>3

LEMMA NextFInv ==
  ASSUME IInv, IInv', HInv, JInv, FInv, [Next]_vars
  PROVE  FInv'
<1>1. CASE \E t \in Txns : ByTransaction(t)
  BY <1>1, TransactionTracked, TransactionShares, StepFInv
<1> QED BY <1>1, OthersFInv DEF Next, ByTransaction

\* There is no checkpoint and no transaction when the helper starts.
LEMMA InitFInv == Init => FInv
<1> SUFFICES ASSUME Init PROVE FInv
  OBVIOUS
<1>1. \A t \in Txns : tx[t] = Blank
  BY Zenon DEF Init
<1>2. store.ck = None
  <2>1. store \in [meter : InitialMeters, ck : {None}]
    BY Zenon DEF Init
  <2> QED BY <2>1
<1>3. ~Ota(Blank) /\ Blank.pc = "idle"
  BY DEF Blank, Ota
<1> QED BY <1>1, <1>2, <1>3
        DEF FInv, ReceiptIsCheckpoint, ReceiptIsRevoked, CheckpointIsOwn,
            ReceiptIsOwn, At

LEMMA OwnReceiptStands ==
  ASSUME HInv, JInv, FInv
  PROVE  UploadRevokesReceipt
<1> SUFFICES ASSUME NEW t \in Txns, tx[t].pc = "up_job", Installed(store.meter)
             PROVE  store.meter.hash = tx[t].prop
  BY DEF UploadRevokesReceipt, At
<1>1. Ota(tx[t])
  BY HoldsLease DEF JInv, ObjectsShaped, Shaped, Ota
<1> QED BY <1>1 DEF FInv, ReceiptIsOwn

-----------------------------------------------------------------------------
(* The theorems.                                                           *)

Inv == IInv /\ HInv /\ JInv

LEMMA InitInv == Init => Inv
BY InitIInv, InitHInv, InitJInv DEF Inv

LEMMA NextInv == Inv /\ [Next]_vars => Inv'
<1> SUFFICES ASSUME Inv, [Next]_vars PROVE Inv'
  OBVIOUS
<1>1. IInv' /\ HInv'
  BY NextIInv, NextHands DEF Inv, Hands
<1>2. JInv'
  BY <1>1, NextJInv DEF Inv
<1> QED BY <1>1, <1>2 DEF Inv

\* Firmware is uploaded only while the disk names the transaction, and not as
\* acknowledged, whatever else fails: async_confirm_install saves and reads
\* back the checkpoint before the upload, and nothing clears it before the
\* transaction gives the OTA up. A save that is reported failed has not
\* changed the disk ("unacked" not in Faults): when a clear is reported failed
\* and yet took effect, the install that is kept uploads without a checkpoint.
THEOREM InterruptedOtaIsFound ==
  ASSUME "unacked" \notin Faults
  PROVE  Spec => []OtaIsRecoverable
<1>1. Init => Inv /\ KInv
  BY InitInv, InitKInv
<1>2. Inv /\ KInv /\ [Next]_vars => (Inv /\ KInv)'
  <2> SUFFICES ASSUME Inv, KInv, [Next]_vars PROVE Inv' /\ KInv'
    OBVIOUS
  <2>1. Inv'
    BY NextInv
  <2> QED BY <2>1, NextKInv DEF Inv
<1>3. Inv /\ KInv => OtaIsRecoverable
  BY NamedIsRecoverable DEF Inv
<1> QED BY <1>1, <1>2, <1>3, PTL DEF Spec

\* What a step can make of the state of a transaction.
LEMMA Outcomes ==
  ASSUME Inv, [Next]_vars, NEW t \in Txns
  PROVE  /\ Turns(t, "verified") => Recorded(t)
         /\ Turns(t, "rolled_back") =>
              Back(tx[t]) /\ ~IsReserved(store'.meter, tx[t].vid, t)
<1>1. ASSUME NEW x \in Txns, ByTransaction(x)
      PROVE  /\ Turns(t, "verified") => Recorded(t)
             /\ Turns(t, "rolled_back") =>
                  Back(tx[t]) /\ ~IsReserved(store'.meter, tx[t].vid, t)
  <2>1. /\ Tracks(x, tx'[x])
        /\ \A y \in Txns \ {x} : tx'[y] = tx[y]
    BY <1>1, TransactionTracked, Stepping DEF Inv, IInv
  <2>2. CASE t # x
    BY <2>1, <2>2 DEF Turns
  <2>3. CASE t = x
    BY <2>1, <2>3 DEF Turns, Tracks, TracksRollback
  <2> QED BY <2>2, <2>3
<1>2. CASE Calibration \/ EditYaml \/ UNCHANGED vars
  <2>1. tx' = tx
    BY <1>2, CalibrationShares DEF Inv, EditYaml, vars
  <2> QED BY <2>1 DEF Turns
<1>3. CASE Crash
  BY <1>3, CrashedObjects DEF Turns
<1> QED BY <1>1, <1>2, <1>3 DEF Next, ByTransaction

\* A transaction ends verified only once the durable record holds what it
\* proposed and its checkpoint is gone, whatever fails and whoever edits
\* (_persist_configuration_metadata, _persist_and_finish).
THEOREM VerifiedTransactionsAreRecorded == Spec => VerifiedIsRecorded
<1>1. Inv /\ [Next]_vars =>
        [\A t \in Txns : Turns(t, "verified") =>
           /\ store'.meter # None /\ store'.meter.hash = tx[t].prop
           /\ store'.ck # None => store'.ck.txn # t]_vars
  BY Outcomes DEF Recorded
<1> QED BY <1>1, InitInv, NextInv, PTL DEF Spec, VerifiedIsRecorded

\* Only a transaction with the lease, whose OTA was not attempted, writes YAML.
LEMMA OnlyPriorWrites ==
  ASSUME Inv, [Next]_vars, builder' # builder, builder' \notin Edits
  PROVE  \A t \in Holders : tx[t].ota = "no"
<1>1. ASSUME NEW x \in Txns, ByTransaction(x)
      PROVE  \A t \in Holders : tx[t].ota = "no"
  <2>1. tx[x].lease /\ tx[x].ota = "no"
    BY <1>1, TransactionShares DEF Inv, Shares, SharesRemote
  <2> QED BY <2>1, OthersHold DEF Holders, Inv
<1>2. CASE Calibration
  BY <1>2, CalibrationShares DEF Inv, remote
<1>3. CASE Crash
  BY <1>3, CrashedObjects DEF remote
<1>4. CASE EditYaml \/ UNCHANGED vars
  BY <1>4 DEF EditYaml, vars, remote
<1> QED BY <1>1, <1>2, <1>3, <1>4 DEF Next, ByTransaction

\* A rollback ends only with the prior YAML in place (or an edit made since)
\* and without the reservation, and the manager never replaces the YAML under
\* an attempted OTA, whatever fails (_rollback_locked to _finish_rollback,
\* store.py release).
THEOREM RollbacksRestore == Spec => RollbackRestores
<1>1. Inv /\ [Next]_vars =>
        [/\ \A t \in Txns : Turns(t, "rolled_back") =>
              /\ builder \in {tx[t].src} \cup Edits
              /\ ~IsReserved(store'.meter, tx[t].vid, t)
         /\ builder' # builder /\ builder' \notin Edits =>
              \A t \in Holders : tx[t].ota = "no"]_vars
  BY Outcomes, OnlyPriorWrites DEF Back
<1> QED BY <1>1, InitInv, NextInv, PTL DEF Spec, RollbackRestores

\* While firmware is uploaded no receipt of other firmware stands, whatever
\* fails, restarts or is edited meanwhile: _confirm_install_locked revokes the
\* receipt before the checkpoint is written, and what a recovery resumes from a
\* checkpoint is what the receipt that was saved with it says.
THEOREM UploadsRevokeReceipts == Spec => []UploadRevokesReceipt
<1>1. Init => Inv /\ FInv
  BY InitInv, InitFInv
<1>2. Inv /\ FInv /\ [Next]_vars => (Inv /\ FInv)'
  <2> SUFFICES ASSUME Inv, FInv, [Next]_vars PROVE Inv' /\ FInv'
    OBVIOUS
  <2>1. Inv'
    BY NextInv
  <2> QED BY <2>1, NextFInv DEF Inv
<1>3. Inv /\ FInv => UploadRevokesReceipt
  BY OwnReceiptStands DEF Inv
<1> QED BY <1>1, <1>2, <1>3, PTL DEF Spec

-----------------------------------------------------------------------------
(* No transaction closes over its own uncompiled write.  A content is that *)
(* of the transaction which proposed it, so that what has to be shown is   *)
(* where the content of t may be: nowhere before t is previewed, and not on*)
(* Device Builder while t is open without a write.                         *)

\* Awaits of an install before its OTA, the YAML being compiled.
Firm == {"ci_revoke", "ci_check", "ci_save", "ci_undo", "ci_check2"}

\* An open transaction that has not written, or not yet.
Unapplied(r) == r.open /\ (~r.ws \/ r.pc = "cw_get")

\* A rollback restores a write, and an install is of a compiled one.
Steady(r) ==
  /\ r.pc \in Restoring \/ (r.rb /\ ~r.restored) => r.ws
  /\ r.ota # "no" \/ r.pc \in Firm => r.st \in CompiledStates

\* Nothing refers to a transaction before it is previewed.
UnbornIsUnknown ==
  \A t \in Txns : tx[t].st \in Unborn =>
    /\ builder # t
    /\ store.ck # None => store.ck.src # t /\ store.ck.prop # t
    /\ \A u \in Txns \ {t} : tx[u].src # t /\ tx[u].prop # t

\* No transaction takes its own proposal for its source.
SourceIsPrior ==
  /\ \A t \in Txns : tx[t].src # t
  /\ store.ck # None => store.ck.src # store.ck.txn

\* What a transaction proposes is new, but for a metadata-only save.
ProposalIsOwn ==
  \A t \in Txns : LET r == tx[t] IN
    ~r.rec => /\ r.prop \in {t, r.src}
              /\ r.ws \/ (r.kind = "calib" /\ r.prop # None) => r.prop = t

\* The content of a transaction without a write is neither there nor about to
\* be restored by another one that found it as its source.
UnappliedIsAbsent ==
  \A t \in Txns : Unapplied(tx[t]) =>
    /\ builder # t
    /\ \A u \in Txns \ {t} :
         tx[u].src = t /\ tx[u].ota = "no" /\ tx[u].lease =>
           builder # u /\ tx[u].pc \notin {"cw_update", "rs_update"}

ObjectsSteady == \A t \in Txns : Steady(tx[t])

WInv ==
  /\ ObjectsSteady /\ UnbornIsUnknown /\ SourceIsPrior /\ ProposalIsOwn
  /\ UnappliedIsAbsent

\* What a step makes of an object r: it ends,
Void(u) ==
  ~u.open /\ ~u.lease /\ ~u.ws /\ ~u.rec /\ u.src = None /\ u.prop = None

Ceases(r, u) ==
  /\ Void(u)
  /\ r.open /\ u.st # "lost" =>
       r.st \in CompiledStates \/ Unapplied(r) \/ builder \in {r.src} \cup Edits

\* or goes on with its plan,
Same(r, u) ==
  /\ u.src = r.src /\ u.prop = r.prop /\ u.kind = r.kind /\ u.rec = r.rec
  /\ r.open => u.open
  /\ u.ota = "no" => r.ota = "no"

GoesOn(r, u) ==
  /\ Same(r, u)
  /\ u.ws => r.ws \/ (r.kind = "calib" /\ r.prop # None) \/ r.prop # r.src
  /\ Unapplied(u) =>
       /\ builder' = builder
       /\ Unapplied(r) \/ (r.lease /\ builder = r.src)
  /\ u.pc = "cw_update" =>
       r.pc = "cw_get" /\ builder = r.src /\ builder' = builder
  /\ u.pc = "rs_update" =>
       r.pc = "rs_get" /\ builder = r.prop /\ builder' = builder
  /\ u.lease => r.lease \/ r.st \in Unborn \/ r.ota # "no"

\* or is previewed, or read from the checkpoint after a restart.
Begins(t, r, u) ==
  /\ r.st \in Unborn /\ ~u.ws /\ ~u.rec /\ (u.lease => r.lease)
  /\ u.src = builder /\ u.prop \in {t, builder}
  /\ u.kind = "calib" => u.prop = t
  /\ u.pc \notin {"cw_update", "rs_update"} /\ builder' = builder

Reopens(t, r, u) ==
  /\ store.ck # None /\ store.ck.txn = t
  /\ u.rec /\ u.ota # "no" /\ u.src = store.ck.src /\ u.prop = store.ck.prop
  /\ ~u.open /\ ~r.open

Heeds(t, u) ==
  LET r == tx[t] IN
  /\ Steady(u)
  /\ Ceases(r, u) \/ GoesOn(r, u) \/ Begins(t, r, u) \/ Reopens(t, r, u)
  /\ builder' # builder => \/ r.pc = "cw_update" /\ builder' = r.prop
                           \/ r.pc = "rs_update" /\ builder' = r.src

Heeded(t) == \E u : Heeds(t, u) /\ tx' = [tx EXCEPT ![t] = u]

-----------------------------------------------------------------------------
(* The step and the invariant.                                             *)

LEMMA HeedsIs ==
  ASSUME TypeOK, NEW t \in Txns, Heeded(t)
  PROVE  /\ Heeds(t, tx'[t])
         /\ \A x \in Txns \ {t} : tx'[x] = tx[x]
BY DEF Heeded, TypeOK

\* The awaits that write the YAML are those of a transaction with a write.
LEMMA Writing ==
  ASSUME HInv, WInv, NEW t \in Txns
  PROVE  /\ tx[t].pc \in {"cw_update", "rs_get", "rs_update"} =>
              /\ tx[t].ws /\ tx[t].lease /\ tx[t].ota = "no" /\ ~tx[t].rec
              /\ tx[t].prop = t /\ tx[t].st \notin Unborn
              /\ ~Unapplied(tx[t])
         /\ Unapplied(tx[t]) => tx[t].ota = "no" \/ tx[t].pc = "cw_get"
<1>1. Good(tx[t]) /\ Steady(tx[t])
  BY DEF HInv, WInv, ObjectsSteady
<1>2. tx[t].pc \in {"cw_update", "rs_get", "rs_update"} =>
        /\ tx[t].ws /\ tx[t].lease /\ tx[t].ota = "no" /\ ~tx[t].rec
        /\ tx[t].st \notin Unborn
  BY <1>1 DEF Good, Placed, Steady, Restoring, Prepared, Unleased, Unborn
<1>3. tx[t].ws /\ ~tx[t].rec => tx[t].prop = t
  BY DEF WInv, ProposalIsOwn
<1>4. Unapplied(tx[t]) => tx[t].ota = "no" \/ tx[t].pc = "cw_get"
  BY <1>1 DEF Good, Unapplied
<1> QED BY <1>2, <1>3, <1>4 DEF Unapplied

LEMMA UnbornStep ==
  ASSUME NEW t \in Txns, IInv, HInv, JInv, WInv, Tracked(t), Shares(t), Heeded(t)
  PROVE  UnbornIsUnknown'
<1> DEFINE r == tx[t]
           u == tx'[t]
<1>1. /\ Heeds(t, u) /\ Tracks(t, u)
      /\ \A x \in Txns \ {t} : tx'[x] = tx[x]
  BY HeedsIs, Stepping DEF IInv
<1> SUFFICES ASSUME NEW x \in Txns, tx'[x].st \in Unborn
             PROVE  /\ builder' # x
                    /\ store'.ck # None => store'.ck.src # x /\ store'.ck.prop # x
                    /\ \A y \in Txns \ {x} : tx'[y].src # x /\ tx'[y].prop # x
  BY DEF UnbornIsUnknown
<1>2. tx[x].st \in Unborn
  BY <1>1 DEF Tracks
<1>3. /\ builder # x
      /\ store.ck # None => store.ck.src # x /\ store.ck.prop # x
      /\ \A y \in Txns \ {x} : tx[y].src # x /\ tx[y].prop # x
  BY <1>2 DEF WInv, UnbornIsUnknown
<1>4. builder' # x
  BY <1>1, <1>2, <1>3, Writing DEF Heeds
<1>5. store'.ck # None => store'.ck.src # x /\ store'.ck.prop # x
  <2>1. CASE store'.ck = store.ck \/ store'.ck = None
    BY <1>3, <2>1
  <2>2. CASE store'.ck = Checkpoint(t, r) /\ r.pc \in {"ci_save", "up_save"}
    <3>1. x # t
      BY <1>2, <2>2, HoldsLease
    <3>2. Checkpoint(t, r).src = r.src /\ Checkpoint(t, r).prop = r.prop
      BY DEF Checkpoint
    <3> QED BY <1>3, <2>2, <3>1, <3>2
  <2> QED BY <2>1, <2>2 DEF Shares, SharesCheckpoint
<1>6. ASSUME NEW y \in Txns \ {x} PROVE tx'[y].src # x /\ tx'[y].prop # x
  <2>1. CASE y # t
    BY <1>1, <1>3, <2>1
  <2>2. CASE y = t
    <3>1. CASE Ceases(r, u)
      BY <2>2, <3>1, NoneIsFresh DEF Ceases, Void
    <3>2. CASE GoesOn(r, u)
      BY <1>3, <2>2, <3>2 DEF GoesOn, Same
    <3>3. CASE Begins(t, r, u)
      BY <1>3, <2>2, <3>3 DEF Begins
    <3>4. CASE Reopens(t, r, u)
      BY <1>3, <2>2, <3>4 DEF Reopens
    <3> QED BY <1>1, <3>1, <3>2, <3>3, <3>4 DEF Heeds
  <2> QED BY <2>1, <2>2
<1> QED BY <1>4, <1>5, <1>6

LEMMA PlansStep ==
  ASSUME NEW t \in Txns, IInv, HInv, JInv, WInv, Shares(t), Heeded(t)
  PROVE  SourceIsPrior' /\ ProposalIsOwn' /\ ObjectsSteady'
<1> DEFINE r == tx[t]
           u == tx'[t]
<1>1. /\ Heeds(t, u)
      /\ \A x \in Txns \ {t} : tx'[x] = tx[x]
  BY HeedsIs DEF IInv
<1>2. /\ r.src # t /\ (store.ck # None => store.ck.src # store.ck.txn)
      /\ r.st \in Unborn => builder # t
  BY DEF WInv, SourceIsPrior, UnbornIsUnknown
<1>3. u.src # t
  <2>1. CASE Ceases(r, u)
    BY <2>1, NoneIsFresh DEF Ceases, Void
  <2>2. CASE GoesOn(r, u)
    BY <1>2, <2>2 DEF GoesOn, Same
  <2>3. CASE Begins(t, r, u)
    BY <1>2, <2>3 DEF Begins
  <2>4. CASE Reopens(t, r, u)
    BY <1>2, <2>4 DEF Reopens
  <2> QED BY <1>1, <2>1, <2>2, <2>3, <2>4 DEF Heeds
<1>4. store'.ck # None => store'.ck.src # store'.ck.txn
  <2>1. Checkpoint(t, r).src = r.src /\ Checkpoint(t, r).txn = t
    BY DEF Checkpoint
  <2> QED BY <1>2, <2>1 DEF Shares, SharesCheckpoint
<1>5. ~u.rec => /\ u.prop \in {t, u.src}
                /\ u.ws \/ (u.kind = "calib" /\ u.prop # None) => u.prop = t
  <2>1. ~r.rec => /\ r.prop \in {t, r.src}
                  /\ r.ws \/ (r.kind = "calib" /\ r.prop # None) => r.prop = t
    BY DEF WInv, ProposalIsOwn
  <2>2. CASE Ceases(r, u)
    BY <2>2 DEF Ceases, Void
  <2>3. CASE GoesOn(r, u)
    BY <2>1, <2>3 DEF GoesOn, Same
  <2>4. CASE Begins(t, r, u)
    BY <2>4 DEF Begins
  <2>5. CASE Reopens(t, r, u)
    BY <2>5 DEF Reopens
  <2> QED BY <1>1, <2>2, <2>3, <2>4, <2>5 DEF Heeds
<1>6. SourceIsPrior'
  BY <1>1, <1>3, <1>4 DEF WInv, SourceIsPrior
<1>7. ProposalIsOwn'
  BY <1>1, <1>5 DEF WInv, ProposalIsOwn
<1>8. ObjectsSteady'
  BY <1>1 DEF WInv, ObjectsSteady, Heeds
<1> QED BY <1>6, <1>7, <1>8

\* An edit of the YAML is no transaction's content.
LEMMA EditIsNoTransaction ==
  ASSUME NEW t \in Txns PROVE t \notin Edits
BY YamlIsFresh, ParametersAssumption

LEMMA UnappliedStep ==
  ASSUME NEW t \in Txns, IInv, HInv, JInv, WInv, Heeded(t)
  PROVE  UnappliedIsAbsent'
<1> DEFINE r == tx[t]
           u == tx'[t]
<1>1. /\ Heeds(t, u)
      /\ \A x \in Txns \ {t} : tx'[x] = tx[x]
  BY HeedsIs DEF IInv
<1>2. /\ r.pc \in {"cw_update", "rs_get", "rs_update"} =>
           /\ r.ws /\ r.lease /\ r.ota = "no" /\ ~r.rec /\ r.prop = t
           /\ r.st \notin Unborn /\ ~Unapplied(r)
  BY Writing
<1>3. r.src # t
  BY DEF WInv, SourceIsPrior
<1>4. ASSUME Unapplied(u)
      PROVE  /\ builder' # t
             /\ \A y \in Txns \ {t} :
                  tx'[y].src = t /\ tx'[y].ota = "no" /\ tx'[y].lease =>
                    builder' # y /\ tx'[y].pc \notin {"cw_update", "rs_update"}
  <2>1. CASE GoesOn(r, u) /\ Unapplied(r)
    <3>1. builder' = builder
      BY <1>4, <2>1 DEF GoesOn
    <3>2. /\ builder # t
          /\ \A y \in Txns \ {t} :
               tx[y].src = t /\ tx[y].ota = "no" /\ tx[y].lease =>
                 builder # y /\ tx[y].pc \notin {"cw_update", "rs_update"}
      BY <2>1 DEF WInv, UnappliedIsAbsent
    <3> QED BY <1>1, <3>1, <3>2
  <2>2. CASE GoesOn(r, u) /\ ~Unapplied(r)
    <3>1. builder' = builder /\ r.lease /\ builder = r.src
      BY <1>4, <2>2 DEF GoesOn
    <3>2. \A y \in Txns \ {t} : ~tx[y].lease
      BY <3>1, OthersHold
    <3> QED BY <1>1, <1>3, <3>1, <3>2
  <2>3. CASE Begins(t, r, u)
    <3>1. /\ builder' = builder /\ builder # t
          /\ \A y \in Txns \ {t} : tx[y].src # t
      BY <2>3 DEF Begins, WInv, UnbornIsUnknown
    <3> QED BY <1>1, <3>1
  <2>4. ~Ceases(r, u) /\ ~(Reopens(t, r, u))
    BY <1>4 DEF Ceases, Void, Reopens, Unapplied
  <2> QED BY <1>1, <2>1, <2>2, <2>3, <2>4 DEF Heeds
<1>5. ASSUME NEW x \in Txns \ {t}, Unapplied(tx[x])
      PROVE  /\ builder' # x
             /\ \A y \in Txns \ {x} :
                  tx'[y].src = x /\ tx'[y].ota = "no" /\ tx'[y].lease =>
                    builder' # y /\ tx'[y].pc \notin {"cw_update", "rs_update"}
  <2>1. /\ builder # x
        /\ \A y \in Txns \ {x} :
             tx[y].src = x /\ tx[y].ota = "no" /\ tx[y].lease =>
               builder # y /\ tx[y].pc \notin {"cw_update", "rs_update"}
    BY <1>5 DEF WInv, UnappliedIsAbsent
  <2>2. builder' # x
    BY <1>1, <1>2, <2>1 DEF Heeds
  <2>3. ASSUME NEW y \in Txns \ {x}, y # t,
               tx'[y].src = x, tx'[y].ota = "no", tx'[y].lease
        PROVE  builder' # y /\ tx'[y].pc \notin {"cw_update", "rs_update"}
    <3>1. tx'[y] = tx[y]
      BY <1>1, <2>3
    <3>2. ~r.lease
      BY <2>3, <3>1, OthersHold
    <3> QED BY <1>1, <1>2, <2>1, <2>3, <3>1, <3>2 DEF Heeds
  <2>4. ASSUME u.src = x, u.ota = "no", u.lease
        PROVE  builder' # t /\ u.pc \notin {"cw_update", "rs_update"}
    <3>1. CASE GoesOn(r, u)
      <4>1. r.src = x /\ r.ota = "no" /\ (r.lease \/ r.st \in Unborn)
        BY <2>4, <3>1 DEF GoesOn, Same
      <4>2. builder # t /\ r.pc \notin {"cw_update", "rs_update"}
        BY <1>2, <2>1, <4>1 DEF WInv, UnbornIsUnknown
      <4>3. builder' # t
        BY <1>1, <4>2 DEF Heeds
      <4>4. u.pc # "cw_update"
        BY <2>1, <3>1, <4>1 DEF GoesOn
      <4>5. u.pc # "rs_update"
        BY <1>2, <3>1, <4>2 DEF GoesOn
      <4> QED BY <4>3, <4>4, <4>5
    <3>2. ~Ceases(r, u) /\ ~(Reopens(t, r, u)) /\ ~(Begins(t, r, u))
      BY <2>1, <2>4 DEF Ceases, Void, Reopens, Begins
    <3> QED BY <1>1, <3>1, <3>2 DEF Heeds
  <2> QED BY <2>2, <2>3, <2>4
<1>6. \A x \in Txns \ {t} : Unapplied(tx'[x]) => Unapplied(tx[x])
  BY <1>1
<1>7. \A x \in Txns :
        Unapplied(tx'[x]) =>
          /\ builder' # x
          /\ \A y \in Txns \ {x} :
               tx'[y].src = x /\ tx'[y].ota = "no" /\ tx'[y].lease =>
                 builder' # y /\ tx'[y].pc \notin {"cw_update", "rs_update"}
  BY <1>4, <1>5, <1>6
<1>8. UnappliedIsAbsent' =
        \A x \in Txns :
          Unapplied(tx'[x]) =>
            /\ builder' # x
            /\ \A y \in Txns \ {x} :
                 tx'[y].src = x /\ tx'[y].ota = "no" /\ tx'[y].lease =>
                   builder' # y /\ tx'[y].pc \notin {"cw_update", "rs_update"}
  BY DEF UnappliedIsAbsent, Unapplied
<1> QED BY <1>7, <1>8

\* A transaction that ends, and not by a restart, has been compiled, has not
\* written, or has its source in place again.
LEMMA EndsRestored ==
  ASSUME NEW t \in Txns, IInv, WInv, Heeded(t), NEW x \in Txns,
         tx[x].open, ~tx'[x].open, tx'[x].st # "lost", builder = x
  PROVE  tx[x].st \in CompiledStates
<1> DEFINE r == tx[t]
           u == tx'[t]
<1>1. /\ Heeds(t, u)
      /\ \A y \in Txns \ {t} : tx'[y] = tx[y]
  BY HeedsIs DEF IInv
<1>2. x = t
  BY <1>1
<1>3. r.src # t /\ t \notin Edits /\ (Unapplied(r) => builder # t)
  BY EditIsNoTransaction DEF WInv, SourceIsPrior, UnappliedIsAbsent
<1>4. ~(r.st \in Unborn)
  BY <1>2 DEF WInv, UnbornIsUnknown
<1> QED BY <1>1, <1>2, <1>3, <1>4
        DEF Heeds, Ceases, GoesOn, Same, Begins, Reopens

LEMMA OthersWInv ==
  ASSUME IInv, WInv, Calibration \/ Crash \/ EditYaml \/ UNCHANGED vars
  PROVE  WInv'
<1>1. CASE Crash
  <2>1. /\ store' = store /\ builder' = builder
        /\ \A t \in Txns :
             tx'[t] = IF tx[t] = Blank THEN Blank ELSE Finish("lost")
    BY <1>1, CrashedObjects DEF remote
  <2>2. /\ \A w \in {Blank, Finish("lost")} :
             /\ ~w.open /\ ~w.ws /\ ~w.rb /\ w.ota = "no" /\ w.pc = "idle"
             /\ ~w.lease /\ w.src = None /\ w.prop = None /\ ~w.rec
      /\ Finish("lost").st \notin Unborn
    BY DEF Blank, Finish, Unborn
  <2>3. \A t \in Txns :
          /\ tx'[t] \in {Blank, Finish("lost")}
          /\ tx'[t].st \in Unborn => tx[t].st \in Unborn
    BY <2>1, <2>2
  <2> HIDE DEF Finish, Blank
  <2>4. ObjectsSteady'
    BY <2>2, <2>3 DEF ObjectsSteady, Steady, Restoring, Firm
  <2>5. UnbornIsUnknown'
    BY <2>1, <2>2, <2>3, NoneIsFresh DEF WInv, UnbornIsUnknown
  <2>6. SourceIsPrior' /\ ProposalIsOwn'
    BY <2>1, <2>2, <2>3, NoneIsFresh DEF WInv, SourceIsPrior, ProposalIsOwn
  <2>7. UnappliedIsAbsent'
    BY <2>2, <2>3 DEF UnappliedIsAbsent, Unapplied
  <2> QED BY <2>4, <2>5, <2>6, <2>7 DEF WInv
<1>2. CASE Calibration \/ EditYaml \/ UNCHANGED vars
  <2>1. /\ tx' = tx /\ store'.ck = store.ck
        /\ builder' = builder \/ builder' \in Edits
    BY <1>2, CalibrationShares DEF EditYaml, vars, remote
  <2>2. ObjectsSteady' /\ SourceIsPrior' /\ ProposalIsOwn'
    BY <2>1 DEF WInv, ObjectsSteady, Steady, SourceIsPrior, ProposalIsOwn
  <2>3. UnbornIsUnknown'
    BY <2>1, EditIsNoTransaction DEF WInv, UnbornIsUnknown
  <2>4. UnappliedIsAbsent'
    BY <2>1, EditIsNoTransaction DEF WInv, UnappliedIsAbsent, Unapplied
  <2> QED BY <2>2, <2>3, <2>4 DEF WInv
<1> QED BY <1>1, <1>2

\* The content on Device Builder at the start is no transaction's.
LEMMA InitWInv ==
  ASSUME InitialYaml \in OtherYaml, Init
  PROVE  WInv
<1>1. /\ \A t \in Txns : tx[t] = Blank
      /\ builder = InitialYaml /\ store.ck = None
  BY Zenon DEF Init
<1>2. /\ ~Blank.open /\ ~Blank.ws /\ ~Blank.rb /\ Blank.ota = "no"
      /\ Blank.pc = "idle" /\ Blank.src = None /\ Blank.prop = None
  BY DEF Blank
<1>3. \A t \in Txns : t \notin OtherYaml /\ None # t
  BY YamlIsFresh, NoneIsFresh
<1> QED BY <1>1, <1>2, <1>3
        DEF WInv, ObjectsSteady, Steady, Restoring, Firm, UnbornIsUnknown,
            SourceIsPrior, ProposalIsOwn, UnappliedIsAbsent, Unapplied

-----------------------------------------------------------------------------
(* The steps of a transaction, once more.                                  *)

Whole(r) == r \in Transaction /\ Good(r) /\ Shaped(r) /\ Steady(r)

\* A step that goes on without writing, restoring or taking the lease.
Plain(r, u) ==
  /\ Steady(u) /\ Same(r, u)
  /\ u.ws => r.ws
  /\ Unapplied(u) => Unapplied(r)
  /\ u.pc \notin {"cw_update", "rs_update"}
  /\ u.lease => r.lease

Ended(r, u) ==
  /\ Void(u) /\ Steady(u)
  /\ r.open /\ u.st # "lost" => r.st \in CompiledStates \/ Unapplied(r)

LEMMA WholeAt ==
  ASSUME IInv, HInv, JInv, WInv, NEW t \in Txns
  PROVE  Whole(tx[t])
BY DEF IInv, TypeOK, HInv, JInv, ObjectsShaped, WInv, ObjectsSteady, Whole

LEMMA PlainHeeds ==
  ASSUME NEW t \in Txns, NEW u, Become(t, u), builder' = builder,
         Plain(tx[t], u) \/ Ended(tx[t], u)
  PROVE  Heeded(t)
<1>1. Plain(tx[t], u) => GoesOn(tx[t], u) /\ Steady(u)
  BY DEF Plain, GoesOn
<1>2. Ended(tx[t], u) => Ceases(tx[t], u) /\ Steady(u)
  BY DEF Ended, Ceases
<1>3. Heeds(t, u)
  BY <1>1, <1>2 DEF Heeds
<1> QED BY <1>3 DEF Heeded, Become

LEMMA AcquireHeeds ==
  ASSUME NEW t \in Txns, NEW u, Acquire(t, u), builder' = builder,
         GoesOn(tx[t], [u EXCEPT !.lease = TRUE]),
         Steady([u EXCEPT !.lease = TRUE])
  PROVE  Heeded(t)
BY DEF Acquire, Heeded, Heeds

LEMMA CheckSourceHeeds ==
  ASSUME NEW t \in Txns, NEW from, NEW ok, NEW lost,
         CheckSource(t, from, ok, lost),
         Plain(tx[t], ok) \/ Ended(tx[t], ok),
         Plain(tx[t], lost) \/ Ended(tx[t], lost)
  PROVE  Heeded(t)
BY PlainHeeds DEF CheckSource, remote

LEMMA FinishEnded ==
  ASSUME NEW r, NEW s \in {"failed", "lost", "verified", "rolled_back"},
         s # "lost" /\ r.open => r.st \in CompiledStates \/ Unapplied(r)
  PROVE  Ended(r, Finish(s))
BY DEF Ended, Void, Steady, Finish, Blank, Restoring, Firm

\* At these awaits a transaction has not written, or is compiled.
LEMMA MayEnd ==
  ASSUME NEW r, Whole(r),
         \/ r.pc \in Unwritten \cup Firm \cup Uploading \cup Resumed \cup {"cw_get"}
         \/ r.st \in CompiledStates
         \/ ~r.ws \/ r.ota # "no"
  PROVE  \A s \in {"failed", "lost", "verified", "rolled_back"} :
           Ended(r, Finish(s))
<1>1. r.open => r.st \in CompiledStates \/ Unapplied(r)
  BY DEF Whole, Good, Placed, Steady, Unapplied, Shaped
<1> QED BY <1>1, FinishEnded

LEMMA PlainTransitive ==
  ASSUME NEW a, NEW b, NEW c, Plain(a, b), Plain(b, c)
  PROVE  Plain(a, c)
BY DEF Plain, Same

LEMMA RetryPlain ==
  ASSUME NEW r, Whole(r), r.ws
  PROVE  Plain(r, RetainInstallRetry(r)) /\ Plain(r, RetainUnpersisted(r))
<1> DEFINE b == ~r.rec /\ r.ota = "no"
           u(c) == [r EXCEPT !.pc = "idle",
                             !.st = "install_confirmation_required",
                             !.rb = c, !.due = FALSE]
<1>1. /\ RetainInstallRetry(r) = u(b)
      /\ RetainUnpersisted(r) = [u(b) EXCEPT !.rb = FALSE]
  BY Zenon DEF RetainInstallRetry, RetainUnpersisted
<1>2. b \in BOOLEAN
  OBVIOUS
<1> HIDE DEF b
<1>3. \A c \in BOOLEAN : Plain(r, u(c))
  BY DEF Whole, Plain, Same, Steady, Unapplied, Transaction, Restoring, Firm,
         CompiledStates
<1>4. r \in Transaction
  BY DEF Whole
<1>5. [u(b) EXCEPT !.rb = FALSE] = u(FALSE)
  BY <1>4, Zenon DEF Transaction
<1> HIDE DEF u
<1> QED BY <1>1, <1>2, <1>3, <1>5

\* Forgetting the commit in progress first.
LEMMA UncommittedPlain ==
  ASSUME NEW r, Whole(r), r.ws, r.pc \notin {"cw_update", "rs_update"}
  PROVE  LET w == [r EXCEPT !.pcs = FALSE] IN
         /\ Plain(r, RetainInstallRetry(w)) /\ Plain(r, RetainUnpersisted(w))
         /\ r.ota # "no" => Plain(r, BeginVerify(w))
<1> DEFINE w == [r EXCEPT !.pcs = FALSE]
<1>1. w \in Transaction
  <2>1. r \in Transaction
    BY DEF Whole
  <2> QED BY <2>1, FlagUpdates, Zenon DEF Extends
<1>2. /\ w.ws = r.ws /\ w.lease = r.lease /\ w.pc = r.pc /\ w.ota = r.ota
      /\ w.st = r.st /\ w.rb = r.rb /\ w.rec = r.rec /\ w.open = r.open
      /\ w.vid = r.vid /\ w.kind = r.kind /\ w.restored = r.restored
      /\ w.resv = r.resv /\ w.src = r.src /\ w.prop = r.prop
  BY DEF Whole, Transaction
<1> HIDE DEF w
<1>3. Whole(w) /\ Plain(r, w)
  BY <1>1, <1>2 DEF Whole, Good, Placed, Shaped, Steady, Plain, Same, Unapplied
<1>4. r.ota # "no" => Plain(w, BeginVerify(w))
  BY <1>1, <1>2, <1>3 DEF BeginVerify, Whole, Plain, Same, Steady, Unapplied,
     Transaction, Restoring, Firm, CompiledStates
<1>5. Plain(w, RetainInstallRetry(w)) /\ Plain(w, RetainUnpersisted(w))
  BY <1>2, <1>3, RetryPlain
<1> QED BY <1>3, <1>4, <1>5, PlainTransitive DEF w

LEMMA RecoveryPlain ==
  ASSUME NEW r, Whole(r), r.ws \/ r.restored
  PROVE  /\ Plain(r, RetainWriteRecovery(r))
         /\ r.ws => Plain(r, SourceLost(r))
<1>1. r.rec \/ r.ota # "no" => r.ws
  BY DEF Whole, Good
<1>2. ASSUME r.ota = "no", ~r.rec
      PROVE  Plain(r, [r EXCEPT !.pc = "idle", !.st = "failed", !.rb = TRUE,
                                !.due = FALSE])
  BY <1>2 DEF Whole, Plain, Same, Steady, Unapplied, Transaction, Restoring, Firm
<1>3. Plain(r, RetainWriteRecovery(r))
  BY <1>1, <1>2, RetryPlain DEF RetainWriteRecovery
<1> QED BY <1>3 DEF SourceLost

LEMMA GotoPlain ==
  ASSUME NEW r, Whole(r), NEW p \in Awaits \ {"cw_get", "cw_update", "rs_update"},
         p \in Restoring => r.ws, p \in Firm => r.st \in CompiledStates
  PROVE  Plain(r, [r EXCEPT !.pc = p])
BY DEF Whole, Plain, Same, Steady, Unapplied, Transaction

\* Ending a rollback whose YAML is back, or was.
LEMMA RestoredHeeds ==
  ASSUME NEW t \in Txns, Whole(tx[t]), builder' = builder,
         \/ ~tx[t].ws
         \/ tx[t].lease /\ builder = tx[t].src,
         NEW w \in {tx[t], [tx[t] EXCEPT !.resv = FALSE]},
         Become(t, AfterRestore(w))
  PROVE  Heeded(t)
<1> DEFINE r == tx[t]
           d == [w EXCEPT !.ws = FALSE, !.restored = TRUE, !.rb = FALSE]
<1>1. /\ w \in Transaction
      /\ w.src = r.src /\ w.prop = r.prop /\ w.kind = r.kind /\ w.rec = r.rec
      /\ w.open = r.open /\ w.ota = r.ota /\ w.lease = r.lease /\ w.st = r.st
  BY DEF Whole, Transaction
<1>2. \A p \in {"rs_release", "rs_clear"} :
        GoesOn(r, [d EXCEPT !.pc = p]) /\ Steady([d EXCEPT !.pc = p])
  BY <1>1 DEF Whole, GoesOn, Same, Steady, Unapplied, Transaction, Restoring, Firm
<1>3. Ceases(r, Finish("rolled_back")) /\ Steady(Finish("rolled_back"))
  <2>1. r.open /\ ~r.ws => Unapplied(r)
    BY DEF Unapplied
  <2> QED BY <2>1 DEF Ceases, Void, Steady, Finish, Blank, Restoring, Firm
<1> HIDE DEF d
<1>4. AfterRestore(w) \in {[d EXCEPT !.pc = "rs_release"],
                           [d EXCEPT !.pc = "rs_clear"], Finish("rolled_back")}
  BY <1>1 DEF AfterRestore, d, Transaction
<1>5. Heeds(t, AfterRestore(w))
  BY <1>2, <1>3, <1>4 DEF Heeds
<1> QED BY <1>5 DEF Heeded, Become

LEMMA StartHeeds ==
  ASSUME NEW t \in Txns, Whole(tx[t]), builder' = builder,
         tx[t].ws \/ tx[t].restored, Become(t, StartRollback(tx[t]))
  PROVE  Heeded(t)
<1>1. CASE tx[t].restored
  <2>1. ~tx[t].ws
    BY <1>1 DEF Whole, Shaped
  <2>2. Become(t, AfterRestore(tx[t]))
    BY <1>1 DEF StartRollback
  <2> QED BY <2>1, <2>2, RestoredHeeds
<1>2. CASE ~tx[t].restored
  <2>1. Plain(tx[t], [tx[t] EXCEPT !.pc = "rs_get", !.rb = FALSE])
    BY <1>2 DEF Whole, Plain, Same, Steady, Unapplied, Transaction, Restoring, Firm
  <2> QED BY <1>2, <2>1, PlainHeeds DEF StartRollback
<1> QED BY <1>1, <1>2

LEMMA PreviewHeeded ==
  ASSUME NEW t \in Txns, Whole(tx[t]), Planned,
         \/ Preview(t) \/ PreviewGains(t) \/ PreviewGainsLock(t)
         \/ PreviewGainsRead(t) \/ PreviewGainsClaim(t) \/ PreviewGainsRelease(t)
  PROVE  Heeded(t)
<1> DEFINE r == tx[t]
<1>1. r \in Transaction /\ Good(r) /\ Shaped(r) /\ Steady(r)
  BY DEF Whole
<1>2. CASE Preview(t)
  <2>1. r.st \in Unborn
    BY <1>2 DEF Preview, Blank, Unborn
  <2>2. builder' = builder
    BY <1>2 DEF Preview, remote
  <2>3. PICK p \in {t, builder} :
          Become(t, [Blank EXCEPT !.open = TRUE, !.st = "previewed",
                       !.src = builder, !.prop = p, !.fp = store.meter])
    BY <1>2 DEF Preview
  <2> DEFINE u == [Blank EXCEPT !.open = TRUE, !.st = "previewed",
                       !.src = builder, !.prop = p, !.fp = store.meter]
  <2>4. Begins(t, r, u) /\ Steady(u)
    BY <2>1, <2>2 DEF Begins, Steady, Blank, Restoring, Firm
  <2> HIDE DEF u
  <2>5. Heeds(t, u)
    BY <2>2, <2>4 DEF Heeds
  <2> QED BY <2>3, <2>5 DEF u, Heeded, Become
<1>3. CASE PreviewGains(t)
  <2>1. ~r.open
    <3>1. r = Blank
      BY <1>3 DEF PreviewGains
    <3> QED BY <3>1 DEF Blank
  <2>2. PICK v \in Vids :
          Become(t, [Blank EXCEPT !.pc = "pv_lock", !.kind = "calib", !.vid = v])
    BY <1>3 DEF PreviewGains
  <2>3. Ended(r, [Blank EXCEPT !.pc = "pv_lock", !.kind = "calib", !.vid = v])
    BY <2>1 DEF Ended, Void, Steady, Blank, Restoring, Firm
  <2> QED BY <1>3, <2>2, <2>3, PlainHeeds DEF PreviewGains, remote
<1>4. CASE PreviewGainsLock(t)
  <2> DEFINE u == [[r EXCEPT !.pc = "pv_read"] EXCEPT !.lease = TRUE]
  <2>1. r.st \in Unborn /\ r.pc = "pv_lock"
    BY <1>1, <1>4 DEF PreviewGainsLock, At, Good, Unborn
  <2>2. GoesOn(r, u) /\ Steady(u)
    <3>1. builder' = builder
      BY <1>4 DEF PreviewGainsLock, remote
    <3> QED BY <1>1, <2>1, <3>1
            DEF GoesOn, Same, Steady, Unapplied, Transaction, Restoring, Firm
  <2> QED BY <1>4, <2>2, AcquireHeeds DEF PreviewGainsLock, Goto, remote
<1>5. CASE PreviewGainsRead(t)
  <2>1. r.st \in Unborn /\ ~r.ws /\ ~r.open /\ ~r.rec /\ r.ota = "no" /\ ~r.rb
    BY <1>1, <1>5
       DEF PreviewGainsRead, At, Good, Placed, Unwritten, Unborn, Transaction
  <2>2. builder' = builder
    BY <1>5 DEF PreviewGainsRead, remote
  <2>3. Ended(r, Blank)
    BY <2>1 DEF Ended, Void, Steady, Blank, Restoring, Firm
  <2>4. \A f : LET u == [r EXCEPT !.open = TRUE, !.st = "previewed",
                           !.pc = "pv_claim", !.src = builder, !.prop = t,
                           !.full = f]
               IN  Begins(t, r, u) /\ Steady(u)
    BY <1>1, <2>1, <2>2 DEF Begins, Steady, Transaction, Restoring, Firm
  <2>5. \/ Become(t, Blank)
        \/ \E f : Become(t, [r EXCEPT !.open = TRUE, !.st = "previewed",
                           !.pc = "pv_claim", !.src = builder, !.prop = t,
                           !.full = f])
    BY <1>5 DEF PreviewGainsRead
  <2>6. ASSUME NEW f, Become(t, [r EXCEPT !.open = TRUE, !.st = "previewed",
                           !.pc = "pv_claim", !.src = builder, !.prop = t,
                           !.full = f])
        PROVE  Heeded(t)
    <3> DEFINE u == [r EXCEPT !.open = TRUE, !.st = "previewed",
                           !.pc = "pv_claim", !.src = builder, !.prop = t,
                           !.full = f]
    <3>1. Begins(t, r, u) /\ Steady(u)
      BY <2>4
    <3>2. Become(t, u)
      BY <2>6
    <3> HIDE DEF u
    <3>3. Heeds(t, u)
      BY <2>2, <3>1 DEF Heeds
    <3> QED BY <3>2, <3>3 DEF Heeded, Become
  <2> QED BY <2>2, <2>3, <2>5, <2>6, PlainHeeds
<1>6. CASE PreviewGainsClaim(t) \/ PreviewGainsRelease(t)
  <2>1. r.pc \in {"pv_claim", "pv_release"} /\ builder' = builder
    BY <1>6 DEF PreviewGainsClaim, PreviewGainsRelease, At, remote
  <2>2. Ended(r, Finish("failed"))
    BY <2>1, MayEnd DEF Unwritten
  <2>3. /\ Plain(r, [[r EXCEPT !.pc = "idle"] EXCEPT !.lease = FALSE, !.resv = TRUE])
        /\ Plain(r, [[r EXCEPT !.pc = "pv_release"] EXCEPT !.resv = TRUE])
        /\ Plain(r, [[r EXCEPT !.pc = "idle"] EXCEPT !.lease = FALSE])
    <3> USE <1>1, <2>1 DEF Plain, Same, Steady, Unapplied, Transaction, Restoring,
                           Firm
    <3>1. Plain(r, [[r EXCEPT !.pc = "idle"] EXCEPT !.lease = FALSE, !.resv = TRUE])
      OBVIOUS
    <3>2. Plain(r, [[r EXCEPT !.pc = "pv_release"] EXCEPT !.resv = TRUE])
      OBVIOUS
    <3>3. Plain(r, [[r EXCEPT !.pc = "idle"] EXCEPT !.lease = FALSE])
      OBVIOUS
    <3> HIDE DEF Plain, Same, Steady, Unapplied, Transaction, Restoring, Firm
    <3> QED BY <3>1, <3>2, <3>3
  <2>4. \/ Become(t, Finish("failed"))
        \/ Become(t, [[r EXCEPT !.pc = "idle"] EXCEPT !.lease = FALSE, !.resv = TRUE])
        \/ Become(t, [[r EXCEPT !.pc = "pv_release"] EXCEPT !.resv = TRUE])
        \/ Become(t, [[r EXCEPT !.pc = "idle"] EXCEPT !.lease = FALSE])
    BY <1>6 DEF PreviewGainsClaim, PreviewGainsRelease, Goto
  <2> QED BY <2>1, <2>2, <2>3, <2>4, PlainHeeds
<1> QED BY <1>2, <1>3, <1>4, <1>5, <1>6

\* The write begins: what is proposed is the transaction's own.
LEMMA WriteBegins ==
  ASSUME NEW r, Whole(r), r.pc \in {"cw_lock", "cw_revalidate"},
         r.kind = "calib" => r.prop # None,
         NEW l \in {r.lease, TRUE}, builder' = builder
  PROVE  /\ GoesOn(r, [BeginWrite(r) EXCEPT !.lease = l])
         /\ Steady([BeginWrite(r) EXCEPT !.lease = l])
         /\ GoesOn(r, [[r EXCEPT !.pc = "cw_revalidate"] EXCEPT !.lease = l])
         /\ Steady([[r EXCEPT !.pc = "cw_revalidate"] EXCEPT !.lease = l])
<1>1. /\ r \in Transaction /\ Good(r) /\ Shaped(r) /\ Steady(r)
      /\ r.st = "previewed" /\ r.ota = "no" /\ ~r.ws /\ ~r.rb
  BY DEF Whole, Shaped, Good, Early
<1> USE <1>1 DEF GoesOn, Same, Steady, Unapplied, Transaction, Restoring, Firm,
                 Unborn
<1>2. /\ GoesOn(r, [[r EXCEPT !.pc = "nm_check"] EXCEPT !.lease = l])
      /\ Steady([[r EXCEPT !.pc = "nm_check"] EXCEPT !.lease = l])
  OBVIOUS
<1>3. /\ GoesOn(r, [[r EXCEPT !.pc = "cw_revalidate"] EXCEPT !.lease = l])
      /\ Steady([[r EXCEPT !.pc = "cw_revalidate"] EXCEPT !.lease = l])
  OBVIOUS
<1> DEFINE w == [[r EXCEPT !.pc = "cw_get", !.st = "write_confirmed", !.ws = TRUE]
                   EXCEPT !.lease = l]
<1>4. r.kind = "calib" \/ r.prop # r.src => GoesOn(r, w) /\ Steady(w)
  OBVIOUS
<1> HIDE DEF GoesOn, Same, Steady, Unapplied, Transaction, Restoring, Firm, Unborn, w
<1>5. \/ BeginWrite(r) = [r EXCEPT !.pc = "nm_check"]
      \/ /\ r.kind = "calib" \/ r.prop # r.src
         /\ [BeginWrite(r) EXCEPT !.lease = l] = w
  <2>1. r.kind \in {"install", "calib"}
    BY <1>1 DEF Transaction
  <2> QED BY <2>1, Zenon DEF BeginWrite, w
<1> QED BY <1>2, <1>3, <1>4, <1>5

LEMMA EnterHeeded ==
  ASSUME NEW t \in Txns, Whole(tx[t]), Planned,
         \/ ConfirmWrite(t) \/ ConfirmWriteLock(t) \/ ConfirmWriteRevalidate(t)
         \/ ConfirmWriteRelease(t) \/ MetadataCheck(t) \/ MetadataSave(t)
  PROVE  Heeded(t)
<1> DEFINE r == tx[t]
<1>1. r \in Transaction /\ Good(r) /\ Shaped(r) /\ Steady(r)
  BY DEF Whole
<1>2. r.pc \in {"cw_lock", "cw_revalidate"} => r.prop # None
  <2>1. r.pc \in {"cw_lock", "cw_revalidate"} => r.prop \in Contents
    BY DEF Planned, Working, HasPlan
  <2> QED BY <2>1, NoneIsFresh DEF Contents
<1>3. CASE ConfirmWrite(t)
  <2>1. Plain(r, Goto(t, "cw_lock"))
    BY GotoPlain DEF Goto, Awaits, Restoring, Firm
  <2> QED BY <1>3, <2>1, PlainHeeds DEF ConfirmWrite, remote
<1>4. CASE ConfirmWriteLock(t)
  <2>1. r.pc = "cw_lock" /\ builder' = builder
    BY <1>4 DEF ConfirmWriteLock, At, remote
  <2>2. /\ GoesOn(r, [BeginWrite(r) EXCEPT !.lease = TRUE])
        /\ Steady([BeginWrite(r) EXCEPT !.lease = TRUE])
        /\ GoesOn(r, [[r EXCEPT !.pc = "cw_revalidate"] EXCEPT !.lease = TRUE])
        /\ Steady([[r EXCEPT !.pc = "cw_revalidate"] EXCEPT !.lease = TRUE])
    BY <1>2, <2>1, WriteBegins
  <2>3. Acquire(t, BeginWrite(r)) \/ Acquire(t, Goto(t, "cw_revalidate"))
    BY <1>4 DEF ConfirmWriteLock
  <2> QED BY <2>1, <2>2, <2>3, AcquireHeeds DEF Goto
<1>5. CASE ConfirmWriteRevalidate(t)
  <2>1. r.pc = "cw_revalidate" /\ builder' = builder
    BY <1>5 DEF ConfirmWriteRevalidate, At, remote
  <2>2. /\ GoesOn(r, [BeginWrite(r) EXCEPT !.lease = r.lease])
        /\ Steady([BeginWrite(r) EXCEPT !.lease = r.lease])
    BY <1>2, <2>1, WriteBegins
  <2>3. [BeginWrite(r) EXCEPT !.lease = r.lease] = BeginWrite(r)
    <3>1. [r EXCEPT !.pc = "nm_check", !.lease = r.lease] = [r EXCEPT !.pc = "nm_check"]
      BY <1>1 DEF Transaction
    <3>2. [[r EXCEPT !.pc = "nm_check"] EXCEPT !.lease = r.lease]
            = [r EXCEPT !.pc = "nm_check"]
      BY <1>1 DEF Transaction
    <3>3. [[r EXCEPT !.pc = "cw_get", !.st = "write_confirmed", !.ws = TRUE]
             EXCEPT !.lease = r.lease]
            = [r EXCEPT !.pc = "cw_get", !.st = "write_confirmed", !.ws = TRUE]
      BY <1>1 DEF Transaction
    <3> QED BY <3>2, <3>3, Zenon DEF BeginWrite
  <2>4. Become(t, BeginWrite(r)) => Heeded(t)
    BY <2>1, <2>2, <2>3 DEF Become, Heeded, Heeds
  <2>5. Plain(r, Goto(t, "cw_release"))
    BY GotoPlain DEF Goto, Awaits, Restoring, Firm
  <2>6. Ended(r, Finish("failed"))
    BY <2>1, MayEnd DEF Unwritten
  <2>7. \/ Become(t, BeginWrite(r)) \/ Become(t, Goto(t, "cw_release"))
        \/ Become(t, Finish("failed"))
    BY <1>5 DEF ConfirmWriteRevalidate
  <2> QED BY <2>1, <2>4, <2>5, <2>6, <2>7, PlainHeeds
<1>6. CASE ConfirmWriteRelease(t)
  <2>1. r.pc = "cw_release" /\ builder' = builder
    BY <1>6 DEF ConfirmWriteRelease, At, remote
  <2>2. Plain(r, Goto(t, "idle"))
    BY GotoPlain DEF Goto, Awaits, Restoring, Firm
  <2>3. Ended(r, Finish("failed"))
    BY <2>1, MayEnd DEF Unwritten
  <2> QED BY <1>6, <2>1, <2>2, <2>3, PlainHeeds DEF ConfirmWriteRelease
<1>7. CASE MetadataCheck(t)
  <2>1. r.pc = "nm_check" /\ ~r.ws
    BY <1>1, <1>7
       DEF MetadataCheck, CheckSource, At, Good, Placed, Unwritten
  <2>2. Plain(r, Goto(t, "nm_save"))
    BY GotoPlain DEF Goto, Awaits, Restoring, Firm
  <2>3. Ended(r, SourceLost(r))
    BY <2>1, MayEnd DEF SourceLost
  <2> QED BY <1>7, <2>2, <2>3, CheckSourceHeeds DEF MetadataCheck
<1>8. CASE MetadataSave(t)
  <2>1. r.pc = "nm_save" /\ builder' = builder
    BY <1>8 DEF MetadataSave, At, remote
  <2>2. Ended(r, Finish("failed")) /\ Ended(r, Finish("verified"))
    BY <2>1, MayEnd DEF Unwritten
  <2>3. Become(t, Finish("failed")) \/ Become(t, Finish("verified"))
    BY <1>8, Zenon DEF MetadataSave
  <2> QED BY <2>1, <2>2, <2>3, PlainHeeds
<1> QED BY <1>3, <1>4, <1>5, <1>6, <1>7, <1>8

\* The two awaits whose answer decides on a write, and the writes.
LEMMA WritesHeeded ==
  ASSUME NEW t \in Txns, Whole(tx[t]), NEW u, Become(t, u), Steady(u),
         Same(tx[t], u), u.ws, tx[t].ws, u.lease => tx[t].lease, u.pc # "cw_get",
         \/ /\ tx[t].pc = "cw_get" /\ u.pc = "cw_update"
            /\ builder = tx[t].src /\ builder' = builder
         \/ /\ tx[t].pc = "rs_get" /\ u.pc = "rs_update"
            /\ builder = tx[t].prop /\ builder' = builder
         \/ /\ tx[t].pc = "cw_update" /\ u.pc \notin {"cw_update", "rs_update"}
            /\ builder' \in {builder, tx[t].prop}
         \/ /\ tx[t].pc = "rs_update" /\ u.pc \notin {"cw_update", "rs_update"}
            /\ builder' \in {builder, tx[t].src}
  PROVE  Heeded(t)
<1>1. GoesOn(tx[t], u)
  BY DEF GoesOn, Unapplied
<1>2. Heeds(t, u)
  BY <1>1 DEF Heeds
<1> QED BY <1>2 DEF Heeded, Become

LEMMA WriteHeeded ==
  ASSUME NEW t \in Txns, Whole(tx[t]),
         \/ WriteGet(t) \/ WriteUpdate(t) \/ WriteConflict(t) \/ Reconcile(t)
         \/ Validate(t)
  PROVE  Heeded(t)
<1> DEFINE r == tx[t]
<1>1. r \in Transaction /\ Good(r) /\ Shaped(r) /\ Steady(r)
  BY DEF Whole
<1>2. CASE WriteGet(t)
  <2>1. r.pc = "cw_get" /\ r.ws /\ r.ota = "no" /\ ~r.restored /\ builder' = builder
    BY <1>1, <1>2 DEF WriteGet, At, Good, Placed, Prepared, Shaped, remote
  <2> DEFINE u == Goto(t, "cw_update")
             w == [Goto(t, "cw_conflict") EXCEPT !.ws = FALSE]
  <2>2. CASE builder = r.src /\ Become(t, u)
    <3>1. /\ Steady(u) /\ Same(r, u) /\ u.ws /\ u.lease = r.lease
          /\ u.pc = "cw_update"
      BY <1>1, <2>1 DEF Goto, Transaction, Steady, Same, Restoring, Firm
    <3> HIDE DEF u
    <3> QED BY <2>1, <2>2, <3>1, WritesHeeded
  <2>3. Plain(r, w)
    <3>1. r.open => Unapplied(r)
      BY <2>1 DEF Unapplied
    <3>2. ~r.rb
      BY <1>1, <2>1 DEF Good, Early
    <3> QED BY <1>1, <2>1, <3>1, <3>2
            DEF Plain, Same, Steady, Unapplied, Goto, Transaction, Restoring, Firm
  <2>4. Ended(r, Finish("failed"))
    BY <2>1, MayEnd
  <2>5. Plain(r, Goto(t, "cw_reconcile"))
    BY GotoPlain DEF Goto, Awaits, Restoring, Firm
  <2>6. \/ builder = r.src /\ Become(t, u)
        \/ Become(t, w) \/ Become(t, Finish("failed"))
        \/ Become(t, Goto(t, "cw_reconcile"))
    BY <1>2, Zenon DEF WriteGet
  <2> HIDE DEF u, w
  <2> QED BY <2>1, <2>2, <2>3, <2>4, <2>5, <2>6, PlainHeeds
<1>3. CASE WriteUpdate(t)
  <2>1. r.pc = "cw_update" /\ r.ws /\ r.ota = "no" /\ ~r.restored
    BY <1>1, <1>3 DEF WriteUpdate, At, Good, Placed, Prepared, Shaped
  <2>2. \A u \in {[Goto(t, "cw_validate") EXCEPT !.st = "written"],
                  Goto(t, "cw_reconcile")} :
          /\ Steady(u) /\ Same(r, u) /\ u.ws /\ u.lease = r.lease
          /\ u.pc \in {"cw_validate", "cw_reconcile"}
    <3> USE <1>1, <2>1 DEF Goto, Transaction, Steady, Same, Restoring, Firm
    <3> DEFINE P(u) == /\ Steady(u) /\ Same(r, u) /\ u.ws /\ u.lease = r.lease
                       /\ u.pc \in {"cw_validate", "cw_reconcile"}
    <3>1. P([Goto(t, "cw_validate") EXCEPT !.st = "written"])
      OBVIOUS
    <3>2. P(Goto(t, "cw_reconcile"))
      OBVIOUS
    <3> HIDE DEF Goto, Transaction, Steady, Same, Restoring, Firm
    <3> QED BY <3>1, <3>2
  <2>3. PICK u \in {[Goto(t, "cw_validate") EXCEPT !.st = "written"],
                    Goto(t, "cw_reconcile")} :
          Become(t, u) /\ builder' \in {builder, r.prop}
    BY <1>3 DEF WriteUpdate
  <2>4. /\ Steady(u) /\ Same(r, u) /\ u.ws /\ u.lease = r.lease
        /\ u.pc \in {"cw_validate", "cw_reconcile"}
    BY <2>2, <2>3
  <2> QED BY <2>1, <2>3, <2>4, WritesHeeded
<1>4. CASE WriteConflict(t)
  <2>1. r.pc = "cw_conflict" /\ builder' = builder
    BY <1>4 DEF WriteConflict, At, remote
  <2>2. Plain(r, Goto(t, "idle"))
    BY GotoPlain DEF Goto, Awaits, Restoring, Firm
  <2>3. Ended(r, Finish("failed"))
    BY <2>1, MayEnd DEF Unwritten
  <2> QED BY <1>4, <2>1, <2>2, <2>3, PlainHeeds DEF WriteConflict
<1>5. CASE Reconcile(t)
  <2>1. r.pc = "cw_reconcile" /\ r.ws /\ builder' = builder
    BY <1>1, <1>5 DEF Reconcile, At, Good, Placed, Prepared, remote
  <2>2. CASE builder = r.src /\ Become(t, Finish("failed"))
    <3>1. Ceases(r, Finish("failed")) /\ Steady(Finish("failed"))
      BY <2>2 DEF Ceases, Void, Steady, Finish, Blank, Restoring, Firm
    <3> HIDE DEF Finish
    <3> QED BY <2>1, <2>2, <3>1 DEF Heeds, Heeded, Become
  <2>3. CASE Become(t, StartRollback(r))
    BY <2>1, <2>3, StartHeeds
  <2>4. CASE Become(t, RetainWriteRecovery(r))
    BY <2>1, <2>4, RecoveryPlain, PlainHeeds
  <2> QED BY <1>5, <2>2, <2>3, <2>4 DEF Reconcile
<1>6. CASE Validate(t)
  <2>1. r.pc = "cw_validate" /\ r.ws /\ r.ota = "no" /\ builder' = builder
    BY <1>1, <1>6 DEF Validate, At, Good, Placed, Prepared, remote
  <2> DEFINE u == [Goto(t, "idle") EXCEPT !.st = "validated", !.due = FALSE]
  <2>2. Plain(r, u)
    BY <1>1, <2>1
       DEF Plain, Same, Steady, Unapplied, Goto, Transaction, Restoring, Firm
  <2>3. Become(t, u) \/ Become(t, StartRollback(r))
    BY <1>6 DEF Validate
  <2> HIDE DEF u
  <2> QED BY <2>1, <2>2, <2>3, PlainHeeds, StartHeeds
<1> QED BY <1>2, <1>3, <1>4, <1>5, <1>6

LEMMA RestoreHeeded ==
  ASSUME NEW t \in Txns, Whole(tx[t]),
         \/ Rollback(t) \/ RestoreGet(t) \/ RestoreAgain(t) \/ RestoreUpdate(t)
         \/ RestoreVerify(t) \/ RollbackRelease(t) \/ RollbackClear(t)
  PROVE  Heeded(t)
<1> DEFINE r == tx[t]
<1>1. r \in Transaction /\ Good(r) /\ Shaped(r) /\ Steady(r)
  BY DEF Whole
<1>2. CASE Rollback(t)
  <2>1. /\ r.ws \/ r.restored
        /\ Become(t, StartRollback(r)) /\ builder' = builder
    BY <1>1, <1>2 DEF Rollback, Steady, remote
  <2> QED BY <2>1, StartHeeds
<1>3. CASE RestoreGet(t) \/ RestoreAgain(t) \/ RestoreUpdate(t) \/ RestoreVerify(t)
  <2>1. r.ws /\ r.lease /\ r.pc \in Restoring
    BY <1>1, <1>3
       DEF RestoreGet, RestoreAgain, RestoreUpdate, RestoreVerify, At, Steady,
           Restoring, Good, Unleased
  <2>2. Plain(r, RetainWriteRecovery(r))
    BY <2>1, RecoveryPlain
  <2>3. \A p \in {"rs_again", "rs_verify"} : Plain(r, Goto(t, p))
    BY <2>1, GotoPlain DEF Goto, Awaits, Firm
  <2>4. CASE RestoreGet(t)
    <3> DEFINE u == Goto(t, "rs_update")
    <3>1. r.pc = "rs_get" /\ builder' = builder
      BY <2>4 DEF RestoreGet, At, remote
    <3>2. CASE builder = r.prop /\ Become(t, u)
      <4>1. /\ Steady(u) /\ Same(r, u) /\ u.ws /\ u.lease = r.lease
            /\ u.pc = "rs_update"
        BY <1>1, <2>1 DEF Goto, Transaction, Steady, Same, Restoring, Firm
      <4> HIDE DEF u
      <4> QED BY <2>1, <3>1, <3>2, <4>1, WritesHeeded
    <3>3. \/ builder = r.prop /\ Become(t, u)
          \/ Become(t, Goto(t, "rs_again")) \/ Become(t, RetainWriteRecovery(r))
      BY <2>4 DEF RestoreGet
    <3> QED BY <2>2, <2>3, <3>1, <3>2, <3>3, PlainHeeds
  <2>5. CASE RestoreAgain(t)
    <3>1. builder' = builder
      BY <2>5 DEF RestoreAgain, remote
    <3>2. Become(t, Goto(t, "rs_verify")) \/ Become(t, RetainWriteRecovery(r))
      BY <2>5 DEF RestoreAgain
    <3> QED BY <2>2, <2>3, <3>1, <3>2, PlainHeeds
  <2>6. CASE RestoreUpdate(t)
    <3>1. r.pc = "rs_update"
      BY <2>6 DEF RestoreUpdate, At
    <3>2. PICK u \in {Goto(t, "rs_verify"), RetainWriteRecovery(r)} :
            Become(t, u) /\ builder' \in {builder, r.src}
      BY <2>6 DEF RestoreUpdate
    <3>3. Plain(r, u)
      BY <2>2, <2>3, <3>2
    <3>4. u.ws /\ u.pc # "cw_get"
      <4>1. CASE u = Goto(t, "rs_verify")
        BY <1>1, <2>1, <4>1 DEF Goto, Transaction
      <4>2. CASE u = RetainWriteRecovery(r)
        <5> DEFINE b == ~r.rec /\ r.ota = "no"
        <5>1. \/ u = [r EXCEPT !.pc = "idle", !.st = "failed", !.rb = TRUE,
                               !.due = FALSE]
              \/ u = [r EXCEPT !.pc = "idle", !.st = "install_confirmation_required",
                               !.rb = b, !.due = FALSE]
          BY <4>2, Zenon DEF RetainWriteRecovery, RetainInstallRetry
        <5> HIDE DEF b
        <5> QED BY <1>1, <2>1, <5>1 DEF Transaction
      <4> QED BY <3>2, <4>1, <4>2
    <3> QED BY <2>1, <3>1, <3>2, <3>3, <3>4, WritesHeeded DEF Plain
  <2>7. CASE RestoreVerify(t)
    <3>1. builder' = builder
      BY <2>7 DEF RestoreVerify, remote
    <3>2. \/ builder = r.src /\ Become(t, AfterRestore(r))
          \/ Become(t, RetainWriteRecovery(r))
      BY <2>7 DEF RestoreVerify
    <3> QED BY <2>1, <2>2, <3>1, <3>2, PlainHeeds, RestoredHeeds
  <2> QED BY <1>3, <2>4, <2>5, <2>6, <2>7
<1>4. CASE RollbackRelease(t) \/ RollbackClear(t)
  <2>1. /\ r.pc \in {"rs_release", "rs_clear"} /\ r.restored /\ ~r.ws
        /\ builder' = builder
    BY <1>1, <1>4 DEF RollbackRelease, RollbackClear, At, Shaped, remote
  <2>2. Plain(r, RetainWriteRecovery(r))
    BY <2>1, RecoveryPlain
  <2>3. Ended(r, Finish("rolled_back"))
    BY <2>1, MayEnd
  <2>4. \/ Become(t, AfterRestore([r EXCEPT !.resv = FALSE]))
        \/ Become(t, RetainWriteRecovery(r)) \/ Become(t, Finish("rolled_back"))
    BY <1>4 DEF RollbackRelease, RollbackClear
  <2> QED BY <2>1, <2>2, <2>3, <2>4, PlainHeeds, RestoredHeeds
<1> QED BY <1>2, <1>3, <1>4

\* A check of the source by a transaction that has written.
LEMMA CheckHeeds ==
  ASSUME NEW t \in Txns, Whole(tx[t]), tx[t].ws, NEW from, NEW ok,
         CheckSource(t, from, ok, SourceLost(tx[t])), Plain(tx[t], ok)
  PROVE  Heeded(t)
BY RecoveryPlain, CheckSourceHeeds

LEMMA CompileHeeded ==
  ASSUME NEW t \in Txns, Whole(tx[t]),
         Compile(t) \/ CompileCheck(t) \/ CompileJob(t) \/ CompileCheck2(t)
  PROVE  Heeded(t)
<1> DEFINE r == tx[t]
<1>1. r \in Transaction /\ Good(r) /\ Shaped(r) /\ Steady(r)
  BY DEF Whole
<1>2. CASE Compile(t)
  <2>1. Plain(r, Goto(t, "cp_check"))
    BY GotoPlain DEF Goto, Awaits, Restoring, Firm
  <2> QED BY <1>2, <2>1, PlainHeeds DEF Compile, remote
<1>3. CASE CompileCheck(t) \/ CompileJob(t) \/ CompileCheck2(t)
  <2>1. /\ r.pc \in {"cp_check", "cp_job", "cp_check2"}
        /\ r.ws /\ r.ota = "no"
    BY <1>1, <1>3
       DEF CompileCheck, CompileJob, CompileCheck2, CheckSource, At, Good,
           Placed, Prepared
  <2>2. \A p \in {"cp_job", "cp_check2"} : Plain(r, Goto(t, p))
    BY GotoPlain DEF Goto, Awaits, Restoring, Firm
  <2> DEFINE u == [Goto(t, "idle") EXCEPT !.st = "failed", !.rb = TRUE]
             w == [Goto(t, "idle") EXCEPT
                     !.st = "install_confirmation_required", !.due = FALSE]
  <2>3. Plain(r, u)
    BY <1>1, <2>1
       DEF Plain, Same, Steady, Unapplied, Goto, Transaction, Restoring, Firm
  <2>4. Plain(r, w)
    BY <1>1, <2>1
       DEF Plain, Same, Steady, Unapplied, Goto, Transaction, Restoring, Firm,
           CompiledStates
  <2>5. CASE CompileCheck(t)
    BY <2>1, <2>2, <2>5, CheckHeeds DEF CompileCheck
  <2>6. CASE CompileJob(t)
    <3>1. builder' = builder
      BY <2>6 DEF CompileJob
    <3>2. \/ Become(t, Goto(t, "cp_check2")) \/ Become(t, u)
          \/ Become(t, StartRollback(r))
      BY <2>6 DEF CompileJob
    <3> HIDE DEF u
    <3> QED BY <2>1, <2>2, <2>3, <3>1, <3>2, PlainHeeds, StartHeeds
  <2>7. CASE CompileCheck2(t)
    BY <2>1, <2>4, <2>7, CheckHeeds DEF CompileCheck2
  <2> QED BY <1>3, <2>5, <2>6, <2>7
<1> QED BY <1>2, <1>3

LEMMA InstallHeeded ==
  ASSUME NEW t \in Txns, Whole(tx[t]),
         \/ ConfirmInstall(t) \/ RevokeReceipt(t) \/ InstallCheck(t)
         \/ InstallCheckpoint(t) \/ InstallUndo(t) \/ InstallCheck2(t)
  PROVE  Heeded(t)
<1> DEFINE r == tx[t]
<1>1. r \in Transaction /\ Good(r) /\ Shaped(r) /\ Steady(r)
  BY DEF Whole
<1>2. CASE ConfirmInstall(t)
  <2>1. \A p \in {"ci_revoke", "ci_adopt", "ci_retry"} : Plain(r, Goto(t, p))
    <3>1. r.st \in CompiledStates
      BY <1>2 DEF ConfirmInstall, CompiledStates
    <3> QED BY <3>1, GotoPlain DEF Goto, Awaits, Restoring
  <2>2. \E p \in {"ci_revoke", "ci_adopt", "ci_retry"} : Become(t, Goto(t, p))
    <3>1. Become(t, Goto(t, CASE r.ota = "no" -> "ci_revoke"
                              [] r.ota # "no" /\ r.rec -> "ci_adopt"
                              [] OTHER -> "ci_retry"))
      BY <1>2 DEF ConfirmInstall
    <3>2. CASE r.ota = "no"
      BY <3>1, <3>2
    <3>3. CASE r.ota # "no" /\ r.rec
      BY <3>1, <3>3
    <3>4. CASE r.ota # "no" /\ ~r.rec
      BY <3>1, <3>4
    <3> QED BY <3>2, <3>3, <3>4
  <2>3. builder' = builder
    BY <1>2 DEF ConfirmInstall, remote
  <2> QED BY <2>1, <2>2, <2>3, PlainHeeds
<1>3. CASE \/ RevokeReceipt(t) \/ InstallCheck(t) \/ InstallCheckpoint(t)
           \/ InstallUndo(t) \/ InstallCheck2(t)
  <2>1. /\ r.pc \in Firm /\ r.ws /\ r.ota = "no" /\ r.st \in CompiledStates
        /\ ~r.restored
    BY <1>1, <1>3
       DEF RevokeReceipt, InstallCheck, InstallCheckpoint, InstallUndo,
           InstallCheck2, CheckSource, At, Firm, Good, Placed, Prepared, Steady,
           Shaped
  <2>2. Ended(r, Finish("failed"))
    BY <2>1, MayEnd
  <2>3. Plain(r, Goto(t, "idle"))
    BY GotoPlain DEF Goto, Awaits, Restoring, Firm
  <2> DEFINE fp == IF r.kind = "install" THEN Revoke(store.meter) ELSE r.fp
             a == [Goto(t, "ci_check") EXCEPT !.fp = fp]
             b == [Goto(t, "ci_save") EXCEPT !.st = "installing"]
             c == [Goto(t, "ci_check2") EXCEPT !.ck = TRUE]
             d(ok) == [Goto(t, "ci_undo") EXCEPT !.ck = ok]
  <2> HIDE DEF fp
  <2>4. Plain(r, a) /\ Plain(r, b) /\ Plain(r, c) /\ \A ok : Plain(r, d(ok))
    <3> USE <1>1, <2>1
            DEF Plain, Same, Steady, Unapplied, Goto, Transaction, Restoring, Firm,
                CompiledStates
    <3>1. Plain(r, a)
      OBVIOUS
    <3>2. Plain(r, b)
      OBVIOUS
    <3>3. Plain(r, c)
      OBVIOUS
    <3>4. ASSUME NEW ok PROVE Plain(r, d(ok))
      OBVIOUS
    <3> HIDE DEF Plain, Same, Steady, Unapplied, Goto, Transaction, Restoring,
                 Firm, CompiledStates
    <3> QED BY <3>1, <3>2, <3>3, <3>4
  <2>5. CASE RevokeReceipt(t)
    <3>1. [Goto(t, "ci_check") EXCEPT
             !.fp = IF r.kind = "install" THEN Revoke(store.meter) ELSE @] = a
      BY <1>1 DEF Goto, Transaction, fp
    <3>2. Become(t, a) \/ Become(t, Finish("failed"))
      BY <2>5, <3>1, Zenon DEF RevokeReceipt
    <3>3. builder' = builder
      BY <2>5 DEF RevokeReceipt, remote
    <3> HIDE DEF a
    <3> QED BY <2>2, <2>4, <3>2, <3>3, PlainHeeds
  <2>6. CASE InstallCheck(t)
    BY <2>1, <2>4, <2>6, CheckHeeds DEF InstallCheck
  <2>7. CASE InstallCheckpoint(t)
    <3>1. builder' = builder
      BY <2>7 DEF InstallCheckpoint, remote
    <3>2. \/ Become(t, c) \/ Become(t, Finish("failed"))
          \/ \E ok \in BOOLEAN : Become(t, d(ok))
      BY <2>7 DEF InstallCheckpoint
    <3> HIDE DEF c, d
    <3> QED BY <2>2, <2>4, <3>1, <3>2, PlainHeeds
  <2>8. CASE InstallUndo(t)
    <3>1. builder' = builder
      BY <2>8 DEF InstallUndo, remote
    <3>2. Become(t, Finish("failed")) \/ Become(t, Goto(t, "idle"))
      BY <2>8 DEF InstallUndo
    <3> QED BY <2>2, <2>3, <3>1, <3>2, PlainHeeds
  <2>9. CASE InstallCheck2(t)
    <3>1. Plain(r, BeginUpload(r))
      BY <1>1, <2>1
         DEF BeginUpload, Plain, Same, Steady, Unapplied, Transaction, Restoring,
             Firm, CompiledStates
    <3> QED BY <2>1, <2>9, <3>1, CheckHeeds DEF InstallCheck2
  <2> QED BY <1>3, <2>5, <2>6, <2>7, <2>8, <2>9
<1> QED BY <1>2, <1>3

LEMMA OtaHeeded ==
  ASSUME NEW t \in Txns, Whole(tx[t]),
         \/ AdoptSource(t) \/ RetryCheck(t) \/ UploadJob(t) \/ UploadSave(t)
         \/ TerminalFailure(t) \/ VerifyReconnect(t) \/ PersistCheck(t)
         \/ PersistSave(t) \/ PersistClear(t)
  PROVE  Heeded(t)
<1> DEFINE r == tx[t]
<1>1. r \in Transaction /\ Good(r) /\ Shaped(r) /\ Steady(r)
  BY DEF Whole
<1>2. /\ r.pc \in Uploading \cup {"ci_adopt", "ci_retry"}
      /\ r.ws /\ r.ota # "no" /\ ~r.restored /\ ~r.rb
      /\ r.pc \notin {"cw_update", "rs_update"}
  BY <1>1 DEF AdoptSource, RetryCheck, UploadJob, UploadSave, TerminalFailure,
     VerifyReconnect, PersistCheck, PersistSave, PersistClear, CheckSource, At,
     Uploading, Good, Placed, Resumed, Shaped
<1>3. builder' = builder
  BY DEF AdoptSource, RetryCheck, UploadJob, UploadSave, TerminalFailure,
     VerifyReconnect, PersistCheck, PersistSave, PersistClear, CheckSource, remote
<1>4. \A s \in {"failed", "lost", "verified", "rolled_back"} : Ended(r, Finish(s))
  BY <1>2, MayEnd
<1>5. /\ Plain(r, RetainInstallRetry(r)) /\ Plain(r, RetainUnpersisted(r))
      /\ Plain(r, RetainInstallRetry([r EXCEPT !.pcs = FALSE]))
      /\ Plain(r, RetainUnpersisted([r EXCEPT !.pcs = FALSE]))
      /\ Plain(r, BeginVerify([r EXCEPT !.pcs = FALSE]))
  BY <1>2, RetryPlain, UncommittedPlain
<1>6. \A p \in {"idle", "ci_retry", "tf_clear", "ps_save", "ps_clear"} :
        Plain(r, Goto(t, p))
  BY GotoPlain DEF Goto, Awaits, Restoring, Firm
<1> USE DEF Plain, Same, Steady, Unapplied, Goto, Transaction, Restoring, Firm,
            CompiledStates
<1>7. Plain(r, BeginUpload(r))
  BY <1>1, <1>2 DEF BeginUpload
<1>8. Plain(r, BeginVerify(r))
  BY <1>1, <1>2 DEF BeginVerify
<1>9. Plain(r, [Goto(t, "up_save") EXCEPT !.ota = "uploaded"])
  BY <1>1, <1>2
<1>10. Plain(r, BeginVerify([r EXCEPT !.ota = "uploaded"]))
  BY <1>1, <1>2 DEF BeginVerify
<1>11. Plain(r, [Goto(t, "ps_check") EXCEPT !.pcs = TRUE])
  BY <1>1, <1>2
<1> HIDE DEF Plain, Same, Steady, Unapplied, Goto, Transaction, Restoring, Firm,
             CompiledStates
<1>12. CASE AdoptSource(t)
  BY <1>3, <1>5, <1>6, <1>12, PlainHeeds DEF AdoptSource
<1>13. CASE RetryCheck(t)
  BY <1>2, <1>7, <1>8, <1>13, CheckHeeds DEF RetryCheck
<1>14. CASE UploadJob(t)
  <2>1. \/ Become(t, [Goto(t, "up_save") EXCEPT !.ota = "uploaded"])
        \/ Become(t, BeginVerify([r EXCEPT !.ota = "uploaded"]))
        \/ Become(t, Goto(t, "tf_clear")) \/ Become(t, RetainInstallRetry(r))
    BY <1>14, Zenon DEF UploadJob
  <2> QED BY <1>3, <1>5, <1>6, <1>9, <1>10, <2>1, PlainHeeds
<1>15. CASE UploadSave(t)
  BY <1>3, <1>5, <1>15, PlainHeeds DEF UploadSave
<1>16. CASE TerminalFailure(t)
  BY <1>3, <1>4, <1>5, <1>16, PlainHeeds DEF TerminalFailure
<1>17. CASE VerifyReconnect(t)
  BY <1>3, <1>5, <1>6, <1>11, <1>17, PlainHeeds DEF VerifyReconnect
<1>18. CASE PersistCheck(t)
  BY <1>5, <1>6, <1>18, CheckSourceHeeds DEF PersistCheck
<1>19. CASE PersistSave(t)
  <2>1. Become(t, Goto(t, "ps_clear")) \/ Become(t, RetainUnpersisted(r))
    BY <1>19 DEF PersistSave
  <2> QED BY <1>3, <1>5, <1>6, <2>1, PlainHeeds
<1>20. CASE PersistClear(t)
  BY <1>3, <1>4, <1>5, <1>20, PlainHeeds DEF PersistClear
<1> QED BY <1>12, <1>13, <1>14, <1>15, <1>16, <1>17, <1>18, <1>19, <1>20

LEMMA AbandonHeeded ==
  ASSUME NEW t \in Txns, Whole(tx[t]),
         \/ Abandon(t) \/ AbandonRelease(t) \/ AbandonCheck(t) \/ AbandonClear(t)
  PROVE  Heeded(t)
<1> DEFINE r == tx[t]
<1>1. r \in Transaction /\ Good(r) /\ Shaped(r) /\ Steady(r)
  BY DEF Whole
<1>2. \A p \in {"idle", "ab_release", "ab_check", "ab_clear"} : Plain(r, Goto(t, p))
  BY GotoPlain DEF Goto, Awaits, Restoring, Firm
<1>3. CASE Abandon(t)
  <2>1. \/ r.st = "previewed" /\ Become(t, Finish("failed"))
        \/ \E p \in {"ab_release", "ab_check", "ab_clear"} : Become(t, Goto(t, p))
    BY <1>3 DEF Abandon
  <2>2. r.st = "previewed" => Ended(r, Finish("failed"))
    BY <1>1, MayEnd DEF Good
  <2>3. builder' = builder
    BY <1>3 DEF Abandon, remote
  <2> QED BY <1>2, <2>1, <2>2, <2>3, PlainHeeds
<1>4. CASE AbandonRelease(t)
  <2>1. r.pc = "ab_release" /\ builder' = builder
    BY <1>4 DEF AbandonRelease, At, remote
  <2>2. Ended(r, Finish("failed"))
    BY <2>1, MayEnd DEF Unwritten
  <2> DEFINE u == [Goto(t, "idle") EXCEPT !.resv = FALSE]
  <2>3. Plain(r, u)
    <3>1. ~r.ws /\ r.ota = "no"
      BY <1>1, <2>1 DEF Good, Placed, Unwritten
    <3> QED BY <1>1, <2>1, <3>1
            DEF Plain, Same, Steady, Unapplied, Goto, Transaction, Restoring, Firm
  <2>4. Become(t, Finish("failed")) \/ Become(t, Goto(t, "idle")) \/ Become(t, u)
    BY <1>4 DEF AbandonRelease
  <2> HIDE DEF u
  <2> QED BY <1>2, <2>1, <2>2, <2>3, <2>4, PlainHeeds
<1>5. CASE AbandonCheck(t) \/ AbandonClear(t)
  <2>1. r.pc \in {"ab_check", "ab_clear"} /\ r.ws
    BY <1>1, <1>5 DEF AbandonCheck, AbandonClear, CheckSource, At, Good, Placed,
       Resumed
  <2>2. Ended(r, Finish("failed"))
    BY <2>1, MayEnd DEF Resumed
  <2>3. CASE AbandonCheck(t)
    BY <1>2, <2>1, <2>3, CheckHeeds DEF AbandonCheck
  <2>4. CASE AbandonClear(t)
    BY <1>2, <2>2, <2>4, PlainHeeds DEF AbandonClear, remote
  <2> QED BY <1>5, <2>3, <2>4
<1> QED BY <1>3, <1>4, <1>5

LEMMA DeadlineHeeded ==
  ASSUME NEW t \in Txns, Whole(tx[t]), Due(t) \/ Expire(t) \/ ExpireRelease(t)
  PROVE  Heeded(t)
<1> DEFINE r == tx[t]
<1>1. r \in Transaction /\ Good(r) /\ Shaped(r) /\ Steady(r)
  BY DEF Whole
<1>2. builder' = builder
  BY DEF Due, Expire, ExpireRelease, remote
<1>3. CASE Due(t)
  <2>1. r.pc = "idle"
    BY <1>3 DEF Due, At
  <2>2. Plain(r, [r EXCEPT !.due = TRUE])
    BY <1>1, <2>1 DEF Plain, Same, Steady, Unapplied, Transaction, Restoring, Firm
  <2> QED BY <1>2, <1>3, <2>2, PlainHeeds DEF Due
<1>4. CASE Expire(t)
  <2> DEFINE w == [r EXCEPT !.st = "failed", !.due = FALSE, !.xstart = TRUE]
             u == [w EXCEPT !.pc = "rs_get", !.rb = FALSE]
             x == [Goto(t, "xr_release") EXCEPT
                     !.st = "failed", !.lease = FALSE, !.xstart = TRUE]
             recover == ~r.rec /\ r.ws /\ r.ota = "no" /\ r.st \notin CompiledStates
  <2>1. \/ recover /\ Become(t, StartRollback(w))
        \/ ~r.ws /\ Become(t, x)
        \/ ~recover /\ Become(t, Finish("failed"))
    BY <1>4, Zenon DEF Expire
  <2>2. recover => StartRollback(w) = u /\ Plain(r, u)
    <3>1. recover => ~w.restored
      BY <1>1 DEF Shaped, Transaction
    <3>2. recover => Plain(r, u)
      BY <1>1 DEF Plain, Same, Steady, Unapplied, Transaction, Restoring, Firm
    <3> HIDE DEF w
    <3> QED BY <3>1, <3>2 DEF StartRollback
  <2>3. ~r.ws => Plain(r, x)
    <3>1. ~r.ws => r.ota = "no"
      BY <1>1 DEF Good, Transaction
    <3> QED BY <1>1, <3>1
            DEF Goto, Plain, Same, Steady, Unapplied, Transaction, Restoring, Firm
  <2>4. ~recover => Ended(r, Finish("failed"))
    <3>1. ~recover => r.st \in CompiledStates \/ ~r.ws \/ r.ota # "no"
      BY <1>1 DEF Good
    <3> QED BY <3>1, MayEnd
  <2> HIDE DEF u, x, w, recover
  <2> QED BY <1>2, <2>1, <2>2, <2>3, <2>4, PlainHeeds
<1>5. CASE ExpireRelease(t)
  <2>1. r.pc = "xr_release"
    BY <1>5 DEF ExpireRelease, At
  <2>2. Ended(r, Finish("failed"))
    BY <2>1, MayEnd DEF Unwritten
  <2> QED BY <1>2, <1>5, <2>2, PlainHeeds DEF ExpireRelease
<1> QED BY <1>3, <1>4, <1>5

LEMMA RecoverHeeded ==
  ASSUME NEW t \in Txns, Whole(tx[t]),
         Recover(t) \/ RecoverLock(t) \/ RecoverGet(t)
  PROVE  Heeded(t)
<1> DEFINE r == tx[t]
<1>1. r \in Transaction /\ Good(r) /\ Shaped(r) /\ Steady(r)
  BY DEF Whole
<1>2. builder' = builder
  BY DEF Recover, RecoverLock, RecoverGet, remote
<1>3. CASE Recover(t)
  <2> DEFINE c == store.ck
             ota == IF c.uploaded THEN "uploaded" ELSE "attempted"
             u == [Restored(c) EXCEPT !.pc = "rv_lock"]
  <2>1. ota # "no"
    OBVIOUS
  <2>2. Restored(c) = [Blank EXCEPT
                         !.kind = c.kind, !.full = c.full, !.vid = c.vid,
                         !.src = c.src, !.prop = c.prop, !.fp = c.fp,
                         !.st = "install_confirmation_required", !.ws = TRUE,
                         !.ck = TRUE, !.rec = TRUE, !.ota = ota]
    BY Zenon DEF Restored
  <2> HIDE DEF ota
  <2>3. /\ u.pc = "rv_lock" /\ u.rec /\ u.ota = ota /\ ~u.open /\ ~u.rb
        /\ u.src = c.src /\ u.prop = c.prop
        /\ u.st = "install_confirmation_required"
    BY <2>2 DEF Blank
  <2>4. store.ck # None /\ store.ck.txn = t /\ ~r.open /\ Become(t, u)
    BY <1>3 DEF Recover
  <2> HIDE DEF u
  <2>5. Steady(u)
    BY <2>3 DEF Steady, Restoring, Firm, CompiledStates
  <2>6. Reopens(t, r, u)
    BY <2>1, <2>3, <2>4 DEF Reopens
  <2>7. Heeds(t, u)
    BY <1>2, <2>5, <2>6 DEF Heeds
  <2> QED BY <2>4, <2>7 DEF Heeded, Become
<1>4. CASE RecoverLock(t)
  <2>1. r.pc = "rv_lock" /\ r.rec /\ r.ota # "no" /\ r.ws
    BY <1>1, <1>4 DEF RecoverLock, At, Good
  <2>2. Ended(r, Finish("lost"))
    BY <2>1, MayEnd
  <2> DEFINE u == [Goto(t, "rv_get") EXCEPT !.lease = TRUE]
  <2>3. GoesOn(r, u) /\ Steady(u)
    BY <1>1, <2>1
       DEF Goto, GoesOn, Same, Steady, Unapplied, Transaction, Restoring, Firm
  <2>4. Acquire(t, Goto(t, "rv_get")) \/ Become(t, Finish("lost"))
    BY <1>4 DEF RecoverLock
  <2> QED BY <1>2, <2>2, <2>3, <2>4, PlainHeeds, AcquireHeeds
<1>5. CASE RecoverGet(t)
  <2>1. r.pc = "rv_get" /\ r.rec /\ r.ota # "no" /\ r.ws
    BY <1>1, <1>5 DEF RecoverGet, At, Good
  <2>2. Ended(r, Finish("lost"))
    BY <2>1, MayEnd
  <2> DEFINE u == [Goto(t, "idle") EXCEPT !.open = TRUE]
  <2>3. Plain(r, u)
    BY <1>1, <2>1
       DEF Goto, Plain, Same, Steady, Unapplied, Transaction, Restoring, Firm
  <2>4. Become(t, u) \/ Become(t, Finish("lost"))
    BY <1>5 DEF RecoverGet
  <2> HIDE DEF u
  <2> QED BY <1>2, <2>2, <2>3, <2>4, PlainHeeds
<1> QED BY <1>3, <1>4, <1>5

LEMMA TransactionHeeded ==
  ASSUME NEW t \in Txns, IInv, HInv, JInv, WInv, ByTransaction(t)
  PROVE  Heeded(t)
<1>1. Whole(tx[t]) /\ Planned
  BY WholeAt DEF IInv
<1> QED BY <1>1, PreviewHeeded, EnterHeeded, WriteHeeded, RestoreHeeded,
           CompileHeeded, InstallHeeded, OtaHeeded, AbandonHeeded, DeadlineHeeded,
           RecoverHeeded DEF ByTransaction, Operations, Acquires, Continues

LEMMA NextWInv ==
  ASSUME Inv, WInv, [Next]_vars
  PROVE  WInv'
<1>1. IInv /\ HInv /\ JInv
  BY DEF Inv
<1>2. ASSUME NEW t \in Txns, ByTransaction(t)
      PROVE  WInv'
  <2>1. Heeded(t) /\ Tracked(t) /\ Shares(t)
    BY <1>1, <1>2, TransactionHeeded, TransactionTracked, TransactionShares
  <2> QED BY <1>1, <2>1, UnbornStep, PlansStep, UnappliedStep DEF WInv
<1> QED BY <1>1, <1>2, OthersWInv DEF Next, ByTransaction

\* A transaction is closed by a step of its own, and not before its YAML is
\* compiled, unwritten or taken back; a restart leaves it "lost".
LEMMA ClosesRestored ==
  ASSUME Inv, WInv, [Next]_vars, NEW x \in Txns,
         tx[x].open, ~tx'[x].open, tx'[x].st # "lost", builder = x
  PROVE  tx[x].st \in CompiledStates
<1>1. IInv /\ HInv /\ JInv
  BY DEF Inv
<1>2. CASE \E t \in Txns : ByTransaction(t)
  BY <1>1, <1>2, TransactionHeeded, EndsRestored
<1>3. CASE Calibration \/ EditYaml \/ UNCHANGED vars
  BY <1>1, <1>3, CalibrationShares DEF EditYaml, vars
<1>4. CASE Crash
  <2>1. tx'[x] = IF tx[x] = Blank THEN Blank ELSE Finish("lost")
    BY <1>1, <1>4, CrashedObjects
  <2>2. tx[x] # Blank /\ Finish("lost").st = "lost"
    BY DEF Blank, Finish
  <2> QED BY <2>1, <2>2
<1> QED BY <1>2, <1>3, <1>4 DEF Next, ByTransaction

\* No transaction closes over its own uncompiled write, whatever fails, whoever
\* edits and however often it is expired: _expire and the error paths of
\* async_confirm_write close a transaction only before its write, with its
\* source in place again, or once it is compiled. The helper starts on YAML
\* that none of its transactions wrote.
THEOREM UncompiledWritesAreRestored ==
  ASSUME InitialYaml \in OtherYaml
  PROVE  Spec => UncompiledWriteIsRestored
<1>1. Init => Inv /\ WInv
  BY InitInv, InitWInv
<1>2. Inv /\ WInv /\ [Next]_vars => (Inv /\ WInv)'
  <2> SUFFICES ASSUME Inv, WInv, [Next]_vars PROVE Inv' /\ WInv'
    OBVIOUS
  <2> QED BY NextInv, NextWInv
<1>3. Inv /\ WInv /\ [Next]_vars =>
        [\A t \in Txns :
           tx[t].open /\ ~tx'[t].open /\ tx'[t].st # "lost" /\ builder = t
             => tx[t].st \in CompiledStates]_vars
  BY ClosesRestored
<1> QED BY <1>1, <1>2, <1>3, PTL DEF Spec, UncompiledWriteIsRestored
=============================================================================
