--------------------------- MODULE HandoverProofs ---------------------------
(***************************************************************************)
(* ConfigTransaction implements GainsHandover: whatever transactions do,   *)
(* fail at or are interrupted in, the verified gains of a meter are handed *)
(* over at most once, and a transaction that writes them owns them.        *)
(***************************************************************************)
EXTENDS ConfigTransactionProofs

(* What the await a transaction is suspended at says of the transaction.   *)

\* Awaits before the write of the YAML, or after it was taken back.
Unwritten ==
  {"pv_lock", "pv_read", "pv_claim", "pv_release", "cw_lock", "cw_revalidate",
   "cw_release", "cw_conflict", "nm_check", "nm_save", "ab_release",
   "xr_release", "rs_release", "rs_clear"}

\* Awaits with the YAML written, before the OTA and after its start.
Uploading == {"up_job", "up_save", "tf_clear", "vf_verify", "ps_check",
              "ps_save", "ps_clear"}
Prepared == {"cw_get", "cw_update", "cw_reconcile", "cw_validate", "cp_check",
             "cp_job", "cp_check2", "ci_revoke", "ci_check", "ci_save",
             "ci_undo", "ci_check2"}
Resumed == {"ci_adopt", "ci_retry", "ab_check", "ab_clear", "rv_lock", "rv_get"}
Restoring == {"rs_get", "rs_again", "rs_update", "rs_verify"}

\* Awaits at which a transaction may be without the lease.
Unleased == {"idle", "pv_lock", "cw_lock", "xr_release", "ab_release", "rv_lock"}

\* Awaits of a preview and of its confirmation, before anything is written.
Early == {"pv_claim", "pv_release", "cw_lock", "cw_revalidate", "cw_release",
          "cw_conflict", "cw_get", "ab_release"}

\* The states that await the user with the YAML written.
Compiling == {"validated", "install_confirmation_required"}

\* What an await says of the write and of the OTA.
Placed(r, p) ==
  /\ p \in Unwritten => ~r.ws
  /\ p \in Prepared \cup Uploading \cup Resumed => r.ws
  /\ p \in Unwritten \cup Prepared \cup Restoring => r.ota = "no"
  /\ p \in Uploading => r.ota # "no"

Good(r) ==
  /\ Placed(r, r.pc)
  /\ r.pc = "idle" /\ r.st \in Compiling => r.ws
  /\ r.st \in {"previewed", "validated"} \/ r.rb => r.ota = "no"
  /\ r.st = "previewed" => ~r.ws
  /\ r.st \in {"none", "previewed"} => ~r.rb
  /\ r.pc \in Early => r.st \in {"previewed", "write_confirmed"} /\ ~r.rb
  /\ r.pc \in {"rv_lock", "rv_get"} => r.rec
  /\ r.ota # "no" => r.ws
  /\ r.rec => r.ota # "no"
  /\ r.pc \notin Unleased => r.lease
  /\ r.open /\ (r.ws \/ r.rb) /\ r.pc # "xr_release" => r.lease
  /\ r.pc \in {"pv_lock", "pv_read"} => r.st = "none"
  /\ r.open \/ r.pc \notin {"idle", "pv_lock", "pv_read"} => r.st # "none"
  /\ r.vid # None => r.kind = "calib" \/ r.rec
  /\ r.pc \in {"nm_check", "nm_save"} => r.kind = "install"

\* A transaction whose OTA was attempted, or that is over.
Rests(r) == ~r.open /\ r.pc = "idle" /\ r.st # "none"
Past(r) == r.ota # "no" \/ Rests(r)

\* A transaction that has written verified gains.
Writes(r) == r.open /\ r.ws /\ r.vid # None /\ ~r.rec

\* Verified gains are sound; their owner is a transaction that is or was, and
\* installed gains are those of one past its OTA.
RecordOf(c) ==
  /\ Loadable(c) /\ (c.owner # None => ~c.offsets /\ c.src # None)
  /\ \A t \in Txns :
       c.owner = t => tx[t].st # "none" /\ (c.inst => Past(tx[t]))

HInv ==
  /\ \A t \in Txns : Good(tx[t])
  /\ Entry(store.meter).calib # None => RecordOf(store.meter.calib)
  /\ WriterOwnsReservation

-----------------------------------------------------------------------------
(* One step of a transaction.                                              *)

\* What r was stays true of u.
Lasting(r, u) == (r.st # "none" => u.st # "none") /\ (Past(r) => Past(u))

\* u may follow r, and writes gains only if r wrote them.
Follows(r, u) ==
  Good(u) /\ Lasting(r, u) /\ (Writes(u) => Writes(r) /\ u.vid = r.vid)

\* The step of t leads to an object that may follow, and that writes gains
\* only if they are reserved for it.
Goes(t) ==
  \E u : /\ Good(u) /\ Lasting(tx[t], u)
         /\ Writes(u) => IsReserved(store.meter, u.vid, t)
         /\ tx' = [tx EXCEPT ![t] = u]

\* A step of t that begins no write of gains: any but the one that checked the
\* reservation.
Moves(t) == \E u : Follows(tx[t], u) /\ tx' = [tx EXCEPT ![t] = u]

\* The transaction is under way, with its lease.
Busy(r) == /\ r \in Transaction /\ Good(r) /\ r.lease
           /\ r.pc # "idle" \/ r.open

LEMMA MovesGoes ==
  ASSUME NEW t \in Txns, HInv, Moves(t)
  PROVE  Goes(t)
<1>1. \A u : Follows(tx[t], u) /\ Writes(u) => IsReserved(store.meter, u.vid, t)
  BY Zenon DEF HInv, WriterOwnsReservation, Follows, Writes
<1> QED BY <1>1, Zenon DEF Moves, Follows, Goes

LEMMA BecomeMoves ==
  ASSUME NEW t \in Txns, NEW u, Become(t, u), Follows(tx[t], u)
  PROVE  Moves(t)
BY DEF Become, Moves

LEMMA AcquireMoves ==
  ASSUME NEW t \in Txns, NEW u, Acquire(t, u),
         Follows(tx[t], [u EXCEPT !.lease = TRUE])
  PROVE  Moves(t)
BY DEF Acquire, Moves

LEMMA CheckSourceMoves ==
  ASSUME NEW t \in Txns, NEW from, NEW ok, NEW lost,
         CheckSource(t, from, ok, lost),
         Follows(tx[t], ok), Follows(tx[t], lost)
  PROVE  Moves(t)
BY BecomeMoves DEF CheckSource

LEMMA FollowsTransitive ==
  ASSUME NEW a, NEW b, NEW c, Follows(a, b), Follows(b, c)
  PROVE  Follows(a, c)
BY DEF Follows, Lasting

\* Ending a transaction.
LEMMA FinishFollows ==
  ASSUME NEW r, NEW s \in {"failed", "lost", "verified", "rolled_back"}
  PROVE  Follows(r, Finish(s))
BY DEF Follows, Good, Placed, Lasting, Past, Rests, Writes, Finish, Blank,
       Unwritten, Uploading, Prepared, Resumed, Restoring, Unleased, Early,
       Compiling

\* Keeping it for another attempt at the install.
LEMMA RetryFollows ==
  ASSUME NEW r, Busy(r), r.ws
  PROVE  /\ Follows(r, RetainInstallRetry(r))
         /\ Follows(r, RetainUnpersisted(r))
<1> DEFINE b == ~r.rec /\ r.ota = "no"
<1>1. b \in BOOLEAN /\ (b => r.ota = "no")
  OBVIOUS
<1>2. /\ RetainInstallRetry(r)
           = [r EXCEPT !.pc = "idle", !.st = "install_confirmation_required",
                       !.rb = b, !.due = FALSE]
      /\ RetainUnpersisted(r)
           = [[r EXCEPT !.pc = "idle", !.st = "install_confirmation_required",
                        !.rb = b, !.due = FALSE] EXCEPT !.rb = FALSE]
  BY Zenon DEF RetainInstallRetry, RetainUnpersisted
<1> HIDE DEF b
<1> DEFINE u(c) == [r EXCEPT !.pc = "idle",
                             !.st = "install_confirmation_required",
                             !.rb = c, !.due = FALSE]
<1>3. \A c \in BOOLEAN : (c => r.ota = "no") => Follows(r, u(c))
  BY DEF Busy, Follows, Good, Placed, Lasting, Past, Rests, Writes, Transaction,
         Unwritten, Uploading, Prepared, Resumed, Restoring, Unleased, Early
<1>4. [u(b) EXCEPT !.rb = FALSE] = u(FALSE)
  BY DEF Transaction
<1> HIDE DEF u
<1> QED BY <1>1, <1>2, <1>3, <1>4 DEF u

\* Keeping it for a rollback, unless its OTA was attempted.
LEMMA RecoveryFollows ==
  ASSUME NEW r, Busy(r)
  PROVE  Follows(r, RetainWriteRecovery(r)) /\ Follows(r, SourceLost(r))
<1>1. r.rec \/ r.ota # "no" => r.ws
  BY DEF Busy, Good
<1>2. ASSUME r.ota = "no"
      PROVE  Follows(r, [r EXCEPT !.pc = "idle", !.st = "failed", !.rb = TRUE,
                                  !.due = FALSE])
  BY <1>2 DEF Busy, Follows, Good, Placed, Lasting, Past, Rests, Writes,
         Transaction, Unwritten, Uploading, Prepared, Resumed, Restoring,
         Unleased, Early, Compiling
<1>3. Follows(r, RetainWriteRecovery(r))
  BY <1>1, <1>2, RetryFollows DEF RetainWriteRecovery
<1> QED BY <1>3, FinishFollows DEF SourceLost

\* Taking the YAML back.
LEMMA RollbackFollows ==
  ASSUME NEW r, Busy(r), r.ota = "no", r.st # "none"
  PROVE  Follows(r, AfterRestore(r)) /\ Follows(r, StartRollback(r))
<1> USE DEF Busy, Follows, Good, Placed, Lasting, Past, Rests, Writes,
            Transaction, Unwritten, Uploading, Prepared, Resumed, Restoring,
            Unleased, Early, Compiling
<1>1. \A p \in {"rs_release", "rs_clear"} :
        Follows(r, [[r EXCEPT !.ws = FALSE, !.restored = TRUE, !.rb = FALSE]
                      EXCEPT !.pc = p])
  OBVIOUS
<1>2. Follows(r, [r EXCEPT !.pc = "rs_get", !.rb = FALSE])
  OBVIOUS
<1> HIDE DEF Busy, Follows, Good, Placed, Lasting, Past, Rests, Writes,
            Transaction, Unwritten, Uploading, Prepared, Resumed, Restoring,
            Unleased, Early, Compiling
<1>3. Follows(r, AfterRestore(r))
  BY <1>1, FinishFollows DEF AfterRestore
<1> QED BY <1>2, <1>3 DEF StartRollback

\* Changing a flag that nothing here depends on.
LEMMA FlagFollows ==
  ASSUME NEW r, Busy(r)
  PROVE  /\ Busy([r EXCEPT !.resv = FALSE]) /\ Follows(r, [r EXCEPT !.resv = FALSE])
         /\ Busy([r EXCEPT !.pcs = FALSE]) /\ Follows(r, [r EXCEPT !.pcs = FALSE])
<1> USE DEF Busy, Follows, Good, Placed, Lasting, Past, Rests, Writes, Transaction,
            Unwritten, Uploading, Prepared, Resumed, Restoring, Unleased, Early,
            Compiling
<1>1. Follows(r, [r EXCEPT !.resv = FALSE])
  OBVIOUS
<1>2. Follows(r, [r EXCEPT !.pcs = FALSE])
  OBVIOUS
<1> HIDE DEF Busy, Follows, Good, Placed, Lasting, Past, Rests, Writes, Transaction,
             Unwritten, Uploading, Prepared, Resumed, Restoring, Unleased, Early,
             Compiling
<1>3. /\ [r EXCEPT !.resv = FALSE] \in Transaction
      /\ [r EXCEPT !.pcs = FALSE] \in Transaction
  BY FlagUpdates DEF Busy, Extends
<1>4. \A u \in {[r EXCEPT !.resv = FALSE], [r EXCEPT !.pcs = FALSE]} :
        u.lease = r.lease /\ u.pc = r.pc /\ u.open = r.open
  BY DEF Busy, Transaction
<1> QED BY <1>1, <1>2, <1>3, <1>4 DEF Busy, Follows

\* Going on to the await p.
LEMMA GotoFollows ==
  ASSUME NEW r, Busy(r), r.st # "none",
         NEW p \in Awaits \ ({"idle", "pv_lock", "pv_read", "nm_check", "nm_save",
                              "rv_lock", "rv_get"} \cup Early),
         Placed(r, p)
  PROVE  Follows(r, [r EXCEPT !.pc = p])
BY DEF Busy, Follows, Good, Placed, Lasting, Past, Rests, Writes, Transaction,
       Unleased

\* Returning to the caller with the YAML written.
LEMMA IdleFollows ==
  ASSUME NEW r, Busy(r), r.ws
  PROVE  Follows(r, [r EXCEPT !.pc = "idle"])
BY DEF Busy, Follows, Good, Placed, Lasting, Past, Rests, Writes, Transaction,
       Unleased, Unwritten, Uploading, Prepared, Resumed, Restoring, Early, Compiling

\* Returning in another state.
LEMMA StopFollows ==
  ASSUME NEW r, Busy(r), r.ws,
         NEW s \in States \ {"none", "previewed"}, s = "validated" => r.ota = "no"
  PROVE  /\ Follows(r, [[r EXCEPT !.pc = "idle"] EXCEPT !.st = s, !.due = FALSE])
         /\ r.ota = "no" /\ s \notin {"validated", "install_confirmation_required"} =>
              Follows(r, [[r EXCEPT !.pc = "idle"] EXCEPT !.st = s, !.rb = TRUE])
<1> USE DEF Busy, Follows, Good, Placed, Lasting, Past, Rests, Writes, Transaction,
       Unleased, Unwritten, Uploading, Prepared, Resumed, Restoring, Early, Compiling
<1>1. Follows(r, [[r EXCEPT !.pc = "idle"] EXCEPT !.st = s, !.due = FALSE])
  OBVIOUS
<1>2. r.ota = "no" /\ s \notin {"validated", "install_confirmation_required"} =>
        Follows(r, [[r EXCEPT !.pc = "idle"] EXCEPT !.st = s, !.rb = TRUE])
  OBVIOUS
<1> HIDE DEF Busy, Follows, Good, Placed, Lasting, Past, Rests, Writes, Transaction,
       Unleased, Unwritten, Uploading, Prepared, Resumed, Restoring, Early, Compiling
<1> QED BY <1>1, <1>2

-----------------------------------------------------------------------------
(* Every step of a transaction goes on as its await says.                  *)

LEMMA BusyAt ==
  ASSUME NEW t \in Txns, TypeOK, HInv,
         \/ tx[t].pc \notin Unleased
         \/ tx[t].open /\ (tx[t].ws \/ tx[t].rb) /\ tx[t].pc # "xr_release"
  PROVE  Busy(tx[t])
<1>1. Good(tx[t]) /\ tx[t] \in Transaction
  BY DEF HInv, TypeOK
<1> QED BY <1>1 DEF Good, Busy, Unleased

\* The updates that only one step makes.
LEMMA PreviewUpdates ==
  ASSUME NEW r, Good(r), r \in Transaction
  PROVE  /\ \A a, b, c : Follows(Blank, [Blank EXCEPT !.open = TRUE, !.st = "previewed",
                                          !.src = a, !.prop = b, !.fp = c])
         /\ \A v : Follows(Blank, [Blank EXCEPT !.pc = "pv_lock", !.kind = "calib",
                                                !.vid = v])
         /\ r.pc = "pv_lock" =>
              Follows(r, [[r EXCEPT !.pc = "pv_read"] EXCEPT !.lease = TRUE])
         /\ r.pc = "pv_read" =>
              /\ Follows(r, Blank)
              /\ \A a, b, c : Follows(r, [r EXCEPT !.open = TRUE, !.st = "previewed",
                    !.pc = "pv_claim", !.src = a, !.prop = b, !.full = c])
         /\ r.pc = "pv_claim" =>
              /\ Follows(r, [[r EXCEPT !.pc = "idle"] EXCEPT !.lease = FALSE, !.resv = TRUE])
              /\ Follows(r, [[r EXCEPT !.pc = "pv_release"] EXCEPT !.resv = TRUE])
         /\ r.pc = "pv_release" =>
              Follows(r, [[r EXCEPT !.pc = "idle"] EXCEPT !.lease = FALSE])
<1> USE DEF Follows, Good, Placed, Lasting, Past, Rests, Writes, Transaction,
            Unwritten, Uploading, Prepared, Resumed, Restoring, Unleased, Early,
            Compiling
<1>1. \A a, b, c : Follows(Blank, [Blank EXCEPT !.open = TRUE, !.st = "previewed",
                                          !.src = a, !.prop = b, !.fp = c])
  BY DEF Blank
<1>2. \A v : Follows(Blank, [Blank EXCEPT !.pc = "pv_lock", !.kind = "calib", !.vid = v])
  BY DEF Blank
<1>3. r.pc = "pv_lock" => Follows(r, [[r EXCEPT !.pc = "pv_read"] EXCEPT !.lease = TRUE])
  OBVIOUS
<1>4. r.pc = "pv_read" => Follows(r, Blank)
  BY DEF Blank
<1>5. r.pc = "pv_read" =>
        \A a, b, c : Follows(r, [r EXCEPT !.open = TRUE, !.st = "previewed",
                    !.pc = "pv_claim", !.src = a, !.prop = b, !.full = c])
  OBVIOUS
<1>6. r.pc = "pv_claim" =>
        Follows(r, [[r EXCEPT !.pc = "idle"] EXCEPT !.lease = FALSE, !.resv = TRUE])
  OBVIOUS
<1>7. r.pc = "pv_claim" =>
        Follows(r, [[r EXCEPT !.pc = "pv_release"] EXCEPT !.resv = TRUE])
  OBVIOUS
<1>8. r.pc = "pv_release" => Follows(r, [[r EXCEPT !.pc = "idle"] EXCEPT !.lease = FALSE])
  OBVIOUS
<1> HIDE DEF Follows, Good, Placed, Lasting, Past, Rests, Writes, Transaction,
             Unwritten, Uploading, Prepared, Resumed, Restoring, Unleased, Early,
             Compiling
<1> QED BY <1>1, <1>2, <1>3, <1>4, <1>5, <1>6, <1>7, <1>8, Zenon

LEMMA PreviewMoves ==
  ASSUME NEW t \in Txns, TypeOK, HInv,
         \/ Preview(t) \/ PreviewGains(t) \/ PreviewGainsLock(t)
         \/ PreviewGainsRead(t) \/ PreviewGainsClaim(t) \/ PreviewGainsRelease(t)
  PROVE  Moves(t)
<1>1. Good(tx[t]) /\ tx[t] \in Transaction
  BY DEF HInv, TypeOK
<1>2. CASE Preview(t)
  BY <1>1, <1>2, PreviewUpdates, BecomeMoves DEF Preview
<1>3. CASE PreviewGains(t)
  BY <1>1, <1>3, PreviewUpdates, BecomeMoves DEF PreviewGains
<1>4. CASE PreviewGainsLock(t)
  BY <1>1, <1>4, PreviewUpdates, AcquireMoves DEF PreviewGainsLock, At, Goto
<1>5. CASE PreviewGainsRead(t)
  BY <1>1, <1>5, PreviewUpdates, BecomeMoves DEF PreviewGainsRead, At
<1>6. CASE PreviewGainsClaim(t)
  BY <1>1, <1>6, PreviewUpdates, FinishFollows, BecomeMoves
     DEF PreviewGainsClaim, At, Goto
<1>7. CASE PreviewGainsRelease(t)
  BY <1>1, <1>7, PreviewUpdates, FinishFollows, BecomeMoves
     DEF PreviewGainsRelease, At, Goto
<1> QED BY <1>2, <1>3, <1>4, <1>5, <1>6, <1>7

LEMMA ConfirmUpdates ==
  ASSUME NEW r, Good(r), r \in Transaction
  PROVE  /\ r.pc = "idle" /\ r.open /\ r.st = "previewed" =>
              /\ Follows(r, [r EXCEPT !.pc = "cw_lock"])
              /\ Follows(r, [r EXCEPT !.pc = "ab_release"])
         /\ r.pc = "cw_lock" /\ r.vid = None =>
              Follows(r, [BeginWrite(r) EXCEPT !.lease = TRUE])
         /\ r.pc = "cw_lock" =>
              Follows(r, [[r EXCEPT !.pc = "cw_revalidate"] EXCEPT !.lease = TRUE])
         /\ r.pc = "cw_revalidate" =>
              /\ Follows(r, [r EXCEPT !.pc = "cw_release"])
              /\ Good(BeginWrite(r)) /\ Lasting(r, BeginWrite(r))
              /\ BeginWrite(r).vid = r.vid
         /\ r.pc = "nm_check" => Follows(r, [r EXCEPT !.pc = "nm_save"])
         /\ r.pc = "cw_get" =>
              Follows(r, [[r EXCEPT !.pc = "cw_conflict"] EXCEPT !.ws = FALSE])
         /\ r.pc = "cw_update" =>
              Follows(r, [[r EXCEPT !.pc = "cw_validate"] EXCEPT !.st = "written"])
         /\ r.pc \in {"cw_release", "cw_conflict"} => Follows(r, [r EXCEPT !.pc = "idle"])
         /\ r.pc = "ab_release" =>
              /\ Follows(r, [r EXCEPT !.pc = "idle"])
              /\ Follows(r, [[r EXCEPT !.pc = "idle"] EXCEPT !.resv = FALSE])
<1> USE DEF Follows, Good, Placed, Lasting, Past, Rests, Writes, Transaction,
            Unwritten, Uploading, Prepared, Resumed, Restoring, Unleased, Early,
            Compiling
<1>1. r.pc = "idle" /\ r.open /\ r.st = "previewed" =>
        Follows(r, [r EXCEPT !.pc = "cw_lock"])
  OBVIOUS
<1>2. r.pc = "idle" /\ r.open /\ r.st = "previewed" =>
        Follows(r, [r EXCEPT !.pc = "ab_release"])
  OBVIOUS
<1>3. r.pc = "cw_lock" /\ r.kind = "install" =>
        Follows(r, [[r EXCEPT !.pc = "nm_check"] EXCEPT !.lease = TRUE])
  OBVIOUS
<1>13. r.pc = "cw_lock" /\ r.vid = None =>
         Follows(r, [[r EXCEPT !.pc = "cw_get", !.st = "write_confirmed", !.ws = TRUE]
                       EXCEPT !.lease = TRUE])
  OBVIOUS
<1>4. r.pc = "cw_lock" =>
        Follows(r, [[r EXCEPT !.pc = "cw_revalidate"] EXCEPT !.lease = TRUE])
  OBVIOUS
<1>5. r.pc = "cw_revalidate" => Follows(r, [r EXCEPT !.pc = "cw_release"])
  OBVIOUS
<1>6. r.pc = "cw_revalidate" =>
        Good(BeginWrite(r)) /\ Lasting(r, BeginWrite(r)) /\ BeginWrite(r).vid = r.vid
  BY DEF BeginWrite
<1>7. r.pc = "nm_check" => Follows(r, [r EXCEPT !.pc = "nm_save"])
  OBVIOUS
<1>8. r.pc = "cw_get" =>
        Follows(r, [[r EXCEPT !.pc = "cw_conflict"] EXCEPT !.ws = FALSE])
  OBVIOUS
<1>9. r.pc = "cw_update" =>
        Follows(r, [[r EXCEPT !.pc = "cw_validate"] EXCEPT !.st = "written"])
  OBVIOUS
<1>10. r.pc \in {"cw_release", "cw_conflict"} => Follows(r, [r EXCEPT !.pc = "idle"])
  OBVIOUS
<1>11. r.pc = "ab_release" => Follows(r, [r EXCEPT !.pc = "idle"])
  OBVIOUS
<1>12. r.pc = "ab_release" => Follows(r, [[r EXCEPT !.pc = "idle"] EXCEPT !.resv = FALSE])
  OBVIOUS
<1> HIDE DEF Follows, Good, Placed, Lasting, Past, Rests, Writes, Transaction,
             Unwritten, Uploading, Prepared, Resumed, Restoring, Unleased, Early,
             Compiling
<1>14. r.pc = "cw_lock" /\ r.vid = None =>
         Follows(r, [BeginWrite(r) EXCEPT !.lease = TRUE])
  BY <1>3, <1>13, Zenon DEF BeginWrite
<1> QED BY <1>1, <1>2, <1>4, <1>5, <1>6, <1>7, <1>8, <1>9, <1>10, <1>11, <1>12,
           <1>14, Zenon

LEMMA WriteMoves ==
  ASSUME NEW t \in Txns, TypeOK, HInv,
         \/ ConfirmWrite(t) \/ ConfirmWriteLock(t) \/ ConfirmWriteRelease(t)
         \/ MetadataCheck(t) \/ MetadataSave(t) \/ WriteGet(t) \/ WriteUpdate(t)
         \/ WriteConflict(t) \/ Reconcile(t) \/ Validate(t)
  PROVE  Moves(t)
<1> DEFINE r == tx[t]
<1>1. Good(r) /\ r \in Transaction
  BY DEF HInv, TypeOK
<1>2. CASE ConfirmWrite(t)
  BY <1>1, <1>2, ConfirmUpdates, BecomeMoves DEF ConfirmWrite, Ready, At, Goto
<1>3. CASE ConfirmWriteLock(t)
  BY <1>1, <1>3, ConfirmUpdates, AcquireMoves DEF ConfirmWriteLock, At, Goto
<1>4. CASE ConfirmWriteRelease(t)
  BY <1>1, <1>4, ConfirmUpdates, FinishFollows, BecomeMoves
     DEF ConfirmWriteRelease, At, Goto
<1>5. CASE MetadataCheck(t)
  <2>1. At(t, "nm_check")
    BY <1>5 DEF MetadataCheck, CheckSource
  <2>2. Busy(r)
    BY <2>1, BusyAt DEF At, Unleased
  <2> QED BY <1>1, <1>5, <2>1, <2>2, ConfirmUpdates, RecoveryFollows,
             CheckSourceMoves DEF MetadataCheck, At, Goto
<1>6. CASE MetadataSave(t)
  BY <1>6, FinishFollows, BecomeMoves DEF MetadataSave
<1>7. CASE WriteGet(t)
  <2>1. At(t, "cw_get")
    BY <1>7 DEF WriteGet
  <2>2. Busy(r) /\ r.st # "none" /\ r.ws /\ r.ota = "no"
    BY <1>1, <2>1, BusyAt DEF At, Unleased, Good, Placed, Prepared
  <2>3. \A p \in {"cw_update", "cw_reconcile"} : Follows(r, Goto(t, p))
    BY <2>2, GotoFollows
       DEF Goto, Awaits, Early, Placed, Unwritten, Prepared, Uploading, Restoring
  <2> QED BY <1>1, <1>7, <2>1, <2>3, ConfirmUpdates, FinishFollows, BecomeMoves
             DEF WriteGet, At, Goto
<1>8. CASE WriteUpdate(t)
  <2>1. At(t, "cw_update")
    BY <1>8 DEF WriteUpdate
  <2>2. Busy(r) /\ r.st # "none" /\ r.ws /\ r.ota = "no"
    BY <1>1, <2>1, BusyAt DEF At, Unleased, Good, Placed, Prepared
  <2>3. Follows(r, Goto(t, "cw_reconcile"))
    BY <2>2, GotoFollows
       DEF Goto, Awaits, Early, Placed, Unwritten, Prepared, Uploading, Restoring
  <2> QED BY <1>1, <1>8, <2>1, <2>3, ConfirmUpdates, BecomeMoves
             DEF WriteUpdate, At, Goto
<1>9. CASE WriteConflict(t)
  BY <1>1, <1>9, ConfirmUpdates, FinishFollows, BecomeMoves
     DEF WriteConflict, At, Goto
<1>10. CASE Reconcile(t)
  <2>1. At(t, "cw_reconcile")
    BY <1>10 DEF Reconcile
  <2>2. Busy(r) /\ r.st # "none" /\ r.ota = "no"
    BY <1>1, <2>1, BusyAt DEF At, Unleased, Good, Placed, Prepared
  <2> QED BY <1>10, <2>2, FinishFollows, RollbackFollows, RecoveryFollows,
             BecomeMoves DEF Reconcile
<1>11. CASE Validate(t)
  <2>1. At(t, "cw_validate")
    BY <1>11 DEF Validate
  <2>2. Busy(r) /\ r.st # "none" /\ r.ota = "no" /\ r.ws
    BY <1>1, <2>1, BusyAt DEF At, Unleased, Good, Placed, Prepared
  <2>3. Follows(r, [Goto(t, "idle") EXCEPT !.st = "validated", !.due = FALSE])
    BY <2>2, StopFollows DEF Goto, States
  <2> QED BY <1>11, <2>2, <2>3, RollbackFollows, BecomeMoves DEF Validate
<1> QED
  BY <1>2, <1>3, <1>4, <1>5, <1>6, <1>7, <1>8, <1>9, <1>10, <1>11

LEMMA RollbackMoves ==
  ASSUME NEW t \in Txns, TypeOK, HInv,
         \/ Rollback(t) \/ RestoreGet(t) \/ RestoreAgain(t) \/ RestoreUpdate(t)
         \/ RestoreVerify(t) \/ RollbackRelease(t) \/ RollbackClear(t)
  PROVE  Moves(t)
<1> DEFINE r == tx[t]
<1>1. Good(r) /\ r \in Transaction
  BY DEF HInv, TypeOK
<1>2. Busy(r) /\ r.ota = "no" /\ r.st # "none"
  <2>1. \/ r.open /\ r.rb /\ r.pc = "idle"
        \/ r.pc \in {"rs_get", "rs_again", "rs_update", "rs_verify", "rs_release",
                     "rs_clear"}
    BY DEF Rollback, RestoreGet, RestoreAgain, RestoreUpdate, RestoreVerify,
           RollbackRelease, RollbackClear, Ready, At
  <2>2. Busy(r)
    BY <2>1, BusyAt DEF Unleased
  <2> QED BY <1>1, <2>1, <2>2 DEF Good, Placed, Unwritten, Restoring
<1>3. \A p \in {"rs_again", "rs_update", "rs_verify"} : Follows(r, Goto(t, p))
  BY <1>2, GotoFollows
     DEF Goto, Awaits, Early, Placed, Unwritten, Prepared, Uploading, Resumed, Restoring
<1>4. CASE Rollback(t)
  BY <1>2, <1>4, RollbackFollows, BecomeMoves DEF Rollback
<1>5. CASE RestoreGet(t)
  BY <1>2, <1>3, <1>5, RecoveryFollows, BecomeMoves DEF RestoreGet
<1>6. CASE RestoreAgain(t)
  BY <1>2, <1>3, <1>6, RecoveryFollows, BecomeMoves DEF RestoreAgain
<1>7. CASE RestoreUpdate(t)
  BY <1>2, <1>3, <1>7, RecoveryFollows, BecomeMoves DEF RestoreUpdate
<1>8. CASE RestoreVerify(t)
  BY <1>2, <1>8, RollbackFollows, RecoveryFollows, BecomeMoves DEF RestoreVerify
<1>9. CASE RollbackRelease(t)
  <2> DEFINE u == [r EXCEPT !.resv = FALSE]
  <2>1. Busy(u) /\ Follows(r, u)
    BY <1>2, FlagFollows
  <2>2. u.ota = "no" /\ u.st # "none"
    BY <1>1, <1>2 DEF Transaction
  <2>3. Follows(u, AfterRestore(u))
    BY <2>1, <2>2, RollbackFollows
  <2>4. Follows(r, AfterRestore(u))
    BY <2>1, <2>3, FollowsTransitive
  <2> QED BY <1>2, <1>9, <2>4, FinishFollows, RecoveryFollows, BecomeMoves
             DEF RollbackRelease
<1>10. CASE RollbackClear(t)
  BY <1>2, <1>10, FinishFollows, RecoveryFollows, BecomeMoves DEF RollbackClear
<1> QED BY <1>4, <1>5, <1>6, <1>7, <1>8, <1>9, <1>10

LEMMA CompileMoves ==
  ASSUME NEW t \in Txns, TypeOK, HInv,
         \/ Compile(t) \/ CompileCheck(t) \/ CompileJob(t) \/ CompileCheck2(t)
  PROVE  Moves(t)
<1> DEFINE r == tx[t]
<1>1. Good(r) /\ r \in Transaction
  BY DEF HInv, TypeOK
<1>2. Busy(r) /\ r.ota = "no" /\ r.st # "none" /\ r.ws
  <2>1. \/ r.open /\ r.pc = "idle" /\ r.st = "validated"
        \/ r.pc \in {"cp_check", "cp_job", "cp_check2"}
    BY DEF Compile, CompileCheck, CompileJob, CompileCheck2, CheckSource, Ready, At
  <2>2. r.ws /\ r.ota = "no" /\ r.st # "none"
    BY <1>1, <2>1 DEF Good, Placed, Prepared, Compiling
  <2> QED BY <2>1, <2>2, BusyAt DEF Unleased
<1>3. \A p \in {"cp_check", "cp_job", "cp_check2"} : Follows(r, Goto(t, p))
  BY <1>2, GotoFollows
     DEF Goto, Awaits, Early, Placed, Unwritten, Prepared, Uploading, Resumed, Restoring
<1>4. CASE Compile(t)
  BY <1>3, <1>4, BecomeMoves DEF Compile
<1>5. CASE CompileCheck(t)
  BY <1>2, <1>3, <1>5, RecoveryFollows, CheckSourceMoves DEF CompileCheck
<1>6. CASE CompileJob(t)
  <2>1. Follows(r, [Goto(t, "idle") EXCEPT !.st = "failed", !.rb = TRUE])
    BY <1>2, StopFollows DEF Goto, States
  <2> QED BY <1>2, <1>3, <1>6, <2>1, RollbackFollows, BecomeMoves DEF CompileJob
<1>7. CASE CompileCheck2(t)
  <2>1. Follows(r, [Goto(t, "idle") EXCEPT
                      !.st = "install_confirmation_required", !.due = FALSE])
    BY <1>2, StopFollows DEF Goto, States
  <2> QED BY <1>2, <1>7, <2>1, RecoveryFollows, CheckSourceMoves DEF CompileCheck2
<1> QED BY <1>4, <1>5, <1>6, <1>7

\* The updates of an install: the OTA starts, its upload is acknowledged, the
\* reconnect is verified.
LEMMA InstallUpdates ==
  ASSUME NEW r, Busy(r), r.ws, r.st # "none"
  PROVE  /\ Follows(r, BeginUpload(r))
         /\ r.ota # "no" => Follows(r, BeginVerify(r))
         /\ r.pc = "up_job" =>
              /\ Follows(r, [[r EXCEPT !.pc = "up_save"] EXCEPT !.ota = "uploaded"])
              /\ Follows(r, BeginVerify([r EXCEPT !.ota = "uploaded"]))
         /\ r.ota = "no" =>
              /\ \A f : Follows(r, [[r EXCEPT !.pc = "ci_check"] EXCEPT !.fp = f])
              /\ Follows(r, [[r EXCEPT !.pc = "ci_save"] EXCEPT !.st = "installing"])
              /\ \A b : /\ Follows(r, [[r EXCEPT !.pc = "ci_check2"] EXCEPT !.ck = b])
                        /\ Follows(r, [[r EXCEPT !.pc = "ci_undo"] EXCEPT !.ck = b])
         /\ r.ota # "no" =>
              Follows(r, [[r EXCEPT !.pc = "ps_check"] EXCEPT !.pcs = TRUE])
<1> USE DEF Busy, Follows, Good, Placed, Lasting, Past, Rests, Writes, Transaction,
       Unleased, Unwritten, Uploading, Prepared, Resumed, Restoring, Early, Compiling
<1>1. Follows(r, BeginUpload(r))
  BY DEF BeginUpload
<1>2. r.ota # "no" => Follows(r, BeginVerify(r))
  BY DEF BeginVerify
<1>3. r.pc = "up_job" =>
        Follows(r, [[r EXCEPT !.pc = "up_save"] EXCEPT !.ota = "uploaded"])
  OBVIOUS
<1>4. r.pc = "up_job" => Follows(r, BeginVerify([r EXCEPT !.ota = "uploaded"]))
  BY DEF BeginVerify
<1>5. r.ota = "no" =>
        \A f : Follows(r, [[r EXCEPT !.pc = "ci_check"] EXCEPT !.fp = f])
  OBVIOUS
<1>6. r.ota = "no" =>
        Follows(r, [[r EXCEPT !.pc = "ci_save"] EXCEPT !.st = "installing"])
  OBVIOUS
<1>7. r.ota = "no" =>
        \A b : Follows(r, [[r EXCEPT !.pc = "ci_check2"] EXCEPT !.ck = b])
  OBVIOUS
<1>8. r.ota = "no" =>
        \A b : Follows(r, [[r EXCEPT !.pc = "ci_undo"] EXCEPT !.ck = b])
  OBVIOUS
<1>9. r.ota # "no" =>
        Follows(r, [[r EXCEPT !.pc = "ps_check"] EXCEPT !.pcs = TRUE])
  OBVIOUS
<1> HIDE DEF Busy, Follows, Good, Placed, Lasting, Past, Rests, Writes, Transaction,
       Unleased, Unwritten, Uploading, Prepared, Resumed, Restoring, Early, Compiling
<1> QED BY <1>1, <1>2, <1>3, <1>4, <1>5, <1>6, <1>7, <1>8, <1>9, Zenon

\* An install before its OTA.
LEMMA InstallMoves ==
  ASSUME NEW t \in Txns, TypeOK, HInv,
         \/ RevokeReceipt(t) \/ InstallCheck(t) \/ InstallCheckpoint(t)
         \/ InstallUndo(t) \/ InstallCheck2(t)
  PROVE  Moves(t)
<1> DEFINE r == tx[t]
<1>1. Good(r) /\ r \in Transaction
  BY DEF HInv, TypeOK
<1>2. Busy(r) /\ r.ota = "no" /\ r.st # "none" /\ r.ws
  <2>1. r.pc \in {"ci_revoke", "ci_check", "ci_save", "ci_undo", "ci_check2"}
    BY DEF RevokeReceipt, InstallCheck, InstallCheckpoint, InstallUndo,
           InstallCheck2, CheckSource, At
  <2>2. r.ws /\ r.ota = "no" /\ r.st # "none"
    BY <1>1, <2>1 DEF Good, Placed, Prepared
  <2> QED BY <2>1, <2>2, BusyAt DEF Unleased
<1>3. CASE RevokeReceipt(t)
  <2>1. \E f : Become(t, [Goto(t, "ci_check") EXCEPT !.fp = f])
               \/ Become(t, Finish("failed"))
    BY <1>3, Zenon DEF RevokeReceipt
  <2> QED BY <1>2, <2>1, InstallUpdates, FinishFollows, BecomeMoves DEF Goto
<1>4. CASE InstallCheck(t)
  BY <1>2, <1>4, InstallUpdates, RecoveryFollows, CheckSourceMoves
     DEF InstallCheck, Goto
<1>5. CASE InstallCheckpoint(t)
  <2>1. \E b : \/ Become(t, [Goto(t, "ci_check2") EXCEPT !.ck = b])
               \/ Become(t, Finish("failed"))
               \/ Become(t, [Goto(t, "ci_undo") EXCEPT !.ck = b])
    BY <1>5, Zenon DEF InstallCheckpoint
  <2> QED BY <1>2, <2>1, InstallUpdates, FinishFollows, BecomeMoves DEF Goto
<1>6. CASE InstallUndo(t)
  <2>1. Follows(r, Goto(t, "idle"))
    BY <1>2, IdleFollows DEF Goto
  <2> QED BY <1>6, <2>1, FinishFollows, BecomeMoves DEF InstallUndo
<1>7. CASE InstallCheck2(t)
  BY <1>2, <1>7, InstallUpdates, RecoveryFollows, CheckSourceMoves DEF InstallCheck2
<1> QED BY <1>3, <1>4, <1>5, <1>6, <1>7

\* The start of an install or of its retry.
LEMMA RetryMoves ==
  ASSUME NEW t \in Txns, TypeOK, HInv,
         ConfirmInstall(t) \/ AdoptSource(t) \/ RetryCheck(t)
  PROVE  Moves(t)
<1> DEFINE r == tx[t]
<1>1. Good(r) /\ r \in Transaction
  BY DEF HInv, TypeOK
<1>2. Busy(r) /\ r.st # "none" /\ r.ws
  <2>1. \/ r.open /\ r.pc = "idle" /\ r.st = "install_confirmation_required"
        \/ r.pc \in {"ci_adopt", "ci_retry"}
    BY DEF ConfirmInstall, AdoptSource, RetryCheck, CheckSource, Ready, At
  <2>2. r.ws /\ r.st # "none"
    BY <1>1, <2>1 DEF Good, Placed, Resumed, Compiling
  <2> QED BY <2>1, <2>2, BusyAt DEF Unleased
<1>3. \A p \in {"ci_revoke", "ci_adopt", "ci_retry"} :
        (p = "ci_revoke" => r.ota = "no") => Follows(r, Goto(t, p))
  BY <1>2, GotoFollows
     DEF Goto, Awaits, Early, Placed, Unwritten, Prepared, Uploading, Resumed, Restoring
<1>4. CASE ConfirmInstall(t)
  BY <1>3, <1>4, BecomeMoves DEF ConfirmInstall
<1>5. CASE AdoptSource(t)
  <2>1. Follows(r, Goto(t, "idle"))
    BY <1>2, IdleFollows DEF Goto
  <2> QED BY <1>2, <1>3, <1>5, <2>1, RetryFollows, BecomeMoves DEF AdoptSource
<1>6. CASE RetryCheck(t)
  BY <1>2, <1>6, InstallUpdates, RecoveryFollows, CheckSourceMoves DEF RetryCheck
<1> QED BY <1>4, <1>5, <1>6

\* From the start of the OTA to the durable metadata.
LEMMA OtaMoves ==
  ASSUME NEW t \in Txns, TypeOK, HInv,
         \/ UploadJob(t) \/ UploadSave(t) \/ TerminalFailure(t)
         \/ VerifyReconnect(t) \/ PersistCheck(t) \/ PersistSave(t) \/ PersistClear(t)
  PROVE  Moves(t)
<1> DEFINE r == tx[t]
           u == [r EXCEPT !.pcs = FALSE]
<1>1. Good(r) /\ r \in Transaction
  BY DEF HInv, TypeOK
<1>2. Busy(r) /\ r.st # "none" /\ r.ws /\ r.ota # "no"
  <2>1. r.pc \in Uploading
    BY DEF UploadJob, UploadSave, TerminalFailure, VerifyReconnect, PersistCheck,
           PersistSave, PersistClear, CheckSource, At, Uploading
  <2>2. r.ws /\ r.ota # "no" /\ r.st # "none"
    BY <1>1, <2>1 DEF Good, Placed, Uploading
  <2> QED BY <2>1, <2>2, BusyAt DEF Unleased, Uploading
<1>3. \A p \in {"tf_clear", "ps_save", "ps_clear"} : Follows(r, Goto(t, p))
  BY <1>2, GotoFollows
     DEF Goto, Awaits, Early, Placed, Unwritten, Prepared, Uploading, Resumed, Restoring
<1>4. /\ Busy(u) /\ Follows(r, u)
      /\ u.ws /\ u.ota # "no" /\ u.st # "none"
  BY <1>1, <1>2, FlagFollows DEF Transaction
<1> HIDE DEF u
<1>5. /\ Follows(r, BeginVerify(u)) /\ Follows(r, RetainInstallRetry(u))
      /\ Follows(r, RetainUnpersisted(u))
  BY <1>4, InstallUpdates, RetryFollows, FollowsTransitive
<1>6. CASE UploadJob(t)
  BY <1>2, <1>3, <1>6, InstallUpdates, RetryFollows, BecomeMoves
     DEF UploadJob, At, Goto
<1>7. CASE UploadSave(t)
  BY <1>5, <1>7, BecomeMoves DEF UploadSave, u
<1>8. CASE TerminalFailure(t)
  BY <1>5, <1>8, FinishFollows, BecomeMoves DEF TerminalFailure, u
<1>9. CASE VerifyReconnect(t)
  BY <1>2, <1>3, <1>9, InstallUpdates, RetryFollows, BecomeMoves
     DEF VerifyReconnect, Goto
<1>10. CASE PersistCheck(t)
  BY <1>2, <1>3, <1>10, RetryFollows, CheckSourceMoves DEF PersistCheck
<1>11. CASE PersistSave(t)
  BY <1>2, <1>3, <1>11, RetryFollows, BecomeMoves DEF PersistSave
<1>12. CASE PersistClear(t)
  BY <1>2, <1>12, FinishFollows, RetryFollows, BecomeMoves DEF PersistClear
<1> QED BY <1>6, <1>7, <1>8, <1>9, <1>10, <1>11, <1>12

LEMMA AbandonMoves ==
  ASSUME NEW t \in Txns, TypeOK, HInv,
         Abandon(t) \/ AbandonRelease(t) \/ AbandonCheck(t) \/ AbandonClear(t)
  PROVE  Moves(t)
<1> DEFINE r == tx[t]
<1>1. Good(r) /\ r \in Transaction
  BY DEF HInv, TypeOK
<1>2. (\/ r.st = "install_confirmation_required" /\ r.open /\ r.pc = "idle"
       \/ r.pc \in {"ab_check", "ab_clear"})
        => Busy(r) /\ r.st # "none" /\ r.ws
  <2>1. ASSUME \/ r.st = "install_confirmation_required" /\ r.open /\ r.pc = "idle"
               \/ r.pc \in {"ab_check", "ab_clear"}
        PROVE  Busy(r) /\ r.st # "none" /\ r.ws
    <3>1. r.ws /\ r.st # "none"
      BY <1>1, <2>1 DEF Good, Placed, Resumed, Compiling
    <3> QED BY <2>1, <3>1, BusyAt DEF Unleased
  <2> QED BY <2>1
<1>3. Busy(r) /\ r.st # "none" /\ r.ws =>
        \A p \in {"ab_check", "ab_clear", "idle"} : Follows(r, Goto(t, p))
  <2>1. Busy(r) /\ r.st # "none" /\ r.ws =>
          \A p \in {"ab_check", "ab_clear"} : Follows(r, Goto(t, p))
    BY GotoFollows
       DEF Goto, Awaits, Early, Placed, Unwritten, Prepared, Uploading, Resumed,
           Restoring
  <2>2. Busy(r) /\ r.st # "none" /\ r.ws => Follows(r, Goto(t, "idle"))
    BY IdleFollows DEF Goto
  <2> QED BY <2>1, <2>2
<1>4. CASE Abandon(t)
  <2>1. r.st = "previewed" => Follows(r, Goto(t, "ab_release"))
    BY <1>1, <1>4, ConfirmUpdates DEF Abandon, Ready, At, Goto
  <2>2. CASE r.st = "previewed"
    BY <1>4, <2>1, <2>2, FinishFollows, BecomeMoves DEF Abandon
  <2>3. CASE r.st # "previewed"
    <3>1. /\ r.st = "install_confirmation_required" /\ r.open /\ r.pc = "idle"
          /\ \E p \in {"ab_check", "ab_clear"} : Become(t, Goto(t, p))
      BY <1>4, <2>3 DEF Abandon, Ready, At
    <3> QED BY <1>2, <1>3, <3>1, BecomeMoves
  <2> QED BY <2>2, <2>3
<1>5. CASE AbandonRelease(t)
  BY <1>1, <1>5, ConfirmUpdates, FinishFollows, BecomeMoves
     DEF AbandonRelease, At, Goto
<1>6. CASE AbandonCheck(t)
  BY <1>2, <1>3, <1>6, RecoveryFollows, CheckSourceMoves
     DEF AbandonCheck, CheckSource, At
<1>7. CASE AbandonClear(t)
  BY <1>2, <1>3, <1>7, FinishFollows, BecomeMoves DEF AbandonClear, At
<1> QED BY <1>4, <1>5, <1>6, <1>7

\* The updates of deadlines and of recovery.
LEMMA DeadlineUpdates ==
  ASSUME NEW r, Good(r), r \in Transaction
  PROVE  /\ r.open => Follows(r, [r EXCEPT !.due = TRUE])
         /\ r.open /\ r.pc = "idle" /\ r.ws =>
              LET u == [r EXCEPT !.st = "failed", !.due = FALSE, !.xstart = TRUE]
              IN  r.ota = "no" =>
                    Busy(u) /\ Follows(r, u) /\ u.ota = "no" /\ u.st # "none"
         /\ r.open /\ r.pc = "idle" /\ ~r.ws =>
              Follows(r, [[r EXCEPT !.pc = "xr_release"] EXCEPT
                            !.st = "failed", !.lease = FALSE, !.xstart = TRUE])
         /\ r.pc = "rv_lock" =>
              Follows(r, [[r EXCEPT !.pc = "rv_get"] EXCEPT !.lease = TRUE])
         /\ r.pc = "rv_get" =>
              Follows(r, [[r EXCEPT !.pc = "idle"] EXCEPT !.open = TRUE])
<1> USE DEF Busy, Follows, Good, Placed, Lasting, Past, Rests, Writes, Transaction,
       Unleased, Unwritten, Uploading, Prepared, Resumed, Restoring, Early, Compiling
<1>1. r.open => Follows(r, [r EXCEPT !.due = TRUE])
  OBVIOUS
<1> DEFINE u == [r EXCEPT !.st = "failed", !.due = FALSE, !.xstart = TRUE]
<1>2. r.open /\ r.pc = "idle" /\ r.ws /\ r.ota = "no" =>
        Follows(r, u) /\ u.ota = "no" /\ u.st # "none" /\ u.lease /\ u.open
  OBVIOUS
<1>3. r.open /\ r.pc = "idle" /\ ~r.ws =>
        Follows(r, [[r EXCEPT !.pc = "xr_release"] EXCEPT
                      !.st = "failed", !.lease = FALSE, !.xstart = TRUE])
  OBVIOUS
<1>4. r.pc = "rv_lock" =>
        Follows(r, [[r EXCEPT !.pc = "rv_get"] EXCEPT !.lease = TRUE])
  OBVIOUS
<1>5. r.pc = "rv_get" =>
        Follows(r, [[r EXCEPT !.pc = "idle"] EXCEPT !.open = TRUE])
  OBVIOUS
<1> HIDE DEF Busy, Follows, Good, Placed, Lasting, Past, Rests, Writes, Transaction,
       Unleased, Unwritten, Uploading, Prepared, Resumed, Restoring, Early, Compiling
<1>6. u \in Transaction
  BY StateUpdates DEF Extends, States
<1>7. Follows(r, u) /\ u.lease /\ u.open => Busy(u)
  BY <1>6 DEF Follows, Busy
<1> QED BY <1>1, <1>2, <1>3, <1>4, <1>5, <1>7, Zenon

\* A recovered transaction has had its OTA and is not open yet.
LEMMA RecoverFollows ==
  ASSUME NEW r, NEW c
  PROVE  Follows(r, [Restored(c) EXCEPT !.pc = "rv_lock"])
<1> DEFINE ota == IF c.uploaded THEN "uploaded" ELSE "attempted"
           u == [Restored(c) EXCEPT !.pc = "rv_lock"]
<1>1. ota \in {"uploaded", "attempted"}
  OBVIOUS
<1>2. Restored(c) = [Blank EXCEPT
                       !.kind = c.kind, !.full = c.full, !.vid = c.vid,
                       !.src = c.src, !.prop = c.prop, !.fp = c.fp,
                       !.st = "install_confirmation_required", !.ws = TRUE,
                       !.ck = TRUE, !.rec = TRUE, !.ota = ota]
  BY Zenon DEF Restored
<1> HIDE DEF ota
<1>3. /\ u.pc = "rv_lock" /\ u.ws /\ u.rec /\ ~u.rb /\ ~u.open
      /\ u.st = "install_confirmation_required" /\ u.ota = ota
  BY <1>2 DEF Blank
<1> HIDE DEF u
<1>4. Good(u)
  BY <1>1, <1>3 DEF Good, Placed, Unleased, Unwritten, Uploading, Prepared,
                    Resumed, Restoring, Early, Compiling
<1>5. Lasting(r, u) /\ ~Writes(u)
  BY <1>1, <1>3 DEF Lasting, Past, Writes
<1> QED BY <1>4, <1>5 DEF Follows, u

LEMMA DeadlineMoves ==
  ASSUME NEW t \in Txns, TypeOK, HInv,
         \/ Due(t) \/ Expire(t) \/ ExpireRelease(t)
         \/ Recover(t) \/ RecoverLock(t) \/ RecoverGet(t)
  PROVE  Moves(t)
<1> DEFINE r == tx[t]
<1>1. Good(r) /\ r \in Transaction
  BY DEF HInv, TypeOK
<1>2. CASE Due(t)
  BY <1>1, <1>2, DeadlineUpdates, BecomeMoves DEF Due
<1>3. CASE Expire(t)
  <2> DEFINE u == [r EXCEPT !.st = "failed", !.due = FALSE, !.xstart = TRUE]
             w == [Goto(t, "xr_release") EXCEPT
                     !.st = "failed", !.lease = FALSE, !.xstart = TRUE]
  <2>1. r.open /\ r.pc = "idle"
    BY <1>3 DEF Expire, At
  <2>2. r.ws /\ r.ota = "no" => Follows(r, StartRollback(u))
    <3>1. r.ws /\ r.ota = "no" =>
            Busy(u) /\ Follows(r, u) /\ u.ota = "no" /\ u.st # "none"
      BY <1>1, <2>1, DeadlineUpdates
    <3> HIDE DEF u
    <3> QED BY <3>1, RollbackFollows, FollowsTransitive
  <2>3. ~r.ws => Follows(r, w)
    BY <1>1, <2>1, DeadlineUpdates DEF Goto
  <2>4. \/ r.ws /\ r.ota = "no" /\ Become(t, StartRollback(u))
        \/ ~r.ws /\ Become(t, w)
        \/ Become(t, Finish("failed"))
    BY <1>3, Zenon DEF Expire
  <2> HIDE DEF u, w
  <2> QED BY <2>2, <2>3, <2>4, FinishFollows, BecomeMoves
<1>4. CASE ExpireRelease(t)
  BY <1>4, FinishFollows, BecomeMoves DEF ExpireRelease
<1>5. CASE Recover(t)
  BY <1>5, RecoverFollows, BecomeMoves DEF Recover
<1>6. CASE RecoverLock(t)
  BY <1>1, <1>6, DeadlineUpdates, FinishFollows, BecomeMoves, AcquireMoves
     DEF RecoverLock, At, Goto
<1>7. CASE RecoverGet(t)
  BY <1>1, <1>7, DeadlineUpdates, FinishFollows, BecomeMoves
     DEF RecoverGet, At, Goto
<1> QED BY <1>2, <1>3, <1>4, <1>5, <1>6, <1>7

\* The write of gains begins when the durable record confirms the reservation.
LEMMA RevalidateGoes ==
  ASSUME NEW t \in Txns, TypeOK, HInv, ConfirmWriteRevalidate(t)
  PROVE  Goes(t)
<1> DEFINE r == tx[t]
           u == BeginWrite(r)
<1>1. Good(r) /\ r \in Transaction /\ r.pc = "cw_revalidate"
  BY DEF HInv, TypeOK, ConfirmWriteRevalidate, At
<1>2. CASE Become(t, u) /\ IsReserved(store.meter, r.vid, t)
  <2>1. Good(u) /\ Lasting(r, u) /\ u.vid = r.vid
    BY <1>1, ConfirmUpdates
  <2> HIDE DEF u
  <2> QED BY <1>2, <2>1 DEF Goes, Become
<1>3. CASE Become(t, IF r.resv THEN Goto(t, "cw_release") ELSE Finish("failed"))
  <2>1. Follows(r, Goto(t, "cw_release")) /\ Follows(r, Finish("failed"))
    BY <1>1, ConfirmUpdates, FinishFollows DEF Goto
  <2> QED BY <1>3, <2>1, BecomeMoves, MovesGoes
<1> QED BY <1>2, <1>3 DEF ConfirmWriteRevalidate

LEMMA TransactionGoes ==
  ASSUME NEW t \in Txns, TypeOK, HInv, ByTransaction(t)
  PROVE  Goes(t)
BY PreviewMoves, WriteMoves, RollbackMoves, CompileMoves, InstallMoves, RetryMoves,
   OtaMoves, AbandonMoves, DeadlineMoves, RevalidateGoes, MovesGoes
   DEF ByTransaction, Operations, Acquires, Continues

-----------------------------------------------------------------------------
(* What becomes of the gains on record.                                    *)

\* What the step, whoever makes it, does to the transactions.
Followed ==
  \A x \in Txns :
    /\ Good(tx'[x]) /\ Lasting(tx[x], tx'[x])
    /\ Writes(tx'[x]) => IsReserved(store.meter, tx'[x].vid, x)

LEMMA GoesFollowed ==
  ASSUME NEW t \in Txns, TypeOK, HInv, Goes(t)
  PROVE  Followed
<1>1. PICK u : /\ Good(u) /\ Lasting(tx[t], u)
               /\ Writes(u) => IsReserved(store.meter, u.vid, t)
               /\ tx' = [tx EXCEPT ![t] = u]
  BY Zenon DEF Goes
<1> SUFFICES ASSUME NEW x \in Txns
             PROVE  /\ Good(tx'[x]) /\ Lasting(tx[x], tx'[x])
                    /\ Writes(tx'[x]) => IsReserved(store.meter, tx'[x].vid, x)
  BY DEF Followed
<1>2. CASE x = t
  <2>1. tx'[x] = u
    BY <1>1, <1>2 DEF TypeOK
  <2> QED BY <1>1, <1>2, <2>1, Zenon
<1>3. CASE x # t
  <2>1. tx'[x] = tx[x]
    BY <1>1, <1>3 DEF TypeOK
  <2>2. Good(tx[x]) /\ Lasting(tx[x], tx[x])
    BY DEF HInv, Lasting
  <2>3. Writes(tx[x]) => IsReserved(store.meter, tx[x].vid, x)
    BY Zenon DEF HInv, WriterOwnsReservation, Writes
  <2> QED BY <2>1, <2>2, <2>3, Zenon
<1> QED BY <1>2, <1>3

LEMMA UnchangedFollowed ==
  ASSUME HInv, tx' = tx
  PROVE  Followed
<1>1. \A x \in Txns : Good(tx[x]) /\ Lasting(tx[x], tx[x])
  BY DEF HInv, Lasting
<1>2. \A x \in Txns : Writes(tx[x]) => IsReserved(store.meter, tx[x].vid, x)
  BY Zenon DEF HInv, WriterOwnsReservation, Writes
<1> QED BY <1>1, <1>2, Zenon DEF Followed

\* The record after the step, and the writers it must suit.
LEMMA RecordNext ==
  ASSUME Followed,
         \A x \in Txns : Writes(tx'[x]) => IsReserved(store'.meter, tx'[x].vid, x),
         Entry(store'.meter).calib # None =>
           /\ Loadable(store'.meter.calib)
           /\ store'.meter.calib.owner # None =>
                ~store'.meter.calib.offsets /\ store'.meter.calib.src # None
           /\ \A x \in Txns : store'.meter.calib.owner = x =>
                tx[x].st # "none" /\ (store'.meter.calib.inst => Past(tx[x]))
  PROVE  HInv'
<1>1. \A x \in Txns : Good(tx'[x])
  BY DEF Followed
<1>2. WriterOwnsReservation'
  BY Zenon DEF WriterOwnsReservation, Writes
<1>3. \A x \in Txns : /\ tx[x].st # "none" => tx'[x].st # "none"
                      /\ Past(tx[x]) => Past(tx'[x])
  BY DEF Followed, Lasting
<1>4. Entry(store'.meter).calib # None => RecordOf(store.meter.calib)'
  BY <1>3, Zenon DEF RecordOf
<1> QED BY <1>1, <1>2, <1>4, Zenon DEF HInv

LEMMA CalibType ==
  ASSUME TypeOK, Entry(store.meter).calib # None
  PROVE  /\ store.meter \in Meters /\ store.meter # None
         /\ Entry(store.meter) = store.meter
         /\ store.meter.calib \in Calibrations
BY DEF TypeOK, Stores, Entry, NoMeter, Meters

\* Saves that leave the calibration on record alone.
LEMMA SameGains ==
  ASSUME TypeOK, HInv, Followed,
         Entry(store'.meter).calib = Entry(store.meter).calib
  PROVE  HInv' /\ gains' = gains
<1>1. Entry(store.meter).calib # None =>
        Entry(store.meter) = store.meter /\ Entry(store'.meter) = store'.meter
  BY DEF Entry, NoMeter
<1>2. Entry(store.meter).calib # None => store'.meter.calib = store.meter.calib
  BY <1>1
<1>3. gains' = gains
  BY <1>2, Zenon DEF gains
<1>4. \A v, x : IsReserved(store.meter, v, x) => IsReserved(store'.meter, v, x)
  BY <1>2 DEF IsReserved, Identifies
<1>5. \A x \in Txns : Writes(tx'[x]) => IsReserved(store'.meter, tx'[x].vid, x)
  BY <1>4, Zenon DEF Followed
<1>6. Entry(store.meter).calib # None => RecordOf(store.meter.calib)
  BY DEF HInv
<1>7. HInv'
  BY <1>2, <1>5, <1>6, RecordNext DEF RecordOf
<1> QED BY <1>3, <1>7

\* A record with a calibration c.
Records(m, c) == m \in Meters /\ c \in Calibrations /\ m.calib = c

LEMMA RecordsShape ==
  ASSUME NEW m, NEW c, Records(m, c)
  PROVE  /\ Entry(m) = m /\ Entry(m).calib # None /\ m.calib = c
         /\ c.vid \in Vids /\ c.vid # None
BY NoneIsNoRecord, NoneIsFresh DEF Records, Entry, Calibrations

\* The stage of the gains of a loadable record.
StageOf(c) ==
  CASE c.yaml -> "yaml"
    [] ~c.yaml /\ c.inst -> "installed"
    [] c.avail -> "free"
    [] ~c.avail /\ ~c.inst /\ c.owner # None -> "claimed"
    [] OTHER -> "flash"

LEMMA StageIs ==
  ASSUME NEW c \in Calibrations, Loadable(c)
  PROVE  /\ c.yaml => StageOf(c) = "yaml"
         /\ c.inst /\ ~c.yaml => StageOf(c) = "installed"
         /\ c.avail => StageOf(c) = "free"
         /\ ~c.avail /\ ~c.inst /\ c.owner # None => StageOf(c) = "claimed"
         /\ ~c.avail /\ ~c.inst /\ c.owner = None => StageOf(c) = "flash"
BY DEF Loadable, StageOf, Calibrations

LEMMA GainsAre ==
  ASSUME NEW c, Records(store.meter, c)
  PROVE  gains = [vid |-> c.vid, stage |-> StageOf(c), owner |-> c.owner]
<1>1. Entry(store.meter).calib # None /\ store.meter.calib = c
  BY RecordsShape
<1> QED BY <1>1, Zenon DEF gains, StageOf

LEMMA GainsBecome ==
  ASSUME NEW c, Records(store'.meter, c)
  PROVE  gains' = [vid |-> c.vid, stage |-> StageOf(c), owner |-> c.owner]
<1>1. Entry(store'.meter).calib # None /\ store'.meter.calib = c
  BY RecordsShape
<1> QED BY <1>1, Zenon DEF gains, StageOf

\* gains with another stage and another owner.
LEMMA GainsFields ==
  ASSUME NEW w, NEW s, NEW o, NEW x, NEW y,
         gains = [vid |-> w, stage |-> s, owner |-> o],
         gains' = [vid |-> w, stage |-> x, owner |-> y]
  PROVE  gains.stage = s /\ gains' = [gains EXCEPT !.stage = x, !.owner = y]
<1> DEFINE h == [vid |-> w, stage |-> x, owner |-> o]
<1>1. h = [vid |-> w, stage |-> x, owner |-> o]
  OBVIOUS
<1> HIDE DEF h
<1>2. [gains EXCEPT !.stage = x] = h
  BY <1>1
<1>3. [h EXCEPT !.owner = y] = [vid |-> w, stage |-> x, owner |-> y]
  BY <1>1
<1> QED BY <1>1, <1>2, <1>3

LEMMA ClaimGains ==
  ASSUME TypeOK, HInv, Followed, NEW t \in Txns, NEW v,
         CanClaim(store.meter, v), store'.meter = Claim(store.meter, t),
         tx[t].st # "none"
  PROVE  HInv' /\ Handover!Claim(t)
<1> DEFINE m == store.meter
           c == m.calib
           d == [c EXCEPT !.avail = FALSE, !.owner = t, !.inst = FALSE]
<1>1. Records(m, c) /\ RecordOf(c) /\ c.vid = v /\ c.avail /\ ~c.offsets
  BY CalibType DEF CanClaim, Identifies, HInv, Records
<1>2. /\ Records(store'.meter, d) /\ d.owner = t /\ ~d.avail /\ ~d.inst
      /\ d.vid = c.vid /\ d.src = c.src /\ ~d.offsets /\ d.yaml = c.yaml
  <2>1. m \in Meters /\ c \in Calibrations
    BY <1>1 DEF Records
  <2>2. /\ d \in Calibrations
        /\ d.owner = t /\ ~d.avail /\ ~d.inst
        /\ d.vid = c.vid /\ d.src = c.src /\ ~d.offsets /\ d.yaml = c.yaml
    BY <1>1, <2>1 DEF Calibrations
  <2>3. store'.meter = [m EXCEPT !.calib = d]
    BY <2>1 DEF Claim, Meters, Calibrations
  <2> HIDE DEF d
  <2>4. store'.meter \in Meters /\ store'.meter.calib = d
    BY <2>1, <2>2, <2>3 DEF Meters
  <2> QED BY <2>2, <2>4 DEF Records
<1> HIDE DEF d
<1>3. c.src # None /\ ~c.inst /\ ~c.yaml /\ t # None
  BY <1>1, NoneIsFresh DEF RecordOf, Loadable, Records, Calibrations
<1>4. Loadable(c) /\ Loadable(d)
  BY <1>1, <1>2, <1>3 DEF RecordOf, Loadable
<1>5. gains.stage = "free" /\ gains' = [gains EXCEPT !.stage = "claimed", !.owner = t]
  <2>1. StageOf(c) = "free" /\ StageOf(d) = "claimed"
    BY <1>1, <1>2, <1>3, <1>4, StageIs DEF Records
  <2>2. gains = [vid |-> c.vid, stage |-> "free", owner |-> c.owner]
    BY <1>1, <2>1, GainsAre
  <2>3. gains' = [vid |-> c.vid, stage |-> "claimed", owner |-> t]
    BY <1>2, <2>1, GainsBecome
  <2> QED BY <2>2, <2>3, GainsFields
<1>6. \A x \in Txns : ~Writes(tx'[x])
  BY <1>1 DEF Followed, IsReserved
<1>7. HInv'
  BY <1>2, <1>3, <1>4, <1>6, RecordNext, RecordsShape
<1> QED BY <1>5, <1>7 DEF Handover!Claim

LEMMA ReleaseGains ==
  ASSUME TypeOK, HInv, Followed, NEW t \in Txns, NEW v,
         CanRelease(store.meter, v, t), store'.meter = Release(store.meter, v, t),
         ~Past(tx[t]), ~Writes(tx'[t])
  PROVE  HInv' /\ Handover!GiveBack
<1> DEFINE m == store.meter
           c == m.calib
           b == ~c.offsets
           d == [c EXCEPT !.avail = b, !.owner = None, !.inst = FALSE]
<1>1. Records(m, c) /\ RecordOf(c) /\ c.vid = v /\ ~c.avail /\ c.owner = t
  BY CalibType DEF CanRelease, Identifies, HInv, Records
<1>2. b /\ c.src # None /\ ~c.inst /\ ~c.yaml /\ t # None
  BY <1>1, NoneIsFresh DEF RecordOf, Loadable, Records, Calibrations
<1>3. store'.meter = [m EXCEPT !.calib.avail = b, !.calib.owner = None,
                               !.calib.inst = FALSE]
  BY Zenon DEF Release
<1>4. b \in BOOLEAN
  OBVIOUS
<1> HIDE DEF b
<1>5. /\ Records(store'.meter, d) /\ d.owner = None /\ d.avail /\ ~d.inst
      /\ d.vid = c.vid /\ d.src = c.src /\ d.yaml = c.yaml
  <2>1. m \in Meters /\ c \in Calibrations
    BY <1>1 DEF Records
  <2>2. d \in Calibrations
    BY <1>4, <2>1, ZenonT(30) DEF Calibrations
  <2>3. /\ d.owner = None /\ d.avail /\ ~d.inst
        /\ d.vid = c.vid /\ d.src = c.src /\ d.yaml = c.yaml
    BY <1>2, <2>1 DEF Calibrations
  <2>4. store'.meter = [m EXCEPT !.calib = d]
    BY <1>3, <2>1 DEF Meters, Calibrations
  <2> HIDE DEF d
  <2>5. store'.meter \in Meters /\ store'.meter.calib = d
    BY <2>1, <2>2, <2>4 DEF Meters
  <2> QED BY <2>2, <2>3, <2>5 DEF Records
<1> HIDE DEF d
<1>6. Loadable(c) /\ Loadable(d)
  BY <1>1, <1>2, <1>5 DEF RecordOf, Loadable
<1>7. gains.stage = "claimed" /\ gains' = [gains EXCEPT !.stage = "free", !.owner = None]
  <2>1. StageOf(c) = "claimed" /\ StageOf(d) = "free"
    BY <1>1, <1>2, <1>5, <1>6, StageIs DEF Records
  <2>2. gains = [vid |-> c.vid, stage |-> "claimed", owner |-> t]
    BY <1>1, <2>1, GainsAre
  <2>3. gains' = [vid |-> c.vid, stage |-> "free", owner |-> None]
    BY <1>5, <2>1, GainsBecome
  <2> QED BY <2>2, <2>3, GainsFields
<1>8. \A x \in Txns : ~Writes(tx'[x])
  BY <1>1 DEF Followed, IsReserved
<1>9. HInv'
  BY <1>5, <1>6, <1>8, NoneIsFresh, RecordNext, RecordsShape
<1> QED BY <1>7, <1>9 DEF Handover!GiveBack

\* A configuration or a firmware takes the place of installed gains.
LEMMA RevokeGains ==
  ASSUME TypeOK, HInv, Followed, Installed(store.meter),
         Entry(store'.meter).calib = None,
         \A x \in Txns : ~Writes(tx'[x])
  PROVE  HInv' /\ Handover!Revoke
<1> DEFINE c == store.meter.calib
<1>1. Records(store.meter, c) /\ RecordOf(c) /\ c.inst
  BY CalibType DEF Installed, HInv, Records
<1>2. gains.stage \in {"installed", "yaml"}
  BY <1>1, StageIs, GainsAre DEF Records, RecordOf, Calibrations
<1>3. gains' = [vid |-> None, stage |-> "absent", owner |-> None]
  BY Zenon DEF gains
<1>4. HInv'
  BY RecordNext
<1> QED BY <1>2, <1>3, <1>4 DEF Handover!Revoke, Handover!NoGains

\* The gains are marked as installed, or the YAML as their authority.
LEMMA MarkGains ==
  ASSUME TypeOK, HInv, Followed, NEW t \in Txns, NEW v,
         IsReserved(store.meter, v, t),
         NEW d, Records(store'.meter, d), Loadable(d),
         d.vid = store.meter.calib.vid, d.src = store.meter.calib.src,
         d.offsets = store.meter.calib.offsets,
         d.owner = store.meter.calib.owner, d.avail = store.meter.calib.avail,
         d.inst => Past(tx[t])
  PROVE  /\ HInv'
         /\ gains.stage \in {"claimed", "installed", "yaml"}
         /\ gains' = [gains EXCEPT !.stage = StageOf(d)]
         /\ gains.stage = StageOf(store.meter.calib)
<1> DEFINE c == store.meter.calib
<1>1. Records(store.meter, c) /\ RecordOf(c) /\ ~c.avail /\ ~c.offsets /\ c.owner = t
  BY CalibType DEF IsReserved, Identifies, HInv, Records
<1>2. /\ d.vid = c.vid /\ d.src = c.src /\ d.offsets = c.offsets /\ d.owner = t
      /\ ~d.avail /\ t # None
  BY <1>1, NoneIsFresh DEF Records, Calibrations
<1>3. gains.stage \in {"claimed", "installed", "yaml"}
  BY <1>1, <1>2, StageIs, GainsAre DEF Records, RecordOf, Calibrations
<1>4. /\ gains' = [gains EXCEPT !.stage = StageOf(d)]
      /\ gains.stage = StageOf(store.meter.calib)
  BY <1>1, <1>2, GainsAre, GainsBecome
<1>5. store'.meter.calib = d /\ Entry(store'.meter).calib # None
  BY RecordsShape
<1>6. \A w, x : IsReserved(store.meter, w, x) => IsReserved(store'.meter, w, x)
  BY <1>2, <1>5 DEF IsReserved, Identifies
<1>7. \A x \in Txns : Writes(tx'[x]) => IsReserved(store'.meter, tx'[x].vid, x)
  BY <1>6, Zenon DEF Followed
<1>8. tx[t].st # "none"
  BY <1>1, CalibType, RecordsShape DEF RecordOf
<1>9. HInv'
  BY <1>1, <1>2, <1>5, <1>7, <1>8, RecordNext DEF RecordOf
<1> QED BY <1>3, <1>4, <1>9

\* The metadata of verified gains is saved: they are installed.
LEMMA InstallGains ==
  ASSUME TypeOK, HInv, Followed, NEW t \in Txns, NEW v,
         NEW prop \in Contents, NEW conf \in Contents \cup {None},
         IsReserved(store.meter, v, t), Past(tx[t]),
         store'.meter = SaveAndMark(store.meter, prop, conf)
  PROVE  HInv' /\ (Handover!Install \/ gains' = gains)
<1> DEFINE m == store.meter
           c == m.calib
           d == [c EXCEPT !.inst = TRUE]
<1>1. m \in Meters /\ c \in Calibrations /\ c.owner = t /\ ~c.avail /\ Loadable(c)
  BY CalibType DEF IsReserved, Identifies, HInv, RecordOf
<1>2. /\ d \in Calibrations /\ d.inst /\ d.yaml = c.yaml
      /\ d.vid = c.vid /\ d.src = c.src /\ d.offsets = c.offsets
      /\ d.owner = c.owner /\ d.avail = c.avail
  BY <1>1 DEF Calibrations
<1>3. store'.meter = [m EXCEPT !.hash = prop, !.conf = conf, !.calib = d]
  BY <1>1 DEF SaveAndMark, Meters, Calibrations
<1> HIDE DEF d
<1>4. Records(store'.meter, d)
  BY <1>1, <1>2, <1>3 DEF Records, Meters
<1>5. Loadable(d)
  BY <1>1, <1>2, NoneIsFresh DEF Loadable
<1>6. /\ HInv'
      /\ gains.stage \in {"claimed", "installed", "yaml"}
      /\ gains' = [gains EXCEPT !.stage = StageOf(d)]
      /\ gains.stage = StageOf(c)
  BY <1>2, <1>4, <1>5, MarkGains
<1>7. StageOf(d) = IF d.yaml THEN "yaml" ELSE "installed"
  BY <1>2, <1>5, StageIs
<1>8. CASE gains.stage = "claimed"
  <2>1. ~d.yaml
    BY <1>1, <1>2, <1>6, <1>8, StageIs DEF Calibrations
  <2> QED BY <1>6, <1>7, <1>8, <2>1 DEF Handover!Install, Handover!Move
<1>9. CASE gains.stage # "claimed"
  <2>1. c.inst
    BY <1>1, <1>6, <1>9, StageIs, NoneIsFresh DEF Calibrations, Loadable
  <2>2. StageOf(d) = StageOf(c)
    BY <1>1, <1>2, <1>7, <2>1, StageIs DEF Calibrations
  <2>3. Records(m, c)
    BY <1>1 DEF Records
  <2>4. /\ gains = [vid |-> c.vid, stage |-> StageOf(c), owner |-> c.owner]
        /\ gains' = [vid |-> d.vid, stage |-> StageOf(d), owner |-> d.owner]
    BY <1>4, <2>3, GainsAre, GainsBecome
  <2> QED BY <1>2, <1>6, <2>2, <2>4
<1> QED BY <1>8, <1>9

\* The flash copy of installed gains is cleared.
LEMMA CompleteGains ==
  ASSUME TypeOK, HInv, Followed, NEW t \in Txns, NEW v,
         CanComplete(store.meter, v, t), store'.meter = Complete(store.meter)
  PROVE  HInv' /\ (Handover!Complete \/ gains' = gains)
<1> DEFINE m == store.meter
           c == m.calib
           d == [c EXCEPT !.yaml = TRUE]
<1>1. /\ IsReserved(m, v, t) /\ Records(m, c) /\ RecordOf(c)
      /\ m \in Meters /\ c \in Calibrations /\ c.inst /\ c.owner = t
  BY CalibType DEF CanComplete, IsReserved, Identifies, HInv, Records
<1>2. /\ d \in Calibrations /\ d.inst = c.inst /\ d.yaml
      /\ d.vid = c.vid /\ d.src = c.src /\ d.offsets = c.offsets
      /\ d.owner = c.owner /\ d.avail = c.avail
  BY <1>1 DEF Calibrations
<1>3. store'.meter = [m EXCEPT !.calib = d]
  BY <1>1 DEF Complete, Meters, Calibrations
<1> HIDE DEF d
<1>4. Records(store'.meter, d)
  BY <1>1, <1>2, <1>3 DEF Records, Meters
<1>5. Loadable(c) /\ Loadable(d)
  BY <1>1, <1>2 DEF RecordOf, Loadable
<1>6. Past(tx[t])
  BY <1>1 DEF RecordOf
<1>7. /\ HInv'
      /\ gains' = [gains EXCEPT !.stage = StageOf(d)]
      /\ gains.stage = StageOf(c)
  BY <1>1, <1>2, <1>4, <1>5, <1>6, MarkGains
<1>8. StageOf(d) = "yaml" /\ StageOf(c) \in {"installed", "yaml"}
  BY <1>1, <1>2, <1>5, StageIs DEF Calibrations
<1>9. CASE StageOf(c) = "installed"
  BY <1>7, <1>8, <1>9 DEF Handover!Complete, Handover!Move
<1>10. CASE StageOf(c) = "yaml"
  <2>1. /\ gains = [vid |-> c.vid, stage |-> StageOf(c), owner |-> c.owner]
        /\ gains' = [vid |-> d.vid, stage |-> StageOf(d), owner |-> d.owner]
    BY <1>1, <1>4, GainsAre, GainsBecome
  <2> QED BY <1>2, <1>7, <1>8, <1>10, <2>1
<1> QED BY <1>8, <1>9, <1>10

\* New gains are verified while no transaction holds the meter.
LEMMA FinalizeGains ==
  ASSUME TypeOK, HInv, Followed, NEW v \in Vids, NEW offsets \in BOOLEAN,
         ~Identifies(store.meter, v),
         store'.meter = Finalize(store.meter, v, builder, offsets),
         \A x \in Txns : ~Writes(tx'[x])
  PROVE  HInv' /\ Handover!Finalize
<1> DEFINE b == builder # None /\ ~offsets
           d == [vid |-> v, src |-> builder, offsets |-> offsets, owner |-> None,
                 avail |-> b, inst |-> FALSE, yaml |-> FALSE]
<1>1. b \in BOOLEAN /\ builder \in Contents /\ store.meter \in Meters \cup {None}
  BY DEF TypeOK, Stores
<1>2. store'.meter = [Entry(store.meter) EXCEPT !.mark = "null", !.calib = d]
  BY Zenon DEF Finalize
<1>3. b => builder # None
  OBVIOUS
<1> HIDE DEF b
<1>4. /\ d.vid = v /\ d.src = builder /\ d.owner = None /\ d.avail = b
      /\ ~d.inst /\ ~d.yaml
  OBVIOUS
<1>5. d \in Calibrations
  BY <1>1, Zenon DEF Calibrations
<1> HIDE DEF d
<1>6. Records(store'.meter, d)
  BY <1>1, <1>2, <1>5, EntryType DEF Records, Meters
<1>7. Loadable(d)
  BY <1>3, <1>4 DEF Loadable
<1>8. HInv'
  BY <1>4, <1>6, <1>7, NoneIsFresh, RecordNext, RecordsShape
<1>9. StageOf(d) \in {"free", "flash"}
  BY <1>4, <1>5, <1>7, StageIs DEF Calibrations
<1>10. gains' = [vid |-> v, stage |-> StageOf(d), owner |-> None]
  BY <1>4, <1>6, GainsBecome
<1>11. v # gains.vid
  <2>1. CASE Entry(store.meter).calib = None
    <3>1. gains = [vid |-> None, stage |-> "absent", owner |-> None]
      BY <2>1, Zenon DEF gains
    <3> QED BY <3>1, NoneIsFresh
  <2>2. CASE Entry(store.meter).calib # None
    <3>1. /\ Records(store.meter, store.meter.calib)
          /\ store.meter.calib.vid # v
      BY <2>2, CalibType DEF Records, Identifies
    <3>2. gains.vid = store.meter.calib.vid
      BY <3>1, GainsAre
    <3> QED BY <3>1, <3>2
  <2> QED BY <2>1, <2>2
<1> QED BY <1>8, <1>9, <1>10, <1>11, Zenon DEF Handover!Finalize

-----------------------------------------------------------------------------
(* Every step hands the gains over, or leaves them.                        *)

Hands == HInv' /\ [Handover!Next]_gains

LEMMA QuietHands ==
  ASSUME TypeOK, HInv, Followed, store'.meter = store.meter
  PROVE  Hands
BY SameGains DEF Hands

LEMMA MovesObjects ==
  ASSUME NEW t \in Txns, TypeOK, Moves(t)
  PROVE  /\ Writes(tx'[t]) => Writes(tx[t]) /\ tx'[t].vid = tx[t].vid
         /\ \A x \in Txns \ {t} : tx'[x] = tx[x]
<1>1. PICK u : Follows(tx[t], u) /\ tx' = [tx EXCEPT ![t] = u]
  BY DEF Moves
<1>2. tx'[t] = u /\ \A x \in Txns \ {t} : tx'[x] = tx[x]
  BY <1>1 DEF TypeOK
<1> QED BY <1>1, <1>2 DEF Follows

\* Who writes gains holds the lease of the meter.
LEMMA WriterHolds ==
  ASSUME NEW x \in Txns, HInv, Writes(tx[x])
  PROVE  x \in Holders
BY DEF HInv, Good, Placed, Unwritten, Writes, Holders

LEMMA SaveOutcome ==
  ASSUME TypeOK, NEW m, NEW ok \in BOOLEAN, SaveMeter(m, ok)
  PROVE  store'.meter = store.meter \/ store'.meter = m
<1>1. [store EXCEPT !.meter = m].meter = m
  BY DEF TypeOK, Stores
<1> QED BY <1>1 DEF SaveMeter, Save

LEMMA CheckpointOutcome ==
  ASSUME TypeOK, NEW t, NEW ok,
         SaveCheckpoint(t, ok) \/ ClearCheckpoint(t, ok)
  PROVE  store'.meter = store.meter
<1>1. \A c : [store EXCEPT !.ck = c].meter = store.meter
  BY DEF TypeOK, Stores
<1>2. store' = store \/ \E c : store' = [store EXCEPT !.ck = c]
  BY Zenon DEF SaveCheckpoint, ClearCheckpoint, Save
<1> QED BY <1>1, <1>2

\* The gains are claimed for a preview.
LEMMA ClaimHands ==
  ASSUME NEW t \in Txns, TypeOK, HInv, Followed, PreviewGainsClaim(t)
  PROVE  Hands
<1>1. tx[t].st # "none"
  BY DEF PreviewGainsClaim, At, HInv, Good
<1>2. CASE UNCHANGED store
  BY <1>2, QuietHands
<1>3. CASE /\ CanClaim(store.meter, tx[t].vid)
           /\ \E ok \in BOOLEAN : SaveMeter(Claim(store.meter, t), ok)
  <2>1. store'.meter \in {store.meter, Claim(store.meter, t)}
    BY <1>3, SaveOutcome
  <2>2. CASE store'.meter = Claim(store.meter, t)
    BY <1>1, <1>3, <2>2, ClaimGains DEF Hands, Handover!Next
  <2> QED BY <2>1, <2>2, QuietHands
<1> QED BY <1>2, <1>3 DEF PreviewGainsClaim

Releases(t) ==
  \/ PreviewGainsRelease(t) \/ ConfirmWriteRelease(t) \/ WriteConflict(t)
  \/ RollbackRelease(t) \/ AbandonRelease(t) \/ ExpireRelease(t)

\* A reservation is given back before the OTA, and by nobody who writes.
LEMMA ReleaseHands ==
  ASSUME NEW t \in Txns, TypeOK, HInv, Followed, Moves(t), Releases(t)
  PROVE  Hands
<1>1. /\ tx[t].pc \in {"pv_release", "cw_release", "cw_conflict", "rs_release",
                       "ab_release", "xr_release"}
      /\ \E ok \in BOOLEAN : ReleaseReservation(t, ok)
  BY DEF Releases, PreviewGainsRelease, ConfirmWriteRelease, WriteConflict,
         RollbackRelease, AbandonRelease, ExpireRelease, At
<1>2. ~tx[t].ws /\ tx[t].ota = "no" /\ tx[t].pc # "idle"
  BY <1>1 DEF HInv, Good, Placed, Unwritten
<1>3. ~Past(tx[t]) /\ ~Writes(tx'[t])
  BY <1>2, MovesObjects DEF Past, Rests, Writes
<1> DEFINE n == Release(store.meter, tx[t].vid, t)
<1>4. store'.meter \in {store.meter, n}
  BY <1>1, SaveOutcome DEF ReleaseReservation
<1>5. CASE CanRelease(store.meter, tx[t].vid, t) /\ store'.meter = n
  BY <1>3, <1>5, ReleaseGains DEF Hands, Handover!Next
<1>6. CASE store'.meter = store.meter
  BY <1>6, QuietHands
<1>7. CASE ~CanRelease(store.meter, tx[t].vid, t)
  BY <1>4, <1>7, QuietHands DEF Release
<1> QED BY <1>4, <1>5, <1>6, <1>7

\* A configuration without verified gains replaces installed ones.
LEMMA ConfigurationHands ==
  ASSUME NEW t \in Txns, TypeOK, HInv, ExclusiveLease, Followed, Moves(t),
         tx[t].lease, tx[t].vid # None => tx[t].rec,
         NEW prop \in Contents,
         store'.meter = SaveConfiguration(store.meter, t, prop)
  PROVE  Hands
<1> DEFINE e == Entry(store.meter)
           c == IF Installed(store.meter) THEN None ELSE e.calib
<1>1. store.meter \in Meters \cup {None} /\ e \in Meters
  BY EntryType DEF TypeOK, Stores
<1>2. store'.meter = [e EXCEPT !.hash = prop, !.conf = t, !.calib = c]
  BY <1>1 DEF SaveConfiguration, Meters
<1>3. c \in Calibrations \cup {None}
  BY <1>1 DEF Meters
<1> HIDE DEF c
<1>4. store'.meter \in Meters /\ store'.meter.calib = c
  BY <1>1, <1>2, <1>3 DEF Meters, Contents
<1>5. Entry(store'.meter).calib = c
  BY <1>4, NoneIsNoRecord DEF Entry
<1>6. CASE Installed(store.meter)
  <2>1. \A x \in Txns : ~Writes(tx'[x])
    BY MovesObjects, WriterHolds DEF Writes, ExclusiveLease, Holders
  <2> QED BY <1>5, <1>6, <2>1, RevokeGains DEF Hands, Handover!Next, c
<1>7. CASE ~Installed(store.meter)
  BY <1>5, <1>7, SameGains DEF Hands, c
<1> QED BY <1>6, <1>7

LEMMA MetadataHands ==
  ASSUME NEW t \in Txns, TypeOK, HInv, Planned, ExclusiveLease, Followed,
         Moves(t), MetadataSave(t)
  PROVE  Hands
<1>1. tx[t].lease /\ (tx[t].vid # None => tx[t].rec)
  BY DEF MetadataSave, At, HInv, Good, Unleased, TypeOK, Transaction
<1>2. tx[t].prop \in Contents
  BY DEF MetadataSave, At, Planned, Working, HasPlan
<1>3. \/ UNCHANGED store
      \/ \E ok \in BOOLEAN :
           SaveMeter(SaveConfiguration(store.meter, t, tx[t].prop), ok)
  BY Zenon DEF MetadataSave
<1>4. store'.meter \in {store.meter, SaveConfiguration(store.meter, t, tx[t].prop)}
  BY <1>3, SaveOutcome
<1> QED BY <1>1, <1>2, <1>4, ConfigurationHands, QuietHands

LEMMA PersistHands ==
  ASSUME NEW t \in Txns, TypeOK, HInv, Planned, ExclusiveLease, Followed,
         Moves(t), PersistSave(t)
  PROVE  Hands
<1> DEFINE r == tx[t]
           conf == IF r.full THEN t ELSE None
<1>1. r.lease /\ r.prop \in Contents /\ r.ota # "no" /\ r \in Transaction
  BY DEF PersistSave, At, HInv, Good, Placed, Uploading, Unleased, TypeOK,
         Planned, Working, HasPlan
<1>2. \/ UNCHANGED store
      \/ /\ CanPersist(store.meter, t, r)
         /\ \E ok \in BOOLEAN : SaveMeter(Persisted(store.meter, t, r), ok)
  BY Zenon DEF PersistSave
<1>3. CASE store'.meter = store.meter
  BY <1>3, QuietHands
<1>4. CASE CanPersist(store.meter, t, r) /\ store'.meter = Persisted(store.meter, t, r)
  <2>1. CASE r.kind = "install"
    <3>1. r.vid # None => r.rec
      BY <2>1 DEF HInv, Good
    <3>2. store'.meter = SaveConfiguration(store.meter, t, r.prop)
      BY <1>4, <2>1 DEF Persisted
    <3> QED BY <1>1, <3>1, <3>2, ConfigurationHands
  <2>2. CASE r.kind # "install"
    <3>1. conf \in Contents \cup {None}
      BY DEF Contents
    <3>2. /\ IsReserved(store.meter, r.vid, t)
          /\ store'.meter = SaveAndMark(store.meter, r.prop, conf)
      BY <1>4, <2>2 DEF CanPersist, Persisted, CanSaveAndMark
    <3>3. Past(r)
      BY <1>1 DEF Past
    <3> HIDE DEF conf
    <3> QED BY <1>1, <3>1, <3>2, <3>3, InstallGains DEF Hands, Handover!Next
  <2> QED BY <2>1, <2>2
<1> QED BY <1>2, <1>3, <1>4, SaveOutcome

\* The receipt of the firmware about to be replaced is revoked; the gains this
\* very transaction reserved are not the installed ones.
LEMMA RevokeHands ==
  ASSUME NEW t \in Txns, TypeOK, HInv, ExclusiveLease, Followed, Moves(t),
         RevokeReceipt(t)
  PROVE  Hands
<1> DEFINE r == tx[t]
           m == store.meter
<1>1. r.lease /\ r.ota = "no" /\ r.pc # "idle"
  BY DEF RevokeReceipt, At, HInv, Good, Placed, Prepared, Unleased
<1>2. \/ UNCHANGED store
      \/ Installed(m) /\ \E ok \in BOOLEAN : SaveMeter(Revoke(m), ok)
  BY Zenon DEF RevokeReceipt
<1>3. CASE store'.meter = m
  BY <1>3, QuietHands
<1>4. CASE Installed(m) /\ store'.meter = Revoke(m)
  <2>1. m \in Meters /\ RecordOf(m.calib) /\ m.calib.inst
    BY <1>4, CalibType DEF Installed, HInv
  <2>2. store'.meter = [m EXCEPT !.calib = None]
    BY <1>4 DEF Revoke
  <2>3. store'.meter \in Meters /\ store'.meter.calib = None
    BY <2>1, <2>2 DEF Meters
  <2>4. Entry(store'.meter).calib = None
    BY <2>3 DEF Entry, NoMeter
  <2>5. ~Writes(r)
    <3>1. ~Past(r)
      BY <1>1 DEF Past, Rests
    <3>2. ~IsReserved(m, r.vid, t)
      BY <2>1, <3>1 DEF RecordOf, IsReserved
    <3> QED BY <3>2, Zenon DEF HInv, WriterOwnsReservation, Writes
  <2>6. \A x \in Txns : ~Writes(tx'[x])
    BY <1>1, <2>5, MovesObjects, WriterHolds DEF ExclusiveLease, Holders
  <2> QED BY <1>4, <2>4, <2>6, RevokeGains DEF Hands, Handover!Next
<1> QED BY <1>2, <1>3, <1>4, SaveOutcome

\* The other steps of a transaction leave the meter's record alone.
LEMMA TransactionHands ==
  ASSUME NEW t \in Txns, IInv, HInv, ByTransaction(t)
  PROVE  Hands
<1>1. TypeOK /\ Planned /\ ExclusiveLease /\ Goes(t) /\ Followed
  BY TransactionGoes, GoesFollowed DEF IInv
<1>2. CASE PreviewGainsClaim(t)
  BY <1>1, <1>2, ClaimHands
<1>3. CASE Releases(t)
  <2>1. Moves(t)
    BY <1>1, <1>3, PreviewMoves, WriteMoves, RollbackMoves, AbandonMoves,
       DeadlineMoves DEF Releases
  <2> QED BY <1>1, <1>3, <2>1, ReleaseHands
<1>4. CASE MetadataSave(t) \/ PersistSave(t) \/ RevokeReceipt(t)
  <2>1. Moves(t)
    BY <1>1, <1>4, WriteMoves, InstallMoves, OtaMoves
  <2> QED BY <1>1, <1>4, <2>1, MetadataHands, PersistHands, RevokeHands
<1>5. CASE \/ RollbackClear(t) \/ InstallCheckpoint(t) \/ InstallUndo(t)
           \/ UploadSave(t) \/ TerminalFailure(t) \/ PersistClear(t)
           \/ AbandonClear(t)
  <2>1. \E ok : SaveCheckpoint(t, ok) \/ ClearCheckpoint(t, ok)
    BY <1>5 DEF RollbackClear, InstallCheckpoint, InstallUndo, UploadSave,
                TerminalFailure, PersistClear, AbandonClear
  <2> QED BY <1>1, <2>1, CheckpointOutcome, QuietHands
<1>6. CASE \/ Preview(t) \/ PreviewGains(t) \/ ConfirmWrite(t) \/ Compile(t)
           \/ ConfirmInstall(t) \/ Rollback(t) \/ Abandon(t) \/ Recover(t)
           \/ PreviewGainsLock(t) \/ ConfirmWriteLock(t)
           \/ PreviewGainsRead(t) \/ ConfirmWriteRevalidate(t)
           \/ MetadataCheck(t) \/ WriteGet(t) \/ WriteUpdate(t) \/ Reconcile(t)
           \/ Validate(t) \/ RestoreGet(t) \/ RestoreAgain(t)
           \/ RestoreUpdate(t) \/ RestoreVerify(t)
           \/ CompileCheck(t) \/ CompileJob(t) \/ CompileCheck2(t)
           \/ AdoptSource(t) \/ RetryCheck(t) \/ InstallCheck(t)
           \/ InstallCheck2(t) \/ UploadJob(t) \/ VerifyReconnect(t)
           \/ PersistCheck(t) \/ AbandonCheck(t) \/ RecoverLock(t)
           \/ RecoverGet(t) \/ Due(t) \/ Expire(t)
  <2>1. store' = store
    BY <1>6 DEF Preview, PreviewGains, ConfirmWrite, Compile, ConfirmInstall,
         Rollback, Abandon, Recover, PreviewGainsLock, ConfirmWriteLock,
         PreviewGainsRead, ConfirmWriteRevalidate, MetadataCheck, WriteGet,
         WriteUpdate, Reconcile, Validate, RestoreGet, RestoreAgain,
         RestoreUpdate, RestoreVerify, CompileCheck, CompileJob, CompileCheck2,
         AdoptSource, RetryCheck, InstallCheck, InstallCheck2, UploadJob,
         VerifyReconnect, PersistCheck, AbandonCheck, RecoverLock, RecoverGet,
         Due, Expire, CheckSource
  <2> QED BY <1>1, <2>1, QuietHands
<1> QED BY <1>2, <1>3, <1>4, <1>5, <1>6
           DEF ByTransaction, Operations, Acquires, Continues, Releases

\* The calibration engine works on a meter that no transaction writes.
LEMMA CalibrationHands ==
  ASSUME IInv, HInv, Calibration
  PROVE  Hands
<1>1. TypeOK /\ ExclusiveLease /\ tx' = tx /\ store \in Stores
      /\ store.meter \in Meters \cup {None}
  BY DEF IInv, TypeOK, Stores, Calibration, BeginCalibration, EndCalibration,
         FinalizeCalibration, ClearFlash
<1>2. Followed
  BY <1>1, UnchangedFollowed
<1>3. \A m : SaveMeter(m, TRUE) => store'.meter = m
  BY <1>1 DEF SaveMeter, Save, Stores
<1>4. CASE BeginCalibration \/ EndCalibration
  <2>1. PICK marked \in BOOLEAN : store'.meter = SaveMarker(store.meter, marked)
    BY <1>3, <1>4 DEF BeginCalibration, EndCalibration
  <2>2. store'.meter \in Meters /\ store'.meter.calib = Entry(store.meter).calib
    BY <1>1, <2>1, EntryType, SaveMarkerType DEF SaveMarker, Meters
  <2>3. Entry(store'.meter) = store'.meter
    BY <2>2, NoneIsNoRecord DEF Entry
  <2> QED BY <1>1, <1>2, <2>2, <2>3, SameGains DEF Hands
<1>5. CASE FinalizeCalibration
  <2>1. \A x \in Txns : ~Writes(tx'[x])
    BY <1>1, <1>5, WriterHolds DEF FinalizeCalibration, ExclusiveLease
  <2>2. PICK v \in Vids, offsets \in BOOLEAN :
          /\ ~Identifies(store.meter, v)
          /\ store'.meter = Finalize(store.meter, v, builder, offsets)
    BY <1>3, <1>5, Zenon DEF FinalizeCalibration
  <2> QED BY <1>1, <1>2, <2>1, <2>2, FinalizeGains DEF Hands, Handover!Next
<1>6. CASE ClearFlash
  <2>1. PICK v \in Vids, t \in Txns :
          CanComplete(store.meter, v, t) /\ store'.meter = Complete(store.meter)
    BY <1>3, <1>6, Zenon DEF ClearFlash
  <2> QED BY <1>1, <1>2, <2>1, CompleteGains DEF Hands, Handover!Next
<1> QED BY <1>4, <1>5, <1>6 DEF Calibration

\* A restart forgets the transactions: their reservations stay, unwritten.
LEMMA CrashHands ==
  ASSUME IInv, HInv, Crash
  PROVE  Hands
<1>1. \A t \in Txns : tx'[t] = IF tx[t] = Blank THEN Blank ELSE Finish("lost")
  BY DEF Crash
<1>2. Follows(Blank, Blank)
  BY DEF Follows, Good, Placed, Lasting, Writes, Blank, Unwritten, Uploading,
         Prepared, Resumed, Restoring, Unleased, Early, Compiling
<1>3. \A t \in Txns : Follows(tx[t], tx'[t])
  BY <1>1, <1>2, FinishFollows
<1>4. \A t \in Txns : ~Writes(tx'[t])
  BY <1>1 DEF Writes, Finish, Blank
<1>5. Followed
  BY <1>3, <1>4 DEF Followed, Follows
<1>6. store' = store
  BY DEF Crash
<1> QED BY <1>5, <1>6, QuietHands DEF IInv

LEMMA NextHands == IInv /\ HInv /\ [Next]_vars => Hands
<1> SUFFICES ASSUME IInv, HInv, [Next]_vars PROVE Hands
  OBVIOUS
<1>1. CASE \E t \in Txns : ByTransaction(t)
  BY <1>1, TransactionHands
<1>2. CASE Calibration
  BY <1>2, CalibrationHands
<1>3. CASE Crash
  BY <1>3, CrashHands
<1>4. CASE EditYaml \/ UNCHANGED vars
  <2>1. tx' = tx /\ store' = store
    BY <1>4 DEF EditYaml, vars
  <2> QED BY <2>1, UnchangedFollowed, QuietHands DEF IInv
<1> QED BY <1>1, <1>2, <1>3, <1>4 DEF Next, ByTransaction

LEMMA InitHInv == Init => HInv
<1> SUFFICES ASSUME Init PROVE HInv
  OBVIOUS
<1>1. \A t \in Txns : tx[t] = Blank
  BY DEF Init
<1>2. Good(Blank) /\ ~Writes(Blank)
  BY DEF Good, Placed, Writes, Blank, Unwritten, Uploading,
         Prepared, Resumed, Restoring, Unleased, Early, Compiling
<1>3. store.meter \in InitialMeters
  BY DEF Init
<1>4. Entry(store.meter).calib # None =>
        Loadable(store.meter.calib) /\ store.meter.calib.owner = None
  BY <1>3, UnclaimedAssumption
<1>5. Entry(store.meter).calib # None => RecordOf(store.meter.calib)
  BY <1>4, NoneIsFresh DEF RecordOf
<1>6. WriterOwnsReservation
  BY <1>1, <1>2, Zenon DEF WriterOwnsReservation, Writes
<1> QED BY <1>1, <1>2, <1>5, <1>6 DEF HInv

\* The gains the helper starts from are not handed over yet.
LEMMA InitHandover == Init => Handover!Init
<1> SUFFICES ASSUME Init PROVE Handover!Init
  OBVIOUS
<1>1. TypeOK
  BY InitIInv DEF IInv
<1>2. CASE Entry(store.meter).calib = None
  <2>1. gains = [vid |-> None, stage |-> "absent", owner |-> None]
    BY <1>2, Zenon DEF gains
  <2> QED BY <2>1 DEF Handover!Init, Handover!TypeOK, Handover!Stages
<1>3. CASE Entry(store.meter).calib # None
  <2> DEFINE c == store.meter.calib
  <2>1. Records(store.meter, c)
    BY <1>1, <1>3, CalibType DEF Records
  <2>2. Loadable(c) /\ c.owner = None
    BY <1>3, UnclaimedAssumption DEF Init
  <2>3. ~c.inst /\ ~c.yaml
    BY <2>2 DEF Loadable
  <2>4. StageOf(c) \in {"free", "flash"} /\ c.vid \in Vids
    BY <2>1, <2>2, <2>3, StageIs DEF Records, Calibrations
  <2>5. gains = [vid |-> c.vid, stage |-> StageOf(c), owner |-> None]
    BY <2>1, <2>2, GainsAre
  <2> QED BY <2>4, <2>5 DEF Handover!Init, Handover!TypeOK, Handover!Stages
<1> QED BY <1>2, <1>3

\* A transaction that has written calibrated gains owns the durable claim, and
\* every calibration record can be read back, whatever fails (store.py,
\* config_transaction.py: _claim_verified_calibration to
\* _persist_configuration_metadata).
THEOREM RecordStaysSound == Spec => []RecordIsSound
<1>1. Init => IInv /\ HInv
  BY InitIInv, InitHInv
<1>2. IInv /\ HInv /\ [Next]_vars => (IInv /\ HInv)'
  BY NextIInv, NextHands DEF Hands
<1>3. IInv /\ HInv => RecordIsSound
  BY DEF HInv, RecordOf, RecordIsSound
<1> QED BY <1>1, <1>2, <1>3, PTL DEF Spec

\* The transactions, the calibration engine and the durable record implement
\* GainsHandover: verified gains go to one transaction at a time and into at
\* most one configuration, across failures and restarts.
THEOREM GainsAreHandedOverOnce == Spec => HandsGainsOverOnce
<1>1. Init => IInv /\ HInv /\ Handover!Init
  BY InitIInv, InitHInv, InitHandover
<1>2. IInv /\ HInv /\ [Next]_vars => (IInv /\ HInv)' /\ [Handover!Next]_gains
  BY NextIInv, NextHands DEF Hands
<1> QED BY <1>1, <1>2, PTL DEF Spec, HandsGainsOverOnce, Handover!Spec
=============================================================================
