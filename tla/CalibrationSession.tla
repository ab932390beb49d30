------------------------- MODULE CalibrationSession -------------------------
(***************************************************************************)
(* Calibration of one meter: the config and calibration locks and the      *)
(* provisional origin of SessionManager (session_manager.py), the browser  *)
(* sessions of EntryWorkflow with their claims, expiry and clean-up        *)
(* (workflow.py), and the control flow of CalibrationEngine                *)
(* (calibration_engine.py) up to the durable verified record.              *)
(*                                                                         *)
(* A step runs to the next await.  The calibration lock is only taken by   *)
(* the holder of the config lock, in the same step, so one lock is kept    *)
(* here and a lease is a lock that no config transaction holds.  A table   *)
(* is one gain or offset table of one chip; the origin says which tables   *)
(* the helper believes it put in the meter's flash, and the record which   *)
(* ones a restart of the meter has proved.  Of the offset recovery record  *)
(* (offset_recovery.py, the module OffsetRecovery) what the sessions act on*)
(* is kept: the captured tables, and how far the preparation and the final *)
(* configuration of them have come.                                        *)
(***************************************************************************)
EXTENDS Naturals, Sequences, SequencesExt

CONSTANTS
  Tasks,         \* asyncio tasks that call the workflow
  Sessions,      \* browser sessions, each started once
  GainTables, OffsetTables,
  Values,        \* contents of a table
  Claims,        \* the operations explored
  None

Tables == GainTables \cup OffsetTables

Runs == {"gains", "offsets"}
Verifies == {"verify", "verify_gains"}

\* Operations that a session claims (a capture is resumed), those of a finished
\* session, and those that take the lease without a claim: the status of the
\* offset recovery and CalibrationEngine.async_recover_interrupted.
Finishing == {"review", "reconcile", "cycle", "clear"}
Claiming == Runs \cup Verifies \cup Finishing \cup
            {"prepare", "resume", "capture", "check"}
Unclaimed == {"status", "recover"}

Tx == "transaction"      \* a config transaction, as a holder of the lock
Cleaner == "cleanup"     \* the clean-up task of a revoked session

ASSUME SessionAssumption ==
  /\ None \notin Tasks \cup Sessions \cup Tables \cup Values \cup {Tx, Cleaner}
  /\ Tasks \cap {Tx, Cleaner} = {}
  /\ Claims \subseteq (Claiming \cup Unclaimed) \ {"capture"}

Contents == [Tables -> Values \cup {None}]

\* What _pending_calibrations keeps of a meter.
Origins == [tables : Contents, claimed : BOOLEAN]

\* What the recovery record keeps: the captured tables, the preparation of the
\* next captures and the final configuration of the captured tables.
Recoveries ==
  [results : [OffsetTables -> Values \cup {None}],
   prep : {"none", "ready", "cancelled"},
   final : {"none", "reviewed", "installed", "selected", "cancelled"}]

ASSUME NoneIsNoRecord == None \notin Origins \cup Recoveries

VARIABLES
  lock,      \* the config lock: its owner, and who waits in order
  tx,        \* the config transaction that shares the lock
  origin,    \* _pending_calibrations[mac]
  handle,    \* the session handles
  cleaning,  \* the clean-up task of _cleaning_macs[mac]
  job,       \* what each task does
  flash,     \* the tables in the meter's flash
  marker,    \* disk: an interrupted_session marker is present
  record,    \* disk: the tables of verified_calibration
  handed,    \* disk: how far these have been handed over to the YAML
  recovery   \* disk: the offset recovery record

workflow == <<handle, cleaning, job>>
verified == <<record, handed>>
disk == <<marker, record, handed, recovery>>
vars == <<lock, tx, origin, handle, cleaning, job, flash, marker, record, handed,
          recovery>>

-----------------------------------------------------------------------------

Leased == {"preflight", "origin", "mark", "run", "saved", "zero", "unmark",
           "restart", "persist", "prepare", "progress", "review", "select",
           "consume", "cycle", "clear", "handover"}

NoTables == [x \in Tables |-> None]
NoResults == [x \in OffsetTables |-> None]
NoJob == [op |-> "none", pc |-> "idle", h |-> None, todo |-> {},
          got |-> NoTables, seen |-> None, cancelled |-> FALSE]
NoCleanup == [h |-> None, pc |-> "none", task |-> None, cancel |-> FALSE,
              failed |-> FALSE]
NewSession == [reg |-> "new", due |-> FALSE, state |-> "safety_required",
               safe |-> FALSE, active |-> None, prepared |-> FALSE,
               final |-> FALSE, stock |-> FALSE]
NewRecovery == [results |-> NoResults, prep |-> "none", final |-> "none"]

TypeOK ==
  /\ lock.owner \in Tasks \cup {Tx, Cleaner, None}
  /\ ToSet(lock.queue) \subseteq Tasks \cup {Tx, Cleaner}
  /\ IsInjective(lock.queue)
  /\ tx \in {"idle", "queue", "held"}
  /\ origin \in Origins \cup {None}
  /\ handle \in [Sessions ->
       [reg : {"new", "registered", "revoked"}, due : BOOLEAN,
        state : {"preflight_failed", "safety_required", "ready", "applied",
                 "gains_verified", "verified", "selected"},
        safe : BOOLEAN, active : Tasks \cup {None}, prepared : BOOLEAN,
        final : BOOLEAN, stock : BOOLEAN]]
  /\ cleaning \in [h : Sessions \cup {None}, task : Tasks \cup {None},
                   pc : {"none", "start", "wait", "acquire", "queue", "cancel",
                         "abandon"},
                   cancel : BOOLEAN, failed : BOOLEAN]
  /\ job \in [Tasks ->
       [op : Claiming \cup Unclaimed \cup {"none", "start"},
        h : Sessions \cup {None},
        pc : Leased \cup {"idle", "connect", "cleanup", "acquire", "queue",
                          "sources", "check"},
        todo : SUBSET Tables, got : Contents, seen : Recoveries \cup {None},
        cancelled : BOOLEAN]]
  /\ flash \in Contents /\ marker \in BOOLEAN
  /\ record \in Contents /\ handed \in {"no", "installed", "yaml"}
  /\ recovery \in Recoveries \cup {None}

Init ==
  /\ lock = [owner |-> None, queue |-> <<>>] /\ tx = "idle"
  /\ origin = None
  /\ handle = [h \in Sessions |-> NewSession]
  /\ cleaning = NoCleanup
  /\ job = [t \in Tasks |-> NoJob]
  /\ flash \in Contents
  /\ marker = FALSE /\ record = NoTables /\ handed = "no" /\ recovery = None

-----------------------------------------------------------------------------
(* The lock.                                                               *)

\* Variant: only the calibration lock is looked at.
NoLease == lock.owner \in {None, Tx}

\* async_acquire_calibration sees neither lock taken.
Free == lock.owner = None

\* asyncio.Lock.acquire: at once if nobody waits, else behind the others.
Take(a) ==
  lock' = IF lock.queue = <<>> THEN [lock EXCEPT !.owner = a]
          ELSE [lock EXCEPT !.queue = Append(@, a)]

\* The first waiter that was woken runs.
Wakes(a) == lock.owner = None /\ lock.queue # <<>> /\ Head(lock.queue) = a

Wake(a) == lock' = [owner |-> a, queue |-> Tail(lock.queue)]

Release == lock' = [lock EXCEPT !.owner = None]

LeaseActive == lock.owner \notin {None, Tx}

\* A config transaction of the meter takes its turn.
Transaction ==
  /\ \/ /\ tx = "idle" /\ tx' = IF Free /\ lock.queue = <<>> THEN "held" ELSE "queue"
        /\ IF Free THEN Take(Tx) ELSE lock' = [lock EXCEPT !.queue = Append(@, Tx)]
     \/ tx = "queue" /\ Wakes(Tx) /\ Wake(Tx) /\ tx' = "held"
     \/ tx = "held" /\ Release /\ tx' = "idle"
  /\ UNCHANGED <<origin, workflow, flash, disk>>

\* The tables a record names.
Named == {x \in Tables : record[x] # None}

\* async_cancel_finalization
CancelFinal(r) ==
  IF r = None \/ r.final = "none" THEN r ELSE [r EXCEPT !.final = "cancelled"]

\* The config transaction installs the final configuration or gives it up,
\* installs verified gains as YAML, or revokes what it had installed.
Install ==
  /\ tx = "held"
  /\ \/ /\ recovery # None /\ recovery.final = "reviewed"
        /\ recovery' = [recovery EXCEPT !.final = "installed"]
        /\ UNCHANGED verified
     \/ recovery' = CancelFinal(recovery) /\ UNCHANGED verified
     \/ /\ handed = "no" /\ Named # {} /\ Named \subseteq GainTables
        /\ handed' = "installed" /\ UNCHANGED <<record, recovery>>
     \/ /\ handed # "no" /\ handed' = "no" /\ record' = NoTables
        /\ UNCHANGED recovery
  /\ UNCHANGED <<lock, tx, origin, workflow, flash, marker>>

-----------------------------------------------------------------------------
(* Sessions and claims.                                                    *)

Registered(h) == handle[h].reg = "registered"
Live(h) == Registered(h) /\ ~handle[h].due
Open == {h \in Sessions : Registered(h)}

\* The tables the origin retains.
Retained(o) == IF o = None THEN {} ELSE {x \in Tables : o.tables[x] # None}

At(t, pc) == job[t].pc = pc
Goto(t, pc) == [job EXCEPT ![t].pc = pc]
EndJob(t) == [job EXCEPT ![t] = NoJob]

\* _release_claim: an unrevoked session is free for the next operation.
Unclaim(t) ==
  IF job[t].h # None /\ handle[job[t].h].active = t /\ Registered(job[t].h)
  THEN [handle EXCEPT ![job[t].h].active = None] ELSE handle

\* The operation raises: the claim is released.
Fails(t) == job' = EndJob(t) /\ handle' = Unclaim(t)

\* The operation returns: _assert_claim, then the session's new state.
Returns(t, fields) ==
  LET h == job[t].h IN
  /\ job' = EndJob(t)
  /\ handle' = IF Live(h)
               THEN [handle EXCEPT ![h] = [fields EXCEPT !.active = None]]
               ELSE Unclaim(t)

\* A cancelled task raises at its await, outside the guarded run.
Cancelled(t) == job[t].cancelled

\* _claim_ready_session
Claim(t, h, op, todo) ==
  /\ op \in Claiming /\ At(t, "idle") /\ Live(h)
  /\ handle[h].safe /\ handle[h].active = None
  /\ op \in Finishing \/ handle[h].state # "verified"
  /\ op = "verify" => ~handle[h].stock
  /\ op = "verify_gains" => handle[h].stock
  /\ op = "offsets" => ~handle[h].stock /\ ~handle[h].final
  /\ op = "review" => Retained(origin) \cap GainTables = {}
  /\ op = "clear" => handle[h].state \in {"verified", "selected"} /\ ~handle[h].stock
  /\ CASE op = "gains" -> todo # {} /\ todo \subseteq GainTables
       [] op \in {"offsets", "resume"} -> \E x \in OffsetTables : todo = {x}
       [] OTHER -> todo = {}
  /\ handle' = [handle EXCEPT ![h].active = t]
  /\ job' = [job EXCEPT ![t] =
       [NoJob EXCEPT !.op = op, !.h = h, !.todo = todo,
                     !.pc = IF op = "check" THEN "check" ELSE "acquire"]]
  /\ UNCHANGED <<lock, tx, origin, cleaning, flash, disk>>

\* async_get_offset_preparation, async_get_offset_finalization
AskStatus(t, h) ==
  /\ At(t, "idle") /\ Live(h)
  /\ job' = [job EXCEPT ![t] = [NoJob EXCEPT !.op = "status", !.h = h,
                                             !.pc = "acquire"]]
  /\ UNCHANGED <<lock, tx, origin, handle, cleaning, flash, disk>>

\* CalibrationEngine.async_recover_interrupted; nothing in the integration calls
\* it, so that it has no session.
Recover(t) ==
  /\ At(t, "idle")
  /\ job' = [job EXCEPT ![t] = [NoJob EXCEPT !.op = "recover", !.pc = "acquire"]]
  /\ UNCHANGED <<lock, tx, origin, handle, cleaning, flash, disk>>

\* async_acquire_calibration: refused while the meter is busy.
AfterAcquire(op) ==
  CASE op = "start" -> "preflight"
    [] op \in Runs \cup Verifies \cup {"capture", "reconcile"} -> "origin"
    [] op \in {"status", "resume"} -> "progress"
    [] op = "recover" -> "mark"
    [] op \in {"prepare", "review", "cycle", "clear"} -> op

Acquire(t) ==
  /\ At(t, "acquire")
  /\ IF Free /\ ~Cancelled(t)
     THEN /\ Take(t) /\ UNCHANGED handle
          /\ job' = Goto(t, IF lock.queue = <<>> THEN AfterAcquire(job[t].op)
                            ELSE "queue")
     ELSE Fails(t) /\ UNCHANGED lock
  /\ UNCHANGED <<tx, origin, cleaning, flash, disk>>

Queued(t) ==
  /\ At(t, "queue")
  /\ \/ /\ ~Cancelled(t) /\ Wakes(t) /\ Wake(t) /\ UNCHANGED handle
        /\ job' = Goto(t, AfterAcquire(job[t].op))
     \/ /\ Cancelled(t) /\ Fails(t)
        /\ lock' = [lock EXCEPT !.queue = SelectSeq(@, LAMBDA a : a # t)]
  /\ UNCHANGED <<tx, origin, cleaning, flash, disk>>

-----------------------------------------------------------------------------
(* async_start_session                                                     *)

Start(t, h) ==
  /\ At(t, "idle") /\ handle[h].reg = "new" /\ \A u \in Tasks : job[u].h # h
  /\ job' = [job EXCEPT ![t] = [NoJob EXCEPT !.op = "start", !.h = h,
                                             !.pc = "connect"]]
  /\ UNCHANGED <<lock, tx, origin, handle, cleaning, flash, disk>>

\* The meter is connected and bound, the clean-up under way awaited, and the
\* lease held for the preflight.
StartConnect(t) ==
  /\ At(t, "connect")
  /\ \/ job' = Goto(t, IF cleaning.h = None THEN "acquire" ELSE "cleanup")
     \/ job' = EndJob(t)
  /\ UNCHANGED <<lock, tx, origin, handle, cleaning, flash, disk>>

Preflight(t) ==
  /\ At(t, "preflight") /\ Release
  /\ \/ /\ ~Cancelled(t)
        /\ job' = [job EXCEPT ![t].pc = "sources", ![t].seen = recovery]
     \/ job' = EndJob(t)
  /\ UNCHANGED <<tx, origin, handle, cleaning, flash, disk>>

\* Variant: a session is registered while the last one is cleaned up.
NobodyRegistered == Open = {}

\* No session of the meter is registered or being cleaned up.
MayRegister == Open = {} /\ cleaning.h = None

\* _restore_offset_progress: what a session u becomes once it has seen the
\* recovery record r and the origin o.  A selected final configuration frees it
\* only if this process has confirmed the receipt and the YAML is still that one.
Restored(u, r, o) ==
  IF r = None THEN {u}
  ELSE {[u EXCEPT !.prepared = r.prep # "none", !.final = r.final # "none",
                  !.stock = stock] :
          stock \in {TRUE} \cup (IF r.final = "selected" THEN {o # None} ELSE {})}

\* The sources, the marker and the record are read, then the session is
\* registered with the recovery record that was read under the lease.
Register(t) ==
  LET h == job[t].h IN
  /\ At(t, "sources") /\ job' = EndJob(t)
  /\ \/ /\ MayRegister
        /\ \E state \in {"safety_required", "preflight_failed"} :
           \E u \in Restored(handle[h], job[t].seen, origin) :
             handle' = [handle EXCEPT
               ![h] = [u EXCEPT !.reg = "registered", !.state = state]]
     \/ UNCHANGED handle
  /\ UNCHANGED <<lock, tx, origin, cleaning, flash, disk>>

-----------------------------------------------------------------------------
(* Synchronous operations on a session.                                    *)

\* async_acknowledge_safety
Acknowledge(h) ==
  /\ Live(h) /\ handle[h].state \notin {"preflight_failed", "verified"}
  /\ handle' = [handle EXCEPT ![h].safe = TRUE, ![h].state = "ready"]
  /\ UNCHANGED <<lock, tx, origin, cleaning, job, flash, disk>>

\* Variant: only retained gains forbid to complete.
GainsPending == Retained(origin) \cap GainTables # {}

\* pending_calibration(mac) is not None
Pending == origin # None

\* async_complete_calibration_without_changes
Complete(h) ==
  /\ Live(h) /\ handle[h].state = "ready" /\ handle[h].safe
  /\ handle[h].active = None /\ ~handle[h].stock /\ ~Pending
  /\ handle' = [handle EXCEPT ![h].state = "verified"]
  /\ UNCHANGED <<lock, tx, origin, cleaning, job, flash, disk>>

\* _start_session_cleanup, with what the clean-up has to wait for.
Revoke(h, cancel) ==
  /\ cleaning.h = None
  /\ cleaning' = [h |-> h, pc |-> "start", task |-> handle[h].active,
                  cancel |-> cancel, failed |-> FALSE]
  /\ handle' = [handle EXCEPT ![h].reg = "revoked", ![h].active = None,
                              ![h].safe = FALSE, ![h].due = FALSE]
  /\ UNCHANGED <<lock, tx, origin, job, flash, disk>>

\* async_cancel_session
Cancel(h) ==
  /\ Live(h) /\ ~((handle[h].prepared \/ handle[h].final) /\ lock.owner = Tx)
  /\ Revoke(h, TRUE)

\* async_close_session
Close(h) ==
  /\ Live(h) /\ handle[h].active = None
  /\ handle[h].state \in {"verified", "selected"}
  /\ ~handle[h].stock /\ ~Pending /\ Revoke(h, FALSE)

\* The deadline of a session passes; whoever looks it up next revokes it.
PassDeadline(h) ==
  /\ Live(h) /\ handle' = [handle EXCEPT ![h].due = TRUE]
  /\ UNCHANGED <<lock, tx, origin, cleaning, job, flash, disk>>

Expire(h) == Registered(h) /\ handle[h].due /\ Revoke(h, FALSE)

-----------------------------------------------------------------------------
(* _async_finalize_revoked                                                 *)

\* Variant: the clean-up cancels the operation and goes on.
CancelledIsEnough(t) == TRUE

\* Variant: every task has ended.
EverybodyEnded(t) == \A u \in Tasks : At(u, "idle")

\* The operation that was active has ended.
Ended(t) == t \in Tasks => job[t].h # cleaning.h

CleanupStart ==
  /\ cleaning.pc = "start" /\ cleaning' = [cleaning EXCEPT !.pc = "wait"]
  /\ job' = IF Ended(cleaning.task) THEN job
            ELSE [job EXCEPT ![cleaning.task].cancelled = TRUE]
  /\ UNCHANGED <<lock, recovery>>

CleanupWait ==
  /\ cleaning.pc = "wait" /\ Ended(cleaning.task)
  /\ cleaning' = [cleaning EXCEPT !.pc =
                    IF cleaning.cancel
                       /\ (handle[cleaning.h].prepared \/ handle[cleaning.h].final)
                    THEN "acquire" ELSE "abandon"]
  /\ UNCHANGED <<job, lock, recovery>>

\* What a cancelled session was preparing, or had reviewed, is cancelled under a
\* lease.
CleanupAcquire ==
  /\ UNCHANGED <<job, recovery>>
  /\ \/ /\ cleaning.pc = "acquire" /\ ~Free /\ UNCHANGED lock
        /\ cleaning' = [cleaning EXCEPT !.pc = "abandon", !.failed = TRUE]
     \/ /\ cleaning.pc = "acquire" /\ Free /\ Take(Cleaner)
        /\ cleaning' = [cleaning EXCEPT !.pc =
                          IF lock.queue = <<>> THEN "cancel" ELSE "queue"]
     \/ /\ cleaning.pc = "queue" /\ Wakes(Cleaner) /\ Wake(Cleaner)
        /\ cleaning' = [cleaning EXCEPT !.pc = "cancel"]

\* async_cancel
CancelPreparation(r) ==
  IF r = None \/ r.prep = "none" THEN r ELSE [r EXCEPT !.prep = "cancelled"]

CleanupCancel ==
  /\ cleaning.pc = "cancel" /\ Release /\ UNCHANGED job
  /\ recovery' \in {recovery, IF handle[cleaning.h].final THEN CancelFinal(recovery)
                              ELSE CancelPreparation(recovery)}
  /\ \E failed \in BOOLEAN :
       cleaning' = [cleaning EXCEPT !.pc = "abandon", !.failed = failed]

\* _SessionHandle.scrub
Scrubbed == [NewSession EXCEPT !.reg = "revoked"]

\* The session is scrubbed.  Whoever waited for the clean-up to start a session
\* goes on, or fails.
CleanupDone(failed) ==
  /\ handle' = [handle EXCEPT ![cleaning.h] = Scrubbed] /\ cleaning' = NoCleanup
  /\ job' = [t \in Tasks |->
       IF ~At(t, "cleanup") THEN job[t]
       ELSE IF failed THEN NoJob ELSE [job[t] EXCEPT !.pc = "acquire"]]

\* abandon_calibration refuses while a lease is active.
CleanupAbandon ==
  /\ cleaning.pc = "abandon" /\ UNCHANGED <<lock, recovery>>
  /\ origin' = IF LeaseActive THEN origin ELSE None
  /\ CleanupDone(cleaning.failed \/ LeaseActive)

Cleanup ==
  /\ \/ /\ CleanupStart \/ CleanupWait \/ CleanupAcquire \/ CleanupCancel
        /\ UNCHANGED <<origin, handle>>
     \/ CleanupAbandon
  /\ UNCHANGED <<tx, flash, marker, verified>>

-----------------------------------------------------------------------------
(* Calibration under the lease.                                            *)

\* The holder of the lease raises, or returns.
Stop(t) == Release /\ Fails(t)
Done(t, fields) == Release /\ Returns(t, fields)

Retain(o, got) ==
  [o EXCEPT !.tables = [x \in Tables |-> IF got[x] # None THEN got[x] ELSE @[x]]]

Only(xs, contents) == [x \in Tables |-> IF x \in xs THEN contents[x] ELSE None]

\* What a verification covers: verify_gains leaves the offsets pending.
Covers(op) == IF op = "verify" THEN Tables ELSE GainTables

\* The tables the recovery record has captured.
Captured(r) == IF r = None THEN {} ELSE {x \in OffsetTables : r.results[x] # None}

\* A confirmed preparation (module OffsetRecovery) that is neither cancelled
\* nor reviewed as final.
Prepared == recovery # None /\ recovery.prep = "ready" /\ recovery.final = "none"

\* The offset tables that op does not run again.
Finished(op) ==
  CASE op = "offsets" -> Retained(origin)
    [] op = "capture" -> Retained(origin) \cup Captured(recovery)
    [] OTHER -> {}

\* _calibration_origin: the source is read again; a run begins the origin, a
\* verification claims it.
Origin(t) ==
  /\ At(t, "origin") /\ job[t].op # "reconcile"
  /\ UNCHANGED <<tx, cleaning, flash, disk>>
  /\ \/ Stop(t) /\ UNCHANGED origin
     \/ /\ job[t].op \in Runs \cup {"capture"} /\ ~Cancelled(t)
        /\ job[t].op = "capture" => Prepared
        /\ IF job[t].todo \subseteq Finished(job[t].op)
           THEN /\ Done(t, [handle[job[t].h] EXCEPT !.state = "applied",
                              !.stock = @ \/ job[t].op = "capture"])
                /\ UNCHANGED origin
           ELSE /\ job' = Goto(t, "mark") /\ UNCHANGED <<handle, lock>>
                /\ origin' = IF origin = None /\ job[t].op # "capture"
                             THEN [tables |-> NoTables, claimed |-> FALSE]
                             ELSE origin
     \/ /\ job[t].op \in Verifies /\ ~Cancelled(t)
        /\ Retained(origin) \cap Covers(job[t].op) # {}
        /\ origin' = [origin EXCEPT !.claimed = TRUE]
        /\ job' = [job EXCEPT ![t].pc = "restart",
             ![t].got = Only(Covers(job[t].op), origin.tables)]
        /\ UNCHANGED <<handle, lock>>

\* persist_interrupted; the save may fail before or after it reaches the disk,
\* and ends the run.
Mark(t) ==
  /\ At(t, "mark") /\ UNCHANGED <<tx, origin, cleaning, flash, verified, recovery>>
  /\ \/ /\ marker' = TRUE /\ ~Cancelled(t) /\ UNCHANGED <<handle, lock>>
        /\ job' = Goto(t, IF job[t].op = "recover" THEN "zero" ELSE "run")
     \/ marker' \in {marker, TRUE} /\ Stop(t)

\* The references are zeroed and set, and the run pressed.  The meter writes
\* some of the tables, and the evidence for all of them arrives or not.  A
\* capture clears the saved table first.
Run(t) ==
  /\ At(t, "run") /\ UNCHANGED <<lock, tx, cleaning, handle, disk>>
  /\ \E wrote \in SUBSET job[t].todo : \E new \in [wrote -> Values \cup {None}] :
       /\ flash' = [x \in Tables |-> IF x \in wrote THEN new[x] ELSE flash[x]]
       /\ job[t].op = "capture" \/ \A x \in wrote : new[x] # None
       /\ \/ UNCHANGED origin /\ job' = Goto(t, "zero")
          \/ /\ wrote = job[t].todo /\ ~Cancelled(t) /\ \A x \in wrote : new[x] # None
             /\ CASE job[t].op = "gains" ->
                       /\ \E applied \in SUBSET wrote :
                            job' = [job EXCEPT ![t].pc = "saved",
                                               ![t].got = Only(applied, flash')]
                       /\ UNCHANGED origin
                  [] job[t].op = "offsets" ->
                       /\ origin' = Retain(origin, Only(wrote, flash'))
                       /\ job' = [job EXCEPT ![t].pc = "zero",
                                             ![t].got = Only(wrote, flash')]
                  [] job[t].op = "capture" ->
                       /\ job' = [job EXCEPT ![t].pc = "saved",
                                             ![t].got = Only(wrote, flash')]
                       /\ UNCHANGED origin

\* The marker becomes flash_saved, then the tables that need no further
\* iteration are recorded.
Saved(t) ==
  /\ At(t, "saved") /\ job[t].op = "gains"
  /\ UNCHANGED <<lock, tx, cleaning, handle, flash, verified, recovery>>
  /\ \/ ~Cancelled(t) /\ marker' = TRUE /\ origin' = Retain(origin, job[t].got)
        /\ job' = Goto(t, "zero")
     \/ marker' \in {marker, TRUE} /\ UNCHANGED origin
        /\ job' = [job EXCEPT ![t].pc = "zero", ![t].got = NoTables]

\* async_capture_result; the save may reach the disk and fail all the same.
Capture(t) ==
  /\ At(t, "saved") /\ job[t].op = "capture"
  /\ UNCHANGED <<lock, tx, cleaning, handle, flash, marker, verified, origin>>
  /\ job' = Goto(t, "zero")
  /\ recovery' \in {recovery, [recovery EXCEPT !.results =
       [x \in OffsetTables |-> IF job[t].got[x] # None THEN job[t].got[x] ELSE @[x]]]}

\* The final zeroing runs to its end even if the task is cancelled.
Zero(t) ==
  /\ At(t, "zero") /\ UNCHANGED <<tx, origin, cleaning, flash, disk>>
  /\ \/ Stop(t)
     \/ /\ ~Cancelled(t) /\ job[t].op # "recover"
        /\ Done(t, [handle[job[t].h] EXCEPT !.state = "applied",
             !.stock = @ \/ job[t].op = "capture"])
     \/ /\ ~Cancelled(t) /\ job[t].op = "recover"
        /\ job' = Goto(t, "unmark") /\ UNCHANGED <<handle, lock>>

\* The references are zero again after a reconnect: the marker is cleared.
Unmark(t) ==
  /\ At(t, "unmark") /\ Stop(t) /\ marker' \in {marker, FALSE}
  /\ UNCHANGED <<tx, origin, cleaning, flash, verified, recovery>>

\* Variant: the restored gains are not compared.
OffsetsMatch(got) == \A x \in OffsetTables : got[x] \in {None, flash[x]}

\* _validate_restart_evidence: the meter restored what the origin says.
Matches(got) == \A x \in Tables : got[x] \in {None, flash[x]}

\* release_calibration_origin_claim
Unfrozen(o) == IF o = None THEN o ELSE [o EXCEPT !.claimed = FALSE]

\* The restart, the reconnection and the evidence of what was restored.
Restart(t) ==
  /\ At(t, "restart") /\ UNCHANGED <<tx, cleaning, flash, disk>>
  /\ \/ /\ Matches(job[t].got) /\ ~Cancelled(t)
        /\ job' = Goto(t, "persist") /\ UNCHANGED <<handle, lock, origin>>
     \/ Stop(t) /\ origin' = Unfrozen(origin)

\* consume_calibration_origin and consume_calibration_gains
Consumed(op) ==
  IF Retained(origin) \subseteq Covers(op) THEN None
  ELSE [tables |-> Only(Tables \ Covers(op), origin.tables), claimed |-> FALSE]

\* async_finalize_verified_calibration, with the connection held; the save may
\* reach the disk and the task fail all the same.
Persist(t) ==
  LET Written == marker' = FALSE /\ record' = job[t].got /\ handed' = "no" IN
  /\ At(t, "persist") /\ UNCHANGED <<tx, cleaning, flash, recovery>>
  /\ \/ /\ ~Cancelled(t) /\ Written /\ origin' = Consumed(job[t].op)
        /\ Done(t, [handle[job[t].h] EXCEPT !.state =
             IF job[t].op = "verify" THEN "verified" ELSE "gains_verified"])
     \/ /\ Stop(t) /\ origin' = Unfrozen(origin)
        /\ Written \/ UNCHANGED <<marker, verified>>

-----------------------------------------------------------------------------
(* Offsets that become configuration (module OffsetRecovery).              *)

\* async_preview_offset_preparation: the backup and the preparation are saved
\* under the lease, for tables that are neither captured nor retained.
Prepare(t) ==
  LET backup == IF recovery = None THEN NewRecovery ELSE recovery
      ready == [backup EXCEPT !.prep = "ready"]
      allowed == /\ backup.final = "none"
                 /\ ~(OffsetTables \subseteq Retained(origin) \cup Captured(recovery))
  IN
  /\ At(t, "prepare") /\ UNCHANGED <<tx, origin, cleaning, flash, marker, verified>>
  /\ \/ /\ Stop(t)
        /\ recovery' \in {recovery} \cup (IF allowed THEN {backup, ready} ELSE {})
     \/ /\ allowed /\ ~Cancelled(t) /\ recovery' = ready
        /\ Done(t, [handle[job[t].h] EXCEPT !.prepared = TRUE, !.stock = TRUE])

\* The progress of the record is shown, and restored to the session; a capture
\* that is resumed goes on to take a lease of its own.
Progress(t) ==
  LET h == job[t].h IN
  /\ At(t, "progress") /\ UNCHANGED <<tx, origin, cleaning, flash, disk>>
  /\ \/ Stop(t)
     \/ /\ ~Cancelled(t) /\ Release
        /\ \E u \in Restored(handle[h], recovery, origin) :
             handle' = [handle EXCEPT ![h] = u]
        /\ \/ job[t].op = "status" /\ job' = EndJob(t)
           \/ /\ job[t].op = "resume" /\ Prepared /\ Live(h)
              /\ job' = [job EXCEPT ![t].op = "capture", ![t].pc = "acquire"]

\* async_preview_offset_finalization: the final configuration of the captured
\* tables is reviewed.
Review(t) ==
  LET allowed == Captured(recovery) # {}
      reviewed == [recovery EXCEPT !.final = "reviewed"] IN
  /\ At(t, "review") /\ UNCHANGED <<tx, origin, cleaning, flash, marker, verified>>
  /\ \/ /\ Stop(t) /\ recovery' \in {recovery} \cup (IF allowed THEN {reviewed} ELSE {})
     \/ /\ allowed /\ ~Cancelled(t) /\ recovery' = reviewed
        /\ Done(t, [handle[job[t].h] EXCEPT !.final = TRUE, !.stock = TRUE])

\* async_reconcile_offset_finalization gives the finalization up when it fails,
\* whatever failed; that save may fail too.
GiveUp(t) ==
  /\ Stop(t) /\ origin' = Unfrozen(origin)
  /\ recovery' \in {recovery, CancelFinal(recovery)}

\* The record is loaded, and a pending origin claimed.
Reconcile(t) ==
  /\ At(t, "origin") /\ job[t].op = "reconcile"
  /\ UNCHANGED <<tx, cleaning, flash, marker, verified>>
  /\ \/ GiveUp(t)
     \/ /\ recovery # None /\ recovery.final \in {"installed", "selected"}
        /\ ~Cancelled(t) /\ Pending => Retained(origin) # {}
        /\ origin' = IF Pending THEN [origin EXCEPT !.claimed = TRUE] ELSE origin
        /\ job' = Goto(t, "select") /\ UNCHANGED <<handle, lock, recovery>>

\* What the session is once its offsets are configuration.
Selected(h) == Restored([handle[h] EXCEPT !.state = "selected"], recovery', origin')

\* The meter has selected the final configuration, and the record says so.
Select(t) ==
  LET selected == [recovery EXCEPT !.final = "selected"] IN
  /\ At(t, "select") /\ UNCHANGED <<tx, cleaning, flash, marker, verified>>
  /\ \/ GiveUp(t)
     \/ Stop(t) /\ origin' = Unfrozen(origin) /\ recovery' = selected
     \/ /\ ~Cancelled(t) /\ Live(job[t].h) /\ recovery' = selected /\ UNCHANGED origin
        /\ IF Pending THEN job' = Goto(t, "consume") /\ UNCHANGED <<handle, lock>>
           ELSE \E u \in Selected(job[t].h) : Done(t, u)

\* The retained tables that the final configuration holds as they are.
Configured == {x \in Retained(origin) \cap OffsetTables :
                 recovery.results[x] = origin.tables[x]}

\* consume_finalized_offsets: those of them that the meter's registers proved.
Resolved(proved) ==
  IF Retained(origin) = proved THEN None
  ELSE [tables |-> Only(Tables \ proved, origin.tables), claimed |-> FALSE]

Consume(t) ==
  /\ At(t, "consume") /\ UNCHANGED <<tx, cleaning, flash, marker, verified>>
  /\ \/ GiveUp(t)
     \/ /\ ~Cancelled(t) /\ Live(job[t].h) /\ UNCHANGED recovery
        /\ \E proved \in SUBSET Configured : origin' = Resolved(proved)
        /\ \E u \in Selected(job[t].h) : Done(t, u)

\* async_begin_offset_cycle: the record is archived and a new one begun.
Cycle(t) ==
  LET allowed == ~Pending /\ recovery # None /\ recovery.final = "selected" IN
  /\ At(t, "cycle") /\ UNCHANGED <<tx, origin, cleaning, flash, marker, verified>>
  /\ \/ Stop(t) /\ recovery' \in {recovery} \cup (IF allowed THEN {NewRecovery} ELSE {})
     \/ /\ allowed /\ ~Cancelled(t) /\ recovery' = NewRecovery
        /\ \E u \in Restored([handle[job[t].h] EXCEPT !.state = "ready"],
                             NewRecovery, origin) : Done(t, u)

-----------------------------------------------------------------------------
(* Gains that have become configuration.                                   *)

\* Variant: what the firmware was built with is not asked for.
AnyGains == Named \subseteq GainTables

\* The record is of gains alone, and firmware with them is installed.
HandedOver == handed # "no" /\ Named \subseteq GainTables

\* async_clear_calibration_flash: the saved gains the YAML has are restored to
\* those of the YAML, and the meter asked what it uses now.
Clear(t) ==
  /\ At(t, "clear") /\ UNCHANGED <<tx, origin, cleaning, disk>>
  /\ \E gone \in SUBSET Named :
       /\ gone # {} => HandedOver
       /\ flash' = [x \in Tables |-> IF x \in gone THEN None ELSE flash[x]]
  /\ \/ Stop(t)
     \/ /\ HandedOver /\ ~Cancelled(t) /\ \A x \in Named : flash'[x] = None
        /\ job' = Goto(t, "handover") /\ UNCHANGED <<handle, lock>>

\* async_complete_verified_calibration_handoff
HandOver(t) ==
  /\ At(t, "handover") /\ UNCHANGED <<tx, origin, cleaning, flash, marker, record, recovery>>
  /\ \/ Stop(t) /\ handed' \in {handed, "yaml"}
     \/ ~Cancelled(t) /\ handed' = "yaml" /\ Done(t, handle[job[t].h])

-----------------------------------------------------------------------------

\* async_check_stability and the other reads, which take no lease.
Check(t) ==
  /\ At(t, "check")
  /\ UNCHANGED <<lock, tx, origin, cleaning, flash, disk>>
  /\ \/ Fails(t)
     \/ ~Cancelled(t) /\ Returns(t, [handle[job[t].h] EXCEPT !.state = "ready"])

-----------------------------------------------------------------------------

\* Home Assistant restarts: the meter and the disk are what remains.
Crash ==
  /\ lock' = [owner |-> None, queue |-> <<>>] /\ tx' = "idle" /\ origin' = None
  /\ handle' = [h \in Sessions |->
       IF handle[h].reg = "new" THEN NewSession ELSE Scrubbed]
  /\ cleaning' = NoCleanup /\ job' = [t \in Tasks |-> NoJob]
  /\ UNCHANGED <<flash, disk>>

Step(t) ==
  \/ Acquire(t) \/ Queued(t) \/ StartConnect(t) \/ Preflight(t) \/ Register(t)
  \/ Origin(t) \/ Mark(t) \/ Run(t) \/ Saved(t) \/ Capture(t) \/ Zero(t)
  \/ Unmark(t) \/ Restart(t) \/ Persist(t) \/ Check(t)
  \/ Prepare(t) \/ Progress(t) \/ Review(t) \/ Reconcile(t) \/ Select(t)
  \/ Consume(t) \/ Cycle(t) \/ Clear(t) \/ HandOver(t)

Request(t, h) ==
  \/ Start(t, h)
  \/ "status" \in Claims /\ AskStatus(t, h)
  \/ \E op \in Claims, todo \in SUBSET Tables : Claim(t, h, op, todo)

Manage(h) == Acknowledge(h) \/ Complete(h) \/ Cancel(h) \/ Close(h)
             \/ PassDeadline(h) \/ Expire(h)

Next ==
  \/ \E t \in Tasks :
       \/ Step(t)
       \/ "recover" \in Claims /\ Recover(t)
       \/ \E h \in Sessions : Request(t, h)
  \/ \E h \in Sessions : Manage(h)
  \/ Transaction \/ Install \/ Cleanup \/ Crash

Spec == Init /\ [][Next]_vars

\* An await of t that ends by itself: t was cancelled, or it starts a session and
\* is past the connection.  Device Builder, which the operations of a session
\* and the connection ask for the source, may leave them waiting for ever.
Ends(t) ==
  \/ Cancelled(t)
  \/ job[t].op = "start" /\ job[t].pc # "connect"
  \/ job[t].op = "status"

\* Tasks whose await ends run, and a woken config transaction takes its turn;
\* that it ever gives the lock back is not assumed.
Fairness ==
  /\ \A t \in Tasks : WF_vars(Ends(t) /\ Step(t))
  /\ WF_vars(Cleanup) /\ WF_vars(tx = "queue" /\ Transaction)

FairSpec == Spec /\ Fairness

-----------------------------------------------------------------------------
(* Properties.                                                             *)

\* The meter has one user at a time: whoever is inside a lease, the clean-up
\* or a config transaction is the owner of the lock
\* (async_acquire_config, async_acquire_calibration, CalibrationLease.release).
MeterHasOneUser ==
  /\ \A t \in Tasks : job[t].pc \in Leased <=> lock.owner = t
  /\ tx = "held" <=> lock.owner = Tx
  /\ cleaning.pc = "cancel" <=> lock.owner = Cleaner

\* A registered session does not lose tables it has to verify: a table leaves
\* the origin only into the verified record, or because the final configuration
\* the meter has selected holds exactly this table (_async_finalize_revoked and
\* abandon_calibration of an earlier session, consume_calibration_origin,
\* consume_calibration_gains, consume_finalized_offsets).
NoSessionLosesTables ==
  [][\A h \in Sessions : Registered(h) /\ Registered(h)' =>
       \A x \in Retained(origin) \ Retained(origin') :
         \/ record'[x] = origin.tables[x]
         \/ /\ recovery # None /\ recovery.final = "selected" /\ x \in OffsetTables
            /\ recovery.results[x] = origin.tables[x]]_vars

\* When the clean-up of a session is over, none of its operations is left to
\* use the meter (_async_finalize_revoked awaits the active task).
RevokedIsQuiet ==
  \A t \in Tasks : job[t].op \in Claiming /\ ~Registered(job[t].h) =>
    cleaning.h = job[t].h

\* What a verified record says of a table is in the meter's flash when the
\* record is saved, though the tables were recorded by several operations and
\* sessions before (_async_verify_after_restart).
VerifiedIsInFlash ==
  [][record' # record =>
       \A x \in Tables : record'[x] \in {None, flash[x]}]_vars

\* The meter's flash changes only while a marker on disk says so, or back to the
\* YAML where the installed firmware has what the verified record names; and the
\* marker is cleared by a verified record, or by whoever recovers the meter under
\* the lease: a crash at any moment leaves a change that is not verified
\* announced (_persist_interrupted, async_clear_calibration_flash,
\* async_recover_interrupted).
RunsAreAnnounced ==
  [][/\ \A x \in Tables : flash'[x] # flash[x] =>
          \/ marker /\ marker'
          \/ flash'[x] = None /\ x \in Named /\ handed # "no"
     /\ marker /\ ~marker' =>
          \/ \E x \in Tables : record'[x] # None
          \/ \E t \in Tasks : lock.owner = t /\ job[t].op = "recover"]_vars

\* A finished session leaves no calibration to verify
\* (async_complete_calibration_without_changes, async_restart_and_verify).
VerifiedLeavesNothing ==
  \A h \in Sessions : Registered(h) /\ handle[h].state = "verified" =>
    origin = None

\* The clean-up of a revoked session ends, whatever its operation was waiting
\* for, so that the next session can start, unless it waits for ever for the
\* lock of a config transaction that does not end.
CleanupEnds ==
  \/ (cleaning.h # None ~> cleaning.h = None)
  \/ <>[](cleaning.pc = "queue" /\ lock.owner = Tx)
=============================================================================
