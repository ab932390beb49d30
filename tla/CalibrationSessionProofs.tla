----------------------- MODULE CalibrationSessionProofs -----------------------
(***************************************************************************)
(* Proofs about CalibrationSession, for any number of tasks, sessions and  *)
(* tables: the meter has one user; a session that was revoked is quiet     *)
(* once its clean-up is over; a verified record says what is in flash; and *)
(* no step loses a table, or changes the flash unannounced.                *)
(***************************************************************************)
EXTENDS CalibrationSession, TLAPS

Handles ==
  [reg : {"new", "registered", "revoked"}, due : BOOLEAN,
   state : {"preflight_failed", "safety_required", "ready", "applied",
            "gains_verified", "verified", "selected"},
   safe : BOOLEAN, active : Tasks \cup {None}, prepared : BOOLEAN,
   final : BOOLEAN, stock : BOOLEAN]

Pcs == Leased \cup {"idle", "connect", "cleanup", "acquire", "queue", "sources", "check"}

Ops == Claiming \cup Unclaimed \cup {"none", "start"}

Jobs == [op : Ops, h : Sessions \cup {None}, pc : Pcs, todo : SUBSET Tables,
         got : Contents, seen : Recoveries \cup {None}, cancelled : BOOLEAN]

Cleanups == [h : Sessions \cup {None}, task : Tasks \cup {None},
             pc : {"none", "start", "wait", "acquire", "queue", "cancel", "abandon"},
             cancel : BOOLEAN, failed : BOOLEAN]

\* What the meter, the disk and the origin hold.
Data ==
  /\ origin \in Origins \cup {None}
  /\ flash \in Contents
  /\ recovery \in Recoveries \cup {None}

\* What the proof needs to know of the shape of the state.
Shape ==
  /\ lock = [owner |-> lock.owner, queue |-> lock.queue]
  /\ Data
  /\ handle \in [Sessions -> Handles]
  /\ cleaning \in Cleanups
  /\ job \in [Tasks -> Jobs]

-----------------------------------------------------------------------------
(* The inductive invariant.                                                *)

\* Where an operation waits for the lease.
Waiting == {"acquire", "queue"}

\* Every operation is where it can be, for a session if it has one.
Stands(j) ==
  /\ j.op = "none" => j.pc = "idle"
  /\ j.op = "start" => j.pc \in {"connect", "cleanup", "preflight", "sources"} \cup Waiting
  /\ j.op = "check" => j.pc = "check"
  /\ j.op \in {"prepare", "review", "cycle"} => j.pc \in {j.op} \cup Waiting
  /\ j.op \in {"status", "resume"} => j.pc \in {"progress"} \cup Waiting
  /\ j.op = "clear" => j.pc \in {"clear", "handover"} \cup Waiting
  /\ j.op = "reconcile" => j.pc \in {"origin", "select", "consume"} \cup Waiting
  /\ j.op = "recover" => j.pc \in {"mark", "zero", "unmark"} \cup Waiting
  /\ j.op \in Verifies => j.pc \in {"origin", "restart", "persist"} \cup Waiting
  /\ j.op \in Runs \cup {"capture"} =>
       j.pc \in {"origin", "mark", "run", "saved", "zero"} \cup Waiting
  /\ j.pc = "saved" => j.op \in {"gains", "capture"}
  /\ j.op \notin {"none", "recover"} => j.h \in Sessions

Placed == \A t \in Tasks : Stands(job[t])

\* The operation of t on a session that is registered has claimed it; on one
\* that is not, it is what the clean-up waits for.
Bound(t) ==
  LET h == job[t].h IN
  /\ job[t].op = "start" => handle[h].reg = "new"
  /\ job[t].op \in Claiming =>
       /\ handle[h].reg # "new"
       /\ Registered(h) => handle[h].active = t
       /\ ~Registered(h) => /\ cleaning.h = h /\ cleaning.task = t
                            /\ cleaning.pc \in {"start", "wait"}

\* A session is started once.
StartedOnce ==
  \A t, u \in Tasks :
    job[t].op = "start" /\ job[u].op = "start" /\ job[t].h = job[u].h => t = u

\* One session is registered or being cleaned up.
OneSession ==
  /\ cleaning.h = None <=> cleaning.pc = "none"
  /\ cleaning.h # None => handle[cleaning.h].reg = "revoked"
  /\ \A h \in Sessions : Registered(h) => cleaning.h = None
  /\ \A h, g \in Sessions : Registered(h) /\ Registered(g) => h = g

\* A session that is finished leaves no origin, and may only go on to make its
\* tables configuration.
Concluded ==
  \A h \in Sessions : Registered(h) /\ handle[h].state = "verified" =>
    /\ origin = None
    /\ \A t \in Tasks : job[t].h = h /\ job[t].op \in Claiming => job[t].op \in Finishing

\* What the holder of the lease knows of the origin, the disk and the flash.
Knows(t) ==
  /\ job[t].pc \in {"mark", "run", "saved"} /\ job[t].op \in Runs => origin \in Origins
  /\ job[t].pc \in {"mark", "run", "saved"} /\ job[t].op = "capture" => recovery \in Recoveries
  /\ job[t].pc = "run" => marker
  /\ job[t].pc \in {"restart", "persist"} =>
       /\ origin \in Origins
       /\ job[t].got = Only(Covers(job[t].op), origin.tables)
       /\ \E x \in Tables : job[t].got[x] # None
  /\ job[t].pc = "persist" => Matches(job[t].got)
  /\ job[t].pc = "select" => recovery \in Recoveries
  /\ job[t].pc = "consume" =>
       /\ origin \in Origins
       /\ recovery \in Recoveries /\ recovery.final = "selected"

IInv ==
  /\ Shape /\ Placed /\ MeterHasOneUser
  /\ \A t \in Tasks : Bound(t)
  /\ StartedOnce /\ OneSession /\ Concluded
  /\ \A t \in Tasks : Knows(t)

-----------------------------------------------------------------------------
(* Updates of the lock, the jobs and the handles.                          *)

LEMMA LockFacts ==
  ASSUME Shape, NEW a
  PROVE  /\ Take(a) => /\ lock' = [owner |-> lock'.owner, queue |-> lock'.queue]
                       /\ lock'.owner = IF lock.queue = <<>> THEN a ELSE lock.owner
         /\ Wake(a) => /\ lock' = [owner |-> lock'.owner, queue |-> lock'.queue]
                       /\ lock'.owner = a
         /\ Release => /\ lock' = [owner |-> lock'.owner, queue |-> lock'.queue]
                       /\ lock'.owner = None
BY DEF Shape, Take, Wake, Release

LEMMA QueueFacts ==
  ASSUME Shape, NEW q, lock' = [lock EXCEPT !.queue = q]
  PROVE  /\ lock' = [owner |-> lock'.owner, queue |-> lock'.queue]
         /\ lock'.owner = lock.owner
BY DEF Shape

LEMMA NoJobType == NoJob \in Jobs /\ Stands(NoJob)
BY DEF NoJob, Jobs, Ops, Pcs, NoTables, Contents, Stands, Verifies, Runs

\* t goes on to pc, and nobody else does.
Moves(t, pc) ==
  /\ job' \in [Tasks -> Jobs]
  /\ job'[t].pc = pc
  /\ job'[t].op = job[t].op /\ job'[t].h = job[t].h
  /\ \A u \in Tasks \ {t} : job'[u] = job[u]

LEMMA GotoFacts ==
  ASSUME Shape, NEW t \in Tasks, NEW pc \in Pcs, job' = Goto(t, pc)
  PROVE  Moves(t, pc) /\ job'[t].got = job[t].got
BY DEF Shape, Goto, Moves, Jobs

LEMMA GotoWithFacts ==
  ASSUME Shape, NEW t \in Tasks, NEW pc \in Pcs, NEW got \in Contents,
         job' = [job EXCEPT ![t].pc = pc, ![t].got = got]
  PROVE  Moves(t, pc) /\ job'[t].got = got
BY DEF Shape, Moves, Jobs

\* t begins the operation k.
LEMMA BeginFacts ==
  ASSUME Shape, NEW t \in Tasks, NEW k \in Jobs, job' = [job EXCEPT ![t] = k]
  PROVE  /\ job' \in [Tasks -> Jobs] /\ job'[t] = k
         /\ \A u \in Tasks \ {t} : job'[u] = job[u]
BY DEF Shape

\* The operation of t ends, for a session whose claim it may have.
Quits(t) ==
  /\ job' \in [Tasks -> Jobs]
  /\ job'[t] = NoJob
  /\ \A u \in Tasks \ {t} : job'[u] = job[u]

LEMMA EndFacts ==
  ASSUME Shape, NEW t \in Tasks, job' = EndJob(t)
  PROVE  Quits(t)
BY NoJobType DEF Shape, EndJob, Quits

\* Nobody but t loses a claim, and no session is registered or revoked.
Frees(t) ==
  /\ handle' \in [Sessions -> Handles]
  /\ \A h \in Sessions :
       /\ handle'[h].reg = handle[h].reg
       /\ handle[h].active # t => handle'[h].active = handle[h].active

LEMMA FailsFacts ==
  ASSUME Shape, NEW t \in Tasks, Fails(t)
  PROVE  /\ Quits(t) /\ Frees(t)
         /\ \A h \in Sessions : handle'[h].state = handle[h].state
<1>1. Quits(t)
  BY EndFacts DEF Fails
<1>2. CASE handle' = handle
  BY <1>1, <1>2 DEF Frees, Shape
<1>3. CASE /\ job[t].h # None /\ handle[job[t].h].active = t
           /\ handle' = [handle EXCEPT ![job[t].h].active = None]
  <2>1. job[t].h \in Sessions
    BY <1>3 DEF Shape, Jobs
  <2>2. handle' \in [Sessions -> Handles]
    BY <1>3, <2>1 DEF Shape, Handles
  <2> QED BY <1>1, <1>3, <2>1, <2>2 DEF Frees, Shape, Handles
<1> QED BY <1>2, <1>3 DEF Fails, Unclaim

-----------------------------------------------------------------------------
(* What a step of one task leaves alone.                                   *)

LEMMA BoundFrame ==
  ASSUME NEW u \in Tasks, Bound(u), job'[u] = job[u], cleaning' = cleaning,
         job[u].op \in Claiming \cup {"start"} =>
           /\ handle'[job[u].h].reg = handle[job[u].h].reg
           /\ Registered(job[u].h) => handle'[job[u].h].active = handle[job[u].h].active
  PROVE  Bound(u)'
BY DEF Bound, Registered

LEMMA KnowsFrame ==
  ASSUME NEW u \in Tasks, Knows(u), job'[u] = job[u],
         UNCHANGED <<origin, marker, flash, recovery>> \/ job[u].pc \notin Leased
  PROVE  Knows(u)'
<1>1. CASE job[u].pc \notin Leased
  BY <1>1 DEF Knows, Leased
<1>2. CASE UNCHANGED <<origin, marker, flash, recovery>>
  BY <1>2 DEF Knows, Only, Covers, Matches
<1> QED BY <1>1, <1>2

LEMMA KnowsNothing ==
  ASSUME NEW t \in Tasks,
         job'[t].pc \notin {"run", "saved", "restart", "persist", "select", "consume"},
         job'[t].pc = "mark" => job'[t].op \notin Runs \cup {"capture"}
  PROVE  Knows(t)'
BY DEF Knows

LEMMA Operations ==
  /\ "none" \notin Claiming /\ "start" \notin Claiming
  /\ "status" \notin Claiming /\ "recover" \notin Claiming
  /\ Ops = Claiming \cup {"none", "start", "status", "recover"}
  /\ Runs \subseteq Claiming \ Finishing /\ Verifies \subseteq Claiming \ Finishing
  /\ {"capture", "resume", "prepare", "check"} \subseteq Claiming \ Finishing
BY DEF Ops, Unclaimed, Claiming, Finishing, Runs, Verifies

\* The task t is one that runs an operation, for a session if it has one.
LEMMA InLease ==
  ASSUME IInv, NEW t \in Tasks
  PROVE  /\ job[t] \in Jobs /\ job[t].op \in Ops /\ job[t].got \in Contents
         /\ job[t].op \in Claiming \cup {"start", "status"} =>
              job[t].h \in Sessions /\ handle[job[t].h] \in Handles
         /\ job[t].op \in Claiming /\ Registered(job[t].h) => handle[job[t].h].active = t
BY Operations DEF IInv, Placed, Stands, Shape, Jobs, Bound

\* While an operation that finished sessions are refused is under way, no
\* registered session is finished.
LEMMA NobodyFinished ==
  ASSUME IInv, NEW t \in Tasks, job[t].op \in Claiming \ Finishing,
         NEW h \in Sessions, Registered(h)
  PROVE  handle[h].state # "verified"
<1>1. job[t].h \in Sessions
  BY InLease
<1>2. CASE Registered(job[t].h)
  BY <1>1, <1>2 DEF IInv, Concluded, OneSession
<1>3. CASE ~Registered(job[t].h)
  BY <1>1, <1>3, SessionAssumption DEF IInv, Bound, OneSession
<1> QED BY <1>2, <1>3

\* The session part of the invariant.
Bindings == Placed /\ (\A t \in Tasks : Bound(t)) /\ StartedOnce /\ OneSession

\* No session is registered or revoked, and no claim taken or released.
Steady ==
  /\ handle' \in [Sessions -> Handles]
  /\ \A h \in Sessions : /\ handle'[h].reg = handle[h].reg
                         /\ handle'[h].active = handle[h].active

LEMMA StillSteady ==
  ASSUME IInv, handle' = handle
  PROVE  Steady
BY DEF IInv, Shape, Steady

\* t goes on with its operation.
LEMMA MovesBindings ==
  ASSUME IInv, NEW t \in Tasks, NEW pc, Moves(t, pc), Stands(job'[t]),
         Steady, cleaning' = cleaning
  PROVE  Bindings'
<1>1. Placed'
  BY DEF IInv, Placed, Moves
<1>2. ASSUME NEW u \in Tasks PROVE Bound(u)'
  <2>1. job[u].op \in Claiming \cup {"start"} => job[u].h \in Sessions
    BY InLease
  <2>2. CASE u # t
    BY <2>1, <2>2, BoundFrame DEF IInv, Moves, Steady
  <2>3. CASE u = t
    BY <2>1, <2>3 DEF IInv, Moves, Bound, Registered, Steady
  <2> QED BY <2>2, <2>3
<1>3. StartedOnce'
  BY DEF IInv, StartedOnce, Moves
<1>4. OneSession'
  BY SessionAssumption DEF IInv, OneSession, Registered, Steady, Shape, Cleanups
<1> QED BY <1>1, <1>2, <1>3, <1>4 DEF Bindings

\* The operation of t ends.
LEMMA EndsBindings ==
  ASSUME IInv, NEW t \in Tasks, Quits(t), Frees(t), cleaning' = cleaning
  PROVE  Bindings'
<1>0. job'[t].op = "none" /\ job'[t].pc = "idle"
  BY DEF Quits, NoJob
<1>1. Placed'
  BY NoJobType DEF IInv, Placed, Quits
<1>2. ASSUME NEW u \in Tasks PROVE Bound(u)'
  <2>1. CASE u = t
    BY <1>0, <2>1, Operations DEF Bound
  <2>2. CASE u # t
    <3>1. /\ job'[u] = job[u]
          /\ job[u].op \in Claiming \cup {"start"} => job[u].h \in Sessions
          /\ job[u].op \in Claiming /\ Registered(job[u].h) => handle[job[u].h].active = u
      BY <2>2, InLease DEF Quits
    <3>2. job[u].op = "start" => ~Registered(job[u].h)
      BY DEF IInv, Bound, Registered
    <3> QED BY <2>2, <3>1, <3>2, BoundFrame DEF IInv, Frees
  <2> QED BY <2>1, <2>2
<1>3. StartedOnce'
  BY <1>0 DEF IInv, StartedOnce, Quits
<1>4. OneSession'
  BY SessionAssumption DEF IInv, OneSession, Registered, Frees, Shape, Cleanups
<1> QED BY <1>1, <1>2, <1>3, <1>4 DEF Bindings

\* The operation of t ends, and leaves no session finished that was not.
LEMMA EndsConcluded ==
  ASSUME IInv, NEW t \in Tasks, Quits(t), Frees(t), origin = None => origin' = None,
         \A h \in Sessions : handle'[h].state = "verified" => handle[h].state = "verified"
  PROVE  Concluded'
BY Operations DEF IInv, Concluded, Registered, Quits, Frees, NoJob

\* Everybody but t keeps what he knows, if t may touch the meter or does not.
LEMMA OthersKnow ==
  ASSUME IInv, NEW t \in Tasks, \A u \in Tasks \ {t} : job'[u] = job[u],
         UNCHANGED <<origin, marker, flash, recovery>> \/ job[t].pc \in Leased
  PROVE  \A u \in Tasks \ {t} : Knows(u)'
<1> SUFFICES ASSUME NEW u \in Tasks \ {t} PROVE Knows(u)'
  OBVIOUS
<1>1. UNCHANGED <<origin, marker, flash, recovery>> \/ job[u].pc \notin Leased
  BY DEF IInv, MeterHasOneUser
<1> QED BY <1>1, KnowsFrame DEF IInv

-----------------------------------------------------------------------------
(* The steps under the lease.                                              *)

LEMMA Combine ==
  ASSUME Shape', MeterHasOneUser', Bindings', Concluded', \A t \in Tasks : Knows(t)'
  PROVE  IInv'
BY DEF IInv, Bindings

\* The holder of the lease goes on.
LEMMA LeaseGoesOn ==
  ASSUME IInv, NEW t \in Tasks, NEW pc \in Leased, job[t].pc \in Leased,
         Moves(t, pc), Stands(job'[t]), Knows(t)', Data',
         UNCHANGED <<lock, tx, handle, cleaning>>,
         job[t].op \in Claiming \ Finishing \/ (origin = None => origin' = None)
  PROVE  IInv'
<1>1. Shape'
  BY DEF IInv, Shape, Moves
<1>2. MeterHasOneUser'
  BY DEF IInv, MeterHasOneUser, Moves
<1>3. Bindings'
  BY StillSteady, MovesBindings
<1>4. Concluded'
  BY NobodyFinished DEF IInv, Concluded, Registered, Moves
<1>5. \A u \in Tasks : Knows(u)'
  BY OthersKnow DEF Moves
<1> QED BY <1>1, <1>2, <1>3, <1>4, <1>5, Combine

\* The holder releases the lease and ends.
LEMMA LeaseEnds ==
  ASSUME IInv, NEW t \in Tasks, job[t].pc \in Leased,
         Release, Quits(t), Frees(t), Concluded', Data',
         UNCHANGED <<tx, cleaning>>
  PROVE  IInv'
<1>1. job'[t].pc = "idle"
  BY DEF Quits, NoJob
<1>2. /\ lock' = [owner |-> lock'.owner, queue |-> lock'.queue]
      /\ lock'.owner = None
  BY LockFacts DEF IInv
<1>3. Shape'
  BY <1>2 DEF IInv, Shape, Quits, Frees
<1>4. MeterHasOneUser'
  BY <1>1, <1>2, SessionAssumption DEF IInv, MeterHasOneUser, Quits, Leased, Tx, Cleaner
<1>5. Bindings'
  BY EndsBindings
<1>6. \A u \in Tasks : Knows(u)'
  BY <1>1, OthersKnow, KnowsNothing DEF Quits
<1> QED BY <1>3, <1>4, <1>5, <1>6, Combine

LEMMA StopKeeps ==
  ASSUME IInv, NEW t \in Tasks, job[t].pc \in Leased, Stop(t), Data',
         UNCHANGED <<tx, cleaning>>, origin = None => origin' = None
  PROVE  IInv'
<1>1. /\ Release /\ Quits(t) /\ Frees(t)
      /\ \A h \in Sessions : handle'[h].state = handle[h].state
  BY FailsFacts DEF Stop, IInv
<1>2. Concluded'
  BY <1>1, EndsConcluded
<1> QED BY <1>1, <1>2, LeaseEnds

LEMMA ReturnsFacts ==
  ASSUME Shape, NEW t \in Tasks, NEW fields \in Handles, job[t].h \in Sessions,
         fields.reg = handle[job[t].h].reg, Returns(t, fields),
         Registered(job[t].h) => handle[job[t].h].active = t
  PROVE  /\ Quits(t) /\ Frees(t)
         /\ \A h \in Sessions : handle'[h].state = handle[h].state
              \/ (h = job[t].h /\ Registered(h) /\ handle'[h].state = fields.state)
<1>1. Quits(t)
  BY EndFacts DEF Returns
<1>2. CASE ~Live(job[t].h)
  <2>1. Fails(t)
    BY <1>2 DEF Returns, Fails
  <2> QED BY <2>1, FailsFacts
<1>3. CASE Live(job[t].h)
  <2> DEFINE f == [fields EXCEPT !.active = None]
  <2>1. /\ f \in Handles /\ f.active = None /\ f.reg = fields.reg
        /\ f.state = fields.state
    BY DEF Handles
  <2>2. handle' = [handle EXCEPT ![job[t].h] = f]
    BY <1>3 DEF Returns
  <2> HIDE DEF f
  <2>3. handle' \in [Sessions -> Handles]
    BY <2>1, <2>2 DEF Shape
  <2>4. /\ handle'[job[t].h] = f
        /\ \A h \in Sessions \ {job[t].h} : handle'[h] = handle[h]
    BY <2>2 DEF Shape
  <2> QED BY <1>1, <1>3, <2>1, <2>3, <2>4 DEF Frees, Live
<1> QED BY <1>2, <1>3

\* An operation returns: a session it finishes leaves nothing to verify.
LEMMA ReturnsConcluded ==
  ASSUME IInv, NEW t \in Tasks, job[t].op \in Claiming,
         NEW fields \in Handles, fields.reg = handle[job[t].h].reg,
         Returns(t, fields), origin = None => origin' = None,
         Registered(job[t].h) /\ fields.state = "verified" => origin' = None
  PROVE  Quits(t) /\ Frees(t) /\ Concluded'
<1>1. job[t].h \in Sessions /\ (Registered(job[t].h) => handle[job[t].h].active = t)
  BY InLease
<1>2. /\ Quits(t) /\ Frees(t)
      /\ \A h \in Sessions : handle'[h].state = handle[h].state
           \/ (h = job[t].h /\ Registered(h) /\ handle'[h].state = fields.state)
  BY <1>1, ReturnsFacts DEF IInv
<1>3. Concluded'
  <2> SUFFICES ASSUME NEW h \in Sessions, Registered(h)', handle'[h].state = "verified"
               PROVE  /\ origin' = None
                      /\ \A u \in Tasks : job'[u].h = h /\ job'[u].op \in Claiming =>
                           job'[u].op \in Finishing
    BY DEF Concluded
  <2>1. Registered(h)
    BY <1>2 DEF Frees, Registered
  <2>2. job'[t].op \notin Claiming /\ \A u \in Tasks \ {t} : job'[u] = job[u]
    BY <1>2, Operations DEF Quits, NoJob
  <2>3. CASE handle[h].state = "verified"
    BY <2>1, <2>2, <2>3 DEF IInv, Concluded
  <2>4. CASE h = job[t].h /\ fields.state = "verified"
    <3>1. \A u \in Tasks \ {t} : ~(job[u].h = h /\ job[u].op \in Claiming)
      BY <1>1, <2>1, <2>4, InLease
    <3> QED BY <2>1, <2>2, <2>4, <3>1
  <2> QED BY <1>2, <2>3, <2>4
<1> QED BY <1>2, <1>3

LEMMA DoneKeeps ==
  ASSUME IInv, NEW t \in Tasks, job[t].pc \in Leased, job[t].op \in Claiming,
         NEW fields \in Handles, fields.reg = handle[job[t].h].reg,
         Done(t, fields), Data',
         UNCHANGED <<tx, cleaning>>, origin = None => origin' = None,
         Registered(job[t].h) /\ fields.state = "verified" => origin' = None
  PROVE  IInv'
<1>1. Release /\ Returns(t, fields)
  BY DEF Done
<1>2. Quits(t) /\ Frees(t) /\ Concluded'
  BY <1>1, ReturnsConcluded
<1> QED BY <1>1, <1>2, LeaseEnds

LEMMA RecoveryType ==
  /\ NewRecovery \in Recoveries
  /\ \A r \in Recoveries :
       /\ r # None
       /\ [r EXCEPT !.prep = "ready"] \in Recoveries
       /\ [r EXCEPT !.prep = "cancelled"] \in Recoveries
       /\ \A f \in {"none", "reviewed", "installed", "selected", "cancelled"} :
            [r EXCEPT !.final = f] \in Recoveries /\ [r EXCEPT !.final = f].final = f
  /\ \A r \in Recoveries \cup {None} :
       CancelFinal(r) \in Recoveries \cup {None} /\ CancelPreparation(r) \in Recoveries \cup {None}
BY NoneIsNoRecord DEF NewRecovery, NoResults, Recoveries, CancelFinal, CancelPreparation

LEMMA RestoredFacts ==
  ASSUME NEW u \in Handles, NEW r, NEW o, NEW v \in Restored(u, r, o)
  PROVE  /\ v \in Handles /\ v.reg = u.reg /\ v.state = u.state /\ v.active = u.active
<1>1. CASE r = None
  BY <1>1 DEF Restored
<1>2. CASE r # None
  <2>1. PICK stock \in BOOLEAN :
          v = [u EXCEPT !.prepared = r.prep # "none", !.final = r.final # "none",
                        !.stock = stock]
    BY <1>2, Zenon DEF Restored
  <2>2. PICK prepared \in BOOLEAN, final \in BOOLEAN :
          v = [u EXCEPT !.prepared = prepared, !.final = final, !.stock = stock]
    BY <2>1
  <2> QED BY <2>2 DEF Handles
<1> QED BY <1>1, <1>2

LEMMA StateFacts ==
  ASSUME NEW u \in Handles,
         NEW s \in {"preflight_failed", "safety_required", "ready", "applied",
                    "gains_verified", "verified", "selected"}
  PROVE  /\ [u EXCEPT !.state = s] \in Handles
         /\ [u EXCEPT !.state = s].reg = u.reg /\ [u EXCEPT !.state = s].state = s
BY DEF Handles

\* Where a task stands tells what it does.
LEMMA LeasedOps ==
  ASSUME IInv, NEW t \in Tasks
  PROVE  /\ job[t].pc = "origin" => job[t].op \in Runs \cup Verifies \cup {"capture", "reconcile"}
         /\ job[t].pc \in {"mark", "zero"} => job[t].op \in Runs \cup {"capture", "recover"}
         /\ job[t].pc = "run" => job[t].op \in Runs \cup {"capture"}
         /\ job[t].pc = "saved" => job[t].op \in {"gains", "capture"}
         /\ job[t].pc = "unmark" => job[t].op = "recover"
         /\ job[t].pc \in {"restart", "persist"} => job[t].op \in Verifies
         /\ job[t].pc \in {"prepare", "review", "cycle", "clear"} => job[t].op = job[t].pc
         /\ job[t].pc = "handover" => job[t].op = "clear"
         /\ job[t].pc = "progress" => job[t].op \in {"status", "resume"}
         /\ job[t].pc \in {"select", "consume"} => job[t].op = "reconcile"
         /\ job[t].pc \in {"connect", "cleanup", "preflight", "sources"} => job[t].op = "start"
         /\ job[t].pc = "check" => job[t].op = "check"
         /\ job[t].pc = "idle" => job[t].op = "none"
<1>1. Stands(job[t]) /\ job[t].op \in Ops
  BY InLease DEF IInv, Placed
<1> QED BY <1>1 DEF Stands, Ops, Claiming, Unclaimed, Finishing, Verifies, Runs, Waiting

\* An operation that goes on stands where it can.
LEMMA MovedStands ==
  ASSUME IInv, NEW t \in Tasks, NEW pc, Moves(t, pc),
         \/ pc \in {"mark", "run", "saved", "zero"} /\ job[t].op \in Runs \cup {"capture"}
              /\ (pc = "saved" => job[t].op \in {"gains", "capture"})
         \/ pc \in {"mark", "zero", "unmark"} /\ job[t].op = "recover"
         \/ pc \in {"restart", "persist"} /\ job[t].op \in Verifies
         \/ pc \in {"select", "consume"} /\ job[t].op = "reconcile"
         \/ pc = "handover" /\ job[t].op = "clear"
         \/ pc \in {"connect", "cleanup", "preflight", "sources", "acquire"}
              /\ job[t].op = "start"
  PROVE  Stands(job'[t])
<1>1. /\ job'[t].pc = pc /\ job'[t].op = job[t].op /\ job'[t].h = job[t].h
      /\ job[t].op \notin {"none", "recover"} => job[t].h \in Sessions
  BY DEF Moves, IInv, Placed, Stands
<1> QED BY <1>1 DEF Stands, Runs, Verifies, Waiting

LEMMA OnlyType ==
  ASSUME NEW xs, NEW contents \in Contents
  PROVE  Only(xs, contents) \in Contents
BY DEF Only, Contents

LEMMA OriginType ==
  /\ [tables |-> NoTables, claimed |-> FALSE] \in Origins
  /\ \A o \in Origins, b \in BOOLEAN :
       /\ [o EXCEPT !.claimed = b] \in Origins
       /\ [o EXCEPT !.claimed = b].tables = o.tables
       /\ o # None /\ o.tables \in Contents
BY NoneIsNoRecord DEF Origins, NoTables, Contents

LEMMA RetainType ==
  ASSUME NEW o \in Origins, NEW got \in Contents
  PROVE  /\ Retain(o, got) \in Origins
         /\ Retain(o, got).tables = [x \in Tables |-> IF got[x] # None THEN got[x] ELSE o.tables[x]]
BY DEF Retain, Origins, Contents

LEMMA UnfrozenType ==
  ASSUME NEW o \in Origins \cup {None}
  PROVE  /\ Unfrozen(o) \in Origins \cup {None}
         /\ o = None => Unfrozen(o) = None
         /\ o # None => Unfrozen(o) # None /\ Unfrozen(o).tables = o.tables
BY OriginType DEF Unfrozen

LEMMA RetainedOrigin ==
  ASSUME NEW o \in Origins \cup {None}
  PROVE  /\ Retained(o) \subseteq Tables
         /\ Retained(o) # {} => o \in Origins
         /\ o \in Origins => Retained(o) = {x \in Tables : o.tables[x] # None}
BY OriginType DEF Retained

LEMMA OriginStep ==
  ASSUME IInv, NEW t \in Tasks, Origin(t)
  PROVE  IInv'
<1>1. /\ job[t].pc = "origin" /\ job[t].pc \in Leased /\ job[t].op \in Claiming
      /\ job[t].op \in Runs \cup Verifies \cup {"capture"}
      /\ job[t].op \notin Finishing
      /\ UNCHANGED <<tx, cleaning, flash, disk>>
  BY LeasedOps, Operations DEF Origin, At, Leased
<1>2. job[t].h \in Sessions /\ handle[job[t].h] \in Handles
  BY <1>1, InLease
<1>3. /\ origin \in Origins \cup {None}
      /\ flash' \in Contents /\ recovery' \in Recoveries \cup {None}
  BY <1>1 DEF IInv, Shape, Data, disk
<1>4. CASE Stop(t) /\ UNCHANGED origin
  BY <1>1, <1>3, <1>4, StopKeeps DEF Data
<1>5. CASE /\ Done(t, [handle[job[t].h] EXCEPT !.state = "applied",
                         !.stock = @ \/ job[t].op = "capture"])
           /\ UNCHANGED origin
  <2> DEFINE old == handle[job[t].h]
             stock == old.stock \/ job[t].op = "capture"
             fields == [old EXCEPT !.state = "applied", !.stock = stock]
  <2>1. old \in Handles /\ stock \in BOOLEAN
    BY <1>2
  <2>2. Done(t, fields)
    BY <1>5
  <2> HIDE DEF stock, old
  <2>3. fields \in Handles /\ fields.reg = old.reg /\ fields.state = "applied"
    BY <2>1 DEF Handles
  <2> USE DEF old
  <2> QED BY <1>1, <1>3, <1>5, <2>2, <2>3, DoneKeeps DEF Data
<1>6. CASE /\ job[t].op \in Runs \cup {"capture"}
           /\ job[t].op = "capture" => Prepared
           /\ job' = Goto(t, "mark") /\ UNCHANGED <<handle, lock>>
           /\ origin' = IF origin = None /\ job[t].op # "capture"
                        THEN [tables |-> NoTables, claimed |-> FALSE]
                        ELSE origin
  <2>1. Moves(t, "mark")
    BY <1>6, GotoFacts DEF IInv, Pcs, Leased
  <2>2. Stands(job'[t])
    BY <1>6, <2>1, MovedStands
  <2>3. Data' /\ (job[t].op \in Runs => origin' \in Origins)
    <3>1. [tables |-> NoTables, claimed |-> FALSE] \in Origins /\ "capture" \notin Runs
      BY OriginType DEF Runs
    <3> QED BY <1>3, <1>6, <3>1 DEF Data
  <2>4. Knows(t)'
    <3>1. recovery' = recovery
      BY <1>1 DEF disk
    <3> QED BY <1>3, <1>6, <2>1, <2>3, <3>1 DEF Knows, Moves, Prepared
  <2> QED BY <1>1, <1>6, <2>1, <2>2, <2>3, <2>4, LeaseGoesOn DEF Leased
<1>7. CASE /\ job[t].op \in Verifies
           /\ Retained(origin) \cap Covers(job[t].op) # {}
           /\ origin' = [origin EXCEPT !.claimed = TRUE]
           /\ job' = [job EXCEPT ![t].pc = "restart",
                ![t].got = Only(Covers(job[t].op), origin.tables)]
           /\ UNCHANGED <<handle, lock>>
  <2>1. origin \in Origins
    BY <1>3, <1>7, RetainedOrigin
  <2>2. origin' \in Origins /\ origin'.tables = origin.tables
    BY <1>7, <2>1, OriginType
  <2>3. Only(Covers(job[t].op), origin.tables) \in Contents
    BY <2>1, OriginType, OnlyType
  <2>4. Moves(t, "restart") /\ job'[t].got = Only(Covers(job[t].op), origin.tables)
    BY <1>7, <2>3, GotoWithFacts DEF IInv, Pcs, Leased
  <2>5. Stands(job'[t])
    BY <1>7, <2>4, MovedStands
  <2>6. \E x \in Tables : Only(Covers(job[t].op), origin.tables)[x] # None
    BY <1>7, <2>1, RetainedOrigin DEF Only
  <2>7. job'[t].pc = "restart" /\ job'[t].op = job[t].op
    BY <2>4 DEF Moves
  <2>8. Knows(t)'
    BY <2>2, <2>4, <2>6, <2>7 DEF Knows
  <2> QED BY <1>1, <1>3, <1>7, <2>2, <2>4, <2>5, <2>8, LeaseGoesOn DEF Leased, Data
<1> QED BY <1>1, <1>4, <1>5, <1>6, <1>7 DEF Origin

LEMMA MarkStep ==
  ASSUME IInv, NEW t \in Tasks, Mark(t)
  PROVE  IInv'
<1>1. /\ job[t].pc = "mark" /\ job[t].pc \in Leased
      /\ job[t].op \in Runs \cup {"capture", "recover"}
      /\ UNCHANGED <<tx, origin, cleaning, flash, recovery>> /\ Data'
  BY LeasedOps DEF Mark, At, Leased, IInv, Shape, Data
<1>2. CASE Stop(t)
  BY <1>1, <1>2, StopKeeps
<1>3. CASE /\ marker' = TRUE /\ UNCHANGED <<handle, lock>>
           /\ job' = Goto(t, IF job[t].op = "recover" THEN "zero" ELSE "run")
  <2>1. PICK pc \in {"run", "zero"} :
          job' = Goto(t, pc) /\ (pc = "zero" <=> job[t].op = "recover")
    BY <1>3
  <2>2. Moves(t, pc)
    BY <2>1, GotoFacts DEF IInv, Pcs, Leased
  <2>3. Stands(job'[t])
    BY <1>1, <2>1, <2>2, MovedStands
  <2>4. Knows(t)'
    BY <1>1, <1>3, <2>2 DEF IInv, Knows, Moves
  <2> QED BY <1>1, <1>3, <2>2, <2>3, <2>4, LeaseGoesOn DEF Leased
<1> QED BY <1>2, <1>3 DEF Mark

\* What a run leaves: the tables it wrote, and those it has evidence of.
LEMMA RunFacts ==
  ASSUME IInv, NEW t \in Tasks, Run(t)
  PROVE  /\ job[t].op \in Runs \cup {"capture"} /\ flash' \in Contents
         /\ \/ UNCHANGED origin /\ job' = Goto(t, "zero")
            \/ /\ job[t].op \in {"gains", "capture"} /\ UNCHANGED origin
               /\ \E got \in Contents :
                    job' = [job EXCEPT ![t].pc = "saved", ![t].got = got]
            \/ /\ job[t].op = "offsets"
               /\ \E got \in Contents :
                    /\ origin' = Retain(origin, got)
                    /\ job' = [job EXCEPT ![t].pc = "zero", ![t].got = got]
<1>1. job[t].op \in Runs \cup {"capture"} /\ flash \in Contents
  BY LeasedOps DEF Run, At, IInv, Shape, Data
<1>2. PICK wrote \in SUBSET job[t].todo :
        \E new \in [wrote -> Values \cup {None}] :
          /\ flash' = [x \in Tables |-> IF x \in wrote THEN new[x] ELSE flash[x]]
          /\ \/ UNCHANGED origin /\ job' = Goto(t, "zero")
             \/ /\ job[t].op = "gains" /\ UNCHANGED origin
                /\ \E applied \in SUBSET wrote :
                     job' = [job EXCEPT ![t].pc = "saved", ![t].got = Only(applied, flash')]
             \/ /\ job[t].op = "offsets" /\ origin' = Retain(origin, Only(wrote, flash'))
                /\ job' = [job EXCEPT ![t].pc = "zero", ![t].got = Only(wrote, flash')]
             \/ /\ job[t].op = "capture" /\ UNCHANGED origin
                /\ job' = [job EXCEPT ![t].pc = "saved", ![t].got = Only(wrote, flash')]
  BY <1>1 DEF Run, Runs
<1>3. flash' \in Contents
  BY <1>1, <1>2 DEF Contents
<1>4. \A xs : Only(xs, flash') \in Contents
  BY <1>3, OnlyType
<1> QED BY <1>1, <1>2, <1>3, <1>4

LEMMA RunStep ==
  ASSUME IInv, NEW t \in Tasks, Run(t)
  PROVE  IInv'
<1>1. /\ job[t].pc = "run" /\ job[t].pc \in Leased
      /\ job[t].op \in Runs \cup {"capture"} /\ job[t].op \in Claiming \ Finishing
      /\ UNCHANGED <<lock, tx, cleaning, handle, disk>>
  BY RunFacts, Operations DEF Run, At, Leased
<1>2. job[t].op \in Runs => origin \in Origins
  BY <1>1 DEF IInv, Knows
<1>3. Data' /\ (job[t].op \in Runs => origin' \in Origins)
  <2>1. CASE UNCHANGED origin
    BY <1>1, <1>2, <2>1, RunFacts DEF IInv, Shape, Data, disk
  <2>2. ASSUME NEW got \in Contents, job[t].op = "offsets", origin' = Retain(origin, got)
        PROVE  origin' \in Origins
    BY <1>2, <2>2, RetainType DEF Runs
  <2> QED BY <1>1, <2>1, <2>2, RunFacts DEF IInv, Shape, Data, disk
<1>4. CASE Moves(t, "zero")
  <2>1. Stands(job'[t])
    BY <1>1, <1>4, MovedStands
  <2>2. Knows(t)'
    BY <1>4, KnowsNothing DEF Moves
  <2> QED BY <1>1, <1>3, <1>4, <2>1, <2>2, LeaseGoesOn DEF Leased
<1>5. CASE Moves(t, "saved") /\ job[t].op \in {"gains", "capture"}
  <2>1. Stands(job'[t])
    BY <1>1, <1>5, MovedStands
  <2>2. Knows(t)'
    BY <1>1, <1>3, <1>5 DEF IInv, Knows, Moves, Runs, disk
  <2> QED BY <1>1, <1>3, <1>5, <2>1, <2>2, LeaseGoesOn DEF Leased
<1>6. Moves(t, "zero") \/ (Moves(t, "saved") /\ job[t].op \in {"gains", "capture"})
  <2>1. "zero" \in Pcs /\ "saved" \in Pcs /\ Shape
    BY DEF Pcs, Leased, IInv
  <2>2. job' = Goto(t, "zero") => Moves(t, "zero")
    BY <2>1, GotoFacts
  <2>3. ASSUME NEW got \in Contents, job' = [job EXCEPT ![t].pc = "saved", ![t].got = got]
        PROVE  Moves(t, "saved")
    BY <2>1, <2>3, GotoWithFacts
  <2>4. ASSUME NEW got \in Contents, job' = [job EXCEPT ![t].pc = "zero", ![t].got = got]
        PROVE  Moves(t, "zero")
    BY <2>1, <2>4, GotoWithFacts
  <2> QED BY <2>2, <2>3, <2>4, RunFacts
<1> QED BY <1>4, <1>5, <1>6

LEMMA SavedStep ==
  ASSUME IInv, NEW t \in Tasks, Saved(t)
  PROVE  IInv'
<1>1. /\ job[t].pc = "saved" /\ job[t].pc \in Leased
      /\ job[t].op = "gains" /\ job[t].op \in Claiming \ Finishing
      /\ UNCHANGED <<lock, tx, cleaning, handle, flash, recovery>>
  BY Operations DEF Saved, At, Leased, Runs
<1>2. origin \in Origins
  BY <1>1 DEF IInv, Knows, Runs
<1>3. origin' \in Origins
  BY <1>2, InLease, RetainType DEF Saved
<1>4. Moves(t, "zero")
  <2>1. "zero" \in Pcs /\ NoTables \in Contents /\ Shape
    BY DEF Pcs, Leased, NoTables, Contents, IInv
  <2> QED BY <2>1, GotoFacts, GotoWithFacts DEF Saved
<1>5. Stands(job'[t])
  BY <1>1, <1>4, MovedStands DEF Runs
<1>6. Knows(t)'
  BY <1>4, KnowsNothing DEF Moves
<1>7. Data'
  BY <1>1, <1>3 DEF IInv, Shape, Data
<1> QED BY <1>1, <1>4, <1>5, <1>6, <1>7, LeaseGoesOn DEF Leased

LEMMA CaptureStep ==
  ASSUME IInv, NEW t \in Tasks, Capture(t)
  PROVE  IInv'
<1>1. /\ job[t].pc = "saved" /\ job[t].pc \in Leased
      /\ job[t].op = "capture" /\ job[t].op \in Claiming \ Finishing
      /\ UNCHANGED <<lock, tx, cleaning, handle, flash, origin>>
      /\ job' = Goto(t, "zero")
  BY Operations DEF Capture, At, Leased
<1> DEFINE results == [x \in OffsetTables |->
             IF job[t].got[x] # None THEN job[t].got[x] ELSE recovery.results[x]]
<1>2. recovery' \in {recovery, [recovery EXCEPT !.results = results]}
  BY DEF Capture
<1>3. recovery' \in Recoveries \cup {None}
  <2>1. job[t].got \in Contents /\ recovery \in Recoveries \cup {None}
    BY InLease DEF IInv, Shape, Data
  <2>2. CASE recovery \in Recoveries
    <3>1. results \in [OffsetTables -> Values \cup {None}]
      BY <2>1, <2>2 DEF Recoveries, Contents, Tables
    <3> HIDE DEF results
    <3> QED BY <1>2, <2>2, <3>1 DEF Recoveries
  <2> QED BY <1>1, <2>2 DEF IInv, Knows
<1>4. Moves(t, "zero")
  BY <1>1, GotoFacts DEF IInv, Pcs, Leased
<1>5. Stands(job'[t])
  BY <1>1, <1>4, MovedStands
<1>6. Knows(t)'
  BY <1>4, KnowsNothing DEF Moves
<1>7. Data'
  BY <1>1, <1>3 DEF IInv, Shape, Data
<1> QED BY <1>1, <1>4, <1>5, <1>6, <1>7, LeaseGoesOn DEF Leased

LEMMA ZeroStep ==
  ASSUME IInv, NEW t \in Tasks, Zero(t)
  PROVE  IInv'
<1>1. /\ job[t].pc = "zero" /\ job[t].pc \in Leased
      /\ job[t].op \in Runs \cup {"capture", "recover"}
      /\ UNCHANGED <<tx, origin, cleaning, flash, disk>> /\ Data'
  BY LeasedOps DEF Zero, At, Leased, IInv, Shape, Data, disk
<1>2. CASE Stop(t)
  BY <1>1, <1>2, StopKeeps
<1>3. CASE ~Stop(t) /\ job[t].op # "recover"
  <2> DEFINE old == handle[job[t].h]
             stock == old.stock \/ job[t].op = "capture"
             fields == [old EXCEPT !.state = "applied", !.stock = stock]
  <2>1. old \in Handles /\ stock \in BOOLEAN /\ job[t].op \in Claiming
    BY <1>1, <1>3, InLease, Operations
  <2>2. Done(t, fields)
    BY <1>3 DEF Zero
  <2> HIDE DEF stock, old
  <2>3. fields \in Handles /\ fields.reg = old.reg /\ fields.state = "applied"
    BY <2>1 DEF Handles
  <2> USE DEF old
  <2> QED BY <1>1, <2>1, <2>2, <2>3, DoneKeeps
<1>4. CASE job[t].op = "recover" /\ job' = Goto(t, "unmark") /\ UNCHANGED <<handle, lock>>
  <2>1. Moves(t, "unmark")
    BY <1>4, GotoFacts DEF IInv, Pcs, Leased
  <2>2. Stands(job'[t])
    BY <1>4, <2>1, MovedStands
  <2>3. Knows(t)'
    BY <2>1, KnowsNothing DEF Moves
  <2> QED BY <1>1, <1>4, <2>1, <2>2, <2>3, LeaseGoesOn DEF Leased
<1> QED BY <1>2, <1>3, <1>4 DEF Zero

LEMMA UnmarkStep ==
  ASSUME IInv, NEW t \in Tasks, Unmark(t)
  PROVE  IInv'
<1>1. /\ job[t].pc \in Leased /\ Stop(t)
      /\ UNCHANGED <<tx, origin, cleaning>> /\ Data'
  BY DEF Unmark, At, Leased, IInv, Shape, Data
<1> QED BY <1>1, StopKeeps

LEMMA RestartStep ==
  ASSUME IInv, NEW t \in Tasks, Restart(t)
  PROVE  IInv'
<1>1. /\ job[t].pc = "restart" /\ job[t].pc \in Leased
      /\ job[t].op \in Verifies /\ job[t].op \in Claiming \ Finishing
      /\ UNCHANGED <<tx, cleaning, flash, recovery>>
      /\ flash \in Contents /\ recovery \in Recoveries \cup {None}
      /\ origin \in Origins \cup {None}
  BY LeasedOps, Operations DEF Restart, At, Leased, IInv, Shape, Data, disk
<1>2. CASE Stop(t) /\ origin' = Unfrozen(origin)
  BY <1>1, <1>2, UnfrozenType, StopKeeps DEF Data
<1>3. CASE Matches(job[t].got) /\ job' = Goto(t, "persist") /\ UNCHANGED <<handle, lock, origin>>
  <2>1. Moves(t, "persist") /\ job'[t].got = job[t].got
    BY <1>3, GotoFacts DEF IInv, Pcs, Leased
  <2>2. Stands(job'[t])
    BY <1>1, <2>1, MovedStands
  <2>3. Knows(t)'
    <3>1. job'[t].pc = "persist" /\ job'[t].op = job[t].op
      BY <2>1 DEF Moves
    <3>2. Matches(job[t].got)'
      BY <1>1, <1>3, <2>1 DEF Matches
    <3>3. /\ origin \in Origins
          /\ job[t].got = Only(Covers(job[t].op), origin.tables)
          /\ \E x \in Tables : job[t].got[x] # None
      BY <1>1 DEF IInv, Knows
    <3> QED BY <1>3, <2>1, <3>1, <3>2, <3>3 DEF Knows
  <2> QED BY <1>1, <1>3, <2>1, <2>2, <2>3, LeaseGoesOn DEF Leased, Data
<1> QED BY <1>2, <1>3 DEF Restart

\* Consuming the origin leaves the tables that were not verified.
LEMMA ConsumedType ==
  ASSUME NEW op, origin \in Origins
  PROVE  /\ Consumed(op) \in Origins \cup {None}
         /\ op = "verify" => Consumed(op) = None
         /\ \A x \in Retained(origin) \ Retained(Consumed(op)) : x \in Covers(op)
<1>1. Only(Tables \ Covers(op), origin.tables) \in Contents
  BY OriginType, OnlyType
<1>2. [tables |-> Only(Tables \ Covers(op), origin.tables), claimed |-> FALSE] \in Origins
  BY <1>1 DEF Origins
<1>3. op = "verify" => Consumed(op) = None
  BY RetainedOrigin DEF Consumed, Covers
<1>4. ASSUME NEW x \in Retained(origin) \ Retained(Consumed(op)), x \notin Covers(op)
      PROVE  FALSE
  <2>1. x \in Tables /\ origin.tables[x] # None
    BY <1>4, RetainedOrigin
  <2>2. Consumed(op) = [tables |-> Only(Tables \ Covers(op), origin.tables), claimed |-> FALSE]
    BY <1>4 DEF Consumed
  <2>3. Consumed(op).tables[x] = origin.tables[x]
    BY <1>4, <2>1, <2>2 DEF Only
  <2> QED BY <1>2, <1>4, <2>1, <2>2, <2>3, RetainedOrigin
<1> QED BY <1>2, <1>3, <1>4 DEF Consumed

LEMMA PersistStep ==
  ASSUME IInv, NEW t \in Tasks, Persist(t)
  PROVE  IInv'
<1>1. /\ job[t].pc = "persist" /\ job[t].pc \in Leased
      /\ job[t].op \in Verifies /\ job[t].op \in Claiming
      /\ UNCHANGED <<tx, cleaning, flash, recovery>>
      /\ flash \in Contents /\ recovery \in Recoveries \cup {None}
  BY LeasedOps, Operations DEF Persist, At, Leased, IInv, Shape, Data
<1>2. origin \in Origins /\ origin # None
  BY <1>1, OriginType DEF IInv, Knows
<1>3. CASE Stop(t) /\ origin' = Unfrozen(origin)
  BY <1>1, <1>2, <1>3, UnfrozenType, StopKeeps DEF Data
<1>4. CASE /\ origin' = Consumed(job[t].op)
           /\ Done(t, [handle[job[t].h] EXCEPT !.state =
                IF job[t].op = "verify" THEN "verified" ELSE "gains_verified"])
  <2> DEFINE old == handle[job[t].h]
             s == IF job[t].op = "verify" THEN "verified" ELSE "gains_verified"
             fields == [old EXCEPT !.state = s]
  <2>1. old \in Handles /\ s \in {"gains_verified", "verified"}
    BY <1>1, InLease
  <2>2. fields.state = "verified" => job[t].op = "verify"
    BY <2>1 DEF Handles
  <2>3. Done(t, fields)
    BY <1>4
  <2> HIDE DEF s, old
  <2>4. fields \in Handles /\ fields.reg = old.reg
    BY <2>1 DEF Handles
  <2> USE DEF old
  <2>5. Data' /\ (job[t].op = "verify" => origin' = None)
    BY <1>1, <1>2, <1>4, ConsumedType DEF Data
  <2> QED BY <1>1, <1>2, <2>2, <2>3, <2>4, <2>5, DoneKeeps
<1> QED BY <1>3, <1>4 DEF Persist

-----------------------------------------------------------------------------
(* The steps that make tables configuration.                               *)

\* An operation returns, and the session is as finished as it was.
LEMMA DoneSame ==
  ASSUME IInv, NEW t \in Tasks, job[t].pc \in Leased, job[t].op \in Claiming,
         NEW fields \in Handles, fields.reg = handle[job[t].h].reg,
         fields.state = handle[job[t].h].state,
         Done(t, fields), Data', UNCHANGED <<tx, origin, cleaning>>
  PROVE  IInv'
<1>1. Registered(job[t].h) /\ fields.state = "verified" => origin' = None
  BY InLease DEF IInv, Concluded
<1> QED BY <1>1, DoneKeeps

LEMMA PrepareStep ==
  ASSUME IInv, NEW t \in Tasks, Prepare(t)
  PROVE  IInv'
<1> DEFINE backup == IF recovery = None THEN NewRecovery ELSE recovery
           ready == [backup EXCEPT !.prep = "ready"]
<1>1. /\ job[t].pc = "prepare" /\ job[t].pc \in Leased /\ job[t].op \in Claiming
      /\ UNCHANGED <<tx, origin, cleaning, flash>>
  BY LeasedOps, Operations DEF Prepare, At, Leased
<1>2. Data'
  <2>1. backup \in Recoveries /\ ready \in Recoveries
    BY RecoveryType DEF IInv, Shape, Data
  <2>2. recovery' \in {recovery, backup, ready}
    BY DEF Prepare
  <2> HIDE DEF backup, ready
  <2> QED BY <1>1, <2>1, <2>2 DEF IInv, Shape, Data
<1>3. CASE Stop(t)
  BY <1>1, <1>2, <1>3, StopKeeps
<1>4. CASE Done(t, [handle[job[t].h] EXCEPT !.prepared = TRUE, !.stock = TRUE])
  <2> DEFINE old == handle[job[t].h]
             fields == [old EXCEPT !.prepared = TRUE, !.stock = TRUE]
  <2>1. fields \in Handles /\ fields.reg = old.reg /\ fields.state = old.state
    BY <1>1, InLease DEF Handles
  <2> QED BY <1>1, <1>2, <1>4, <2>1, DoneSame
<1> QED BY <1>3, <1>4 DEF Prepare

LEMMA ReviewStep ==
  ASSUME IInv, NEW t \in Tasks, Review(t)
  PROVE  IInv'
<1>1. /\ job[t].pc = "review" /\ job[t].pc \in Leased /\ job[t].op \in Claiming
      /\ UNCHANGED <<tx, origin, cleaning, flash>>
  BY LeasedOps DEF Review, At, Leased, Claiming, Finishing
<1>2. Data'
  <2>1. Captured(recovery) # {} => recovery \in Recoveries
    BY DEF Captured, IInv, Shape, Data
  <2>2. \/ recovery' = recovery
        \/ Captured(recovery) # {} /\ recovery' = [recovery EXCEPT !.final = "reviewed"]
    BY DEF Review
  <2> QED BY <1>1, <2>1, <2>2, RecoveryType DEF IInv, Shape, Data
<1>3. CASE Stop(t)
  BY <1>1, <1>2, <1>3, StopKeeps
<1>4. CASE Done(t, [handle[job[t].h] EXCEPT !.final = TRUE, !.stock = TRUE])
  <2> DEFINE old == handle[job[t].h]
             fields == [old EXCEPT !.final = TRUE, !.stock = TRUE]
  <2>1. fields \in Handles /\ fields.reg = old.reg /\ fields.state = old.state
    BY <1>1, InLease DEF Handles
  <2> QED BY <1>1, <1>2, <1>4, <2>1, DoneSame
<1> QED BY <1>3, <1>4 DEF Review

LEMMA ProgressStep ==
  ASSUME IInv, NEW t \in Tasks, Progress(t)
  PROVE  IInv'
<1> DEFINE h == job[t].h
<1>1. /\ job[t].pc = "progress" /\ job[t].pc \in Leased
      /\ job[t].op \in {"status", "resume"} /\ h \in Sessions /\ handle[h] \in Handles
      /\ UNCHANGED <<tx, origin, cleaning, flash, disk>> /\ Data'
  <2>1. /\ job[t].pc = "progress" /\ job[t].op \in {"status", "resume"}
        /\ UNCHANGED <<tx, origin, cleaning, flash, disk>>
    BY LeasedOps DEF Progress, At
  <2> QED BY <2>1, InLease, Operations DEF Leased, IInv, Shape, Data, disk
<1>2. CASE Stop(t)
  BY <1>1, <1>2, StopKeeps
<1>3. ASSUME Release, NEW u \in Restored(handle[h], recovery, origin),
             handle' = [handle EXCEPT ![h] = u],
             \/ job[t].op = "status" /\ job' = EndJob(t)
             \/ /\ job[t].op = "resume"
                /\ job' = [job EXCEPT ![t].op = "capture", ![t].pc = "acquire"]
      PROVE  IInv'
  <2>1. /\ Steady /\ Frees(t)
        /\ \A g \in Sessions : handle'[g].state = handle[g].state
    <3>1. u \in Handles /\ u.reg = handle[h].reg /\ u.state = handle[h].state
          /\ u.active = handle[h].active
      BY <1>1, RestoredFacts
    <3> QED BY <1>1, <1>3, <3>1 DEF Steady, Frees, IInv, Shape
  <2>2. CASE job' = EndJob(t)
    <3>1. Quits(t)
      BY <2>2, EndFacts DEF IInv
    <3>2. Concluded'
      BY <1>1, <2>1, <3>1, EndsConcluded
    <3> QED BY <1>1, <1>3, <2>1, <3>1, <3>2, LeaseEnds
  <2>3. CASE /\ job[t].op = "resume"
             /\ job' = [job EXCEPT ![t].op = "capture", ![t].pc = "acquire"]
    <3>1. /\ job' \in [Tasks -> Jobs] /\ job'[t].pc = "acquire"
          /\ job'[t].op = "capture" /\ job'[t].h = h
          /\ \A v \in Tasks \ {t} : job'[v] = job[v]
      <4> DEFINE k == [job[t] EXCEPT !.op = "capture", !.pc = "acquire"]
      <4>1. "capture" \in Ops /\ job[t] \in Jobs
        BY InLease, Operations
      <4>2. k \in Jobs /\ k.pc = "acquire" /\ k.op = "capture" /\ k.h = h
        BY <4>1 DEF Jobs, Pcs
      <4>3. job' = [job EXCEPT ![t] = k]
        BY <2>3 DEF IInv, Shape
      <4> HIDE DEF k
      <4> QED BY <4>2, <4>3, BeginFacts DEF IInv
    <3>2. /\ lock' = [owner |-> lock'.owner, queue |-> lock'.queue]
          /\ lock'.owner = None /\ lock.owner = t
      BY <1>1, <1>3, LockFacts DEF IInv, MeterHasOneUser
    <3>3. Shape'
      BY <1>1, <2>1, <3>1, <3>2 DEF IInv, Shape, Steady
    <3>4. MeterHasOneUser'
      BY <1>1, <3>1, <3>2, SessionAssumption DEF IInv, MeterHasOneUser, Leased, Tx, Cleaner
    <3>5. Stands(job'[t])
      BY <1>1, <3>1 DEF Stands, Waiting, Runs, Verifies
    <3>6. Placed' /\ StartedOnce'
      BY <3>1, <3>5 DEF IInv, Placed, StartedOnce
    <3>7. ASSUME NEW v \in Tasks PROVE Bound(v)'
      <4>1. job[v].op \in Claiming \cup {"start"} => job[v].h \in Sessions
        BY InLease
      <4>2. CASE v # t
        BY <1>1, <2>1, <3>1, <4>1, <4>2, BoundFrame DEF IInv, Steady
      <4>3. CASE v = t
        BY <1>1, <2>1, <2>3, <3>1, <4>3, Operations DEF IInv, Bound, Registered, Steady
      <4> QED BY <4>2, <4>3
    <3>8. OneSession'
      BY <1>1, <2>1, SessionAssumption DEF IInv, OneSession, Registered, Steady, Shape, Cleanups
    <3>9. Concluded'
      <4>1. \A g \in Sessions : Registered(g) => handle[g].state # "verified"
        BY <2>3, NobodyFinished, Operations
      <4> QED BY <2>1, <4>1 DEF Concluded, Registered, Steady
    <3>10. \A v \in Tasks : Knows(v)'
      BY <1>1, <3>1, OthersKnow, KnowsNothing
    <3> QED BY <3>3, <3>4, <3>6, <3>7, <3>8, <3>9, <3>10, Combine DEF Bindings
  <2> QED BY <1>3, <2>2, <2>3
<1> QED BY <1>2, <1>3 DEF Progress

LEMMA GiveUpKeeps ==
  ASSUME IInv, NEW t \in Tasks, job[t].pc \in Leased,
         Stop(t), origin' = Unfrozen(origin), recovery' \in Recoveries \cup {None},
         UNCHANGED <<tx, cleaning, flash>>
  PROVE  IInv'
<1>1. Data' /\ (origin = None => origin' = None)
  BY UnfrozenType DEF IInv, Shape, Data
<1> QED BY <1>1, StopKeeps

LEMMA ReconcileStep ==
  ASSUME IInv, NEW t \in Tasks, Reconcile(t)
  PROVE  IInv'
<1>1. /\ job[t].pc = "origin" /\ job[t].pc \in Leased /\ job[t].op = "reconcile"
      /\ UNCHANGED <<tx, cleaning, flash>>
      /\ origin \in Origins \cup {None} /\ recovery \in Recoveries \cup {None}
  BY DEF Reconcile, At, Leased, IInv, Shape, Data
<1>2. CASE GiveUp(t)
  BY <1>1, <1>2, RecoveryType, GiveUpKeeps DEF GiveUp
<1>3. CASE /\ recovery # None /\ recovery' = recovery
           /\ origin' = IF Pending THEN [origin EXCEPT !.claimed = TRUE] ELSE origin
           /\ job' = Goto(t, "select") /\ UNCHANGED <<handle, lock>>
  <2>1. Moves(t, "select")
    BY <1>3, GotoFacts DEF IInv, Pcs, Leased
  <2>2. Stands(job'[t])
    BY <1>1, <2>1, MovedStands
  <2>3. Data' /\ (origin = None => origin' = None)
    BY <1>1, <1>3, OriginType DEF IInv, Shape, Data, Pending
  <2>4. Knows(t)'
    BY <1>1, <1>3, <2>1 DEF Knows, Moves
  <2> QED BY <1>1, <1>3, <2>1, <2>2, <2>3, <2>4, LeaseGoesOn DEF Leased
<1> QED BY <1>2, <1>3 DEF Reconcile

\* The session has its offsets in the configuration.
LEMMA SelectedKeeps ==
  ASSUME IInv, NEW t \in Tasks, job[t].pc \in Leased, job[t].op \in Claiming,
         NEW u \in Selected(job[t].h), Done(t, u), Data',
         UNCHANGED <<tx, cleaning>>, origin = None => origin' = None
  PROVE  IInv'
<1> DEFINE old == handle[job[t].h]
           chosen == [old EXCEPT !.state = "selected"]
<1>1. chosen \in Handles /\ chosen.reg = old.reg /\ chosen.state = "selected"
  BY InLease, StateFacts
<1>2. u \in Handles /\ u.reg = old.reg /\ u.state = "selected"
  <2>1. u \in Restored(chosen, recovery', origin')
    BY DEF Selected
  <2> HIDE DEF chosen
  <2> QED BY <1>1, <2>1, RestoredFacts
<1> QED BY <1>2, DoneKeeps

LEMMA SelectStep ==
  ASSUME IInv, NEW t \in Tasks, Select(t)
  PROVE  IInv'
<1> DEFINE chosen == [recovery EXCEPT !.final = "selected"]
<1>1. /\ job[t].pc = "select" /\ job[t].pc \in Leased /\ job[t].op = "reconcile"
      /\ job[t].op \in Claiming /\ UNCHANGED <<tx, cleaning, flash>>
      /\ origin \in Origins \cup {None} /\ recovery \in Recoveries
  BY LeasedOps DEF Select, At, Leased, Claiming, Finishing, IInv, Shape, Data, Knows
<1>2. chosen \in Recoveries /\ chosen.final = "selected"
  BY <1>1, RecoveryType
<1> HIDE DEF chosen
<1>3. CASE GiveUp(t)
  BY <1>1, <1>3, RecoveryType, GiveUpKeeps DEF GiveUp
<1>4. CASE Stop(t) /\ origin' = Unfrozen(origin) /\ recovery' = chosen
  BY <1>1, <1>2, <1>4, GiveUpKeeps
<1>5. CASE /\ recovery' = chosen /\ UNCHANGED origin
           /\ Pending /\ job' = Goto(t, "consume") /\ UNCHANGED <<handle, lock>>
  <2>1. Moves(t, "consume")
    BY <1>5, GotoFacts DEF IInv, Pcs, Leased
  <2>2. Stands(job'[t])
    BY <1>1, <2>1, MovedStands
  <2>3. Data'
    BY <1>1, <1>2, <1>5 DEF IInv, Shape, Data
  <2>4. Knows(t)'
    BY <1>1, <1>2, <1>5, <2>1 DEF Knows, Moves, Pending
  <2> QED BY <1>1, <1>5, <2>1, <2>2, <2>3, <2>4, LeaseGoesOn DEF Leased
<1>6. CASE /\ recovery' = chosen /\ UNCHANGED origin
           /\ \E u \in Selected(job[t].h) : Done(t, u)
  <2>1. Data'
    BY <1>1, <1>2, <1>6 DEF IInv, Shape, Data
  <2> QED BY <1>1, <1>6, <2>1, SelectedKeeps
<1> QED BY <1>3, <1>4, <1>5, <1>6 DEF Select, chosen

\* Consuming what became configuration leaves the other tables.
LEMMA ResolvedType ==
  ASSUME NEW proved, origin \in Origins
  PROVE  /\ Resolved(proved) \in Origins \cup {None}
         /\ \A x \in Retained(origin) \ Retained(Resolved(proved)) : x \in proved
<1>1. Only(Tables \ proved, origin.tables) \in Contents
  BY OriginType, OnlyType
<1>2. [tables |-> Only(Tables \ proved, origin.tables), claimed |-> FALSE] \in Origins
  BY <1>1 DEF Origins
<1>3. ASSUME NEW x \in Retained(origin) \ Retained(Resolved(proved)), x \notin proved
      PROVE  FALSE
  <2>1. x \in Tables /\ origin.tables[x] # None
    BY <1>3, RetainedOrigin
  <2>2. Resolved(proved) = [tables |-> Only(Tables \ proved, origin.tables), claimed |-> FALSE]
    BY <1>3 DEF Resolved
  <2>3. Resolved(proved).tables[x] = origin.tables[x]
    BY <1>3, <2>1, <2>2 DEF Only
  <2> QED BY <1>2, <1>3, <2>1, <2>2, <2>3, RetainedOrigin
<1> QED BY <1>2, <1>3 DEF Resolved

LEMMA ConsumeStep ==
  ASSUME IInv, NEW t \in Tasks, Consume(t)
  PROVE  IInv'
<1>1. /\ job[t].pc = "consume" /\ job[t].pc \in Leased
      /\ job[t].op \in Claiming /\ UNCHANGED <<tx, cleaning, flash>>
      /\ origin \in Origins /\ recovery \in Recoveries
  BY LeasedOps DEF Consume, At, Leased, Claiming, Finishing, IInv, Knows
<1>2. CASE GiveUp(t)
  BY <1>1, <1>2, RecoveryType, GiveUpKeeps DEF GiveUp
<1>3. CASE /\ UNCHANGED recovery
           /\ \E proved \in SUBSET Configured : origin' = Resolved(proved)
           /\ \E u \in Selected(job[t].h) : Done(t, u)
  <2>1. Data'
    BY <1>1, <1>3, ResolvedType DEF IInv, Shape, Data
  <2>2. origin # None
    BY <1>1, OriginType
  <2> QED BY <1>1, <1>3, <2>1, <2>2, SelectedKeeps
<1> QED BY <1>2, <1>3 DEF Consume

LEMMA CycleStep ==
  ASSUME IInv, NEW t \in Tasks, Cycle(t)
  PROVE  IInv'
<1>1. /\ job[t].pc = "cycle" /\ job[t].pc \in Leased /\ job[t].op \in Claiming
      /\ UNCHANGED <<tx, origin, cleaning, flash>>
  BY LeasedOps DEF Cycle, At, Leased, Claiming, Finishing
<1>2. Data'
  <2>1. recovery' \in {recovery, NewRecovery}
    BY DEF Cycle
  <2> QED BY <1>1, <2>1, RecoveryType DEF IInv, Shape, Data
<1>3. CASE Stop(t)
  BY <1>1, <1>2, <1>3, StopKeeps
<1>4. CASE \E u \in Restored([handle[job[t].h] EXCEPT !.state = "ready"],
                             NewRecovery, origin) : Done(t, u)
  <2> DEFINE old == handle[job[t].h]
             ready == [old EXCEPT !.state = "ready"]
  <2>1. ready \in Handles /\ ready.reg = old.reg /\ ready.state = "ready"
    BY <1>1, InLease, StateFacts
  <2>2. PICK u \in Restored(ready, NewRecovery, origin) : Done(t, u)
    BY <1>4
  <2> HIDE DEF ready
  <2>3. u \in Handles /\ u.reg = old.reg /\ u.state = "ready"
    BY <2>1, RestoredFacts
  <2> QED BY <1>1, <1>2, <2>2, <2>3, DoneKeeps
<1> QED BY <1>3, <1>4 DEF Cycle

LEMMA ClearStep ==
  ASSUME IInv, NEW t \in Tasks, Clear(t)
  PROVE  IInv'
<1>1. /\ job[t].pc = "clear" /\ job[t].pc \in Leased /\ job[t].op = "clear"
      /\ UNCHANGED <<tx, origin, cleaning, disk>>
  BY LeasedOps DEF Clear, At, Leased
<1>2. Data'
  <2>1. PICK gone \in SUBSET Named :
          flash' = [x \in Tables |-> IF x \in gone THEN None ELSE flash[x]]
    BY DEF Clear
  <2>2. flash' \in Contents
    BY <2>1 DEF IInv, Shape, Data, Contents
  <2> QED BY <1>1, <2>2 DEF IInv, Shape, Data, disk
<1>3. CASE Stop(t)
  BY <1>1, <1>2, <1>3, StopKeeps
<1>4. CASE job' = Goto(t, "handover") /\ UNCHANGED <<handle, lock>>
  <2>1. Moves(t, "handover")
    BY <1>4, GotoFacts DEF IInv, Pcs, Leased
  <2>2. Stands(job'[t])
    BY <1>1, <2>1, MovedStands
  <2>3. Knows(t)'
    BY <2>1, KnowsNothing DEF Moves
  <2> QED BY <1>1, <1>2, <1>4, <2>1, <2>2, <2>3, LeaseGoesOn DEF Leased
<1> QED BY <1>3, <1>4 DEF Clear

LEMMA HandOverStep ==
  ASSUME IInv, NEW t \in Tasks, HandOver(t)
  PROVE  IInv'
<1>1. /\ job[t].pc = "handover" /\ job[t].pc \in Leased /\ job[t].op \in Claiming
      /\ UNCHANGED <<tx, origin, cleaning>> /\ Data'
  BY LeasedOps DEF HandOver, At, Leased, Claiming, Finishing, IInv, Shape, Data
<1>2. CASE Stop(t)
  BY <1>1, <1>2, StopKeeps
<1>3. CASE Done(t, handle[job[t].h])
  BY <1>1, <1>3, InLease, DoneSame
<1> QED BY <1>2, <1>3 DEF HandOver

-----------------------------------------------------------------------------
(* The steps before the lease, and the reads.                              *)

\* A task that is not in the lease goes on outside it.
LEMMA GoesOn ==
  ASSUME IInv, NEW t \in Tasks, NEW pc \in Pcs \ Leased, job[t].pc \notin Leased,
         Moves(t, pc), Stands(job'[t]),
         lock' = [owner |-> lock'.owner, queue |-> lock'.queue], lock'.owner = lock.owner,
         UNCHANGED <<tx, origin, handle, cleaning, flash, marker, recovery>>
  PROVE  IInv'
<1>1. Shape'
  BY DEF IInv, Shape, Data, Moves
<1>2. MeterHasOneUser'
  BY DEF IInv, MeterHasOneUser, Moves
<1>3. Bindings'
  BY StillSteady, MovesBindings
<1>4. Concluded'
  BY DEF IInv, Concluded, Registered, Moves
<1>5. \A u \in Tasks : Knows(u)'
  BY OthersKnow, KnowsNothing DEF Moves, Leased
<1> QED BY <1>1, <1>2, <1>3, <1>4, <1>5, Combine

\* A task that is not in the lease ends.
LEMMA GivesUp ==
  ASSUME IInv, NEW t \in Tasks, job[t].pc \notin Leased,
         Quits(t), Frees(t), Concluded',
         lock' = [owner |-> lock'.owner, queue |-> lock'.queue], lock'.owner = lock.owner,
         UNCHANGED <<tx, origin, cleaning, flash, marker, recovery>>
  PROVE  IInv'
<1>1. job'[t].pc = "idle"
  BY DEF Quits, NoJob
<1>2. Shape'
  BY DEF IInv, Shape, Data, Quits, Frees
<1>3. MeterHasOneUser'
  BY <1>1 DEF IInv, MeterHasOneUser, Quits, Leased
<1>4. Bindings'
  BY EndsBindings
<1>5. \A u \in Tasks : Knows(u)'
  BY <1>1, OthersKnow, KnowsNothing DEF Quits
<1> QED BY <1>2, <1>3, <1>4, <1>5, Combine

\* A task gets the lease.
LEMMA GetsLease ==
  ASSUME IInv, NEW t \in Tasks, NEW pc \in Leased,
         lock.owner = None, Moves(t, pc), Stands(job'[t]),
         pc \notin {"run", "saved", "restart", "persist", "select", "consume"},
         pc = "mark" => job[t].op \notin Runs \cup {"capture"},
         lock' = [owner |-> lock'.owner, queue |-> lock'.queue], lock'.owner = t,
         UNCHANGED <<tx, origin, handle, cleaning, flash, marker, recovery>>
  PROVE  IInv'
<1>1. Shape'
  BY DEF IInv, Shape, Data, Moves
<1>2. \A u \in Tasks : job[u].pc \notin Leased
  BY SessionAssumption DEF IInv, MeterHasOneUser
<1>3. tx # "held" /\ cleaning.pc # "cancel"
  BY SessionAssumption DEF IInv, MeterHasOneUser
<1>4. MeterHasOneUser'
  BY <1>2, <1>3, SessionAssumption DEF MeterHasOneUser, Moves
<1>5. Bindings'
  BY StillSteady, MovesBindings
<1>6. Concluded'
  BY DEF IInv, Concluded, Registered, Moves
<1>7. \A u \in Tasks : Knows(u)'
  BY OthersKnow, KnowsNothing DEF Moves, Leased
<1> QED BY <1>1, <1>4, <1>5, <1>6, <1>7, Combine

\* An operation that fails on the way to its lease.
LEMMA FailKeeps ==
  ASSUME IInv, NEW t \in Tasks, job[t].pc \notin Leased,
         Fails(t),
         lock' = [owner |-> lock'.owner, queue |-> lock'.queue], lock'.owner = lock.owner,
         UNCHANGED <<tx, origin, cleaning, flash, marker, recovery>>
  PROVE  IInv'
<1>1. Quits(t) /\ Frees(t) /\ Concluded'
  BY FailsFacts, EndsConcluded DEF IInv
<1> QED BY <1>1, GivesUp

LEMMA WaitingOps ==
  ASSUME IInv, NEW t \in Tasks, job[t].pc \in Waiting
  PROVE  job[t].op \in Ops \ {"none", "check"} /\ job[t].pc \notin Leased
BY InLease DEF IInv, Placed, Stands, Waiting, Leased

LEMMA AfterAcquireFacts ==
  ASSUME NEW op \in Ops \ {"none", "check"}
  PROVE  /\ op = "start" => AfterAcquire(op) = "preflight"
         /\ op \in Runs \cup Verifies \cup {"capture", "reconcile"} => AfterAcquire(op) = "origin"
         /\ op \in {"status", "resume"} => AfterAcquire(op) = "progress"
         /\ op = "recover" => AfterAcquire(op) = "mark"
         /\ op \in {"prepare", "review", "cycle", "clear"} => AfterAcquire(op) = op
         /\ op \in {"start", "capture", "reconcile", "status", "resume", "recover",
                    "prepare", "review", "cycle", "clear"} \cup Runs \cup Verifies
<1>1. op = "start" => AfterAcquire(op) = "preflight"
  BY DEF AfterAcquire, Runs, Verifies
<1>2. op \in Runs \cup Verifies \cup {"capture", "reconcile"} => AfterAcquire(op) = "origin"
  BY DEF AfterAcquire, Runs, Verifies
<1>3. op \in {"status", "resume"} => AfterAcquire(op) = "progress"
  BY DEF AfterAcquire, Runs, Verifies
<1>4. op = "recover" => AfterAcquire(op) = "mark"
  BY DEF AfterAcquire, Runs, Verifies
<1>5. op \in {"prepare", "review", "cycle", "clear"} => AfterAcquire(op) = op
  BY DEF AfterAcquire, Runs, Verifies
<1> QED BY <1>1, <1>2, <1>3, <1>4, <1>5 DEF Ops, Claiming, Unclaimed, Finishing

\* An operation that waits goes where its lease takes it.
LEMMA AcquiredStands ==
  ASSUME IInv, NEW t \in Tasks, job[t].pc \in Waiting
  PROVE  /\ AfterAcquire(job[t].op) \in Leased
         /\ AfterAcquire(job[t].op) \notin
              {"run", "saved", "restart", "persist", "select", "consume"}
         /\ AfterAcquire(job[t].op) = "mark" => job[t].op = "recover"
         /\ Moves(t, AfterAcquire(job[t].op)) => Stands(job'[t])
<1> DEFINE op == job[t].op
<1>1. op \in Ops \ {"none", "check"} /\ (op # "recover" => job[t].h \in Sessions)
  BY WaitingOps DEF IInv, Placed, Stands
<1>2. Moves(t, AfterAcquire(op)) =>
        /\ job'[t].pc = AfterAcquire(op) /\ job'[t].op = op
        /\ job'[t].h = job[t].h
  BY DEF Moves
<1>3. CASE op = "start"
  BY <1>1, <1>2, <1>3, AfterAcquireFacts DEF Stands, Runs, Verifies, Leased
<1>4. CASE op \in {"capture", "reconcile"} \cup Runs \cup Verifies
  BY <1>1, <1>2, <1>4, AfterAcquireFacts DEF Stands, Runs, Verifies, Leased
<1>5. CASE op \in {"status", "resume"}
  BY <1>1, <1>2, <1>5, AfterAcquireFacts DEF Stands, Runs, Verifies, Leased
<1>6. CASE op = "recover"
  BY <1>1, <1>2, <1>6, AfterAcquireFacts DEF Stands, Runs, Verifies, Leased
<1>7. CASE op \in {"prepare", "review", "cycle", "clear"}
  BY <1>1, <1>2, <1>7, AfterAcquireFacts DEF Stands, Runs, Verifies, Leased
<1> QED BY <1>1, <1>3, <1>4, <1>5, <1>6, <1>7, AfterAcquireFacts

LEMMA AcquireStep ==
  ASSUME IInv, NEW t \in Tasks, Acquire(t)
  PROVE  IInv'
<1>1. /\ job[t].pc \in Waiting /\ job[t].pc \notin Leased
      /\ UNCHANGED <<tx, origin, cleaning, flash, marker, recovery>>
  BY WaitingOps DEF Acquire, At, Waiting, disk
<1>2. CASE Fails(t) /\ UNCHANGED lock
  BY <1>1, <1>2, FailKeeps DEF IInv, Shape
<1>3. CASE /\ Free /\ Take(t) /\ UNCHANGED handle
           /\ job' = Goto(t, IF lock.queue = <<>> THEN AfterAcquire(job[t].op) ELSE "queue")
  <2>1. /\ lock' = [owner |-> lock'.owner, queue |-> lock'.queue]
        /\ lock'.owner = IF lock.queue = <<>> THEN t ELSE lock.owner
        /\ lock.owner = None
    BY <1>3, LockFacts DEF IInv, Free
  <2>2. CASE lock.queue = <<>>
    <3>1. Moves(t, AfterAcquire(job[t].op))
      BY <1>1, <1>3, <2>2, AcquiredStands, GotoFacts DEF IInv, Pcs
    <3> QED BY <1>1, <1>3, <2>1, <2>2, <3>1, AcquiredStands, GetsLease DEF Runs
  <2>3. CASE lock.queue # <<>>
    <3>1. Moves(t, "queue")
      BY <1>3, <2>3, GotoFacts DEF IInv, Pcs
    <3>2. Stands(job'[t])
      BY <1>1, <3>1, WaitingOps DEF IInv, Placed, Stands, Moves, Waiting
    <3> QED BY <1>1, <1>3, <2>1, <2>3, <3>1, <3>2, GoesOn DEF Pcs, Leased
  <2> QED BY <2>2, <2>3
<1> QED BY <1>2, <1>3 DEF Acquire

LEMMA QueuedStep ==
  ASSUME IInv, NEW t \in Tasks, Queued(t)
  PROVE  IInv'
<1>1. /\ job[t].pc \in Waiting /\ job[t].pc \notin Leased
      /\ UNCHANGED <<tx, origin, cleaning, flash, marker, recovery>>
  BY WaitingOps DEF Queued, At, Waiting, disk
<1>2. CASE Wakes(t) /\ Wake(t) /\ UNCHANGED handle /\ job' = Goto(t, AfterAcquire(job[t].op))
  <2>1. /\ lock' = [owner |-> lock'.owner, queue |-> lock'.queue]
        /\ lock'.owner = t /\ lock.owner = None
    BY <1>2, LockFacts DEF IInv, Wakes
  <2>2. Moves(t, AfterAcquire(job[t].op))
    BY <1>1, <1>2, AcquiredStands, GotoFacts DEF IInv, Pcs
  <2> QED BY <1>1, <1>2, <2>1, <2>2, AcquiredStands, GetsLease DEF Runs
<1>3. CASE Fails(t) /\ lock' = [lock EXCEPT !.queue = SelectSeq(@, LAMBDA a : a # t)]
  <2>1. /\ lock' = [owner |-> lock'.owner, queue |-> lock'.queue]
        /\ lock'.owner = lock.owner
    BY <1>3, QueueFacts DEF IInv
  <2> QED BY <1>1, <1>3, <2>1, FailKeeps
<1> QED BY <1>2, <1>3 DEF Queued

\* A task begins an operation that claims no session.
LEMMA Begins ==
  ASSUME IInv, NEW t \in Tasks, NEW k \in Jobs, job[t].pc = "idle", Stands(k),
         k.pc \in {"connect", "acquire"}, k.op \in {"start", "status", "recover"},
         k.op = "start" => handle[k.h].reg = "new" /\ \A u \in Tasks : job[u].h # k.h,
         job' = [job EXCEPT ![t] = k],
         UNCHANGED <<lock, tx, origin, handle, cleaning, flash, disk>>
  PROVE  IInv'
<1>1. /\ UNCHANGED <<lock, tx, origin, handle, cleaning, flash, marker, recovery>>
      /\ job[t].op = "none" /\ job[t].pc \notin Leased
  BY LeasedOps DEF disk, Leased
<1>2. /\ job' \in [Tasks -> Jobs] /\ job'[t] = k
      /\ \A u \in Tasks \ {t} : job'[u] = job[u]
  BY BeginFacts DEF IInv
<1>3. Shape'
  BY <1>1, <1>2 DEF IInv, Shape, Data
<1>4. MeterHasOneUser'
  BY <1>1, <1>2 DEF IInv, MeterHasOneUser, Leased
<1>5. Placed'
  BY <1>2 DEF IInv, Placed
<1>6. ASSUME NEW u \in Tasks PROVE Bound(u)'
  <2>1. CASE u # t
    BY <1>1, <1>2, <2>1, BoundFrame DEF IInv
  <2>2. CASE u = t
    BY <1>1, <1>2, <2>2, Operations DEF Bound
  <2> QED BY <2>1, <2>2
<1>7. StartedOnce'
  BY <1>1, <1>2 DEF IInv, StartedOnce
<1>8. OneSession'
  BY <1>1 DEF IInv, OneSession, Registered
<1>9. Concluded'
  BY <1>1, <1>2, Operations DEF IInv, Concluded, Registered
<1>10. \A u \in Tasks : Knows(u)'
  BY <1>1, <1>2, OthersKnow, KnowsNothing
<1> QED BY <1>3, <1>4, <1>5, <1>6, <1>7, <1>8, <1>9, <1>10, Combine DEF Bindings

LEMMA StartStep ==
  ASSUME IInv, NEW t \in Tasks, NEW h \in Sessions, Start(t, h)
  PROVE  IInv'
<1> DEFINE k == [NoJob EXCEPT !.op = "start", !.h = h, !.pc = "connect"]
<1>1. /\ k \in Jobs /\ k.op = "start" /\ k.h = h /\ k.pc = "connect"
  BY NoJobType DEF NoJob, Jobs, Ops, Pcs
<1>2. job' = [job EXCEPT ![t] = k]
  BY DEF Start
<1> HIDE DEF k
<1>3. Stands(k)
  BY <1>1 DEF Stands, Runs, Verifies
<1> QED BY <1>1, <1>2, <1>3, Begins DEF Start, At

LEMMA AskStatusStep ==
  ASSUME IInv, NEW t \in Tasks, NEW h \in Sessions, AskStatus(t, h)
  PROVE  IInv'
<1> DEFINE k == [NoJob EXCEPT !.op = "status", !.h = h, !.pc = "acquire"]
<1>1. /\ k \in Jobs /\ k.op = "status" /\ k.h = h /\ k.pc = "acquire"
  BY NoJobType DEF NoJob, Jobs, Ops, Unclaimed, Pcs
<1>2. job' = [job EXCEPT ![t] = k]
  BY DEF AskStatus
<1> HIDE DEF k
<1>3. Stands(k)
  BY <1>1 DEF Stands, Runs, Verifies, Waiting
<1> QED BY <1>1, <1>2, <1>3, Begins DEF AskStatus, At

LEMMA RecoverStep ==
  ASSUME IInv, NEW t \in Tasks, Recover(t)
  PROVE  IInv'
<1> DEFINE k == [NoJob EXCEPT !.op = "recover", !.pc = "acquire"]
<1>1. /\ k \in Jobs /\ k.op = "recover" /\ k.pc = "acquire"
  BY NoJobType DEF NoJob, Jobs, Ops, Unclaimed, Pcs
<1>2. job' = [job EXCEPT ![t] = k]
  BY DEF Recover
<1> HIDE DEF k
<1>3. Stands(k)
  BY <1>1 DEF Stands, Runs, Verifies, Waiting
<1> QED BY <1>1, <1>2, <1>3, Begins DEF Recover, At

LEMMA StartConnectStep ==
  ASSUME IInv, NEW t \in Tasks, StartConnect(t)
  PROVE  IInv'
<1>1. /\ job[t].pc = "connect" /\ job[t].pc \notin Leased /\ job[t].op = "start"
      /\ UNCHANGED <<lock, tx, origin, handle, cleaning, flash, marker, recovery>>
      /\ lock' = [owner |-> lock'.owner, queue |-> lock'.queue] /\ lock'.owner = lock.owner
  BY LeasedOps DEF StartConnect, At, Leased, disk, IInv, Shape
<1>2. CASE \E pc \in {"acquire", "cleanup"} : job' = Goto(t, pc)
  <2>1. PICK pc \in {"acquire", "cleanup"} : job' = Goto(t, pc)
    BY <1>2
  <2>2. Moves(t, pc)
    BY <2>1, GotoFacts DEF IInv, Pcs
  <2>3. Stands(job'[t])
    BY <1>1, <2>2, MovedStands
  <2> QED BY <1>1, <2>2, <2>3, GoesOn DEF Pcs, Leased
<1>3. CASE job' = EndJob(t)
  <2>1. Quits(t) /\ Frees(t)
    BY <1>1, <1>3, EndFacts DEF IInv, Shape, Frees
  <2>2. Concluded'
    BY <1>1, <2>1, EndsConcluded
  <2> QED BY <1>1, <2>1, <2>2, GivesUp
<1> QED BY <1>2, <1>3 DEF StartConnect

LEMMA PreflightStep ==
  ASSUME IInv, NEW t \in Tasks, Preflight(t)
  PROVE  IInv'
<1>1. /\ job[t].pc = "preflight" /\ job[t].pc \in Leased /\ job[t].op = "start"
      /\ Release /\ UNCHANGED <<tx, origin, handle, cleaning, flash, marker, recovery>>
      /\ lock.owner = t /\ Data'
  BY LeasedOps DEF Preflight, At, Leased, disk, IInv, Shape, Data, MeterHasOneUser
<1>2. CASE job' = [job EXCEPT ![t].pc = "sources", ![t].seen = recovery]
  <2>1. Moves(t, "sources")
    BY <1>2 DEF IInv, Shape, Data, Moves, Jobs, Pcs
  <2>2. Stands(job'[t])
    BY <1>1, <2>1, MovedStands
  <2>3. /\ lock' = [owner |-> lock'.owner, queue |-> lock'.queue]
        /\ lock'.owner = None
    BY <1>1, LockFacts DEF IInv
  <2>4. Shape'
    BY <1>1, <2>1, <2>3 DEF IInv, Shape, Moves
  <2>5. MeterHasOneUser'
    BY <1>1, <2>1, <2>3, SessionAssumption
       DEF IInv, MeterHasOneUser, Moves, Leased, Tx, Cleaner
  <2>6. Bindings'
    BY <1>1, <2>1, <2>2, StillSteady, MovesBindings
  <2>7. Concluded'
    BY <1>1, <2>1 DEF IInv, Concluded, Registered, Moves
  <2>8. \A u \in Tasks : Knows(u)'
    BY <1>1, <2>1, OthersKnow, KnowsNothing DEF Moves
  <2> QED BY <2>4, <2>5, <2>6, <2>7, <2>8, Combine
<1>3. CASE job' = EndJob(t)
  <2>1. Quits(t) /\ Frees(t)
    BY <1>1, <1>3, EndFacts DEF IInv, Shape, Frees
  <2>2. Concluded'
    BY <1>1, <2>1, EndsConcluded
  <2> QED BY <1>1, <2>1, <2>2, LeaseEnds
<1> QED BY <1>2, <1>3 DEF Preflight

LEMMA RegisterStep ==
  ASSUME IInv, NEW t \in Tasks, Register(t)
  PROVE  IInv'
<1> DEFINE h == job[t].h
<1>1. /\ job[t].pc = "sources" /\ job[t].pc \notin Leased
      /\ job[t].op = "start" /\ h \in Sessions /\ handle[h] \in Handles
      /\ handle[h].reg = "new" /\ ~Registered(h)
      /\ UNCHANGED <<lock, tx, origin, cleaning, flash, marker, recovery>>
      /\ lock' = [owner |-> lock'.owner, queue |-> lock'.queue] /\ lock'.owner = lock.owner
      /\ job' = EndJob(t)
  BY LeasedOps, InLease DEF Register, At, Leased, disk, IInv, Shape, Bound, Registered
<1>2. Quits(t) /\ job'[t].op = "none" /\ job'[t].pc = "idle"
  <2>1. Quits(t)
    BY <1>1, EndFacts DEF IInv
  <2> QED BY <2>1 DEF Quits, NoJob
<1>3. CASE UNCHANGED handle
  <2>1. Frees(t)
    BY <1>3 DEF IInv, Shape, Frees
  <2>2. Concluded'
    BY <1>1, <1>2, <1>3, <2>1, EndsConcluded
  <2> QED BY <1>1, <1>2, <2>1, <2>2, GivesUp
<1>4. CASE /\ MayRegister
           /\ \E state \in {"safety_required", "preflight_failed"} :
              \E u \in Restored(handle[h], job[t].seen, origin) :
                handle' = [handle EXCEPT
                  ![h] = [u EXCEPT !.reg = "registered", !.state = state]]
  <2>1. PICK state \in {"safety_required", "preflight_failed"} :
        \E u \in Restored(handle[h], job[t].seen, origin) :
          handle' = [handle EXCEPT
            ![h] = [u EXCEPT !.reg = "registered", !.state = state]]
    BY <1>4
  <2>2. PICK u \in Restored(handle[h], job[t].seen, origin) :
          handle' = [handle EXCEPT
            ![h] = [u EXCEPT !.reg = "registered", !.state = state]]
    BY <2>1
  <2> DEFINE new == [u EXCEPT !.reg = "registered", !.state = state]
  <2>3. u \in Handles
    BY <1>1, RestoredFacts
  <2>4. new \in Handles /\ new.reg = "registered" /\ new.state # "verified"
    BY <2>3 DEF Handles
  <2>5. handle' = [handle EXCEPT ![h] = new]
    BY <2>2
  <2> HIDE DEF new
  <2>6. /\ handle' \in [Sessions -> Handles]
        /\ handle'[h].reg = "registered" /\ handle'[h].state # "verified"
        /\ \A g \in Sessions \ {h} : handle'[g] = handle[g]
    BY <1>1, <2>4, <2>5 DEF IInv, Shape
  <2>7. (\A g \in Sessions : ~Registered(g)) /\ cleaning.h = None
    BY <1>4 DEF MayRegister, Open
  <2>8. Shape'
    BY <1>1, <1>2, <2>6 DEF IInv, Shape, Data, Quits
  <2>9. MeterHasOneUser'
    BY <1>1, <1>2 DEF IInv, MeterHasOneUser, Quits, Leased
  <2>10. Placed'
    BY <1>2, NoJobType DEF IInv, Placed, Quits
  <2>11. ASSUME NEW v \in Tasks PROVE Bound(v)'
    <3>1. CASE v = t
      BY <1>2, <3>1, Operations DEF Bound
    <3>2. CASE v # t
      <4>1. /\ job'[v] = job[v]
            /\ job[v].op \in Claiming \cup {"start"} => job[v].h \in Sessions
        BY <1>2, <3>2, InLease DEF Quits
      <4>2. job[v].op \in Claiming \cup {"start"} => job[v].h # h
        BY <1>1, <3>2 DEF IInv, StartedOnce, Bound
      <4> QED BY <1>1, <2>6, <4>1, <4>2, BoundFrame DEF IInv
    <3> QED BY <3>1, <3>2
  <2>12. StartedOnce'
    BY <1>2 DEF IInv, StartedOnce, Quits
  <2>13. OneSession' /\ Concluded'
    BY <1>1, <2>6, <2>7 DEF IInv, OneSession, Concluded, Registered
  <2>14. \A v \in Tasks : Knows(v)'
    BY <1>1, <1>2, OthersKnow, KnowsNothing DEF Quits
  <2> QED BY <2>8, <2>9, <2>10, <2>11, <2>12, <2>13, <2>14, Combine DEF Bindings
<1> QED BY <1>1, <1>3, <1>4 DEF Register

LEMMA ClaimStep ==
  ASSUME IInv, NEW t \in Tasks, NEW h \in Sessions, NEW op \in Claims,
         NEW todo \in SUBSET Tables, Claim(t, h, op, todo)
  PROVE  IInv'
<1> DEFINE pc == IF op = "check" THEN "check" ELSE "acquire"
<1>1. /\ job[t].pc = "idle" /\ job[t].op = "none" /\ op \in Claiming
      /\ Registered(h) /\ handle[h].active = None
      /\ op \in Finishing \/ handle[h].state # "verified"
      /\ handle' = [handle EXCEPT ![h].active = t]
      /\ UNCHANGED <<lock, tx, origin, cleaning, flash, marker, recovery>>
  BY LeasedOps DEF Claim, At, Live, disk
<1>2. /\ job' \in [Tasks -> Jobs] /\ job'[t].op = op /\ job'[t].h = h
      /\ job'[t].pc = pc /\ \A u \in Tasks \ {t} : job'[u] = job[u]
  <2> DEFINE k == [NoJob EXCEPT !.op = op, !.h = h, !.todo = todo, !.pc = pc]
  <2>1. pc \in Pcs /\ job' = [job EXCEPT ![t] = k]
    BY DEF Claim, Pcs
  <2> HIDE DEF pc
  <2>2. k \in Jobs /\ k.op = op /\ k.h = h /\ k.pc = pc
    BY <1>1, <2>1, NoJobType, Operations DEF NoJob, Jobs
  <2> HIDE DEF k
  <2> QED BY <2>1, <2>2, BeginFacts DEF IInv
<1>3. /\ handle' \in [Sessions -> Handles]
      /\ handle'[h].reg = handle[h].reg /\ handle'[h].state = handle[h].state
      /\ handle'[h].active = t
      /\ \A g \in Sessions \ {h} : handle'[g] = handle[g]
  BY <1>1 DEF IInv, Shape, Handles
<1>4. Shape'
  BY <1>1, <1>2, <1>3 DEF IInv, Shape, Data
<1>5. MeterHasOneUser'
  BY <1>1, <1>2 DEF IInv, MeterHasOneUser, Leased
<1>6. Placed'
  <2>1. Stands(job'[t])
    BY <1>1, <1>2, Operations
       DEF Stands, Claiming, Finishing, Runs, Verifies, Waiting
  <2> QED BY <1>2, <2>1 DEF IInv, Placed
<1>7. ASSUME NEW u \in Tasks PROVE Bound(u)'
  <2>1. CASE u = t
    BY <1>1, <1>2, <1>3, <2>1, Operations DEF Bound, Registered
  <2>2. CASE u # t
    <3>1. job[u].op \in Claiming \cup {"start"} => job[u].h \in Sessions
      BY InLease
    <3>2. job[u].op \in Claiming => job[u].h # h
      BY <1>1, SessionAssumption DEF IInv, Bound, Registered
    <3>3. job[u].op = "start" => job[u].h # h
      BY <1>1 DEF IInv, Bound, Registered
    <3> QED BY <1>1, <1>2, <1>3, <2>2, <3>1, <3>2, <3>3, BoundFrame DEF IInv
  <2> QED BY <2>1, <2>2
<1>8. StartedOnce'
  BY <1>1, <1>2, Operations DEF IInv, StartedOnce
<1>9. OneSession'
  BY <1>1, <1>3, SessionAssumption DEF IInv, OneSession, Registered, Shape, Cleanups
<1>10. Concluded'
  BY <1>1, <1>2, <1>3 DEF IInv, Concluded, Registered
<1>11. \A u \in Tasks : Knows(u)'
  BY <1>1, <1>2, OthersKnow, KnowsNothing
<1> QED BY <1>4, <1>5, <1>6, <1>7, <1>8, <1>9, <1>10, <1>11, Combine DEF Bindings

LEMMA CheckStep ==
  ASSUME IInv, NEW t \in Tasks, Check(t)
  PROVE  IInv'
<1>1. /\ job[t].pc = "check" /\ job[t].pc \notin Leased /\ job[t].op \in Claiming
      /\ job[t].h \in Sessions /\ handle[job[t].h] \in Handles
      /\ UNCHANGED <<lock, tx, origin, cleaning, flash, marker, recovery>>
      /\ lock' = [owner |-> lock'.owner, queue |-> lock'.queue] /\ lock'.owner = lock.owner
  BY LeasedOps, InLease, Operations DEF Check, At, Leased, disk, IInv, Shape
<1>2. CASE Fails(t)
  BY <1>1, <1>2, FailKeeps
<1>3. CASE Returns(t, [handle[job[t].h] EXCEPT !.state = "ready"])
  <2> DEFINE old == handle[job[t].h]
             fields == [old EXCEPT !.state = "ready"]
  <2>1. fields \in Handles /\ fields.reg = old.reg /\ fields.state = "ready"
    BY <1>1, StateFacts
  <2>2. Returns(t, fields)
    BY <1>3
  <2> HIDE DEF fields
  <2>3. Quits(t) /\ Frees(t) /\ Concluded'
    BY <1>1, <2>1, <2>2, ReturnsConcluded
  <2> QED BY <1>1, <2>3, GivesUp
<1> QED BY <1>2, <1>3 DEF Check

-----------------------------------------------------------------------------
(* The steps of nobody's operation.                                        *)

\* A session changes, but for its registration and its claim.
LEMMA HandleKeeps ==
  ASSUME IInv, Steady, Concluded',
         UNCHANGED <<lock, tx, origin, cleaning, job, flash, marker, recovery>>
  PROVE  IInv'
<1>1. Shape' /\ MeterHasOneUser' /\ Placed' /\ StartedOnce'
  BY DEF IInv, Shape, Data, MeterHasOneUser, Placed, StartedOnce, Steady
<1>2. ASSUME NEW u \in Tasks PROVE Bound(u)' /\ Knows(u)'
  <2>1. job[u].op \in Claiming \cup {"start"} => job[u].h \in Sessions
    BY InLease
  <2>2. Bound(u)'
    BY <2>1, BoundFrame DEF IInv, Steady
  <2> QED BY <2>2, KnowsFrame DEF IInv
<1>3. OneSession'
  BY SessionAssumption DEF IInv, OneSession, Registered, Steady, Shape, Cleanups
<1> QED BY <1>1, <1>2, <1>3, Combine DEF Bindings

LEMMA ManageStep ==
  ASSUME IInv, NEW h \in Sessions, Acknowledge(h) \/ Complete(h) \/ PassDeadline(h)
  PROVE  IInv'
<1>1. /\ Registered(h)
      /\ UNCHANGED <<lock, tx, origin, cleaning, job, flash, marker, recovery>>
  BY DEF Acknowledge, Complete, PassDeadline, Live, disk
<1>2. CASE handle' = [handle EXCEPT ![h].safe = TRUE, ![h].state = "ready"]
  <2> DEFINE old == handle[h]
             new == [old EXCEPT !.safe = TRUE, !.state = "ready"]
  <2>1. Steady /\ \A g \in Sessions : handle'[g].state \in {"ready", handle[g].state}
    <3>1. /\ new \in Handles /\ new.reg = old.reg /\ new.active = old.active
          /\ new.state = "ready"
      BY DEF IInv, Shape, Handles
    <3>2. handle' = [handle EXCEPT ![h] = new]
      BY <1>2
    <3> HIDE DEF new
    <3> QED BY <3>1, <3>2 DEF IInv, Shape, Steady
  <2>2. Concluded'
    BY <1>1, <2>1 DEF IInv, Concluded, Registered, Steady
  <2> QED BY <1>1, <2>1, <2>2, HandleKeeps
<1>3. CASE /\ handle[h].active = None /\ origin = None
           /\ handle' = [handle EXCEPT ![h].state = "verified"]
  <2>1. Steady /\ \A g \in Sessions \ {h} : handle'[g].state = handle[g].state
    BY <1>3 DEF IInv, Shape, Handles, Steady
  <2>2. \A t \in Tasks : ~(job[t].h = h /\ job[t].op \in Claiming)
    BY <1>1, <1>3, SessionAssumption DEF IInv, Bound
  <2>3. Concluded'
    BY <1>1, <1>3, <2>1, <2>2 DEF IInv, Concluded, Registered, Steady
  <2> QED BY <1>1, <2>1, <2>3, HandleKeeps
<1>4. CASE handle' = [handle EXCEPT ![h].due = TRUE]
  <2>1. Steady /\ \A g \in Sessions : handle'[g].state = handle[g].state
    BY <1>4 DEF IInv, Shape, Handles, Steady
  <2>2. Concluded'
    BY <1>1, <2>1 DEF IInv, Concluded, Registered, Steady
  <2> QED BY <1>1, <2>1, <2>2, HandleKeeps
<1> QED BY <1>2, <1>3, <1>4 DEF Acknowledge, Complete, PassDeadline, Pending

\* A session that is revoked hands its operation to the clean-up.
LEMMA RevokeStep ==
  ASSUME IInv, NEW h \in Sessions, NEW cancel \in BOOLEAN, Registered(h),
         Revoke(h, cancel)
  PROVE  IInv'
<1>1. /\ cleaning.h = None /\ cleaning.pc = "none"
      /\ UNCHANGED <<lock, tx, origin, job, flash, marker, recovery>>
      /\ handle[h] \in Handles
  BY DEF IInv, OneSession, Shape, Revoke, disk
<1>2. /\ cleaning' \in Cleanups /\ cleaning'.h = h /\ cleaning'.pc = "start"
      /\ cleaning'.task = handle[h].active
  BY <1>1 DEF Revoke, Cleanups, Handles
<1>3. /\ handle' \in [Sessions -> Handles] /\ handle'[h].reg = "revoked"
      /\ \A g \in Sessions \ {h} : handle'[g] = handle[g]
  BY <1>1 DEF IInv, Shape, Handles, Revoke
<1>4. Shape' /\ MeterHasOneUser' /\ Placed' /\ StartedOnce'
  BY <1>1, <1>2, <1>3 DEF IInv, Shape, Data, MeterHasOneUser, Placed, StartedOnce
<1>5. ASSUME NEW u \in Tasks PROVE Bound(u)'
  <2>1. CASE job[u].op \notin Claiming \cup {"start"}
    BY <1>1, <2>1 DEF Bound
  <2>2. CASE job[u].op = "start"
    <3>1. job[u].h \in Sessions /\ job[u].h # h
      BY <2>2, InLease DEF IInv, Bound, Registered
    <3> QED BY <1>1, <1>3, <2>2, <3>1, Operations DEF IInv, Bound
  <2>3. CASE job[u].op \in Claiming
    <3>1. job[u].h \in Sessions
      BY <2>3, InLease
    <3>2. Registered(job[u].h)
      BY <1>1, <2>3, <3>1, SessionAssumption DEF IInv, Bound
    <3>3. job[u].h = h /\ handle[h].active = u
      BY <2>3, <3>1, <3>2 DEF IInv, Bound, OneSession
    <3>4. job'[u] = job[u] /\ job[u].op # "start"
      BY <1>1, <2>3, Operations
    <3> QED BY <1>2, <1>3, <3>3, <3>4 DEF Bound, Registered
  <2> QED BY <2>1, <2>2, <2>3
<1>6. OneSession'
  BY <1>2, <1>3, SessionAssumption DEF IInv, OneSession, Registered
<1>7. Concluded'
  BY <1>1, <1>3 DEF IInv, Concluded, Registered
<1>8. \A u \in Tasks : Knows(u)'
  BY <1>1, KnowsFrame DEF IInv
<1> QED BY <1>4, <1>5, <1>6, <1>7, <1>8, Combine DEF Bindings

LEMMA TransactionStep ==
  ASSUME IInv, Transaction
  PROVE  IInv'
<1>1. UNCHANGED <<origin, handle, cleaning, job, flash, marker, recovery>>
  BY DEF Transaction, workflow, disk
<1>2. /\ lock' = [owner |-> lock'.owner, queue |-> lock'.queue]
      /\ \/ lock'.owner = lock.owner /\ tx # "held" /\ tx' # "held"
         \/ lock.owner = None /\ lock'.owner = Tx /\ tx' = "held"
         \/ tx = "held" /\ lock'.owner = None /\ tx' = "idle"
  <2>1. CASE /\ tx = "idle" /\ tx' = IF Free /\ lock.queue = <<>> THEN "held" ELSE "queue"
             /\ IF Free THEN Take(Tx) ELSE lock' = [lock EXCEPT !.queue = Append(@, Tx)]
    BY <2>1, LockFacts, QueueFacts DEF IInv, Free
  <2>2. CASE tx = "queue" /\ Wakes(Tx) /\ Wake(Tx) /\ tx' = "held"
    BY <2>2, LockFacts DEF IInv, Wakes
  <2>3. CASE tx = "held" /\ Release /\ tx' = "idle"
    BY <2>3, LockFacts DEF IInv
  <2> QED BY <2>1, <2>2, <2>3 DEF Transaction
<1>3. MeterHasOneUser'
  BY <1>1, <1>2, SessionAssumption DEF IInv, MeterHasOneUser, Tx, Cleaner
<1>4. Shape' /\ Placed' /\ StartedOnce' /\ OneSession' /\ Concluded'
  BY <1>1, <1>2 DEF IInv, Shape, Data, Placed, StartedOnce, OneSession, Concluded, Registered
<1>5. ASSUME NEW u \in Tasks PROVE Bound(u)' /\ Knows(u)'
  BY <1>1, BoundFrame, KnowsFrame DEF IInv
<1> QED BY <1>3, <1>4, <1>5, Combine DEF Bindings

\* The config transaction works while no task is in a lease.
LEMMA InstallStep ==
  ASSUME IInv, Install
  PROVE  IInv'
<1>1. UNCHANGED <<lock, tx, origin, handle, cleaning, job, flash, marker>>
  BY DEF Install, workflow
<1>2. \A u \in Tasks : job[u].pc \notin Leased
  BY SessionAssumption DEF Install, IInv, MeterHasOneUser
<1>3. recovery' \in Recoveries \cup {None}
  BY RecoveryType DEF Install, IInv, Shape, Data
<1>4. Shape' /\ MeterHasOneUser' /\ Placed' /\ StartedOnce' /\ OneSession' /\ Concluded'
  BY <1>1, <1>3 DEF IInv, Shape, Data, MeterHasOneUser, Placed, StartedOnce, OneSession,
     Concluded, Registered
<1>5. ASSUME NEW u \in Tasks PROVE Bound(u)' /\ Knows(u)'
  BY <1>1, <1>2, BoundFrame, KnowsFrame DEF IInv
<1> QED BY <1>4, <1>5, Combine DEF Bindings

LEMMA SessionTypes == NewSession \in Handles /\ Scrubbed \in Handles /\ Scrubbed.reg = "revoked"
BY DEF NewSession, Scrubbed, Handles

LEMMA CrashStep ==
  ASSUME IInv, Crash
  PROVE  IInv'
<1>1. /\ lock' = [owner |-> None, queue |-> <<>>] /\ tx' = "idle" /\ origin' = None
      /\ cleaning' = NoCleanup /\ job' = [t \in Tasks |-> NoJob]
      /\ UNCHANGED <<flash, marker, recovery>>
  BY DEF Crash, disk
<1>2. handle' \in [Sessions -> Handles] /\ \A h \in Sessions : ~Registered(h)'
  <2>1. handle' = [h \in Sessions |->
          IF handle[h].reg = "new" THEN NewSession ELSE Scrubbed]
    BY DEF Crash
  <2>2. NewSession.reg = "new"
    BY DEF NewSession
  <2> QED BY <2>1, <2>2, SessionTypes DEF Registered
<1>3. Shape'
  BY <1>1, <1>2, NoJobType DEF IInv, Shape, Data, NoCleanup, Cleanups
<1>4. MeterHasOneUser'
  BY <1>1, SessionAssumption DEF MeterHasOneUser, NoJob, NoCleanup, Leased, Tx, Cleaner
<1>5. Placed' /\ StartedOnce'
  BY <1>1, NoJobType DEF Placed, StartedOnce, NoJob
<1>6. OneSession' /\ Concluded'
  BY <1>1, <1>2 DEF OneSession, Concluded, NoCleanup
<1>7. ASSUME NEW u \in Tasks PROVE Bound(u)' /\ Knows(u)'
  <2>1. job'[u].op = "none" /\ job'[u].pc = "idle"
    BY <1>1 DEF NoJob
  <2> QED BY <2>1, KnowsNothing, Operations DEF Bound
<1> QED BY <1>3, <1>4, <1>5, <1>6, <1>7, Combine DEF Bindings

-----------------------------------------------------------------------------
(* The clean-up of a revoked session.                                      *)

\* The clean-up goes on to pc, with the jobs but for their cancellation.
LEMMA CleaningGoesOn ==
  ASSUME IInv, NEW pc \in {"wait", "acquire", "queue", "cancel", "abandon"},
         cleaning.pc # "none",
         cleaning' \in Cleanups, cleaning'.pc = pc,
         cleaning'.h = cleaning.h, cleaning'.task = cleaning.task,
         job' \in [Tasks -> Jobs],
         \A u \in Tasks : /\ job'[u].op = job[u].op /\ job'[u].pc = job[u].pc
                          /\ job'[u].h = job[u].h /\ job'[u].got = job[u].got,
         pc # "wait" => \A u \in Tasks :
           ~(job[u].op \in Claiming /\ ~Registered(job[u].h)),
         lock' = [owner |-> lock'.owner, queue |-> lock'.queue],
         MeterHasOneUser', recovery' \in Recoveries \cup {None},
         recovery' = recovery \/ \A u \in Tasks : job[u].pc \notin Leased,
         UNCHANGED <<tx, origin, handle, flash, marker>>
  PROVE  IInv'
<1>1. Shape' /\ StartedOnce' /\ Concluded'
  BY DEF IInv, Shape, Data, StartedOnce, Concluded, Registered
<1>2. Placed'
  BY DEF IInv, Placed, Stands
<1>3. OneSession'
  BY DEF IInv, OneSession, Registered
<1>4. ASSUME NEW u \in Tasks PROVE Bound(u)'
  <2>1. CASE job[u].op \notin Claiming
    BY <2>1 DEF IInv, Bound
  <2>2. CASE job[u].op \in Claiming /\ Registered(job[u].h)
    BY <2>2, Operations DEF IInv, Bound, Registered
  <2>3. CASE job[u].op \in Claiming /\ ~Registered(job[u].h)
    BY <2>3, Operations DEF IInv, Bound, Registered
  <2> QED BY <2>1, <2>2, <2>3
<1>5. ASSUME NEW u \in Tasks PROVE Knows(u)'
  <2>1. CASE job[u].pc \notin Leased
    BY <2>1, KnowsNothing DEF Leased
  <2>2. CASE UNCHANGED recovery
    BY <2>2 DEF IInv, Knows, Only, Covers, Matches
  <2> QED BY <2>1, <2>2
<1> QED BY <1>1, <1>2, <1>3, <1>4, <1>5, Combine DEF Bindings

\* Past its wait, the clean-up has no operation left to wait for.
LEMMA NobodyLeft ==
  ASSUME IInv, cleaning.pc \in {"acquire", "queue", "cancel", "abandon"}
               \/ (cleaning.pc = "wait" /\ Ended(cleaning.task)),
         NEW u \in Tasks, job[u].op \in Claiming, ~Registered(job[u].h)
  PROVE  FALSE
<1>1. /\ cleaning.h = job[u].h /\ cleaning.task = u
      /\ cleaning.pc \in {"start", "wait"}
  BY DEF IInv, Bound
<1> QED BY <1>1 DEF Ended

LEMMA CleaningType ==
  ASSUME IInv,
         NEW pc \in {"wait", "acquire", "queue", "cancel", "abandon"}, NEW f \in BOOLEAN
  PROVE  /\ [cleaning EXCEPT !.pc = pc] \in Cleanups
         /\ [cleaning EXCEPT !.pc = pc].pc = pc
         /\ [cleaning EXCEPT !.pc = pc].h = cleaning.h
         /\ [cleaning EXCEPT !.pc = pc].task = cleaning.task
         /\ [cleaning EXCEPT !.pc = pc, !.failed = f] \in Cleanups
         /\ [cleaning EXCEPT !.pc = pc, !.failed = f].pc = pc
         /\ [cleaning EXCEPT !.pc = pc, !.failed = f].h = cleaning.h
         /\ [cleaning EXCEPT !.pc = pc, !.failed = f].task = cleaning.task
<1> QED BY DEF IInv, Shape, Cleanups

LEMMA CleanupStartStep ==
  ASSUME IInv, CleanupStart, UNCHANGED <<tx, handle, flash, marker, origin>>
  PROVE  IInv'
<1>1. /\ cleaning.pc # "none" /\ cleaning' = [cleaning EXCEPT !.pc = "wait"]
      /\ UNCHANGED <<lock, tx, origin, handle, flash, marker, recovery>>
  BY DEF CleanupStart
<1>2. /\ cleaning' \in Cleanups /\ cleaning'.pc = "wait"
      /\ cleaning'.h = cleaning.h /\ cleaning'.task = cleaning.task
  BY <1>1, CleaningType
<1>3. /\ job' \in [Tasks -> Jobs]
      /\ \A u \in Tasks : /\ job'[u].op = job[u].op /\ job'[u].pc = job[u].pc
                          /\ job'[u].h = job[u].h /\ job'[u].got = job[u].got
  <2>1. CASE job' = job
    BY <2>1 DEF IInv, Shape
  <2>2. CASE cleaning.task \in Tasks /\ job' = [job EXCEPT ![cleaning.task].cancelled = TRUE]
    BY <2>2 DEF IInv, Shape, Jobs
  <2> QED BY <2>1, <2>2 DEF CleanupStart, Ended
<1>4. MeterHasOneUser' /\ lock' = [owner |-> lock'.owner, queue |-> lock'.queue]
  BY <1>1, <1>2, <1>3 DEF IInv, MeterHasOneUser, Shape, CleanupStart
<1> QED BY <1>1, <1>2, <1>3, <1>4, CleaningGoesOn DEF IInv, Shape, Data

\* The steps of the clean-up past its wait.
LEMMA CleanupMoves ==
  ASSUME IInv, CleanupWait \/ CleanupAcquire \/ CleanupCancel,
         UNCHANGED <<tx, handle, flash, marker, origin>>
  PROVE  IInv'
<1> DEFINE Turns(pc) ==
      /\ cleaning' \in Cleanups /\ cleaning'.pc = pc
      /\ cleaning'.h = cleaning.h /\ cleaning'.task = cleaning.task
<1>1. /\ cleaning.pc # "none" /\ UNCHANGED <<tx, origin, handle, flash, marker, job>>
      /\ \A u \in Tasks : ~(job[u].op \in Claiming /\ ~Registered(job[u].h))
  <2>1. cleaning.pc \in {"acquire", "queue", "cancel"}
        \/ (cleaning.pc = "wait" /\ Ended(cleaning.task))
    BY DEF CleanupWait, CleanupAcquire, CleanupCancel
  <2>2. UNCHANGED job
    BY DEF CleanupWait, CleanupAcquire, CleanupCancel
  <2> QED BY <2>1, <2>2, NobodyLeft
<1>2. ASSUME NEW pc \in {"acquire", "queue", "cancel", "abandon"}, Turns(pc),
             lock' = [owner |-> lock'.owner, queue |-> lock'.queue], MeterHasOneUser',
             recovery' \in Recoveries \cup {None},
             recovery' = recovery \/ \A u \in Tasks : job[u].pc \notin Leased
      PROVE  IInv'
  <2>1. job' \in [Tasks -> Jobs]
    BY <1>1 DEF IInv, Shape
  <2> QED BY <1>1, <1>2, <2>1, CleaningGoesOn
<1>3. ASSUME cleaning.pc # "cancel",
             NEW pc \in {"acquire", "queue", "abandon"}, Turns(pc),
             lock' = [owner |-> lock'.owner, queue |-> lock'.queue],
             lock'.owner = lock.owner, UNCHANGED recovery
      PROVE  IInv'
  <2>1. MeterHasOneUser'
    BY <1>1, <1>3 DEF IInv, MeterHasOneUser
  <2> QED BY <1>2, <1>3, <2>1 DEF IInv, Shape, Data
<1>4. ASSUME lock.owner = None, Turns("cancel"),
             lock' = [owner |-> lock'.owner, queue |-> lock'.queue], lock'.owner = Cleaner,
             UNCHANGED recovery
      PROVE  IInv'
  <2>1. MeterHasOneUser'
    BY <1>1, <1>4, SessionAssumption DEF IInv, MeterHasOneUser, Tx, Cleaner
  <2> QED BY <1>2, <1>4, <2>1 DEF IInv, Shape, Data
<1>5. CASE CleanupWait
  <2>1. PICK pc \in {"acquire", "abandon"} : cleaning' = [cleaning EXCEPT !.pc = pc]
    BY <1>5 DEF CleanupWait
  <2>2. Turns(pc)
    BY <2>1, CleaningType
  <2> QED BY <1>3, <1>5, <2>2 DEF CleanupWait, IInv, Shape
<1>6. CASE /\ UNCHANGED recovery /\ cleaning.pc = "acquire" /\ ~Free /\ UNCHANGED lock
           /\ cleaning' = [cleaning EXCEPT !.pc = "abandon", !.failed = TRUE]
  <2>1. Turns("abandon")
    BY <1>6, CleaningType
  <2> QED BY <1>3, <1>6, <2>1 DEF IInv, Shape
<1>7. CASE /\ UNCHANGED recovery /\ cleaning.pc = "acquire" /\ Free /\ Take(Cleaner)
           /\ cleaning' = [cleaning EXCEPT !.pc =
                             IF lock.queue = <<>> THEN "cancel" ELSE "queue"]
  <2>1. /\ lock' = [owner |-> lock'.owner, queue |-> lock'.queue]
        /\ lock'.owner = IF lock.queue = <<>> THEN Cleaner ELSE lock.owner
        /\ lock.owner = None
    BY <1>7, LockFacts DEF IInv, Free
  <2>2. CASE lock.queue = <<>>
    <3>1. Turns("cancel")
      BY <1>7, <2>2, CleaningType
    <3> QED BY <1>4, <1>7, <2>1, <2>2, <3>1
  <2>3. CASE lock.queue # <<>>
    <3>1. Turns("queue")
      BY <1>7, <2>3, CleaningType
    <3> QED BY <1>3, <1>7, <2>1, <2>3, <3>1
  <2> QED BY <2>2, <2>3
<1>8. CASE /\ UNCHANGED recovery /\ cleaning.pc = "queue" /\ Wakes(Cleaner) /\ Wake(Cleaner)
           /\ cleaning' = [cleaning EXCEPT !.pc = "cancel"]
  <2>1. /\ lock' = [owner |-> lock'.owner, queue |-> lock'.queue]
        /\ lock'.owner = Cleaner /\ lock.owner = None
    BY <1>8, LockFacts DEF IInv, Wakes
  <2>2. Turns("cancel")
    BY <1>8, CleaningType
  <2> QED BY <1>4, <1>8, <2>1, <2>2
<1>9. CASE CleanupCancel
  <2>1. PICK f \in BOOLEAN : cleaning' = [cleaning EXCEPT !.pc = "abandon", !.failed = f]
    BY <1>9 DEF CleanupCancel
  <2>2. Turns("abandon")
    BY <2>1, CleaningType
  <2>3. /\ lock' = [owner |-> lock'.owner, queue |-> lock'.queue]
        /\ lock'.owner = None /\ lock.owner = Cleaner
    BY <1>9, LockFacts DEF IInv, CleanupCancel, MeterHasOneUser
  <2>4. MeterHasOneUser'
    BY <1>1, <2>2, <2>3, SessionAssumption DEF IInv, MeterHasOneUser, Tx, Cleaner
  <2>5. \A u \in Tasks : job[u].pc \notin Leased
    BY <2>3, SessionAssumption DEF IInv, MeterHasOneUser
  <2>6. recovery' \in Recoveries \cup {None}
    <3>1. recovery' \in {recovery, CancelFinal(recovery), CancelPreparation(recovery)}
      BY <1>9 DEF CleanupCancel
    <3> QED BY <3>1, RecoveryType DEF IInv, Shape, Data
  <2> QED BY <1>2, <2>2, <2>3, <2>4, <2>5, <2>6
<1> QED BY <1>5, <1>6, <1>7, <1>8, <1>9 DEF CleanupAcquire

LEMMA CleanupAbandonStep ==
  ASSUME IInv, CleanupAbandon, UNCHANGED <<tx, flash, marker>>
  PROVE  IInv'
<1> DEFINE failed == cleaning.failed \/ LeaseActive
<1>1. /\ cleaning.pc = "abandon" /\ cleaning' = NoCleanup
      /\ UNCHANGED <<lock, tx, flash, marker, recovery>>
      /\ origin' = IF LeaseActive THEN origin ELSE None
      /\ handle' = [handle EXCEPT ![cleaning.h] = Scrubbed]
      /\ job' = [t \in Tasks |->
           IF ~At(t, "cleanup") THEN job[t]
           ELSE IF failed THEN NoJob ELSE [job[t] EXCEPT !.pc = "acquire"]]
  BY DEF CleanupAbandon, CleanupDone
<1> HIDE DEF failed
<1>2. /\ \A h \in Sessions : ~Registered(h)
      /\ cleaning.h \in Sessions /\ handle[cleaning.h].reg = "revoked"
  BY <1>1 DEF IInv, OneSession, Shape, Cleanups
<1>3. /\ handle' \in [Sessions -> Handles]
      /\ \A h \in Sessions : handle'[h].reg = handle[h].reg
  BY <1>1, <1>2, SessionTypes DEF IInv, Shape
<1>4. ASSUME NEW u \in Tasks
      PROVE  \/ job'[u] = job[u]
             \/ /\ job[u].op = "start" /\ job[u].pc = "cleanup"
                /\ job'[u].op \in {"none", "start"}
                /\ job'[u].pc \in {"idle", "acquire"}
                /\ Stands(job'[u]) /\ job'[u] \in Jobs
                /\ job'[u].op = "start" => job'[u].h = job[u].h
  <2>1. CASE ~At(u, "cleanup")
    BY <1>1, <2>1
  <2>2. CASE At(u, "cleanup") /\ failed
    <3>1. job'[u] = NoJob /\ job[u].op = "start" /\ job[u].pc = "cleanup"
      BY <1>1, <2>2, LeasedOps DEF At
    <3> QED BY <3>1, NoJobType DEF NoJob
  <2>3. CASE At(u, "cleanup") /\ ~failed
    <3>1. /\ job'[u] = [job[u] EXCEPT !.pc = "acquire"] /\ job[u].op = "start"
          /\ job[u].pc = "cleanup" /\ job[u] \in Jobs /\ job[u].h \in Sessions
      BY <1>1, <2>3, LeasedOps, InLease DEF At
    <3>2. /\ job'[u].pc = "acquire" /\ job'[u].op = "start" /\ job'[u].h = job[u].h
          /\ job'[u] \in Jobs
      BY <3>1 DEF Jobs, Pcs
    <3>3. Stands(job'[u])
      BY <3>1, <3>2 DEF Stands, Runs, Verifies, Waiting
    <3> QED BY <3>1, <3>2, <3>3
  <2> QED BY <2>1, <2>2, <2>3
<1>5. Shape'
  <2>1. job' \in [Tasks -> Jobs]
    <3>1. \A u \in Tasks : job'[u] \in Jobs
      BY <1>4, InLease
    <3>2. job' = [u \in Tasks |-> job'[u]]
      BY <1>1
    <3> QED BY <3>1, <3>2
  <2>2. NoCleanup \in Cleanups
    BY DEF NoCleanup, Cleanups
  <2> QED BY <1>1, <1>3, <2>1, <2>2 DEF IInv, Shape, Data
<1>6. MeterHasOneUser'
  BY <1>1, <1>4 DEF IInv, MeterHasOneUser, NoCleanup, Leased
<1>7. Placed'
  BY <1>4 DEF IInv, Placed
<1>8. ASSUME NEW u \in Tasks PROVE Bound(u)'
  <2>1. job[u].op \notin Claiming
    BY <1>1, <1>2, InLease, NobodyLeft
  <2>2. job'[u].op \notin Claiming
    BY <1>4, <2>1, Operations
  <2>3. job'[u].op = "start" => job[u].op = "start" /\ job'[u].h = job[u].h
    BY <1>4
  <2>4. job[u].op = "start" => job[u].h \in Sessions
    BY InLease
  <2> QED BY <1>3, <2>2, <2>3, <2>4 DEF IInv, Bound
<1>9. StartedOnce'
  BY <1>4 DEF IInv, StartedOnce
<1>10. OneSession' /\ Concluded'
  BY <1>1, <1>2, <1>3 DEF OneSession, Concluded, Registered, NoCleanup
<1>11. ASSUME NEW u \in Tasks PROVE Knows(u)'
  <2>1. CASE job'[u] # job[u]
    BY <1>4, <2>1, KnowsNothing
  <2>2. CASE job'[u] = job[u] /\ job[u].pc \notin Leased
    BY <2>2, KnowsFrame DEF IInv
  <2>3. CASE job'[u] = job[u] /\ job[u].pc \in Leased
    <3>1. lock.owner = u
      BY <2>3 DEF IInv, MeterHasOneUser
    <3>2. LeaseActive
      BY <3>1, SessionAssumption DEF LeaseActive
    <3> QED BY <1>1, <2>3, <3>2, KnowsFrame DEF IInv
  <2> QED BY <2>1, <2>2, <2>3
<1> QED BY <1>5, <1>6, <1>7, <1>8, <1>9, <1>10, <1>11, Combine DEF Bindings

-----------------------------------------------------------------------------
(* The invariant of the specification.                                     *)

LEMMA CleanupStep ==
  ASSUME IInv, Cleanup
  PROVE  IInv'
<1>1. UNCHANGED <<tx, flash, marker>>
  BY DEF Cleanup
<1>2. CASE CleanupStart /\ UNCHANGED <<origin, handle>>
  BY <1>1, <1>2, CleanupStartStep
<1>3. CASE (CleanupWait \/ CleanupAcquire \/ CleanupCancel) /\ UNCHANGED <<origin, handle>>
  BY <1>1, <1>3, CleanupMoves
<1>4. CASE CleanupAbandon
  BY <1>1, <1>4, CleanupAbandonStep
<1> QED BY <1>2, <1>3, <1>4 DEF Cleanup

LEMMA ManageKeeps ==
  ASSUME IInv, NEW h \in Sessions, Manage(h)
  PROVE  IInv'
<1>1. CASE Acknowledge(h) \/ Complete(h) \/ PassDeadline(h)
  BY <1>1, ManageStep
<1>2. CASE Cancel(h)
  BY <1>2, RevokeStep DEF Cancel, Live
<1>3. CASE Close(h)
  BY <1>3, RevokeStep DEF Close, Live
<1>4. CASE Expire(h)
  BY <1>4, RevokeStep DEF Expire
<1> QED BY <1>1, <1>2, <1>3, <1>4 DEF Manage

LEMMA InductiveStep ==
  ASSUME IInv, [Next]_vars
  PROVE  IInv'
<1>1. CASE UNCHANGED vars
  <2>1. /\ UNCHANGED <<lock, tx, origin, handle, cleaning, job, flash, marker, recovery>>
    BY <1>1 DEF vars
  <2>2. Steady /\ Concluded'
    BY <2>1, StillSteady DEF IInv, Concluded, Registered
  <2> QED BY <2>1, <2>2, HandleKeeps
<1>2. ASSUME NEW t \in Tasks, Step(t) PROVE IInv'
  <2>1. CASE Acquire(t) \/ Queued(t) \/ StartConnect(t) \/ Preflight(t) \/ Register(t)
    BY <2>1, AcquireStep, QueuedStep, StartConnectStep, PreflightStep, RegisterStep
  <2>2. CASE Origin(t) \/ Mark(t) \/ Run(t) \/ Saved(t) \/ Capture(t) \/ Zero(t)
    BY <2>2, OriginStep, MarkStep, RunStep, SavedStep, CaptureStep, ZeroStep
  <2>3. CASE Unmark(t) \/ Restart(t) \/ Persist(t) \/ Check(t)
    BY <2>3, UnmarkStep, RestartStep, PersistStep, CheckStep
  <2>4. CASE Prepare(t) \/ Progress(t) \/ Review(t) \/ Reconcile(t) \/ Select(t)
    BY <2>4, PrepareStep, ProgressStep, ReviewStep, ReconcileStep, SelectStep
  <2>5. CASE Consume(t) \/ Cycle(t) \/ Clear(t) \/ HandOver(t)
    BY <2>5, ConsumeStep, CycleStep, ClearStep, HandOverStep
  <2> QED BY <1>2, <2>1, <2>2, <2>3, <2>4, <2>5 DEF Step
<1>3. ASSUME NEW t \in Tasks, NEW h \in Sessions, Request(t, h) PROVE IInv'
  <2>1. CASE Start(t, h) \/ AskStatus(t, h)
    BY <2>1, StartStep, AskStatusStep
  <2>2. ASSUME NEW op \in Claims, NEW todo \in SUBSET Tables, Claim(t, h, op, todo)
        PROVE  IInv'
    BY <2>2, ClaimStep
  <2> QED BY <1>3, <2>1, <2>2 DEF Request
<1>4. ASSUME NEW h \in Sessions, Manage(h) PROVE IInv'
  BY <1>4, ManageKeeps
<1> QED BY <1>1, <1>2, <1>3, <1>4, RecoverStep, TransactionStep, InstallStep, CleanupStep,
           CrashStep DEF Next

LEMMA InvariantHolds == Spec => []IInv
<1>1. ASSUME Init PROVE IInv
  <2>1. Shape
    BY <1>1, NoJobType, SessionTypes DEF Init, Shape, Data, Cleanups, NoCleanup
  <2>2. \A t \in Tasks : Stands(job[t]) /\ job[t].op = "none" /\ job[t].pc = "idle"
    BY <1>1, NoJobType DEF Init, NoJob
  <2>3. MeterHasOneUser
    BY <1>1, <2>2, SessionAssumption DEF Init, MeterHasOneUser, NoCleanup, Leased, Tx, Cleaner
  <2>4. \A t \in Tasks : Bound(t) /\ Knows(t)
    BY <2>2, Operations DEF Bound, Knows
  <2>5. StartedOnce
    BY <2>2 DEF StartedOnce
  <2>6. OneSession /\ Concluded
    <3>1. \A h \in Sessions : ~Registered(h)
      BY <1>1 DEF Init, NewSession, Registered
    <3> QED BY <1>1, <3>1 DEF Init, OneSession, Concluded, NoCleanup
  <2> QED BY <2>1, <2>2, <2>3, <2>4, <2>5, <2>6 DEF IInv, Placed
<1> QED BY <1>1, InductiveStep, PTL DEF Spec

\* A calibration lease, a config transaction and the clean-up of a session
\* never use the meter at the same time (async_acquire_config,
\* async_acquire_calibration, CalibrationLease.release).
THEOREM LeaseHasOneHolder == Spec => []MeterHasOneUser
BY InvariantHolds, PTL DEF IInv

\* An operation of a session that is not registered is what the clean-up of
\* that session waits for (_async_finalize_revoked): when it is over, none is
\* left.
THEOREM RevokedSessionsAreQuiet == Spec => []RevokedIsQuiet
<1>1. IInv => RevokedIsQuiet
  BY DEF IInv, Bound, RevokedIsQuiet
<1> QED BY <1>1, InvariantHolds, PTL

\* A session that is finished leaves no calibration that waits to be verified
\* (async_complete_calibration_without_changes, async_restart_and_verify).
THEOREM FinishedLeavesNothing == Spec => []VerifiedLeavesNothing
<1>1. IInv => VerifiedLeavesNothing
  BY DEF IInv, Concluded, VerifiedLeavesNothing
<1> QED BY <1>1, InvariantHolds, PTL

-----------------------------------------------------------------------------
(* What steps may not do.                                                  *)

\* The steps that touch the origin, the flash, the marker or the record.
Calibrates ==
  \E t \in Tasks :
    \/ Origin(t) \/ Mark(t) \/ Run(t) \/ Saved(t) \/ Unmark(t) \/ Restart(t) \/ Persist(t)
    \/ Reconcile(t) \/ Select(t) \/ Consume(t) \/ Clear(t)

LEMMA OthersLeaveTheMeter ==
  ASSUME IInv, [Next]_vars
  PROVE  \/ UNCHANGED <<origin, flash, marker, record>>
         \/ Calibrates
         \/ CleanupAbandon /\ UNCHANGED <<flash, marker, record>>
         \/ /\ UNCHANGED <<origin, flash, marker>> /\ record' = NoTables
         \/ Crash
<1>1. CASE UNCHANGED vars
  BY <1>1 DEF vars
<1>2. ASSUME NEW t \in Tasks, Step(t)
      PROVE  UNCHANGED <<origin, flash, marker, record>> \/ Calibrates
  <2>1. CASE \/ Acquire(t) \/ Queued(t) \/ StartConnect(t) \/ Preflight(t) \/ Register(t)
             \/ Zero(t) \/ Progress(t) \/ Cycle(t) \/ Check(t)
    BY <2>1 DEF Acquire, Queued, StartConnect, Preflight, Register, Zero, Progress, Cycle,
       Check, disk, verified
  <2>2. CASE Capture(t) \/ Prepare(t) \/ Review(t) \/ HandOver(t)
    BY <2>2 DEF Capture, Prepare, Review, HandOver, verified
  <2> QED BY <1>2, <2>1, <2>2 DEF Step, Calibrates
<1>3. ASSUME NEW t \in Tasks, NEW h \in Sessions, Request(t, h)
      PROVE  UNCHANGED <<origin, flash, marker, record>>
  BY <1>3 DEF Request, Start, AskStatus, Claim, disk
<1>4. ASSUME NEW h \in Sessions, Manage(h)
      PROVE  UNCHANGED <<origin, flash, marker, record>>
  BY <1>4 DEF Manage, Acknowledge, Complete, Cancel, Close, PassDeadline, Expire, Revoke, disk
<1>5. CASE Transaction
  BY <1>5 DEF Transaction, disk
<1>6. CASE Install
  BY <1>6 DEF Install, verified
<1>7. CASE Cleanup
  BY <1>7 DEF Cleanup, verified
<1>8. ASSUME NEW t \in Tasks, Recover(t)
      PROVE  UNCHANGED <<origin, flash, marker, record>>
  BY <1>8 DEF Recover, disk
<1> QED BY <1>1, <1>2, <1>3, <1>4, <1>5, <1>6, <1>7, <1>8 DEF Next

\* A step under the lease that keeps the tables of the origin, or adds some.
LEMMA KeptTables ==
  ASSUME origin \in Origins \cup {None}, origin' \in Origins \cup {None},
         \/ origin = None
         \/ origin \in Origins /\ origin' \in Origins /\ origin'.tables = origin.tables
  PROVE  Retained(origin) \subseteq Retained(origin')
BY OriginType DEF Retained

LEMMA RetainKeeps ==
  ASSUME NEW o \in Origins, NEW got \in Contents
  PROVE  Retained(o) \subseteq Retained(Retain(o, got))
<1>1. Retain(o, got) \in Origins
      /\ Retain(o, got).tables = [x \in Tables |-> IF got[x] # None THEN got[x] ELSE o.tables[x]]
  BY RetainType
<1> HIDE DEF Retain
<1> QED BY <1>1, OriginType DEF Retained

\* Claiming an origin, or giving the claim back, keeps its tables.
LEMMA ClaimKeeps ==
  ASSUME IInv,
         \/ origin' = Unfrozen(origin)
         \/ origin # None /\ origin' = [origin EXCEPT !.claimed = TRUE]
  PROVE  Retained(origin) \subseteq Retained(origin')
<1>1. origin \in Origins \cup {None}
  BY DEF IInv, Shape, Data
<1>2. CASE origin' = Unfrozen(origin)
  BY <1>1, <1>2, UnfrozenType, KeptTables
<1>3. CASE origin # None /\ origin' = [origin EXCEPT !.claimed = TRUE]
  BY <1>1, <1>3, OriginType, KeptTables
<1> QED BY <1>2, <1>3

\* Persist either leaves the tables in the origin, or writes the record.
LEMMA PersistWrites ==
  ASSUME IInv, NEW t \in Tasks, Persist(t)
  PROVE  /\ flash' = flash
         /\ record' # record \/ marker' # marker =>
              /\ record' = job[t].got
              /\ \E x \in Tables : record'[x] # None
              /\ \A x \in Tables : record'[x] \in {None, flash[x]}
         /\ \A x \in Retained(origin) \ Retained(origin') :
              record'[x] = origin.tables[x]
<1>1. /\ origin \in Origins /\ job[t].got = Only(Covers(job[t].op), origin.tables)
      /\ \E x \in Tables : job[t].got[x] # None
      /\ Matches(job[t].got)
  BY DEF Persist, At, IInv, Knows
<1>2. CASE record' = job[t].got /\ origin' = Consumed(job[t].op)
  <2>1. \A x \in Retained(origin) \ Retained(origin') : x \in Covers(job[t].op) /\ x \in Tables
    BY <1>1, <1>2, ConsumedType, RetainedOrigin
  <2>2. \A x \in Retained(origin) \ Retained(origin') : record'[x] = origin.tables[x]
    BY <1>1, <1>2, <2>1 DEF Only
  <2> QED BY <1>1, <1>2, <2>2 DEF Persist, Matches
<1>3. CASE /\ origin' = Unfrozen(origin)
           /\ \/ record' = job[t].got
              \/ UNCHANGED <<marker, record>>
  <2>1. Retained(origin) \subseteq Retained(origin')
    BY <1>1, <1>3, ClaimKeeps
  <2> QED BY <1>1, <1>3, <2>1 DEF Persist, Matches
<1> QED BY <1>2, <1>3 DEF Persist, verified

\* What became configuration as the meter has it leaves the origin.
LEMMA ConsumeResolves ==
  ASSUME IInv, NEW t \in Tasks, Consume(t)
  PROVE  /\ UNCHANGED <<flash, marker, record>>
         /\ \A x \in Retained(origin) \ Retained(origin') :
              /\ recovery # None /\ recovery.final = "selected" /\ x \in OffsetTables
              /\ recovery.results[x] = origin.tables[x]
<1>1. /\ origin \in Origins /\ recovery \in Recoveries /\ recovery # None
      /\ recovery.final = "selected" /\ UNCHANGED <<flash, marker, record>>
  BY RecoveryType DEF Consume, At, IInv, Knows, verified
<1>2. CASE origin' = Unfrozen(origin)
  BY <1>1, <1>2, ClaimKeeps
<1>3. ASSUME NEW proved \in SUBSET Configured, origin' = Resolved(proved)
      PROVE  \A x \in Retained(origin) \ Retained(origin') : x \in Configured
  BY <1>1, <1>3, ResolvedType
<1> QED BY <1>1, <1>2, <1>3 DEF Consume, GiveUp, Configured

\* Restored gains are those the YAML has; a marker is cleared without a record
\* only when the meter is recovered.
LEMMA ClearsAnnounced ==
  ASSUME IInv, NEW t \in Tasks, Clear(t)
  PROVE  /\ UNCHANGED <<origin, marker, record>>
         /\ \A x \in Tables : flash'[x] # flash[x] =>
              flash'[x] = None /\ x \in Named /\ handed # "no"
<1>1. PICK gone \in SUBSET Named :
        /\ gone # {} => HandedOver
        /\ flash' = [x \in Tables |-> IF x \in gone THEN None ELSE flash[x]]
  BY DEF Clear
<1> QED BY <1>1 DEF Clear, HandedOver, disk

LEMMA UnmarkRecovers ==
  ASSUME IInv, NEW t \in Tasks, Unmark(t)
  PROVE  /\ UNCHANGED <<origin, flash, record>>
         /\ lock.owner = t /\ job[t].op = "recover"
BY LeasedOps DEF Unmark, At, Leased, IInv, MeterHasOneUser, verified

\* Every other step under the lease keeps the tables of the origin, and the
\* record.
LEMMA CalibrationKeeps ==
  ASSUME IInv, NEW t \in Tasks,
         \/ Origin(t) \/ Mark(t) \/ Run(t) \/ Saved(t) \/ Restart(t)
         \/ Reconcile(t) \/ Select(t)
  PROVE  /\ Retained(origin) \subseteq Retained(origin')
         /\ record' = record
         /\ marker' \in {marker, TRUE}
         /\ flash' # flash => marker /\ marker' = marker
<1> DEFINE fresh == [tables |-> NoTables, claimed |-> FALSE]
<1>0. origin \in Origins \cup {None} /\ job[t].got \in Contents
  BY InLease DEF IInv, Shape, Data
<1>1. CASE Origin(t)
  <2>1. UNCHANGED <<flash, marker, record>>
    BY <1>1 DEF Origin, disk
  <2>2. CASE origin' = origin
    BY <2>1, <2>2
  <2>3. CASE origin = None /\ origin' = fresh
    BY <2>1, <2>3, OriginType, KeptTables
  <2>4. CASE /\ Retained(origin) \cap Covers(job[t].op) # {}
             /\ origin' = [origin EXCEPT !.claimed = TRUE]
    BY <1>0, <2>1, <2>4, RetainedOrigin, ClaimKeeps, OriginType
  <2> QED BY <1>1, <2>2, <2>3, <2>4 DEF Origin
<1>2. CASE Mark(t)
  BY <1>2 DEF Mark, Stop, verified
<1>3. CASE Run(t)
  <2>1. UNCHANGED <<marker, record>> /\ marker
    BY <1>3 DEF Run, At, IInv, Knows, disk
  <2>2. CASE origin' = origin
    BY <2>1, <2>2
  <2>3. ASSUME NEW got \in Contents, job[t].op = "offsets", origin' = Retain(origin, got)
        PROVE  Retained(origin) \subseteq Retained(origin')
    <3>1. origin \in Origins
      BY <1>3, <2>3 DEF Run, At, IInv, Knows, Runs
    <3> QED BY <2>3, <3>1, RetainKeeps
  <2> QED BY <1>3, <2>1, <2>2, <2>3, RunFacts
<1>4. CASE Saved(t)
  <2>1. origin \in Origins
    BY <1>4 DEF Saved, At, IInv, Knows, Runs
  <2>2. CASE origin' = Retain(origin, job[t].got)
    BY <1>0, <1>4, <2>1, <2>2, RetainKeeps DEF Saved, verified
  <2>3. UNCHANGED <<flash, record>> /\ marker' \in {marker, TRUE}
    BY <1>4 DEF Saved, verified
  <2>4. CASE origin' = origin
    BY <2>3, <2>4
  <2> QED BY <1>4, <2>2, <2>3, <2>4 DEF Saved
<1>5. CASE Restart(t) \/ Reconcile(t) \/ Select(t)
  <2>1. UNCHANGED <<flash, marker, record>>
    BY <1>5 DEF Restart, Reconcile, Select, disk, verified
  <2>2. \/ origin' = origin \/ origin' = Unfrozen(origin)
        \/ origin # None /\ origin' = [origin EXCEPT !.claimed = TRUE]
    BY <1>5 DEF Restart, Reconcile, Select, GiveUp, Pending
  <2> QED BY <2>1, <2>2, ClaimKeeps
<1> QED BY <1>1, <1>2, <1>3, <1>4, <1>5

\* A restart of Home Assistant leaves no session registered.
LEMMA CrashRevokes ==
  ASSUME IInv, Crash, NEW h \in Sessions
  PROVE  ~Registered(h)'
<1>1. NewSession.reg = "new"
  BY DEF NewSession
<1> QED BY <1>1, SessionTypes DEF Crash, Registered

\* A table a registered session has to verify leaves the origin only into the
\* verified record, or because the final configuration the meter has selected
\* holds just this table, though sessions and operations of before may still be
\* winding up (_async_finalize_revoked, abandon_calibration,
\* consume_calibration_origin, consume_calibration_gains,
\* consume_finalized_offsets).
THEOREM SessionsKeepTables == Spec => NoSessionLosesTables
<1> DEFINE Accounted(x) ==
             \/ record'[x] = origin.tables[x]
             \/ /\ recovery # None /\ recovery.final = "selected" /\ x \in OffsetTables
                /\ recovery.results[x] = origin.tables[x]
           Kept == \A h \in Sessions : Registered(h) /\ Registered(h)' =>
                     \A x \in Retained(origin) \ Retained(origin') : Accounted(x)
<1>1. ASSUME IInv, [Next]_vars PROVE Kept
  <2>1. CASE origin' = origin
    BY <2>1
  <2>2. ASSUME NEW t \in Tasks, Persist(t) PROVE Kept
    BY <1>1, <2>2, PersistWrites
  <2>3. ASSUME NEW t \in Tasks, Consume(t) PROVE Kept
    BY <1>1, <2>3, ConsumeResolves
  <2>4. ASSUME NEW t \in Tasks, Clear(t) \/ Unmark(t) PROVE origin' = origin
    BY <1>1, <2>4, ClearsAnnounced, UnmarkRecovers
  <2>5. ASSUME NEW t \in Tasks,
               \/ Origin(t) \/ Mark(t) \/ Run(t) \/ Saved(t) \/ Restart(t)
               \/ Reconcile(t) \/ Select(t)
        PROVE  Kept
    BY <1>1, <2>5, CalibrationKeeps
  <2>6. CASE CleanupAbandon
    BY <1>1, <2>6 DEF CleanupAbandon, IInv, OneSession
  <2>7. CASE Crash
    BY <1>1, <2>7, CrashRevokes
  <2> QED BY <1>1, <2>1, <2>2, <2>3, <2>4, <2>5, <2>6, <2>7, OthersLeaveTheMeter
          DEF Calibrates
<1>2. IInv /\ [Next]_vars => [Kept]_vars
  BY <1>1
<1> QED BY <1>2, InvariantHolds, PTL DEF Spec, NoSessionLosesTables

\* A verified record names what is in the meter's flash when it is saved,
\* whichever operations put it there and however long ago
\* (_async_verify_after_restart).
THEOREM VerifiedTablesAreInFlash == Spec => VerifiedIsInFlash
<1> DEFINE InFlash == record' # record => \A x \in Tables : record'[x] \in {None, flash[x]}
<1>1. ASSUME IInv, [Next]_vars PROVE InFlash
  <2>1. CASE Calibrates
    BY <1>1, <2>1, CalibrationKeeps, PersistWrites, ConsumeResolves, ClearsAnnounced,
       UnmarkRecovers DEF Calibrates
  <2>2. CASE record' = NoTables
    BY <2>2 DEF NoTables
  <2> QED BY <1>1, <2>1, <2>2, OthersLeaveTheMeter DEF Crash, disk
<1>2. IInv /\ [Next]_vars => [InFlash]_vars
  BY <1>1
<1> QED BY <1>2, InvariantHolds, PTL DEF Spec, VerifiedIsInFlash

\* The flash changes only under a marker on disk, or back to the YAML that the
\* installed firmware has; and only a verified record clears the marker, or
\* whoever recovers the meter under the lease: a crash at any moment leaves an
\* unverified change announced (_persist_interrupted,
\* async_clear_calibration_flash, async_recover_interrupted).
THEOREM RunsHaveMarkers == Spec => RunsAreAnnounced
<1> DEFINE Changes == \A x \in Tables : flash'[x] # flash[x] =>
                        \/ marker /\ marker'
                        \/ flash'[x] = None /\ x \in Named /\ handed # "no"
           Clears == marker /\ ~marker' =>
                       \/ \E x \in Tables : record'[x] # None
                       \/ \E t \in Tasks : lock.owner = t /\ job[t].op = "recover"
<1>1. ASSUME IInv, [Next]_vars PROVE Changes /\ Clears
  <2>1. CASE marker' = marker /\ flash' = flash
    BY <2>1
  <2>2. ASSUME NEW t \in Tasks, Persist(t) PROVE Changes /\ Clears
    <3>1. flash' = flash
      BY <1>1, <2>2, PersistWrites
    <3>2. CASE marker' # marker
      BY <1>1, <2>2, <3>1, <3>2, PersistWrites
    <3> QED BY <2>1, <3>1, <3>2
  <2>3. ASSUME NEW t \in Tasks,
               \/ Origin(t) \/ Mark(t) \/ Run(t) \/ Saved(t) \/ Restart(t)
               \/ Reconcile(t) \/ Select(t)
        PROVE  Changes /\ Clears
    <3>1. /\ marker' \in {marker, TRUE}
          /\ flash' # flash => marker /\ marker' = marker
      BY <1>1, <2>3, CalibrationKeeps
    <3>2. marker => marker'
      <4>1. CASE marker' = marker
        BY <4>1, Zenon
      <4>2. CASE marker' = TRUE
        BY <4>2
      <4> QED BY <3>1, <4>1, <4>2
    <3>3. CASE flash' = flash
      BY <3>2, <3>3, Zenon
    <3>4. CASE flash' # flash
      <4>1. marker
        BY <3>1, <3>4
      <4> QED BY <3>2, <4>1, Zenon
    <3> QED BY <3>3, <3>4
  <2>4. ASSUME NEW t \in Tasks, Unmark(t) PROVE Changes /\ Clears
    BY <1>1, <2>4, UnmarkRecovers
  <2>5. ASSUME NEW t \in Tasks, Clear(t) PROVE Changes /\ Clears
    <3>1. Changes /\ marker' = marker
      BY <1>1, <2>5, ClearsAnnounced
    <3> QED BY <3>1, Zenon
  <2>6. ASSUME NEW t \in Tasks, Consume(t) PROVE marker' = marker /\ flash' = flash
    BY <1>1, <2>6, ConsumeResolves
  <2>7. Crash => marker' = marker /\ flash' = flash
    BY DEF Crash, disk
  <2> QED BY <1>1, <2>1, <2>2, <2>3, <2>4, <2>5, <2>6, <2>7, OthersLeaveTheMeter
          DEF Calibrates
<1>2. IInv /\ [Next]_vars => [Changes /\ Clears]_vars
  BY <1>1
<1> QED BY <1>2, InvariantHolds, PTL DEF Spec, RunsAreAnnounced
=============================================================================
