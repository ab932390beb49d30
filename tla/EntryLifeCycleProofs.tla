------------------------- MODULE EntryLifeCycleProofs -------------------------
(***************************************************************************)
(* Proofs about EntryLifeCycle, for any number of calls, of works and of   *)
(* set-ups: what an unload leaves behind is harmless, a commit survives    *)
(* it, a rebind spares the new sessions, no change of the entries is       *)
(* missed.                                                                 *)
(***************************************************************************)
EXTENDS EntryLifeCycle, TLAPS

WorkType == [pc : {"none", "open"} \cup Live, kind : {"none", "session", "transaction"},
             gen : 0 .. MaxSetups, stage : {"begun", "finished", "again"}, cancelled : BOOLEAN]

BuilderType == [state : {"none", "open", "closing", "closed"}, connected : BOOLEAN]

\* What the proof needs to know of the shape of the state.
Shape ==
  /\ ha \in [by : Calls \cup {"user", None}, reload : BOOLEAN, err : BOOLEAN]
  /\ job \in [Actors -> JobType]
  /\ gen \in 0 .. MaxSetups
  /\ owned \in [Gens -> SUBSET Owners]
  /\ builder \in [Gens -> BuilderType]
  /\ shut \in [Gens -> BOOLEAN]
  /\ lock \in Seq(Calls)
  /\ work \in [Works -> WorkType]

-----------------------------------------------------------------------------
(* The inductive invariant.                                                *)

Making == {"catalog", "discover", "dialing", "asking"}
Closing == {"close", "drain", "builder", "sessions", "wait", "commits", "api", "stop"}
PastDrain == Closing \ {"close", "drain"}
PastBuilder == PastDrain \ {"builder"}

\* The loader works on the newest generation, which is the only one that can be
\* published or have the route: only one that starts to be set up does not.
Loads ==
  LET pc == job[Loader].pc
      kind == job[Loader].kind
  IN
  /\ published \in {0, gen} /\ route \in {0, gen}
  /\ pc \in {"idle", "panel", "begin"} \cup Making \cup Closing
  /\ pc # "idle" => Now = gen /\ gen # 0
  /\ pc = "idle" => Now = 0 /\ route \in {0, published} /\ ha.by = None
  /\ pc \in Making \cup {"panel"} => kind = "setup" /\ published = 0
  /\ pc \in Making \cup Closing => route = 0
  /\ pc = "panel" => route = gen
  /\ pc = "begin" => kind = "unload"
  /\ kind = "unload" => published = gen
  /\ kind = "setup" => published = 0
  /\ pc \in Closing => kind \in {"setup", "unload"}

\* How far the newest generation is made or unmade.
Made ==
  LET pc == job[Loader].pc IN
  /\ pc \in Making => ~shut[gen] /\ "sessions" \notin owned[gen]
  /\ pc = "idle" /\ published = 0 /\ gen # 0 => "provisioning" \notin owned[gen]
  /\ pc \in PastDrain => ~Admits(gen)
  /\ pc \in PastBuilder =>
       /\ Dialers(gen) = {}
       /\ ~ha.err => ~builder[gen].connected /\ "workflow" \notin owned[gen]
  /\ pc \in {"wait", "commits", "api", "stop"} => shut[gen]
  /\ pc \in {"api", "stop"} => "sessions" \notin owned[gen]
  /\ pc = "stop" /\ ~ha.err => "api" \notin owned[gen]
  /\ route # 0 => "sessions" \in owned[gen] /\ ~shut[gen]

\* No generation after the newest has been made.
Unborn ==
  \A g \in Gens : g > gen => owned[g] = {} /\ builder[g] = NoBuilder /\ ~shut[g]

\* A session manager that is shut admits nobody to its builder.
ShutAdmitsNobody == \A g \in Gens : shut[g] => ~Admits(g)

\* The generation has or had a session manager.
Managed(g) == "sessions" \in owned[g] \/ shut[g]

CallStands(c) ==
  /\ job[c].pc \in {"idle", "called", "dialing", "asking", "rebind", "reloading",
                    "preflight", "working"}
  /\ job[c].pc = "idle" <=> job[c].kind = "none"
  /\ job[c].kind \notin {"setup", "unload", "refresh"}
  /\ job[c].pc \in {"idle", "called"} => job[c].gen = 0
  /\ job[c].gen <= gen
  /\ job[c].gen # 0 => Managed(job[c].gen)
  /\ job[c].pc = "preflight" => job[c].kind = "create"
  /\ job[c].pc \in {"preflight", "working"} => job[c].work \in Works
  /\ job[c].pc \in {"dialing", "asking", "preflight", "working"} => job[c].gen # 0
  /\ job[c].pc \in {"rebind", "reloading"} => job[c].kind = "adopt"

\* A refresh is one of the newest generation, which still listens.
RefreshStands ==
  /\ job[Refresh].pc \in {"idle", "sleeping", "dialing", "asking"}
  /\ job[Refresh].pc = "idle" => job[Refresh].gen = 0
  /\ job[Refresh].pc # "idle" =>
       job[Refresh].gen = gen /\ gen # 0 /\ "provisioning" \in owned[gen]

\* What a session or a transaction may still do.
WorkStands(w) ==
  LET g == work[w].gen IN
  work[w].pc # "none" =>
    /\ g \in 1 .. gen /\ Managed(g) /\ work[w].kind # "none"
    /\ work[w].pc \in {"preflight", "running"} /\ shut[g] => work[w].cancelled
    /\ work[w].pc = "committing" => ~work[w].cancelled /\ "sessions" \in owned[g]
    /\ work[w].pc = "running" /\ work[w].kind = "session" =>
         /\ "sessions" \in owned[g]
         /\ g = gen => job[Loader].pc \notin PastDrain

\* An older generation, and the newest when nothing runs, is gone.
Gone(g) == owned[g] = {} /\ ~builder[g].connected /\ Dialers(g) = {}
OldOnesAreGone ==
  \A g \in Gens \ ({published} \cup broken) : g # gen \/ HaIdle => Gone(g)

\* The rebind lock: who holds it, and who waits.
Locks ==
  /\ \A i, j \in DOMAIN lock : lock[i] = lock[j] => i = j
  /\ \A i \in DOMAIN lock : job[lock[i]].kind \in Locked
  /\ \A c \in Calls : job[c].kind \in Locked =>
       \E i \in DOMAIN lock : lock[i] = c /\ (job[c].pc # "called" => i = 1)

\* A session is in its preflight in a call that holds the lock.
Preflights ==
  /\ \A w \in Works : work[w].pc = "preflight" =>
       \E c \in Calls : job[c].pc = "preflight" /\ job[c].work = w
  /\ \A c \in Calls : job[c].pc = "preflight" => work[job[c].work].pc = "preflight"

\* From the check that the helper is idle to the reload, no session is new.
Adopting(c) == job[c].kind = "adopt" /\ job[c].pc # "called"
AdoptionIsAlone ==
  /\ \A c \in Calls : Adopting(c) =>
       \A w \in Works : work[w].pc \in {"preflight", "open", "running"}
                        /\ work[w].kind = "session" /\ work[w].stage = "begun"
                          => work[w].gen # gen
  /\ ha.by \in Calls => job[ha.by].pc = "reloading"

\* What the snapshot shows.
Shows ==
  (published # 0 \/ At(Loader, "panel")) /\ "provisioning" \in owned[gen]
    /\ At(Refresh, "idle") /\ ~missed => snapshot \in {Listing(entries), Guide(entries)}

IInv ==
  /\ Shape /\ Loads /\ Made /\ Unborn /\ ShutAdmitsNobody
  /\ \A c \in Calls : CallStands(c)
  /\ RefreshStands
  /\ \A w \in Works : WorkStands(w)
  /\ OldOnesAreGone
  /\ Locks /\ Preflights /\ AdoptionIsAlone
  /\ Shows

-----------------------------------------------------------------------------
(* Updates of the jobs.                                                    *)

LEMMA ActorsApart ==
  /\ Loader \in Actors /\ Refresh \in Actors /\ Loader # Refresh
  /\ Loader \notin Calls /\ Refresh \notin Calls
  /\ \A a \in Actors : a \in Calls \/ a = Loader \/ a = Refresh
  /\ None \notin Calls /\ "user" \notin Calls /\ None \notin Works
  /\ Calls \subseteq Actors
BY EntryAssumption DEF Actors, Loader, Refresh

LEMMA NoJobType ==
  /\ NoJob \in JobType
  /\ NoJob.pc = "idle" /\ NoJob.kind = "none" /\ NoJob.gen = 0 /\ NoJob.work = None
BY EntryAssumption DEF NoJob, JobType

\* The actor a does j next, and nobody else changes what he does.
Does(a, j) ==
  /\ job' \in [Actors -> JobType]
  /\ job'[a] = j
  /\ \A b \in Actors \ {a} : job'[b] = job[b]

LEMMA DoesFacts ==
  ASSUME Shape, NEW a \in Actors, NEW j \in JobType, job' = [job EXCEPT ![a] = j]
  PROVE  Does(a, j)
BY DEF Shape, Does

Pcs == {"idle", "catalog", "discover", "dialing", "asking", "panel", "begin",
        "close", "drain", "builder", "sessions", "wait", "commits", "api", "stop",
        "called", "rebind", "reloading", "preflight", "working", "sleeping"}

LEMMA GotoFacts ==
  ASSUME Shape, NEW a \in Actors, NEW pc \in Pcs, Goto(a, pc)
  PROVE  /\ Does(a, job'[a])
         /\ job'[a].pc = pc /\ job'[a].kind = job[a].kind
         /\ job'[a].gen = job[a].gen /\ job'[a].work = job[a].work
BY DEF Shape, Goto, Does, JobType, Pcs

-----------------------------------------------------------------------------
(* What a step of the loader leaves alone.                                 *)

\* The loader goes on, within the generation.
LoaderGoes(pc) ==
  /\ Does(Loader, job'[Loader])
  /\ job'[Loader].pc = pc /\ job'[Loader].kind = job[Loader].kind
  /\ job'[Loader].gen = job[Loader].gen

LEMMA CallsFrame ==
  ASSUME IInv, Does(Loader, job'[Loader]), gen' = gen,
         \A g \in Gens : Managed(g) => Managed(g)'
  PROVE  \A c \in Calls : CallStands(c)'
<1> SUFFICES ASSUME NEW c \in Calls PROVE CallStands(c)'
  OBVIOUS
<1>1. job'[c] = job[c] /\ job[c] \in JobType
  BY ActorsApart DEF Does, IInv, Shape
<1>2. job[c].gen # 0 => job[c].gen \in Gens
  BY <1>1, EntryAssumption DEF Gens, JobType
<1> QED BY <1>1, <1>2 DEF IInv, CallStands

LEMMA RefreshFrame ==
  ASSUME IInv, Does(Loader, job'[Loader]), gen' = gen,
         "provisioning" \in owned[gen] => "provisioning" \in owned'[gen]
  PROVE  RefreshStands'
BY ActorsApart DEF Does, IInv, RefreshStands

LEMMA LocksFrame ==
  ASSUME IInv, Does(Loader, job'[Loader]), lock' = lock
  PROVE  Locks'
<1>1. \A c \in Calls : job'[c] = job[c]
  BY ActorsApart DEF Does
<1>2. \A i \in DOMAIN lock : lock[i] \in Calls
  BY DEF IInv, Shape
<1> QED BY <1>1, <1>2 DEF IInv, Locks

\* Sessions begin in no step of the loader.
LEMMA AdoptionFrame ==
  ASSUME IInv, Does(Loader, job'[Loader]), gen' = gen, ha'.by = ha.by,
         \A w \in Works : work'[w].pc # "none" =>
           /\ work'[w].pc = work[w].pc /\ work'[w].kind = work[w].kind
           /\ work'[w].gen = work[w].gen /\ work'[w].stage = work[w].stage,
         \A w \in Works : work[w].pc = "preflight" => work'[w].pc = "preflight"
  PROVE  AdoptionIsAlone' /\ Preflights'
<1>1. \A c \in Calls : job'[c] = job[c]
  BY ActorsApart DEF Does
<1>2. Preflights'
  BY <1>1 DEF IInv, Preflights, CallStands
<1>3. AdoptionIsAlone'
  BY <1>1 DEF IInv, AdoptionIsAlone, Adopting
<1> QED BY <1>2, <1>3

LEMMA DialersFrame ==
  ASSUME IInv, Does(Loader, job'[Loader]), job'[Loader].pc # "dialing", NEW g \in Gens
  PROVE  Dialers(g)' \subseteq Dialers(g)
BY ActorsApart DEF Does, Dialers, At

\* What every teardown step keeps, whichever owner it closes.
LEMMA ClosingFrame ==
  ASSUME IInv, job[Loader].pc # "idle", job[Loader].kind \in {"setup", "unload"},
         NEW pc \in Closing, LoaderGoes(pc),
         UNCHANGED <<gen, published, lock, entries, snapshot, missed, broken>>, route' = 0,
         ha' \in [by : Calls \cup {"user", None}, reload : BOOLEAN, err : BOOLEAN],
         ha'.by = ha.by,
         owned' \in [Gens -> SUBSET Owners], builder' \in [Gens -> BuilderType],
         shut' \in [Gens -> BOOLEAN], work' \in [Works -> WorkType],
         \A g \in Gens \ {gen} :
           owned'[g] = owned[g] /\ builder'[g] = builder[g] /\ shut'[g] = shut[g],
         Managed(gen) => Managed(gen)',
         "provisioning" \in owned[gen] <=> "provisioning" \in owned'[gen],
         \A w \in Works : work'[w].pc # "none" =>
           /\ work'[w].pc = work[w].pc /\ work'[w].kind = work[w].kind
           /\ work'[w].gen = work[w].gen /\ work'[w].stage = work[w].stage,
         \A w \in Works : work[w].pc = "preflight" => work'[w].pc = "preflight",
         Made', ShutAdmitsNobody', \A w \in Works : WorkStands(w)'
  PROVE  IInv'
<1>1. Shape'
  BY DEF IInv, Shape, LoaderGoes, Does
<1>2. Loads'
  BY DEF IInv, Loads, LoaderGoes, Closing, Making, Now
<1>3. Unborn'
  BY EntryAssumption DEF IInv, Unborn, Gens, Shape
<1>4. \A c \in Calls : CallStands(c)'
  BY CallsFrame DEF LoaderGoes, Managed
<1>5. RefreshStands' /\ Locks' /\ Preflights' /\ AdoptionIsAlone'
  BY RefreshFrame, LocksFrame, AdoptionFrame DEF LoaderGoes
<1>6. OldOnesAreGone'
  <2>1. \A g \in Gens : Dialers(g)' \subseteq Dialers(g)
    BY DialersFrame DEF LoaderGoes, Closing
  <2>2. ~HaIdle'
    BY DEF HaIdle, At, LoaderGoes, Closing
  <2> QED BY <2>1, <2>2 DEF IInv, OldOnesAreGone, Gone
<1>7. Shows'
  BY ActorsApart DEF IInv, Shows, LoaderGoes, Does, At, Closing
<1> QED BY <1>1, <1>2, <1>3, <1>4, <1>5, <1>6, <1>7 DEF IInv

\* In a teardown the newest generation is the loader's.
LEMMA ClosingFacts ==
  ASSUME IInv, job[Loader].pc \in Closing \cup {"begin"}
  PROVE  /\ job[Loader].kind \in {"setup", "unload"}
         /\ Now = gen /\ gen \in Gens /\ job[Loader].pc # "idle"
         /\ job[Loader].pc # "begin" => route = 0
<1>1. gen # 0 /\ Now = gen
  BY DEF IInv, Loads, Closing
<1>2. gen \in Gens
  BY <1>1, EntryAssumption DEF IInv, Shape, Gens
<1> QED BY <1>1, <1>2 DEF IInv, Loads, Closing

\* A step of the loader that leaves the works alone.
LEMMA WorksFrame ==
  ASSUME IInv, UNCHANGED <<gen, work, shut>>,
         \A g \in Gens : "sessions" \in owned[g] => "sessions" \in owned'[g],
         job'[Loader].pc \in PastDrain => job[Loader].pc \in PastDrain
  PROVE  \A w \in Works : WorkStands(w)'
<1> SUFFICES ASSUME NEW w \in Works PROVE WorkStands(w)'
  OBVIOUS
<1>1. work[w] \in WorkType
  BY DEF IInv, Shape
<1>2. work[w].pc # "none" => work[w].gen \in Gens
  BY <1>1, EntryAssumption DEF IInv, WorkStands, Gens, WorkType
<1> QED BY <1>1, <1>2 DEF IInv, WorkStands, Managed

LEMMA UnloadBeginsStep ==
  ASSUME IInv, UnloadBegins
  PROVE  IInv'
<1>1. /\ job[Loader].pc = "begin" /\ LoaderGoes("close") /\ route' = 0
      /\ UNCHANGED <<ha, gen, owned, builder, shut, published, lock, work, entries, snapshot,
                     missed, broken>>
  BY GotoFacts, ActorsApart DEF IInv, UnloadBegins, At, LoaderGoes, owners, discovery, Pcs
<1>2. Made' /\ ShutAdmitsNobody'
  BY <1>1 DEF IInv, Made, ShutAdmitsNobody, LoaderGoes, Making, PastDrain, PastBuilder,
     Closing, Admits
<1>3. \A w \in Works : WorkStands(w)'
  BY <1>1, WorksFrame DEF LoaderGoes, PastDrain, Closing
<1>4. UNCHANGED <<owned, builder, shut>> => (Managed(gen) => Managed(gen)') \/ gen' # gen
  BY DEF Managed
<1> QED BY <1>1, <1>2, <1>3, <1>4, ClosingFacts, ClosingFrame DEF IInv, Shape, Closing

LEMMA CloseWorkflowStep ==
  ASSUME IInv, CloseWorkflow
  PROVE  IInv'
<1>1. /\ job[Loader].pc = "close" /\ LoaderGoes("drain") /\ route' = 0
      /\ UNCHANGED <<ha, gen, owned, builder, shut, published, lock, entries, snapshot,
                     missed, broken>>
  BY GotoFacts, ClosingFacts, ActorsApart
     DEF IInv, CloseWorkflow, At, LoaderGoes, owners, discovery, hass, Pcs, Closing
<1>2. /\ work' \in [Works -> WorkType]
      /\ \A w \in Works :
           /\ work'[w].pc = work[w].pc /\ work'[w].kind = work[w].kind
           /\ work'[w].gen = work[w].gen /\ work'[w].stage = work[w].stage
           /\ work[w].cancelled => work'[w].cancelled
           /\ work[w].pc = "committing" => work'[w].cancelled = work[w].cancelled
  BY DEF CloseWorkflow, OfGen, IInv, Shape, WorkType
<1>3. Made' /\ ShutAdmitsNobody'
  BY <1>1 DEF IInv, Made, ShutAdmitsNobody, LoaderGoes, Making, PastDrain, PastBuilder,
     Closing, Admits
<1>4. \A w \in Works : WorkStands(w)'
  BY <1>1, <1>2 DEF LoaderGoes, PastDrain, Closing, IInv, WorkStands, Managed
<1>5. Managed(gen) => Managed(gen)'
  BY <1>1 DEF Managed
<1> QED BY <1>1, <1>2, <1>3, <1>4, <1>5, ClosingFacts, ClosingFrame DEF IInv, Shape, Closing

LEMMA DrainSessionsStep ==
  ASSUME IInv, DrainSessions
  PROVE  IInv'
<1>1. /\ job[Loader].pc = "drain" /\ LoaderGoes("builder") /\ route' = 0
      /\ UNCHANGED <<ha, gen, owned, shut, published, lock, entries, snapshot, missed, broken>>
  BY GotoFacts, ClosingFacts, ActorsApart
     DEF IInv, DrainSessions, At, LoaderGoes, discovery, hass, Pcs, Closing
<1>2. Now = gen /\ gen \in Gens
  BY <1>1, ClosingFacts DEF Closing
<1>3. /\ work' \in [Works -> WorkType]
      /\ \A w \in Works : work'[w] = work[w] \/ work'[w].pc = "none"
      /\ \A w \in OfGen(gen, {"running"}) : work[w].kind # "session"
      /\ \A w \in Works : work[w].pc = "preflight" => work'[w].pc = "preflight"
  <2>1. NoWork \in WorkType /\ NoWork.pc = "none"
    BY EntryAssumption DEF NoWork, WorkType
  <2>2. work' = [w \in Works |->
           IF w \in OfGen(Now, {"open"}) /\ work[w].kind = "session" THEN NoWork ELSE work[w]]
    BY DEF DrainSessions
  <2>3. Draining(gen) = {}
    BY <1>2 DEF DrainSessions
  <2> QED BY <2>1, <2>2, <2>3 DEF Draining, OfGen, IInv, Shape
<1>4. /\ builder' \in [Gens -> BuilderType]
      /\ \A g \in Gens \ {gen} : builder'[g] = builder[g]
      /\ builder'[gen].state # "open"
      /\ builder'[gen].connected = builder[gen].connected
  BY <1>2 DEF DrainSessions, IInv, Shape, BuilderType
<1>5. Made'
  BY <1>1, <1>2, <1>4 DEF IInv, Made, LoaderGoes, Making, PastDrain, PastBuilder, Closing, Admits
<1>6. ShutAdmitsNobody'
  BY <1>1, <1>2, <1>4 DEF IInv, ShutAdmitsNobody, Admits
<1>7. \A w \in Works : WorkStands(w)'
  BY <1>1, <1>3 DEF LoaderGoes, PastDrain, Closing, IInv, WorkStands, Managed, OfGen
<1>8. Managed(gen) => Managed(gen)'
  BY <1>1 DEF Managed
<1> QED BY <1>1, <1>3, <1>4, <1>5, <1>6, <1>7, <1>8, ClosingFacts, ClosingFrame
        DEF IInv, Shape, Closing

LEMMA CloseBuilderStep ==
  ASSUME IInv, CloseBuilder
  PROVE  IInv'
<1>1. /\ job[Loader].pc = "builder" /\ LoaderGoes("sessions") /\ route' = 0
      /\ UNCHANGED <<gen, shut, published, lock, work, entries, snapshot, missed, broken>>
      /\ Dialers(Now) = {}
  BY GotoFacts, ClosingFacts, ActorsApart
     DEF IInv, CloseBuilder, Closable, At, LoaderGoes, discovery, Pcs, Closing
<1>2. Now = gen /\ gen \in Gens
  BY <1>1, ClosingFacts DEF Closing
<1>3. /\ builder' \in [Gens -> BuilderType]
      /\ \A g \in Gens \ {gen} : builder'[g] = builder[g]
      /\ builder[gen].state # "open" => builder'[gen].state # "open"
      /\ owned' \in [Gens -> SUBSET Owners]
      /\ \A g \in Gens \ {gen} : owned'[g] = owned[g]
      /\ \A x \in {"sessions", "provisioning", "api"} : x \in owned[gen] <=> x \in owned'[gen]
      /\ ha' \in [by : Calls \cup {"user", None}, reload : BOOLEAN, err : BOOLEAN]
      /\ ha'.by = ha.by
      /\ ha'.err \/ (~builder'[gen].connected /\ "workflow" \notin owned'[gen])
  <2>1. CASE /\ builder' = [builder EXCEPT ![Now].connected = FALSE,
                                           ![Now].state = IF @ = "closing" THEN "closed" ELSE @]
             /\ owned' = [owned EXCEPT ![Now] = @ \ {"workflow"}]
             /\ UNCHANGED <<ha, faults>>
    BY <1>2, <2>1 DEF IInv, Shape, BuilderType, Owners
  <2>2. CASE /\ builder[Now].state = "closing" /\ Fault
             /\ ha' = [ha EXCEPT !.err = TRUE]
             /\ UNCHANGED <<builder, owned>>
    BY <1>2, <2>2 DEF IInv, Shape
  <2> QED BY <2>1, <2>2 DEF CloseBuilder
<1>4. Dialers(gen)' = {}
  BY <1>1, <1>2, DialersFrame DEF LoaderGoes
<1>5. Made'
  BY <1>1, <1>2, <1>3, <1>4
     DEF IInv, Made, LoaderGoes, Making, PastDrain, PastBuilder, Closing, Admits
<1>6. ShutAdmitsNobody'
  BY <1>1, <1>2, <1>3 DEF IInv, ShutAdmitsNobody, Admits
<1>7. \A w \in Works : WorkStands(w)'
  BY <1>1, <1>3, WorksFrame DEF LoaderGoes, PastDrain, Closing
<1>8. Managed(gen) => Managed(gen)'
  BY <1>1, <1>3 DEF Managed
<1> QED BY <1>1, <1>3, <1>5, <1>6, <1>7, <1>8, ClosingFacts, ClosingFrame
        DEF IInv, Shape, Closing

LEMMA UnloadSessionsStep ==
  ASSUME IInv, UnloadSessions
  PROVE  IInv'
<1>1. /\ job[Loader].pc = "sessions" /\ LoaderGoes("wait") /\ route' = 0
      /\ UNCHANGED <<ha, gen, owned, builder, published, lock, entries, snapshot, missed, broken>>
  BY GotoFacts, ClosingFacts, ActorsApart
     DEF IInv, UnloadSessions, At, LoaderGoes, discovery, hass, Pcs, Closing
<1>2. Now = gen /\ gen \in Gens
  BY <1>1, ClosingFacts DEF Closing
<1>3. /\ shut' \in [Gens -> BOOLEAN] /\ shut'[gen]
      /\ \A g \in Gens \ {gen} : shut'[g] = shut[g]
  BY <1>2 DEF UnloadSessions, IInv, Shape
<1>4. /\ work' \in [Works -> WorkType]
      /\ \A w \in Works :
           /\ work'[w].pc = work[w].pc /\ work'[w].kind = work[w].kind
           /\ work'[w].gen = work[w].gen /\ work'[w].stage = work[w].stage
           /\ work[w].cancelled => work'[w].cancelled
           /\ work[w].pc = "committing" => work'[w].cancelled = work[w].cancelled
           /\ work[w].gen = gen /\ work[w].pc \in {"preflight", "running"} => work'[w].cancelled
  <2> DEFINE stopped(w) == work[w].gen = gen /\ work[w].pc \in Live \ {"committing"}
  <2>1. work' = [w \in Works |-> IF stopped(w) THEN [work[w] EXCEPT !.cancelled = TRUE]
                                               ELSE work[w]]
    BY <1>2 DEF UnloadSessions, Protected, OfGen, Live
  <2>2. ASSUME NEW w \in Works
        PROVE  /\ [work[w] EXCEPT !.cancelled = TRUE] \in WorkType /\ work[w] \in WorkType
               /\ work'[w] = IF stopped(w) THEN [work[w] EXCEPT !.cancelled = TRUE] ELSE work[w]
    BY <2>1 DEF IInv, Shape, WorkType
  <2>3. work' \in [Works -> WorkType]
    BY <2>1, <2>2
  <2>4. ASSUME NEW w \in Works
        PROVE  /\ work'[w].pc = work[w].pc /\ work'[w].kind = work[w].kind
               /\ work'[w].gen = work[w].gen /\ work'[w].stage = work[w].stage
               /\ work[w].cancelled => work'[w].cancelled
               /\ work[w].pc = "committing" => work'[w].cancelled = work[w].cancelled
               /\ stopped(w) => work'[w].cancelled
    <3>1. CASE stopped(w)
      <4>1. work'[w] = [work[w] EXCEPT !.cancelled = TRUE] /\ work[w] \in WorkType
        BY <2>2, <3>1
      <4>2. /\ work'[w].pc = work[w].pc /\ work'[w].kind = work[w].kind
            /\ work'[w].gen = work[w].gen /\ work'[w].stage = work[w].stage
            /\ work'[w].cancelled
        BY <4>1 DEF WorkType
      <4> QED BY <3>1, <4>2
    <3>2. CASE ~stopped(w)
      BY <2>2, <3>2 DEF WorkType
    <3> QED BY <3>1, <3>2
  <2> QED BY <2>3, <2>4 DEF Live
<1>5. Dialers(gen)' = {}
  BY <1>1, <1>2, DialersFrame DEF LoaderGoes, IInv, Made, PastBuilder, PastDrain, Closing
<1>6. Made'
  BY <1>1, <1>2, <1>3, <1>5
     DEF IInv, Made, LoaderGoes, Making, PastDrain, PastBuilder, Closing, Admits
<1>7. ShutAdmitsNobody'
  BY <1>1, <1>3 DEF IInv, ShutAdmitsNobody, Admits, Made, PastDrain, Closing
<1>8. ASSUME NEW w \in Works PROVE WorkStands(w)'
  <2>1. work[w].pc # "none" => work[w].gen \in Gens
    BY EntryAssumption DEF IInv, Shape, WorkStands, Gens, WorkType
  <2> QED BY <1>1, <1>3, <1>4, <2>1
          DEF LoaderGoes, PastDrain, Closing, IInv, WorkStands, Managed
<1>9. Managed(gen)'
  BY <1>1, <1>3 DEF Managed
<1> QED BY <1>1, <1>3, <1>4, <1>6, <1>7, <1>8, <1>9, ClosingFacts, ClosingFrame
        DEF IInv, Shape, Closing

LEMMA TasksStep ==
  ASSUME IInv, TasksEnd \/ TasksTimeOut
  PROVE  IInv'
<1>1. /\ job[Loader].pc = "wait" /\ LoaderGoes("commits") /\ route' = 0
      /\ UNCHANGED <<ha, gen, owned, builder, shut, published, lock, work, entries, snapshot,
                     missed, broken>>
  BY GotoFacts, ClosingFacts, ActorsApart
     DEF IInv, TasksEnd, TasksTimeOut, At, LoaderGoes, owners, discovery, hass, Pcs, Closing
<1>2. gen \in Gens
  BY <1>1, ClosingFacts DEF Closing
<1>3. Dialers(gen)' = {}
  BY <1>1, <1>2, DialersFrame DEF LoaderGoes, IInv, Made, PastBuilder, PastDrain, Closing
<1>4. Made' /\ ShutAdmitsNobody'
  BY <1>1, <1>3 DEF IInv, Made, ShutAdmitsNobody, LoaderGoes, Making, PastDrain, PastBuilder,
     Closing, Admits
<1>5. \A w \in Works : WorkStands(w)'
  BY <1>1, WorksFrame DEF LoaderGoes, PastDrain, Closing
<1>6. Managed(gen) => Managed(gen)'
  BY <1>1 DEF Managed
<1> QED BY <1>1, <1>4, <1>5, <1>6, ClosingFacts, ClosingFrame DEF IInv, Shape, Closing

LEMMA ReleaseSessionsStep ==
  ASSUME IInv, ReleaseSessions
  PROVE  IInv'
<1>1. /\ job[Loader].pc = "commits" /\ LoaderGoes("api") /\ route' = 0
      /\ UNCHANGED <<gen, builder, shut, published, lock, entries, snapshot, missed, broken>>
  BY GotoFacts, ClosingFacts, ActorsApart
     DEF IInv, ReleaseSessions, At, LoaderGoes, discovery, Pcs, Closing
<1>2. Now = gen /\ gen \in Gens
  BY <1>1, ClosingFacts DEF Closing
<1>3. /\ work' \in [Works -> WorkType]
      /\ \A w \in Works : work'[w] = work[w] \/ work'[w].pc = "none"
      /\ \A w \in Works : ~(work[w].gen = gen /\ work[w].pc = "committing")
      /\ \A w \in Works : work[w].pc = "preflight" => work'[w].pc = "preflight"
  <2>1. NoWork \in WorkType /\ NoWork.pc = "none"
    BY EntryAssumption DEF NoWork, WorkType
  <2>2. work' = [w \in Works |-> IF w \in OfGen(Now, {"open"}) THEN NoWork ELSE work[w]]
    BY DEF ReleaseSessions
  <2>3. Protected(gen) = {}
    BY <1>2 DEF ReleaseSessions, Drained
  <2> QED BY <2>1, <2>2, <2>3 DEF Protected, OfGen, IInv, Shape
<1>4. /\ owned' \in [Gens -> SUBSET Owners]
      /\ \A g \in Gens \ {gen} : owned'[g] = owned[g]
      /\ owned'[gen] = owned[gen] \ {"sessions"}
      /\ ha' \in [by : Calls \cup {"user", None}, reload : BOOLEAN, err : BOOLEAN]
      /\ ha'.by = ha.by /\ (ha.err => ha'.err)
  BY <1>2 DEF ReleaseSessions, IInv, Shape
<1>5. Dialers(gen)' = {}
  BY <1>1, <1>2, DialersFrame DEF LoaderGoes, IInv, Made, PastBuilder, PastDrain, Closing
<1>6. Made'
  BY <1>1, <1>4, <1>5
     DEF IInv, Made, LoaderGoes, Making, PastDrain, PastBuilder, Closing, Admits
<1>7. ShutAdmitsNobody'
  BY <1>1 DEF IInv, ShutAdmitsNobody, Admits
<1>8. shut[gen]
  BY <1>1 DEF IInv, Made
<1>9. ASSUME NEW w \in Works PROVE WorkStands(w)'
  <2>1. work[w].pc # "none" => work[w].gen \in Gens
    BY EntryAssumption DEF IInv, Shape, WorkStands, Gens, WorkType
  <2> QED BY <1>1, <1>3, <1>4, <1>8, <2>1
          DEF LoaderGoes, PastDrain, Closing, IInv, WorkStands, Managed
<1>10. Managed(gen)'
  BY <1>1, <1>8 DEF Managed
<1> QED BY <1>1, <1>3, <1>4, <1>6, <1>7, <1>9, <1>10, ClosingFacts, ClosingFrame
        DEF IInv, Shape, Closing

LEMMA CloseApiStep ==
  ASSUME IInv, CloseApi
  PROVE  IInv'
<1>1. /\ job[Loader].pc = "api" /\ LoaderGoes("stop") /\ route' = 0
      /\ UNCHANGED <<gen, builder, shut, published, lock, work, entries, snapshot, missed, broken>>
  BY GotoFacts, ClosingFacts, ActorsApart
     DEF IInv, CloseApi, At, LoaderGoes, discovery, Pcs, Closing
<1>2. Now = gen /\ gen \in Gens
  BY <1>1, ClosingFacts DEF Closing
<1>3. /\ owned' \in [Gens -> SUBSET Owners]
      /\ \A g \in Gens \ {gen} : owned'[g] = owned[g]
      /\ owned'[gen] \in {owned[gen], owned[gen] \ {"api"}}
      /\ ha' \in [by : Calls \cup {"user", None}, reload : BOOLEAN, err : BOOLEAN]
      /\ ha'.by = ha.by /\ (ha.err => ha'.err)
      /\ ha'.err \/ "api" \notin owned'[gen]
  BY <1>2 DEF CloseApi, IInv, Shape
<1>4. Dialers(gen)' = {}
  BY <1>1, <1>2, DialersFrame DEF LoaderGoes, IInv, Made, PastBuilder, PastDrain, Closing
<1>5. Made'
  BY <1>1, <1>3, <1>4
     DEF IInv, Made, LoaderGoes, Making, PastDrain, PastBuilder, Closing, Admits
<1>6. ShutAdmitsNobody'
  BY <1>1 DEF IInv, ShutAdmitsNobody, Admits
<1>7. \A w \in Works : WorkStands(w)'
  BY <1>1, <1>3, WorksFrame DEF LoaderGoes, PastDrain, Closing
<1>8. Managed(gen) => Managed(gen)'
  BY <1>1, <1>3 DEF Managed
<1> QED BY <1>1, <1>3, <1>5, <1>6, <1>7, <1>8, ClosingFacts, ClosingFrame
        DEF IInv, Shape, Closing

\* The loader has the last owner stopped: it goes idle, or sets up again.
LEMMA StopProvisioningStep ==
  ASSUME IInv, StopProvisioning
  PROVE  IInv'
<1> DEFINE again == job[Loader].kind = "unload" /\ ha.reload /\ ~ha.err /\ gen < MaxSetups
<1>1. /\ job[Loader].pc = "stop" /\ route = 0 /\ route' = 0
      /\ UNCHANGED <<builder, shut, lock, work, entries, snapshot, missed>>
  BY ClosingFacts DEF StopProvisioning, At, discovery, Closing
<1>2. Now = gen /\ gen \in Gens /\ job[Loader].kind \in {"setup", "unload"}
  BY <1>1, ClosingFacts DEF Closing
<1>3. /\ owned' \in [Gens -> SUBSET Owners]
      /\ \A g \in Gens \ {gen} : owned'[g] = owned[g]
      /\ owned'[gen] = owned[gen] \ {"provisioning"}
      /\ broken' = IF ha.err THEN broken \cup {gen} ELSE broken
      /\ published' = IF ha.err \/ job[Loader].kind = "setup" THEN published ELSE 0
  BY <1>1, <1>2 DEF StopProvisioning, IInv, Shape
<1>4. /\ gen' = IF again THEN gen + 1 ELSE gen
      /\ ha' = IF again THEN ha ELSE Quiet
  BY DEF StopProvisioning
<1>5. /\ job' \in [Actors -> JobType]
      /\ \A c \in Calls : job'[c] = job[c]
      /\ job'[Loader] = IF again THEN Fresh ELSE NoJob
      /\ job'[Refresh] = IF job[Refresh].gen = gen THEN NoJob ELSE job[Refresh]
  <2>1. again => Fresh \in JobType
    BY <1>2, EntryAssumption DEF Fresh, JobType, Gens
  <2>2. job' = [job EXCEPT ![Loader] = IF again THEN Fresh ELSE NoJob,
                           ![Refresh] = IF @.gen = Now THEN NoJob ELSE @]
    BY DEF StopProvisioning
  <2> QED BY <1>2, <2>1, <2>2, NoJobType, ActorsApart DEF IInv, Shape
<1> HIDE DEF again
<1>6. /\ gen' \in 0 .. MaxSetups /\ (again => gen' \in Gens)
      /\ gen \in Nat /\ gen' >= gen
  BY <1>2, <1>4, EntryAssumption DEF again, Gens
<1>7. /\ job'[Refresh].pc = "idle" /\ job'[Refresh].gen = 0
  BY <1>5, NoJobType DEF IInv, RefreshStands
<1>8. ha' \in [by : Calls \cup {"user", None}, reload : BOOLEAN, err : BOOLEAN]
  BY <1>4 DEF IInv, Shape, Quiet
<1>9. Shape'
  BY <1>1, <1>3, <1>5, <1>6, <1>8 DEF IInv, Shape
<1>10. /\ again => /\ job'[Loader].pc = "catalog" /\ job'[Loader].kind = "setup"
                   /\ job'[Loader].gen = gen'
       /\ ~again => job'[Loader].pc = "idle" /\ job'[Loader].kind = "none"
                    /\ job'[Loader].gen = 0
  BY <1>4, <1>5, NoJobType DEF Fresh
<1>11. again => /\ ~ha.err /\ published' = 0 /\ job[Loader].kind = "unload"
                /\ gen' = gen + 1 /\ owned'[gen'] = {} /\ ~shut[gen'] /\ owned[gen'] = {}
  BY <1>2, <1>3, <1>4, <1>6 DEF again, IInv, Unborn, Gens
<1>12. Loads'
  <2>1. CASE again
    BY <1>1, <1>2, <1>6, <1>10, <1>11, <2>1 DEF Loads, Making, Closing, Now
  <2>2. CASE ~again
    <3>1. published' \in {0, gen}
      BY <1>3 DEF IInv, Loads
    <3> QED BY <1>1, <1>4, <1>10, <2>2, <3>1 DEF Loads, Making, Closing, Now, Quiet
  <2> QED BY <2>1, <2>2
<1>13. Made'
  <2>1. CASE again
    BY <1>1, <1>10, <1>11, <2>1 DEF Made, Making, PastDrain, PastBuilder, Closing
  <2>2. CASE ~again
    BY <1>1, <1>3, <1>4, <1>10, <2>2 DEF Made, Making, PastDrain, PastBuilder, Closing
  <2> QED BY <2>1, <2>2
<1>14. Unborn'
  BY <1>1, <1>2, <1>3, <1>6, EntryAssumption DEF IInv, Unborn, Gens
<1>15. ShutAdmitsNobody'
  BY <1>1 DEF IInv, ShutAdmitsNobody, Admits
<1>16. \A g \in Gens : "sessions" \in owned'[g] <=> "sessions" \in owned[g]
  BY <1>2, <1>3
<1>17. ASSUME NEW c \in Calls PROVE CallStands(c)'
  <2>1. job'[c] = job[c] /\ job[c] \in JobType /\ job[c].gen <= gen
    BY <1>5, ActorsApart DEF IInv, Shape, CallStands
  <2>2. job[c].gen # 0 => job[c].gen \in Gens
    BY <2>1, EntryAssumption DEF Gens, JobType
  <2>3. job[c].gen <= gen'
    BY <1>6, <2>1, EntryAssumption DEF JobType
  <2> QED BY <1>1, <1>16, <2>1, <2>2, <2>3 DEF IInv, CallStands, Managed
<1>18. RefreshStands'
  BY <1>7 DEF RefreshStands
<1>19. ASSUME NEW w \in Works PROVE WorkStands(w)'
  <2>1. work[w].pc # "none" => work[w].gen \in 1 .. gen /\ work[w].gen \in Gens
                               /\ work[w].gen \in 1 .. gen'
    BY <1>2, <1>6, EntryAssumption DEF IInv, Shape, WorkStands, Gens, WorkType
  <2>2. job'[Loader].pc \notin PastDrain
    BY <1>10 DEF PastDrain, Closing
  <2> QED BY <1>1, <1>16, <2>1, <2>2 DEF IInv, WorkStands, Managed
<1>20. OldOnesAreGone'
  <2> SUFFICES ASSUME NEW g \in Gens, g # published', g \notin broken'
               PROVE  Gone(g)'
    BY DEF OldOnesAreGone
  <2>1. Dialers(g)' \subseteq Dialers(g)
    BY <1>5, <1>7, <1>10, ActorsApart DEF Dialers, At
  <2>2. CASE g = gen
    <3>1. ~ha.err
      BY <1>3, <2>2
    <3>2. owned[gen] \subseteq {"provisioning"} /\ ~builder[gen].connected /\ Dialers(gen) = {}
      BY <1>1, <1>2, <3>1 DEF IInv, Made, Shape, Owners, PastBuilder, PastDrain, Closing
    <3> QED BY <1>1, <1>3, <2>1, <2>2, <3>2 DEF Gone
  <2>3. CASE g # gen
    <3>1. g # published
      BY <1>3, <2>3 DEF IInv, Loads
    <3>2. Gone(g)
      BY <1>3, <2>3, <3>1 DEF IInv, OldOnesAreGone
    <3> QED BY <1>1, <1>3, <2>1, <2>3, <3>2 DEF Gone
  <2> QED BY <2>2, <2>3
<1>21. Locks'
  <2>1. \A i \in DOMAIN lock : lock[i] \in Calls
    BY DEF IInv, Shape
  <2> QED BY <1>1, <1>5, <2>1 DEF IInv, Locks
<1>22. Preflights'
  BY <1>1, <1>5 DEF IInv, Preflights
<1>23. AdoptionIsAlone'
  <2>1. \A w \in Works : work[w].pc # "none" /\ work[w].gen = gen' => gen' = gen
    <3> SUFFICES ASSUME NEW w \in Works, work[w].pc # "none", work[w].gen = gen'
                 PROVE  gen' = gen
      OBVIOUS
    <3>1. work[w].gen \in 1 .. gen
      BY DEF IInv, WorkStands
    <3> QED BY <1>6, <3>1
  <2>2. ha'.by \in Calls => ha'.by = ha.by
    BY <1>4, ActorsApart DEF Quiet
  <2> QED BY <1>1, <1>5, <2>1, <2>2 DEF IInv, AdoptionIsAlone, Adopting
<1>24. Shows'
  <2>1. CASE again
    BY <1>10, <1>11, <2>1 DEF Shows, At
  <2>2. CASE ~again
    BY <1>2, <1>3, <1>4, <1>10, <2>2 DEF Shows, At
  <2> QED BY <2>1, <2>2
<1> QED BY <1>9, <1>12, <1>13, <1>14, <1>15, <1>17, <1>18, <1>19, <1>20, <1>21, <1>22,
           <1>23, <1>24 DEF IInv

-----------------------------------------------------------------------------
(* Set-up.                                                                 *)

\* What the steps of a set-up keep that do not make the owners.
LEMMA MakingFrame ==
  ASSUME IInv, job[Loader].pc \in Making, NEW pc \in Making, LoaderGoes(pc),
         UNCHANGED <<ha, gen, shut, published, route, lock, work, entries, snapshot, missed,
                     broken>>,
         owned' \in [Gens -> SUBSET Owners], builder' \in [Gens -> BuilderType],
         \A g \in Gens \ {gen} : owned'[g] = owned[g] /\ builder'[g] = builder[g],
         "sessions" \notin owned'[gen],
         "provisioning" \in owned[gen] => "provisioning" \in owned'[gen]
  PROVE  IInv'
<1>1. /\ Now = gen /\ gen \in Gens /\ ~shut[gen] /\ "sessions" \notin owned[gen] /\ route = 0
      /\ published = 0 /\ job[Loader].kind = "setup"
  BY EntryAssumption DEF IInv, Loads, Made, Shape, Gens, Making
<1>2. Shape'
  BY DEF IInv, Shape, LoaderGoes, Does
<1>3. Loads'
  BY <1>1 DEF IInv, Loads, LoaderGoes, Closing, Making, Now
<1>4. Made'
  BY <1>1 DEF Made, LoaderGoes, Making, PastDrain, PastBuilder, Closing
<1>5. Unborn'
  BY <1>1, EntryAssumption DEF IInv, Unborn, Gens
<1>6. ShutAdmitsNobody'
  BY <1>1 DEF IInv, ShutAdmitsNobody, Admits
<1>7. \A g \in Gens : "sessions" \in owned[g] => "sessions" \in owned'[g]
  BY <1>1
<1>8. \A c \in Calls : CallStands(c)'
  BY <1>7, CallsFrame DEF LoaderGoes, Managed
<1>9. RefreshStands' /\ Locks' /\ Preflights' /\ AdoptionIsAlone'
  BY RefreshFrame, LocksFrame, AdoptionFrame DEF LoaderGoes
<1>10. \A w \in Works : WorkStands(w)'
  BY <1>7, WorksFrame DEF LoaderGoes, PastDrain, Closing, Making
<1>11. OldOnesAreGone'
  <2>1. ~HaIdle'
    BY DEF HaIdle, At, LoaderGoes, Making
  <2>2. \A g \in Gens \ {gen} : Dialers(g)' \subseteq Dialers(g)
    BY <1>1, ActorsApart DEF LoaderGoes, Does, Dialers, At, Now
  <2> QED BY <2>1, <2>2 DEF IInv, OldOnesAreGone, Gone
<1>12. Shows'
  BY <1>1 DEF Shows, LoaderGoes, At, Making
<1> QED BY <1>2, <1>3, <1>4, <1>5, <1>6, <1>8, <1>9, <1>10, <1>11, <1>12 DEF IInv

LEMMA SetupCatalogStep ==
  ASSUME IInv, SetupCatalog
  PROVE  IInv'
<1>1. /\ job[Loader].pc = "catalog" /\ LoaderGoes("discover")
      /\ UNCHANGED <<ha, gen, owned, builder, shut, published, route, lock, work, entries,
                     snapshot, missed, broken>>
  BY GotoFacts, ActorsApart
     DEF IInv, SetupCatalog, At, LoaderGoes, owners, discovery, hass, Pcs
<1> QED BY <1>1, MakingFrame DEF IInv, Shape, Made, Making

LEMMA SetupDiscoverStep ==
  ASSUME IInv, SetupDiscover
  PROVE  IInv'
<1>1. PICK found \in {"open", "none"} :
        /\ builder' = [builder EXCEPT ![Now].state = found]
        /\ Goto(Loader, IF found = "open" THEN "dialing" ELSE "asking")
  BY DEF SetupDiscover
<1>2. PICK pc \in {"dialing", "asking"} : Goto(Loader, pc)
  BY <1>1
<1>3. /\ job[Loader].pc = "discover" /\ LoaderGoes(pc)
      /\ UNCHANGED <<ha, gen, shut, published, route, lock, work, entries, snapshot, missed,
                     broken>>
  BY <1>2, GotoFacts, ActorsApart
     DEF IInv, SetupDiscover, At, LoaderGoes, discovery, hass, Pcs
<1>4. Now = gen /\ gen \in Gens
  BY <1>3, EntryAssumption DEF IInv, Loads, Shape, Gens
<1>5. /\ builder' \in [Gens -> BuilderType]
      /\ \A g \in Gens \ {gen} : builder'[g] = builder[g]
  BY <1>1, <1>4 DEF IInv, Shape, BuilderType
<1>6. /\ owned' \in [Gens -> SUBSET Owners] /\ owned'[gen] = {"provisioning"}
      /\ \A g \in Gens \ {gen} : owned'[g] = owned[g]
  BY <1>4 DEF SetupDiscover, IInv, Shape, Owners
<1> QED BY <1>3, <1>5, <1>6, MakingFrame DEF Making

\* The loader connects the builder it found.
LEMMA LoaderDialStep ==
  ASSUME IInv, Dial(Loader)
  PROVE  IInv'
<1>1. /\ job[Loader].pc = "dialing" /\ LoaderGoes("asking")
      /\ UNCHANGED <<ha, gen, owned, shut, published, route, lock, work, entries, snapshot,
                     missed, broken>>
  BY GotoFacts, ActorsApart DEF IInv, Dial, At, LoaderGoes, discovery, hass, Pcs
<1>2. Now = gen /\ gen \in Gens
  BY <1>1, EntryAssumption DEF IInv, Loads, Shape, Gens
<1>3. /\ builder' \in [Gens -> BuilderType]
      /\ \A g \in Gens \ {gen} : builder'[g] = builder[g]
  BY <1>2 DEF Dial, Now, IInv, Shape, BuilderType
<1> QED BY <1>1, <1>3, MakingFrame DEF IInv, Shape, Made, Making

LEMMA SetupFailsStep ==
  ASSUME IInv, SetupFails
  PROVE  IInv'
<1>1. /\ job[Loader].pc \in {"panel", "catalog", "discover", "dialing", "asking"}
      /\ LoaderGoes("close")
      /\ UNCHANGED <<ha, gen, owned, builder, shut, published, lock, work, entries, snapshot,
                     missed, broken>>
  BY GotoFacts, ActorsApart
     DEF IInv, SetupFails, Unanswered, At, LoaderGoes, owners, discovery, Pcs
<1>2. /\ job[Loader].kind = "setup" /\ Now = gen /\ route' = 0
  BY <1>1 DEF SetupFails, IInv, Loads, Making
<1>3. Made' /\ ShutAdmitsNobody'
  BY <1>1, <1>2 DEF IInv, Made, ShutAdmitsNobody, LoaderGoes, Making, PastDrain,
     PastBuilder, Closing, Admits
<1>4. \A w \in Works : WorkStands(w)'
  BY <1>1, WorksFrame DEF LoaderGoes, PastDrain, Closing
<1>5. Managed(gen) => Managed(gen)'
  BY <1>1 DEF Managed
<1> QED BY <1>1, <1>2, <1>3, <1>4, <1>5, ClosingFrame DEF IInv, Shape, Closing

\* What publishing the runtime, and before it the owners, keep.
LEMMA OwnersFrame ==
  ASSUME IInv, job[Loader].pc \in {"asking", "panel"},
         Does(Loader, job'[Loader]),
         \/ /\ job'[Loader] = NoJob /\ published' = gen /\ ha' = Quiet
         \/ /\ LoaderGoes("panel") /\ UNCHANGED <<ha, published>>,
         UNCHANGED <<gen, builder, shut, lock, work, entries, broken>>,
         owned' \in [Gens -> SUBSET Owners],
         \A g \in Gens \ {gen} : owned'[g] = owned[g],
         \/ owned' = owned /\ UNCHANGED <<snapshot, missed>> /\ job[Loader].pc = "panel"
         \/ owned'[gen] = Owners /\ snapshot' = Listing(entries) /\ ~shut[gen],
         route' = gen
  PROVE  IInv'
<1>1. /\ Now = gen /\ gen \in Gens /\ gen # 0 /\ published = 0
      /\ job[Loader].kind = "setup"
  BY EntryAssumption DEF IInv, Loads, Shape, Gens, Making
<1>2. \/ /\ job'[Loader].pc = "idle" /\ job'[Loader].kind = "none" /\ job'[Loader].gen = 0
         /\ published' = gen /\ ha' = Quiet
      \/ /\ job'[Loader].pc = "panel" /\ job'[Loader].kind = "setup"
         /\ job'[Loader].gen = gen /\ published' = 0 /\ ha' = ha
  BY <1>1, NoJobType DEF LoaderGoes, Now
<1>3. Shape'
  <2>1. Quiet \in [by : Calls \cup {"user", None}, reload : BOOLEAN, err : BOOLEAN]
    BY DEF Quiet
  <2>2. ha' \in [by : Calls \cup {"user", None}, reload : BOOLEAN, err : BOOLEAN]
    BY <1>2, <2>1 DEF IInv, Shape
  <2> QED BY <2>2 DEF IInv, Shape, Does
<1>4. Loads'
  BY <1>1, <1>2 DEF Loads, Closing, Making, Now, Quiet
<1>5. "sessions" \in owned'[gen] /\ ~shut[gen]
  <2>1. "sessions" \in Owners
    BY DEF Owners
  <2>2. job[Loader].pc = "panel" => route # 0
    BY DEF IInv, Loads
  <2> QED BY <2>1, <2>2 DEF IInv, Made
<1>6. Made'
  BY <1>1, <1>2, <1>5 DEF Made, Making, PastDrain, PastBuilder, Closing
<1>7. Unborn'
  BY <1>1, EntryAssumption DEF IInv, Unborn, Gens
<1>8. ShutAdmitsNobody'
  BY DEF IInv, ShutAdmitsNobody, Admits
<1>9. \A g \in Gens : "sessions" \in owned[g] => "sessions" \in owned'[g]
  BY <1>5
<1>10. \A c \in Calls : CallStands(c)'
  BY <1>9, CallsFrame DEF Managed
<1>11. "provisioning" \in owned[gen] => "provisioning" \in owned'[gen]
  BY DEF Owners
<1>12. ha'.by = ha.by \/ ha'.by = None
  BY <1>2 DEF Quiet
<1>13. RefreshStands' /\ Locks' /\ Preflights'
  BY <1>11, RefreshFrame, LocksFrame, ActorsApart DEF IInv, Preflights, Does
<1>14. AdoptionIsAlone'
  BY <1>12, ActorsApart DEF IInv, AdoptionIsAlone, Adopting, Does
<1>15. \A w \in Works : WorkStands(w)'
  BY <1>2, <1>9, WorksFrame DEF PastDrain, Closing
<1>16. OldOnesAreGone'
  <2>1. \A g \in Gens : Dialers(g)' \subseteq Dialers(g)
    BY <1>2, DialersFrame
  <2>2. \A g \in Gens : g # published' /\ (g # gen' \/ HaIdle') => g # gen
    BY <1>2 DEF HaIdle, At
  <2>3. \A g \in Gens : g # published
    BY <1>1, EntryAssumption DEF Gens
  <2> QED BY <1>1, <2>1, <2>2, <2>3 DEF IInv, OldOnesAreGone, Gone
<1>17. Shows'
  <2>1. CASE snapshot' = Listing(entries)
    BY <2>1 DEF Shows
  <2>2. CASE owned' = owned /\ UNCHANGED <<snapshot, missed>> /\ job[Loader].pc = "panel"
    BY <2>2, ActorsApart DEF IInv, Shows, At, Does
  <2> QED BY <2>1, <2>2
<1> QED BY <1>3, <1>4, <1>6, <1>7, <1>8, <1>10, <1>13, <1>14, <1>15, <1>16, <1>17 DEF IInv

LEMMA SetupOwnersStep ==
  ASSUME IInv, SetupOwners
  PROVE  IInv'
<1>1. /\ job[Loader].pc = "asking" /\ Now = gen /\ gen \in Gens /\ ~shut[gen]
      /\ UNCHANGED <<gen, builder, shut, lock, work, entries, broken>>
      /\ snapshot' = Listing(entries) /\ route' = gen
  BY EntryAssumption DEF SetupOwners, At, IInv, Loads, Made, Making, Shape, Gens
<1>2. /\ owned' \in [Gens -> SUBSET Owners] /\ owned'[gen] = Owners
      /\ \A g \in Gens \ {gen} : owned'[g] = owned[g]
  BY <1>1 DEF SetupOwners, IInv, Shape
<1>3. CASE rebinding
  <2>1. /\ published' = gen /\ ha' = Quiet /\ Does(Loader, NoJob) /\ job'[Loader] = NoJob
    BY <1>1, <1>3, DoesFacts, NoJobType, ActorsApart DEF SetupOwners, IInv, Does
  <2> QED BY <1>1, <1>2, <2>1, OwnersFrame
<1>4. CASE ~rebinding
  <2>1. /\ LoaderGoes("panel") /\ UNCHANGED <<ha, published>>
    BY <1>4, GotoFacts, ActorsApart DEF SetupOwners, IInv, LoaderGoes, Pcs
  <2> QED BY <1>1, <1>2, <2>1, OwnersFrame DEF LoaderGoes
<1> QED BY <1>3, <1>4

LEMMA SetupPanelStep ==
  ASSUME IInv, SetupPanel
  PROVE  IInv'
<1>1. /\ job[Loader].pc = "panel" /\ Now = gen /\ route' = gen
      /\ published' = gen /\ ha' = Quiet /\ Does(Loader, NoJob) /\ job'[Loader] = NoJob
      /\ UNCHANGED <<gen, owned, builder, shut, lock, work, entries, snapshot, missed, broken>>
  BY DoesFacts, NoJobType, ActorsApart
     DEF SetupPanel, At, IInv, Loads, owners, discovery, Does
<1> QED BY <1>1, OwnersFrame DEF IInv, Shape

-----------------------------------------------------------------------------
(* Home Assistant starts a set-up or an unload.                            *)

LEMMA LoadStep ==
  ASSUME IInv, NEW by \in Calls \cup {"user"}, NEW reload \in BOOLEAN,
         by \in Calls => job[by].pc = "rebind",
         Load(by, reload)
  PROVE  IInv'
<1> DEFINE loader == IF published = 0 THEN Fresh
                     ELSE [pc |-> "begin", kind |-> "unload", gen |-> published, work |-> None]
<1>1. /\ job[Loader].pc = "idle" /\ route \in {0, published} /\ published \in {0, gen}
      /\ Now = 0 /\ gen \in 0 .. MaxSetups
      /\ UNCHANGED <<owned, builder, shut, broken, published, route, lock, work, entries,
                     snapshot, missed>>
      /\ ha' = [by |-> by, reload |-> reload, err |-> FALSE]
  BY DEF Load, HaIdle, At, discovery, IInv, Loads, Shape, Making, Closing
<1>2. /\ published = 0 => gen < MaxSetups /\ gen' = gen + 1
      /\ published # 0 => gen' = gen
      /\ gen' \in Gens
  BY <1>1, EntryAssumption DEF Load, Gens
<1>3. /\ loader \in JobType
      /\ published = 0 => loader.pc = "catalog" /\ loader.kind = "setup" /\ loader.gen = gen'
      /\ published # 0 => loader.pc = "begin" /\ loader.kind = "unload" /\ loader.gen = gen'
  BY <1>1, <1>2, EntryAssumption DEF Fresh, JobType, Gens
<1>4. job' = Handed(by, loader)
  BY DEF Load
<1> HIDE DEF loader
<1>5. by # Loader /\ by # Refresh
  BY EntryAssumption DEF Loader, Refresh
<1>6. /\ job' \in [Actors -> JobType] /\ job'[Loader] = loader /\ job'[Refresh] = job[Refresh]
      /\ \A c \in Calls :
           /\ job'[c].kind = job[c].kind /\ job'[c].gen = job[c].gen
           /\ job'[c].work = job[c].work
           /\ IF c = by THEN job[c].pc = "rebind" /\ job'[c].pc = "reloading"
                        ELSE job'[c] = job[c]
  BY <1>3, <1>4, <1>5, ActorsApart DEF Handed, IInv, Shape, JobType
<1>7. Shape'
  BY <1>1, <1>2, <1>6 DEF IInv, Shape, Gens
<1>8. Loads'
  <2>1. gen' # 0
    BY <1>2, EntryAssumption DEF Gens
  <2> QED BY <1>1, <1>2, <1>3, <1>6, <2>1 DEF Loads, Making, Closing, Now
<1>9. published = 0 => owned[gen'] = {} /\ ~shut[gen']
  BY <1>1, <1>2 DEF IInv, Unborn, Gens
<1>10. Made'
  <2>1. CASE published = 0
    BY <1>1, <1>3, <1>6, <1>9, <2>1 DEF Made, Making, PastDrain, PastBuilder, Closing
  <2>2. CASE published # 0
    BY <1>1, <1>2, <1>3, <1>6, <2>2 DEF IInv, Made, Making, PastDrain, PastBuilder, Closing
  <2> QED BY <2>1, <2>2
<1>11. Unborn'
  BY <1>1, <1>2, EntryAssumption DEF IInv, Unborn, Gens
<1>12. ShutAdmitsNobody'
  BY <1>1 DEF IInv, ShutAdmitsNobody, Admits
<1>13. gen' >= gen
  BY <1>1, <1>2
<1>14. ASSUME NEW c \in Calls PROVE CallStands(c)'
  <2>1. job[c].gen <= gen' /\ job[c].gen \in 0 .. MaxSetups
    BY <1>1, <1>2, <1>13, ActorsApart DEF IInv, CallStands, Shape, JobType, Gens
  <2> QED BY <1>1, <1>6, <2>1 DEF IInv, CallStands, Managed
<1>15. RefreshStands'
  <2>1. CASE published = 0
    BY <1>1, <1>6, <2>1 DEF IInv, RefreshStands, Made
  <2>2. CASE published # 0
    BY <1>1, <1>2, <1>6, <2>2 DEF IInv, RefreshStands
  <2> QED BY <2>1, <2>2
<1>16. ASSUME NEW w \in Works PROVE WorkStands(w)'
  <2>1. work[w].pc # "none" => work[w].gen \in 1 .. gen'
    BY <1>1, <1>2 DEF IInv, WorkStands, Gens
  <2>2. job'[Loader].pc \notin PastDrain
    BY <1>3, <1>6 DEF PastDrain, Closing
  <2> QED BY <1>1, <2>1, <2>2 DEF IInv, WorkStands, Managed
<1>17. OldOnesAreGone'
  <2>1. \A g \in Gens : Dialers(g)' \subseteq Dialers(g)
    BY <1>3, <1>6, ActorsApart DEF Dialers, At
  <2>2. ~HaIdle'
    BY <1>3, <1>6 DEF HaIdle, At
  <2>3. HaIdle
    BY <1>1 DEF HaIdle, At
  <2> QED BY <1>1, <2>1, <2>2, <2>3 DEF IInv, OldOnesAreGone, Gone
<1>18. Locks'
  <2>1. \A i \in DOMAIN lock : lock[i] \in Calls
    BY DEF IInv, Shape
  <2>2. \A c \in Calls : job'[c].kind = job[c].kind /\ (job'[c].pc # "called" => job[c].pc # "called")
    BY <1>6
  <2> QED BY <1>1, <1>6, <2>1, <2>2 DEF IInv, Locks
<1>19. Preflights'
  BY <1>1, <1>6 DEF IInv, Preflights
<1>20. AdoptionIsAlone'
  <2>1. \A w \in Works : work[w].pc # "none" /\ work[w].gen = gen' => gen' = gen
    <3> SUFFICES ASSUME NEW w \in Works, work[w].pc # "none", work[w].gen = gen'
                 PROVE  gen' = gen
      OBVIOUS
    <3>1. work[w].gen \in 1 .. gen
      BY DEF IInv, WorkStands
    <3> QED BY <1>1, <1>2, <3>1
  <2>2. \A c \in Calls : Adopting(c)' => Adopting(c)
    BY <1>6 DEF Adopting
  <2>3. ha'.by \in Calls => job'[ha'.by].pc = "reloading"
    BY <1>1, <1>6
  <2> QED BY <1>1, <2>1, <2>2, <2>3 DEF IInv, AdoptionIsAlone
<1>21. Shows'
  BY <1>1, <1>2, <1>3, <1>6 DEF IInv, Shows, At
<1> QED BY <1>7, <1>8, <1>10, <1>11, <1>12, <1>14, <1>15, <1>16, <1>17, <1>18, <1>19,
           <1>20, <1>21 DEF IInv

-----------------------------------------------------------------------------
(* What a step of a call, or of the refresh, leaves alone.                 *)

LEMMA ActorFrame ==
  ASSUME IInv, NEW a \in Actors \ {Loader}, Does(a, job'[a]),
         UNCHANGED <<ha, gen, owned, builder, shut, published, route, broken>>,
         job'[a].pc = "dialing" =>
           \/ job[a].pc = "dialing" /\ job'[a].gen = job[a].gen
           \/ job'[a].gen = gen /\ Admits(gen) /\ owned[gen] # {}
  PROVE  Loads' /\ Made' /\ Unborn' /\ ShutAdmitsNobody' /\ OldOnesAreGone'
<1>1. job'[Loader] = job[Loader]
  BY ActorsApart DEF Does
<1>2. Loads'
  BY <1>1 DEF IInv, Loads, Now
<1>3. \A g \in Gens : \/ (g = gen /\ Admits(gen) /\ owned[gen] # {})
                    \/ Dialers(g)' \subseteq Dialers(g)
  BY DEF Does, Dialers, At
<1>4. Made'
  <2>1. job[Loader].pc \in PastBuilder => Dialers(gen)' = {}
    <3>1. job[Loader].pc \in PastBuilder => ~Admits(gen) /\ Dialers(gen) = {} /\ gen \in Gens
      BY ClosingFacts DEF IInv, Made, PastBuilder, PastDrain
    <3> QED BY <1>3, <3>1
  <2> QED BY <1>1, <2>1 DEF IInv, Made, Admits
<1>5. Unborn' /\ ShutAdmitsNobody'
  BY DEF IInv, Unborn, ShutAdmitsNobody, Admits
<1>6. OldOnesAreGone'
  BY <1>1, <1>3 DEF IInv, OldOnesAreGone, Gone, HaIdle, At
<1> QED BY <1>2, <1>4, <1>5, <1>6

\* A call or the refresh connects the builder.
LEMMA DialStep ==
  ASSUME IInv, NEW a \in Actors \ {Loader}, Dial(a)
  PROVE  IInv'
<1>1. /\ job[a].pc = "dialing" /\ Does(a, job'[a]) /\ job'[a].pc = "asking"
      /\ job'[a].kind = job[a].kind /\ job'[a].gen = job[a].gen
      /\ job'[a].work = job[a].work
      /\ UNCHANGED <<ha, gen, owned, shut, published, route, lock, work, entries, snapshot, missed,
                     broken>>
  BY GotoFacts DEF IInv, Dial, At, discovery, hass, Pcs
<1> DEFINE g == job[a].gen
<1>2. g \in Gens /\ g <= gen /\ gen \in Nat /\ a \in Dialers(g)
  BY <1>1, ActorsApart, EntryAssumption
     DEF IInv, CallStands, RefreshStands, Shape, JobType, Gens, Dialers, At
<1>3. /\ builder' \in [Gens -> BuilderType]
      /\ \A k \in Gens \ {g} : builder'[k] = builder[k]
      /\ builder'[g].state = builder[g].state
  BY <1>2 DEF Dial, IInv, Shape, BuilderType
<1>4. /\ job'[Loader] = job[Loader] /\ \A k \in Gens : Dialers(k)' \subseteq Dialers(k)
      /\ \A k \in Gens : Admits(k)' <=> Admits(k)
  BY <1>1, <1>3, ActorsApart DEF Does, Dialers, At, Admits
<1>5. Shape'
  BY <1>1, <1>3 DEF IInv, Shape, Does
<1>6. Loads'
  BY <1>1, <1>4 DEF IInv, Loads, Now
<1>7. Made'
  <2>1. job[Loader].pc \in PastDrain => gen \in Gens
    BY ClosingFacts DEF PastDrain
  <2>2. job[Loader].pc \in PastBuilder => g # gen
    BY <1>2 DEF IInv, Made
  <2> QED BY <1>1, <1>2, <1>3, <1>4, <2>1, <2>2 DEF IInv, Made, PastBuilder
<1>8. Unborn' /\ ShutAdmitsNobody'
  BY <1>1, <1>2, <1>3, <1>4, EntryAssumption DEF IInv, Unborn, ShutAdmitsNobody, Gens
<1>9. OldOnesAreGone'
  BY <1>1, <1>2, <1>3, <1>4 DEF IInv, OldOnesAreGone, Gone, HaIdle, At
<1>10. \A c \in Calls : CallStands(c)'
  BY <1>1, ActorsApart DEF IInv, CallStands, Managed, Does
<1>11. RefreshStands'
  BY <1>1, ActorsApart DEF IInv, RefreshStands, Does
<1>12. \A w \in Works : WorkStands(w)'
  BY <1>1, <1>4 DEF IInv, WorkStands, Managed
<1>13. \A c \in Calls : /\ job'[c].kind = job[c].kind /\ job'[c].work = job[c].work
                        /\ job'[c].pc # job[c].pc => /\ job[c].pc = "dialing"
                                                     /\ job'[c].pc = "asking"
  BY <1>1, ActorsApart DEF Does
<1>14. Locks'
  <2>1. \A i \in DOMAIN lock : lock[i] \in Calls
    BY DEF IInv, Shape
  <2> QED BY <1>1, <1>13, <2>1 DEF IInv, Locks
<1>15. Preflights' /\ AdoptionIsAlone'
  BY <1>1, <1>13 DEF IInv, Preflights, AdoptionIsAlone, Adopting
<1>16. Shows'
  BY <1>1, <1>4, ActorsApart DEF IInv, Shows, At, Does
<1> QED BY <1>5, <1>6, <1>7, <1>8, <1>9, <1>10, <1>11, <1>12, <1>14, <1>15, <1>16 DEF IInv

-----------------------------------------------------------------------------
(* Discovery.                                                              *)

LEMMA RefreshKeeps ==
  ASSUME IInv, Does(Refresh, job'[Refresh]),
         UNCHANGED <<ha, gen, owned, builder, shut, published, route, lock, work, broken>>,
         job'[Refresh].pc = "dialing" => job'[Refresh].gen = gen /\ Admits(gen),
         RefreshStands', Shows'
  PROVE  IInv'
<1>1. \A c \in Calls : job'[c] = job[c]
  BY ActorsApart DEF Does
<1>2. job'[Loader] = job[Loader]
  BY ActorsApart DEF Does
<1>3. Shape'
  BY DEF IInv, Shape, Does
<1>4. job'[Refresh].pc = "dialing" => owned[gen] # {}
  BY DEF RefreshStands
<1>5. Loads' /\ Made' /\ Unborn' /\ ShutAdmitsNobody' /\ OldOnesAreGone'
  BY <1>4, ActorFrame, ActorsApart
<1>6. \A c \in Calls : CallStands(c)'
  BY <1>1 DEF IInv, CallStands, Managed
<1>7. \A w \in Works : WorkStands(w)'
  BY <1>2 DEF IInv, WorkStands, Managed
<1>8. Locks'
  <2>1. \A i \in DOMAIN lock : lock[i] \in Calls
    BY DEF IInv, Shape
  <2> QED BY <1>1, <2>1 DEF IInv, Locks
<1>9. Preflights' /\ AdoptionIsAlone'
  BY <1>1 DEF IInv, Preflights, AdoptionIsAlone, Adopting
<1> QED BY <1>3, <1>5, <1>6, <1>7, <1>8, <1>9 DEF IInv

LEMMA RefreshEndFacts ==
  ASSUME IInv, job' = [job EXCEPT ![Refresh] = NoJob]
  PROVE  /\ Does(Refresh, job'[Refresh]) /\ job'[Refresh] = NoJob
         /\ job'[Loader] = job[Loader]
BY DoesFacts, NoJobType, ActorsApart DEF IInv, Does

LEMMA DiscoveryStep ==
  ASSUME IInv, Discovery
  PROVE  IInv'
<1>1. CASE EntryChanges
  <2>1. UNCHANGED <<ha, gen, owned, builder, shut, published, route, lock, work, broken, snapshot,
                    missed>>
    BY <1>1 DEF EntryChanges, hass, owners
  <2>2. CASE /\ gen # 0 /\ "provisioning" \in owned[gen] /\ At(Refresh, "idle")
             /\ job' = [job EXCEPT ![Refresh] = [pc |-> "sleeping", kind |-> "refresh",
                                                 gen |-> gen, work |-> None]]
    <3> DEFINE j == [pc |-> "sleeping", kind |-> "refresh", gen |-> gen, work |-> None]
    <3>1. j \in JobType
      BY DEF JobType, IInv, Shape
    <3>2. Does(Refresh, job'[Refresh]) /\ job'[Refresh] = j
      BY <2>2, <3>1, DoesFacts, ActorsApart DEF IInv, Does
    <3>3. RefreshStands' /\ Shows' /\ job'[Refresh].pc = "sleeping"
      BY <2>1, <2>2, <3>2 DEF RefreshStands, Shows, At
    <3> QED BY <2>1, <3>2, <3>3, RefreshKeeps
  <2>3. CASE /\ ~(gen # 0 /\ "provisioning" \in owned[gen] /\ At(Refresh, "idle"))
             /\ job' = job
    <3>1. Does(Refresh, job'[Refresh])
      BY <2>3 DEF Does, IInv, Shape
    <3>2. RefreshStands' /\ (job'[Refresh].pc = "dialing" => job[Refresh].pc = "dialing")
      BY <2>1, <2>3 DEF IInv, RefreshStands
    <3>3. Shows'
      BY <2>1, <2>3 DEF IInv, Shows, At, Loads
    <3>4. Shape' /\ Loads' /\ Made' /\ Unborn' /\ ShutAdmitsNobody' /\ OldOnesAreGone'
      BY <2>1, <2>3, <3>1, ActorFrame, ActorsApart DEF IInv, Shape
    <3>5. /\ \A c \in Calls : CallStands(c)'
          /\ \A w \in Works : WorkStands(w)'
      BY <2>1, <2>3 DEF IInv, CallStands, WorkStands, Managed
    <3>6. Locks' /\ Preflights' /\ AdoptionIsAlone'
      BY <2>1, <2>3 DEF IInv, Locks, Preflights, AdoptionIsAlone, Adopting
    <3> QED BY <3>2, <3>3, <3>4, <3>5, <3>6 DEF IInv
  <2> QED BY <1>1, <2>2, <2>3 DEF EntryChanges
<1>2. CASE RefreshStarts
  <2>1. /\ UNCHANGED <<ha, gen, owned, builder, shut, published, route, lock, work, broken, snapshot,
                       entries>>
        /\ job[Refresh].pc = "sleeping" /\ job[Refresh].gen = gen
        /\ gen # 0 /\ "provisioning" \in owned[gen]
    BY <1>2 DEF RefreshStarts, hass, owners, IInv, RefreshStands, At
  <2>2. ASSUME NEW pc \in {"asking", "dialing"}, Goto(Refresh, pc),
               pc = "dialing" => Admits(gen)
        PROVE  IInv'
    <3>1. /\ Does(Refresh, job'[Refresh]) /\ job'[Refresh].pc = pc
          /\ job'[Refresh].gen = gen
      BY <2>1, <2>2, GotoFacts, ActorsApart DEF IInv, Pcs
    <3>2. RefreshStands' /\ Shows'
      BY <2>1, <3>1 DEF RefreshStands, Shows, At
    <3> QED BY <2>1, <2>2, <3>1, <3>2, RefreshKeeps
  <2>3. CASE job' = [job EXCEPT ![Refresh] = NoJob] /\ missed' = TRUE
    <3>1. RefreshStands' /\ Shows' /\ job'[Refresh].pc # "dialing"
      BY <2>3, RefreshEndFacts, NoJobType DEF RefreshStands, Shows
    <3> QED BY <2>1, <2>3, <3>1, RefreshEndFacts, RefreshKeeps
  <2> QED BY <1>2, <2>1, <2>2, <2>3 DEF RefreshStarts, Ready, Admits
<1>3. CASE RefreshEnds \/ RefreshFails
  <2>1. /\ UNCHANGED <<ha, gen, owned, builder, shut, published, route, lock, work, broken,
                       entries>>
        /\ job' = [job EXCEPT ![Refresh] = NoJob]
        /\ snapshot' = Listing(entries) \/ missed' = TRUE
    BY <1>3 DEF RefreshEnds, RefreshFails, hass, owners
  <2>2. RefreshStands' /\ Shows' /\ job'[Refresh].pc # "dialing"
    BY <2>1, RefreshEndFacts, NoJobType DEF RefreshStands, Shows
  <2> QED BY <2>1, <2>2, RefreshEndFacts, RefreshKeeps
<1> QED BY <1>1, <1>2, <1>3 DEF Discovery

-----------------------------------------------------------------------------
(* The rebind lock.                                                        *)

LEMMA LockedFirst ==
  ASSUME IInv, NEW c \in Calls, job[c].kind \in Locked, job[c].pc # "called" \/ Turn(c)
  PROVE  /\ lock # <<>> /\ Head(lock) = c /\ lock[1] = c /\ 1 \in DOMAIN lock
         /\ \A d \in Calls : job[d].kind \in Locked /\ job[d].pc # "called" => d = c
<1>1. lock \in Seq(Calls)
  BY DEF IInv, Shape
<1>2. PICK i \in DOMAIN lock : lock[i] = c /\ (job[c].pc # "called" => i = 1)
  BY DEF IInv, Locks
<1>3. lock # <<>> /\ 1 \in DOMAIN lock /\ Head(lock) = lock[1]
  BY <1>1, <1>2
<1>4. lock[1] = c
  BY <1>2, <1>3 DEF Turn, NeedsLock
<1> QED BY <1>3, <1>4 DEF IInv, Locks

LEMMA TailLocks ==
  ASSUME IInv, NEW c \in Calls, job[c].kind \in Locked, job[c].pc # "called" \/ Turn(c),
         Does(c, NoJob), lock' = Tail(lock)
  PROVE  Locks' /\ lock' \in Seq(Calls)
<1>1. lock \in Seq(Calls) /\ lock # <<>> /\ lock[1] = c
  BY LockedFirst DEF IInv, Shape
<1>2. /\ lock' \in Seq(Calls) /\ Len(lock') = Len(lock) - 1
      /\ \A i \in 1 .. Len(lock') : lock'[i] = lock[i + 1]
  BY <1>1
<1>3. DOMAIN lock = 1 .. Len(lock) /\ DOMAIN lock' = 1 .. Len(lock') /\ Len(lock) \in Nat \ {0}
  BY <1>1, <1>2
<1>4. \A i \in DOMAIN lock' : i + 1 \in DOMAIN lock /\ i + 1 # 1 /\ lock'[i] = lock[i + 1]
  BY <1>2, <1>3
<1>5. \A i \in DOMAIN lock' : lock'[i] # c /\ lock'[i] \in Calls /\ job[lock'[i]].kind \in Locked
  BY <1>1, <1>3, <1>4 DEF IInv, Locks
<1>6. \A i, j \in DOMAIN lock' : lock'[i] = lock'[j] => i = j
  BY <1>3, <1>4 DEF IInv, Locks
<1>7. job'[c].kind = "none" /\ \A d \in Calls \ {c} : job'[d] = job[d]
  BY NoJobType, ActorsApart DEF Does
<1>8. ASSUME NEW d \in Calls, job'[d].kind \in Locked
      PROVE  \E i \in DOMAIN lock' : lock'[i] = d /\ (job'[d].pc # "called" => i = 1)
  <2>1. d # c /\ job'[d] = job[d]
    BY <1>7, <1>8 DEF Locked
  <2>2. job[d].pc = "called"
    BY <1>8, <2>1, LockedFirst
  <2>3. PICK i \in DOMAIN lock : lock[i] = d
    BY <1>8, <2>1 DEF IInv, Locks
  <2>4. i # 1 /\ i - 1 \in DOMAIN lock' /\ lock'[i - 1] = d
    BY <1>1, <1>2, <1>3, <2>1, <2>3
  <2> QED BY <2>1, <2>2, <2>4
<1> QED BY <1>2, <1>5, <1>6, <1>7, <1>8 DEF Locks

\* A call ends that has the lock, or did not ask for it.
LEMMA DoneFacts ==
  ASSUME IInv, NEW c \in Calls, Done(c),
         job[c].kind \in Locked => job[c].pc # "called" \/ Turn(c)
  PROVE  Does(c, job'[c]) /\ job'[c] = NoJob /\ Locks' /\ lock' \in Seq(Calls)
<1>1. Does(c, NoJob) /\ job'[c] = NoJob
  BY DoesFacts, NoJobType, ActorsApart DEF Done, IInv, Does
<1>2. CASE job[c].kind \in Locked
  BY <1>1, <1>2, LockedFirst, TailLocks DEF Done
<1>3. CASE job[c].kind \notin Locked
  <2>1. lock \in Seq(Calls) /\ \A i \in DOMAIN lock : lock[i] \in Calls /\ lock[i] # c
    BY <1>3 DEF IInv, Shape, Locks
  <2>2. lock # <<>> => Head(lock) # c
    BY <2>1
  <2>3. lock' = lock
    BY <2>2 DEF Done
  <2>4. job'[c].kind \notin Locked /\ \A d \in Calls \ {c} : job'[d] = job[d]
    BY <1>1, NoJobType, ActorsApart DEF Does, Locked
  <2> QED BY <1>1, <2>1, <2>3, <2>4 DEF IInv, Locks
<1> QED BY <1>1, <1>2, <1>3

\* A call goes on without the lock changing.
LEMMA KeptLocks ==
  ASSUME IInv, NEW c \in Calls, Does(c, job'[c]), lock' = lock,
         job'[c].kind = job[c].kind,
         job[c].kind \in Locked => job'[c].pc = "called" \/ job[c].pc # "called" \/ Turn(c)
  PROVE  Locks' /\ lock' \in Seq(Calls)
<1>1. lock \in Seq(Calls) /\ \A i \in DOMAIN lock : lock[i] \in Calls
  BY DEF IInv, Shape
<1>2. \A d \in Calls \ {c} : job'[d] = job[d]
  BY ActorsApart DEF Does
<1>3. \A d \in Calls : job'[d].kind = job[d].kind
  BY <1>2
<1>4. ASSUME NEW d \in Calls, job'[d].kind \in Locked
      PROVE  \E i \in DOMAIN lock : lock[i] = d /\ (job'[d].pc # "called" => i = 1)
  <2>1. CASE d # c \/ job'[c].pc = "called"
    BY <1>2, <1>3, <1>4, <2>1 DEF IInv, Locks
  <2>2. CASE d = c /\ job'[c].pc # "called"
    BY <1>4, <2>2, LockedFirst
  <2> QED BY <2>1, <2>2
<1> QED BY <1>1, <1>3, <1>4 DEF IInv, Locks

-----------------------------------------------------------------------------
(* Websocket calls.                                                        *)

\* What a step of a call keeps, whatever it does to its own work.
LEMMA CallKeeps ==
  ASSUME IInv, NEW c \in Calls, Does(c, job'[c]),
         UNCHANGED <<ha, gen, owned, builder, shut, published, route, broken, entries>>,
         job'[c].pc # "dialing",
         Locks' /\ lock' \in Seq(Calls),
         CallStands(c)',
         work' \in [Works -> WorkType], \A w \in Works : WorkStands(w)',
         Preflights', AdoptionIsAlone',
         \/ snapshot' \in {Listing(entries), Guide(entries)}
         \/ snapshot' = snapshot /\ (missed => missed')
  PROVE  IInv'
<1>1. /\ job'[Loader] = job[Loader] /\ job'[Refresh] = job[Refresh]
      /\ \A d \in Calls \ {c} : job'[d] = job[d]
  BY ActorsApart DEF Does
<1>2. Shape'
  BY DEF IInv, Shape, Does
<1>3. Loads' /\ Made' /\ Unborn' /\ ShutAdmitsNobody' /\ OldOnesAreGone'
  BY ActorFrame, ActorsApart
<1>4. \A d \in Calls : CallStands(d)'
  BY <1>1 DEF IInv, CallStands, Managed
<1>5. RefreshStands'
  BY <1>1 DEF IInv, RefreshStands
<1>6. Shows'
  BY <1>1 DEF IInv, Shows, At
<1> QED BY <1>2, <1>3, <1>4, <1>5, <1>6 DEF IInv

\* Nobody's preflight and no session begins, and no adoption.
LEMMA QuietCall ==
  ASSUME IInv, NEW c \in Calls, Does(c, job'[c]), UNCHANGED <<ha, gen>>,
         job[c].pc = "reloading" => ha.by # c,
         \A w \in Works : work'[w].pc = "preflight" =>
           work[w].pc = "preflight" /\ ~(job[c].pc = "preflight" /\ job[c].work = w),
         \A w \in Works : work[w].pc = "preflight" =>
           work'[w].pc = "preflight" \/ (job[c].pc = "preflight" /\ job[c].work = w),
         job'[c].pc # "preflight",
         Adopting(c)' => Adopting(c),
         \A w \in Works : work'[w].pc \in {"preflight", "open", "running"}
                          /\ work'[w].kind = "session" =>
           /\ work'[w].gen = work[w].gen /\ work[w].kind = "session"
           /\ \/ /\ work[w].pc \in {"preflight", "open", "running"}
                 /\ work'[w].stage = "begun" => work[w].stage = "begun"
              \/ \A d \in Calls : ~Adopting(d)
  PROVE  Preflights' /\ AdoptionIsAlone'
<1>1. \A d \in Calls \ {c} : job'[d] = job[d]
  BY ActorsApart DEF Does
<1>2. Preflights'
  <2>1. ASSUME NEW w \in Works, work'[w].pc = "preflight"
        PROVE  \E d \in Calls : job'[d].pc = "preflight" /\ job'[d].work = w
    <3>1. PICK d \in Calls : job[d].pc = "preflight" /\ job[d].work = w
      BY <2>1 DEF IInv, Preflights
    <3>2. d # c
      BY <2>1, <3>1
    <3> QED BY <1>1, <3>1, <3>2
  <2>2. ASSUME NEW d \in Calls, job'[d].pc = "preflight"
        PROVE  work'[job'[d].work].pc = "preflight"
    <3>1. d # c /\ job[d].pc = "preflight" /\ job'[d] = job[d]
      BY <1>1, <2>2
    <3>2. job[d].work \in Works /\ work[job[d].work].pc = "preflight"
      BY <3>1 DEF IInv, Preflights, CallStands
    <3>3. job[c].pc # "preflight"
      BY <3>1, LockedFirst DEF IInv, CallStands, Locked
    <3> QED BY <3>1, <3>2, <3>3
  <2> QED BY <2>1, <2>2 DEF Preflights
<1>3. \A d \in Calls : Adopting(d)' => Adopting(d)
  BY <1>1 DEF Adopting
<1>4. ha.by \in Calls => ha.by # c
  BY DEF IInv, AdoptionIsAlone
<1>5. AdoptionIsAlone'
  <2>1. ha'.by \in Calls => job'[ha'.by].pc = "reloading"
    BY <1>1, <1>4 DEF IInv, AdoptionIsAlone
  <2>2. ASSUME NEW d \in Calls, Adopting(d)', NEW w \in Works,
               work'[w].pc \in {"preflight", "open", "running"}, work'[w].kind = "session",
               work'[w].stage = "begun"
        PROVE  work'[w].gen # gen'
    <3>1. Adopting(d)
      BY <1>3, <2>2
    <3> QED BY <2>2, <3>1 DEF IInv, AdoptionIsAlone
  <2> QED BY <2>1, <2>2 DEF AdoptionIsAlone
<1> QED BY <1>2, <1>5

\* A call that ends stands nowhere.
LEMMA EndedStands ==
  ASSUME NEW c \in Calls, job'[c] = NoJob, gen' \in Nat
  PROVE  CallStands(c)' /\ ~Adopting(c)'
BY NoJobType DEF CallStands, Adopting

LEMMA GenIsNat == ASSUME IInv PROVE gen \in Nat
BY DEF IInv, Shape

\* A call ends and leaves the works alone.
LEMMA CallEnds ==
  ASSUME IInv, NEW c \in Calls, Done(c),
         job[c].kind \in Locked => job[c].pc # "called" \/ Turn(c),
         job[c].pc # "preflight", job[c].pc = "reloading" => ha.by # c,
         UNCHANGED <<ha, gen, owned, builder, shut, published, route, broken, work, entries>>,
         \/ snapshot' \in {Listing(entries), Guide(entries)}
         \/ snapshot' = snapshot /\ (missed => missed')
  PROVE  IInv'
<1>1. Does(c, job'[c]) /\ job'[c] = NoJob /\ Locks' /\ lock' \in Seq(Calls)
  BY DoneFacts
<1>2. CallStands(c)' /\ ~Adopting(c)' /\ job'[c].pc \notin {"dialing", "preflight"}
  BY <1>1, EndedStands, GenIsNat, NoJobType
<1>3. Preflights' /\ AdoptionIsAlone'
  BY <1>1, <1>2, QuietCall
<1>4. work' \in [Works -> WorkType] /\ \A w \in Works : WorkStands(w)'
  BY <1>1, ActorsApart DEF IInv, Shape, WorkStands, Managed, Does
<1> QED BY <1>1, <1>2, <1>3, <1>4, CallKeeps

\* The steps that only end a call.
LEMMA EndingSteps ==
  ASSUME IInv, NEW c \in Calls,
         \/ Fails(c) \/ Rebound(c) \/ Rescanned(c) \/ NoRoom(c)
         \/ Adopted(c) /\ Done(c)
         \/ Choose(c)
  PROVE  IInv'
<1>1. /\ Done(c) /\ job[c].pc \in {"called", "dialing", "asking", "reloading"}
      /\ job[c].pc = "called" => job[c].kind \notin Locked
      /\ job[c].pc = "reloading" => ha.by # c
      /\ UNCHANGED <<ha, gen, owned, builder, shut, published, route, broken, work, entries>>
  BY DEF Fails, Rebound, Rescanned, NoRoom, Adopted, Choose, Unanswered, Answered, At, owners,
     discovery, Locked
<1>2. \/ snapshot' \in {Listing(entries), Guide(entries)}
      \/ snapshot' = snapshot /\ (missed => missed')
  <2>1. CASE UNCHANGED <<snapshot, missed>>
    BY <2>1
  <2>2. CASE Rescanned(c) \/ Choose(c)
    BY <2>2 DEF Rescanned, Choose
  <2> QED BY <2>1, <2>2 DEF Fails, Rebound, NoRoom, Adopted, discovery
<1> QED BY <1>1, <1>2, CallEnds

LEMMA ArriveStep ==
  ASSUME IInv, NEW c \in Calls, Arrive(c)
  PROVE  IInv'
<1>1. PICK kind \in Kinds :
        /\ job' = [job EXCEPT ![c] = [NoJob EXCEPT !.pc = "called", !.kind = kind]]
        /\ lock' = IF NeedsLock(kind) THEN Append(lock, c) ELSE lock
  BY DEF Arrive
<1> DEFINE j == [NoJob EXCEPT !.pc = "called", !.kind = kind]
<1>2. /\ j \in JobType /\ j.pc = "called" /\ j.kind = kind /\ j.gen = 0
      /\ kind \in {"adopt", "readopt", "create", "preview", "use", "rescan", "intent"}
  <2>1. kind \in {"adopt", "readopt", "create", "preview", "use", "rescan", "intent"}
    BY EntryAssumption DEF Locked
  <2> QED BY <2>1, NoJobType DEF JobType, Locked
<1> HIDE DEF j
<1>3. Does(c, job'[c]) /\ job'[c] = j
  BY <1>1, <1>2, DoesFacts, ActorsApart DEF IInv, Does, j
<1>4. /\ job[c].pc = "idle" /\ job[c].kind = "none"
      /\ UNCHANGED <<ha, gen, owned, builder, shut, published, route, broken, work, entries,
                     snapshot, missed>>
  BY DEF Arrive, At, owners, discovery, IInv, CallStands
<1>5. /\ lock \in Seq(Calls) /\ \A i \in DOMAIN lock : lock[i] \in Calls /\ lock[i] # c
      /\ \A d \in Calls \ {c} : job'[d] = job[d]
  BY <1>3, <1>4, ActorsApart DEF Does, IInv, Shape, Locks, Locked
<1>6. Locks' /\ lock' \in Seq(Calls)
  <2>1. CASE kind \in Locked
    <3>1. /\ lock' \in Seq(Calls) /\ Len(lock') = Len(lock) + 1
          /\ lock'[Len(lock) + 1] = c
          /\ \A i \in 1 .. Len(lock) : lock'[i] = lock[i]
          /\ DOMAIN lock = 1 .. Len(lock) /\ DOMAIN lock' = 1 .. Len(lock) + 1
          /\ Len(lock) \in Nat
      BY <1>1, <1>5, <2>1 DEF NeedsLock
    <3>2. \A i, k \in DOMAIN lock' : lock'[i] = lock'[k] => i = k
      BY <1>5, <3>1 DEF IInv, Locks
    <3>3. \A i \in DOMAIN lock' : job'[lock'[i]].kind \in Locked
      BY <1>2, <1>3, <1>5, <2>1, <3>1 DEF IInv, Locks
    <3>4. ASSUME NEW d \in Calls, job'[d].kind \in Locked
          PROVE  \E i \in DOMAIN lock' : lock'[i] = d /\ (job'[d].pc # "called" => i = 1)
      <4>1. CASE d = c
        BY <1>2, <1>3, <3>1, <4>1
      <4>2. CASE d # c
        <5>1. PICK i \in DOMAIN lock : lock[i] = d /\ (job[d].pc # "called" => i = 1)
          BY <1>5, <3>4, <4>2 DEF IInv, Locks
        <5>2. i \in DOMAIN lock' /\ lock'[i] = d
          BY <3>1, <5>1
        <5> QED BY <1>5, <4>2, <5>1, <5>2
      <4> QED BY <4>1, <4>2
    <3> QED BY <3>1, <3>2, <3>3, <3>4 DEF Locks
  <2>2. CASE kind \notin Locked
    <3>1. lock' = lock /\ job'[c].kind \notin Locked
      BY <1>1, <1>2, <1>3, <2>2 DEF NeedsLock
    <3> QED BY <1>5, <3>1 DEF IInv, Locks
  <2> QED BY <2>1, <2>2
<1>7. CallStands(c)' /\ ~Adopting(c)' /\ job'[c].pc \notin {"dialing", "preflight"}
  BY <1>2, <1>3, <1>4, GenIsNat DEF CallStands, Adopting
<1>8. Preflights' /\ AdoptionIsAlone'
  BY <1>3, <1>4, <1>7, QuietCall
<1>9. work' \in [Works -> WorkType] /\ \A w \in Works : WorkStands(w)'
  BY <1>3, <1>4, ActorsApart DEF IInv, Shape, WorkStands, Managed, Does
<1> QED BY <1>3, <1>4, <1>6, <1>7, <1>8, <1>9, CallKeeps

LEMMA EnteredFacts ==
  ASSUME Shape, NEW a \in Actors, NEW g \in 0 .. MaxSetups, NEW pc \in {"asking", "dialing"},
         job' = [job EXCEPT ![a].gen = g, ![a].pc = pc]
  PROVE  /\ Does(a, job'[a]) /\ job'[a].pc = pc /\ job'[a].gen = g
         /\ job'[a].kind = job[a].kind /\ job'[a].work = job[a].work
<1> DEFINE k == [[job[a] EXCEPT !.gen = g] EXCEPT !.pc = pc]
<1>1. job[a] \in JobType
  BY DEF Shape
<1>2. /\ k \in JobType /\ k.pc = pc /\ k.gen = g
      /\ k.kind = job[a].kind /\ k.work = job[a].work
  BY <1>1 DEF JobType
<1>3. job' = [job EXCEPT ![a] = k]
  BY <1>1 DEF Shape
<1> HIDE DEF k
<1> QED BY <1>2, <1>3, DoesFacts DEF Does

\* A call is let in: an adoption, when the helper is idle.
LEMMA EnterStep ==
  ASSUME IInv, NEW c \in Calls, Enter(c)
  PROVE  IInv'
<1>1. /\ job[c].pc = "called" /\ (job[c].kind \in Locked => Turn(c)) /\ job[c].kind # "use"
      /\ UNCHANGED <<ha, gen, owned, builder, shut, published, route, broken, work, entries,
                     snapshot, missed>>
  BY DEF Enter, At, owners, discovery
<1>2. CASE Done(c)
  BY <1>1, <1>2, CallEnds
<1>3. ASSUME NEW newest \in Newest(route), Accepts(c, newest), UNCHANGED lock,
             job' = [job EXCEPT ![c].gen = route,
                                 ![c].pc = IF builder[route].state = "none" THEN "asking"
                                           ELSE Ready(route)]
      PROVE  IInv'
  <2>1. /\ route = gen /\ gen # 0 /\ gen \in Gens /\ "sessions" \in owned[gen]
    BY <1>3, EntryAssumption DEF Accepts, IInv, Loads, Made, Shape, Gens
  <2>2. PICK pc \in {"asking", "dialing"} :
          job' = [job EXCEPT ![c].gen = route, ![c].pc = pc]
    BY <1>3 DEF Ready
  <2>3. /\ Does(c, job'[c]) /\ job'[c].pc = pc /\ job'[c].gen = gen
        /\ job'[c].kind = job[c].kind /\ job'[c].work = job[c].work
    BY <2>1, <2>2, EnteredFacts, ActorsApart DEF IInv, Shape
  <2>4. pc = "dialing" => Admits(gen)
    <3>1. builder[gen].state \in {"none", "open"}
      BY <1>3, <2>1 DEF Accepts, Admits
    <3>2. CASE builder[gen].state = "none"
      <4>1. job' = [job EXCEPT ![c].gen = route, ![c].pc = "asking"]
        BY <1>3, <2>1, <3>2
      <4>2. job'[c].pc = "asking"
        BY <4>1, ActorsApart DEF IInv, Shape, JobType
      <4> QED BY <2>3, <4>2
    <3> QED BY <3>1, <3>2 DEF Admits
  <2>5. CallStands(c)'
    BY <1>1, <2>1, <2>3, GenIsNat DEF IInv, CallStands, Managed
  <2>6. Locks' /\ lock' \in Seq(Calls)
    BY <1>1, <1>3, <2>3, KeptLocks
  <2>7. \A d \in Calls \ {c} : job'[d] = job[d]
    BY <2>3, ActorsApart DEF Does
  <2>8. Preflights'
    BY <1>1, <2>3, <2>7 DEF IInv, Preflights
  <2>9. AdoptionIsAlone'
    <3>1. ha'.by \in Calls => job'[ha'.by].pc = "reloading"
      BY <1>1, <2>7 DEF IInv, AdoptionIsAlone
    <3>2. ASSUME NEW d \in Calls, Adopting(d)', NEW w \in Works,
                 work[w].pc \in {"preflight", "open", "running"}, work[w].kind = "session",
                 work[w].stage = "begun", work[w].gen = gen
          PROVE  FALSE
      <4>1. CASE d # c
        BY <1>1, <2>7, <3>2, <4>1 DEF IInv, AdoptionIsAlone, Adopting
      <4>2. CASE d = c
        <5>1. /\ job[c].kind = "adopt"
              /\ \A v \in OfGen(gen, {"open", "running"}) :
                   work[v].kind = "session" => work[v].stage = "finished"
          BY <1>3, <2>1, <2>3, <3>2, <4>2 DEF Adopting, Accepts, RebindIdle
        <5>2. work[w].pc = "preflight"
          BY <3>2, <5>1 DEF OfGen
        <5>3. PICK e \in Calls : job[e].pc = "preflight" /\ job[e].work = w
          BY <5>2 DEF IInv, Preflights
        <5>4. job[e].kind = "create"
          BY <5>3 DEF IInv, CallStands
        <5>5. job[c].kind \in Locked /\ job[e].kind \in Locked
          BY <5>1, <5>4 DEF Locked
        <5>6. e = c
          BY <1>1, <5>3, <5>5, LockedFirst
        <5> QED BY <5>1, <5>4, <5>6
      <4> QED BY <4>1, <4>2
    <3> QED BY <1>1, <3>1, <3>2 DEF AdoptionIsAlone
  <2>10. work' \in [Works -> WorkType] /\ \A w \in Works : WorkStands(w)'
    BY <1>1, <2>3, ActorsApart DEF IInv, Shape, WorkStands, Managed, Does
  <2>11. /\ job'[Loader] = job[Loader] /\ job'[Refresh] = job[Refresh]
    BY <2>3, ActorsApart DEF Does
  <2>12. Loads' /\ Made' /\ Unborn' /\ ShutAdmitsNobody' /\ OldOnesAreGone'
    BY <1>1, <2>1, <2>3, <2>4, ActorFrame, ActorsApart
  <2>13. Shape' /\ RefreshStands' /\ Shows'
    BY <1>1, <2>3, <2>6, <2>10, <2>11 DEF IInv, Shape, RefreshStands, Shows, At, Does
  <2>14. \A d \in Calls : CallStands(d)'
    BY <1>1, <2>5, <2>7 DEF IInv, CallStands, Managed
  <2> QED BY <2>6, <2>8, <2>9, <2>10, <2>12, <2>13, <2>14 DEF IInv
<1> QED BY <1>2, <1>3 DEF Enter

\* The meter is adopted, and the reload asked for.
LEMMA AdoptedStep ==
  ASSUME IInv, NEW c \in Calls, Adopted(c)
  PROVE  IInv'
<1>1. /\ job[c].pc = "asking" /\ job[c].kind \in {"adopt", "readopt"}
      /\ UNCHANGED <<ha, gen, owned, builder, shut, published, route, broken, work, entries,
                     snapshot, missed>>
  BY DEF Adopted, Answered, At, owners, discovery
<1>2. CASE Goto(c, "rebind") /\ job[c].kind = "adopt" /\ UNCHANGED lock
  <2>1. /\ Does(c, job'[c]) /\ job'[c].pc = "rebind" /\ job'[c].kind = job[c].kind
        /\ job'[c].gen = job[c].gen
    BY <1>2, GotoFacts, ActorsApart DEF IInv, Pcs
  <2>2. Locks' /\ lock' \in Seq(Calls)
    BY <1>1, <1>2, <2>1, KeptLocks
  <2>3. CallStands(c)'
    BY <1>1, <1>2, <2>1 DEF IInv, CallStands, Managed
  <2>4. Preflights' /\ AdoptionIsAlone'
    BY <1>1, <1>2, <2>1, QuietCall DEF Adopting
  <2>5. work' \in [Works -> WorkType] /\ \A w \in Works : WorkStands(w)'
    BY <1>1, <2>1, ActorsApart DEF IInv, Shape, WorkStands, Managed, Does
  <2> QED BY <1>1, <2>1, <2>2, <2>3, <2>4, <2>5, CallKeeps
<1>3. CASE Done(c)
  BY <1>3, EndingSteps
<1> QED BY <1>2, <1>3 DEF Adopted

LEMMA RebindStep ==
  ASSUME IInv, NEW c \in Calls, Rebind(c)
  PROVE  IInv'
<1>1. job[c].pc = "rebind"
  BY DEF Rebind, At
<1>2. CASE Load(c, TRUE)
  BY <1>1, <1>2, LoadStep
<1>3. CASE Goto(c, "reloading") /\ UNCHANGED <<hass, owners, work, discovery, faults>>
  <2>1. /\ Does(c, job'[c]) /\ job'[c].pc = "reloading" /\ job'[c].kind = job[c].kind
        /\ job'[c].gen = job[c].gen
    BY <1>3, GotoFacts, ActorsApart DEF IInv, Pcs
  <2>2. UNCHANGED <<ha, gen, owned, builder, shut, published, route, broken, work, entries,
                    snapshot, missed, lock>>
    BY <1>3 DEF hass, owners, discovery
  <2>3. Locks' /\ lock' \in Seq(Calls)
    BY <1>1, <2>1, <2>2, KeptLocks
  <2>4. CallStands(c)'
    BY <1>1, <2>1, <2>2 DEF IInv, CallStands, Managed
  <2>5. Preflights' /\ AdoptionIsAlone'
    BY <1>1, <2>1, <2>2, QuietCall DEF Adopting
  <2>6. work' \in [Works -> WorkType] /\ \A w \in Works : WorkStands(w)'
    BY <2>1, <2>2, ActorsApart DEF IInv, Shape, WorkStands, Managed, Does
  <2> QED BY <2>1, <2>2, <2>3, <2>4, <2>5, <2>6, CallKeeps
<1> QED BY <1>2, <1>3 DEF Rebind

-----------------------------------------------------------------------------
(* Sessions and transactions.                                              *)

\* The works a call leaves alone stand as before.
LEMMA OtherWorks ==
  ASSUME IInv, NEW c \in Calls, Does(c, job'[c]), UNCHANGED <<gen, owned, shut, builder>>
  PROVE  \A w \in Works : work'[w] = work[w] \/ work'[w].pc = "none" => WorkStands(w)'
<1>1. job'[Loader] = job[Loader]
  BY ActorsApart DEF Does
<1> QED BY <1>1 DEF IInv, WorkStands, Managed

LEMMA NoWorkType == NoWork \in WorkType /\ NoWork.pc = "none"
BY EntryAssumption DEF NoWork, WorkType

\* The generation of a call that was let in.
LEMMA LetIn ==
  ASSUME IInv, NEW c \in Calls, job[c].pc \in {"asking", "preflight", "working"}
  PROVE  /\ job[c].gen \in Gens /\ job[c].gen \in 1 .. gen /\ gen \in Nat
         /\ job[c].gen \in 0 .. MaxSetups /\ Managed(job[c].gen)
BY GenIsNat, ActorsApart, EntryAssumption DEF IInv, CallStands, Shape, JobType, Gens

LEMMA StartSessionStep ==
  ASSUME IInv, NEW c \in Calls, StartSession(c)
  PROVE  IInv'
<1> DEFINE g == job[c].gen
<1>1. /\ job[c].pc = "asking" /\ job[c].kind = "create" /\ job[c].kind \in Locked
      /\ UNCHANGED <<ha, gen, owned, builder, shut, published, route, broken, entries,
                     snapshot, missed>>
  BY DEF StartSession, Answered, At, owners, discovery, Locked
<1>2. CASE Done(c) /\ UNCHANGED work
  BY <1>1, <1>2, CallEnds
<1>3. ASSUME ~shut[g], NEW w \in Works, work[w] = NoWork,
             work' = [work EXCEPT ![w] = [pc |-> "preflight", kind |-> "session",
                                          gen |-> g, stage |-> "begun",
                                          cancelled |-> FALSE]],
             job' = [job EXCEPT ![c].pc = "preflight", ![c].work = w],
             UNCHANGED lock
      PROVE  IInv'
  <2>1. /\ g \in Gens /\ g \in 1 .. gen /\ g \in 0 .. MaxSetups /\ Managed(g)
    BY <1>1, LetIn
  <2>2. /\ Does(c, job'[c]) /\ job'[c].pc = "preflight" /\ job'[c].work = w
        /\ job'[c].gen = g /\ job'[c].kind = "create"
    BY <1>1, <1>3, ActorsApart DEF IInv, Shape, JobType, Does
  <2>3. /\ work' \in [Works -> WorkType]
        /\ work'[w] = [pc |-> "preflight", kind |-> "session", gen |-> g, stage |-> "begun",
                       cancelled |-> FALSE]
        /\ \A v \in Works \ {w} : work'[v] = work[v]
    <3> DEFINE k == [pc |-> "preflight", kind |-> "session", gen |-> g, stage |-> "begun",
                     cancelled |-> FALSE]
    <3>1. k \in WorkType
      BY <2>1 DEF WorkType, Live
    <3> QED BY <1>3, <3>1 DEF IInv, Shape
  <2>4. Locks' /\ lock' \in Seq(Calls)
    BY <1>1, <1>3, <2>2, KeptLocks
  <2>5. CallStands(c)'
    BY <1>1, <2>1, <2>2 DEF CallStands, Managed, IInv
  <2>6. WorkStands(w)'
    BY <1>1, <1>3, <2>1, <2>3 DEF WorkStands, Managed
  <2>7. \A v \in Works : WorkStands(v)'
    BY <1>1, <2>2, <2>3, <2>6, OtherWorks
  <2>8. \A d \in Calls \ {c} : job'[d] = job[d] /\ ~Adopting(d)
    BY <1>1, <2>2, LockedFirst, ActorsApart DEF Does, Adopting, Locked
  <2>9. ~Adopting(c) /\ ~Adopting(c)'
    BY <1>1, <2>2 DEF Adopting
  <2>10. Preflights'
    <3>1. \A v \in Works : work'[v].pc = "preflight" =>
            \E d \in Calls : job'[d].pc = "preflight" /\ job'[d].work = v
      <4> SUFFICES ASSUME NEW v \in Works, work'[v].pc = "preflight"
                   PROVE  \E d \in Calls : job'[d].pc = "preflight" /\ job'[d].work = v
        OBVIOUS
      <4>1. CASE v = w
        BY <2>2, <4>1
      <4>2. CASE v # w
        <5>1. PICK d \in Calls : job[d].pc = "preflight" /\ job[d].work = v
          BY <2>3, <4>2 DEF IInv, Preflights
        <5> QED BY <1>1, <2>8, <5>1
      <4> QED BY <4>1, <4>2
    <3>2. ASSUME NEW d \in Calls, job'[d].pc = "preflight"
          PROVE  work'[job'[d].work].pc = "preflight"
      <4>1. CASE d = c
        BY <2>2, <2>3, <4>1
      <4>2. CASE d # c
        <5>1. job[d].work \in Works /\ work[job[d].work].pc = "preflight" /\ job'[d] = job[d]
          BY <2>8, <3>2, <4>2 DEF IInv, Preflights, CallStands
        <5> QED BY <1>3, <2>3, <5>1, NoWorkType
      <4> QED BY <4>1, <4>2
    <3> QED BY <3>1, <3>2 DEF Preflights
  <2>11. AdoptionIsAlone'
    BY <1>1, <2>8, <2>9 DEF IInv, AdoptionIsAlone, Adopting
  <2> QED BY <1>1, <2>2, <2>3, <2>4, <2>5, <2>7, <2>10, <2>11, CallKeeps
<1> QED BY <1>2, <1>3 DEF StartSession

LEMMA PreviewStep ==
  ASSUME IInv, NEW c \in Calls, Preview(c)
  PROVE  IInv'
<1> DEFINE g == job[c].gen
<1>1. /\ job[c].pc = "asking" /\ Done(c)
      /\ UNCHANGED <<ha, gen, owned, builder, shut, published, route, broken, entries,
                     snapshot, missed>>
  BY DEF Preview, Answered, At, owners, discovery
<1>2. CASE UNCHANGED work
  BY <1>1, <1>2, CallEnds
<1>3. ASSUME ~shut[g], NEW w \in Works, work[w] = NoWork,
             work' = [work EXCEPT ![w] = [pc |-> "open", kind |-> "transaction",
                                          gen |-> g, stage |-> "begun",
                                          cancelled |-> FALSE]]
      PROVE  IInv'
  <2>1. /\ g \in Gens /\ g \in 1 .. gen /\ g \in 0 .. MaxSetups /\ Managed(g)
    BY <1>1, LetIn
  <2>2. Does(c, job'[c]) /\ job'[c] = NoJob /\ Locks' /\ lock' \in Seq(Calls)
    BY <1>1, DoneFacts
  <2>3. /\ work' \in [Works -> WorkType]
        /\ work'[w] = [pc |-> "open", kind |-> "transaction", gen |-> g, stage |-> "begun",
                       cancelled |-> FALSE]
        /\ \A v \in Works \ {w} : work'[v] = work[v]
    <3> DEFINE k == [pc |-> "open", kind |-> "transaction", gen |-> g, stage |-> "begun",
                     cancelled |-> FALSE]
    <3>1. k \in WorkType
      BY <2>1 DEF WorkType
    <3> QED BY <1>3, <3>1 DEF IInv, Shape
  <2>4. CallStands(c)' /\ ~Adopting(c)' /\ job'[c].pc \notin {"dialing", "preflight"}
    BY <1>1, <2>2, EndedStands, GenIsNat, NoJobType
  <2>5. WorkStands(w)'
    BY <1>1, <2>1, <2>3 DEF WorkStands, Managed
  <2>6. \A v \in Works : WorkStands(v)'
    BY <1>1, <2>2, <2>3, <2>5, OtherWorks
  <2>7. Preflights' /\ AdoptionIsAlone'
    BY <1>1, <1>3, <2>2, <2>3, <2>4, NoWorkType, QuietCall
  <2> QED BY <1>1, <2>2, <2>3, <2>4, <2>6, <2>7, CallKeeps
<1> QED BY <1>1, <1>2, <1>3 DEF Preview

\* A call ends that used the work w, which is left open or given up.
LEMMA LeavesWork ==
  ASSUME IInv, NEW c \in Calls, job[c].pc \in {"preflight", "working"}, Done(c),
         UNCHANGED <<ha, gen, owned, builder, shut, published, route, broken, entries,
                     snapshot, missed>>,
         job[c].pc = "preflight" \/ work[job[c].work].pc \in {"running", "committing"},
         \/ \E stage \in {"begun", "finished", "again"} :
              /\ Leave(job[c].work, stage) /\ work[job[c].work].pc # "committing"
              /\ stage = "begun" /\ job[c].pc # "preflight" => work[job[c].work].stage = "begun"
         \/ work' = [work EXCEPT ![job[c].work] = NoWork]
  PROVE  IInv'
<1>0. PICK w \in Works : w = job[c].work
  BY DEF IInv, CallStands
<1>1. /\ w = job[c].work /\ w \in Works /\ work[w] \in WorkType
      /\ work[w].pc \in {"preflight", "running", "committing"}
      /\ work[w].pc = "preflight" => job[c].pc = "preflight"
      /\ job[c].pc = "preflight" => work[w].pc = "preflight"
  BY <1>0 DEF IInv, CallStands, Shape, Preflights
<1>2. Does(c, job'[c]) /\ job'[c] = NoJob /\ Locks' /\ lock' \in Seq(Calls)
  BY DoneFacts
<1>3. CallStands(c)' /\ ~Adopting(c)' /\ job'[c].pc \notin {"dialing", "preflight"}
  BY <1>2, EndedStands, GenIsNat, NoJobType
<1>4. /\ work' \in [Works -> WorkType] /\ \A v \in Works \ {w} : work'[v] = work[v]
      /\ \/ work'[w] = NoWork
         \/ /\ work[w].pc # "committing" /\ work'[w].pc = "open"
            /\ work'[w].kind = work[w].kind /\ work'[w].gen = work[w].gen
            /\ work'[w].stage = "begun" /\ job[c].pc # "preflight" => work[w].stage = "begun"
  <2>1. CASE work' = [work EXCEPT ![w] = NoWork]
    BY <1>1, <2>1, NoWorkType DEF IInv, Shape
  <2>2. ASSUME "sessions" \in owned[work[w].gen], work[w].pc # "committing",
               NEW stage \in {"begun", "finished", "again"},
               stage = "begun" /\ job[c].pc # "preflight" => work[w].stage = "begun",
               work' = [work EXCEPT ![w] = [@ EXCEPT !.pc = "open", !.stage = stage]]
        PROVE  /\ work' \in [Works -> WorkType] /\ \A v \in Works \ {w} : work'[v] = work[v]
               /\ work'[w].pc = "open" /\ work'[w].kind = work[w].kind
               /\ work'[w].gen = work[w].gen /\ work'[w].stage = stage
    <3> DEFINE new == [work[w] EXCEPT !.pc = "open", !.stage = stage]
    <3>1. /\ new \in WorkType /\ new.pc = "open" /\ new.stage = stage
          /\ new.kind = work[w].kind /\ new.gen = work[w].gen
      BY <1>1 DEF WorkType
    <3>2. work' = [work EXCEPT ![w] = new]
      BY <2>2
    <3> HIDE DEF new
    <3> QED BY <1>1, <2>2, <3>1, <3>2 DEF IInv, Shape
  <2> QED BY <1>1, <2>1, <2>2 DEF Leave, IInv, Shape
<1>5. WorkStands(w)'
  <2>1. CASE work'[w] = NoWork
    BY <2>1, NoWorkType DEF WorkStands
  <2>2. CASE /\ work'[w].pc = "open" /\ work'[w].kind = work[w].kind
             /\ work'[w].gen = work[w].gen
    BY <1>1, <2>2 DEF IInv, WorkStands, Managed
  <2> QED BY <1>4, <2>1, <2>2
<1>6. \A v \in Works : WorkStands(v)'
  BY <1>2, <1>4, <1>5, OtherWorks
<1>7. Preflights' /\ AdoptionIsAlone'
  <2>1. job[c].pc # "reloading"
    OBVIOUS
  <2>2. \/ job[c].pc # "preflight"
        \/ \A d \in Calls : ~Adopting(d)
    BY LockedFirst DEF IInv, CallStands, Locked, Adopting
  <2>3. \A v \in Works :
          /\ work'[v].pc = "preflight" =>
               work[v].pc = "preflight" /\ ~(job[c].pc = "preflight" /\ job[c].work = v)
          /\ work[v].pc = "preflight" =>
               work'[v].pc = "preflight" \/ (job[c].pc = "preflight" /\ job[c].work = v)
          /\ work'[v].pc \in {"preflight", "open", "running"} =>
               /\ work'[v].gen = work[v].gen /\ work'[v].kind = work[v].kind
               /\ work[v].pc \in {"preflight", "open", "running"}
               /\ \/ work'[v].stage = "begun" => work[v].stage = "begun"
                  \/ job[c].pc = "preflight"
    BY <1>1, <1>4, NoWorkType
  <2> QED BY <1>2, <1>3, <2>1, <2>2, <2>3, QuietCall
<1> QED BY <1>2, <1>3, <1>4, <1>6, <1>7, CallKeeps

LEMMA SessionReadyStep ==
  ASSUME IInv, NEW c \in Calls, SessionReady(c)
  PROVE  IInv'
<1>1. /\ job[c].pc = "preflight" /\ Done(c) /\ work[job[c].work].pc = "preflight"
      /\ UNCHANGED <<ha, gen, owned, builder, shut, published, route, broken, entries,
                     snapshot, missed>>
      /\ \/ work' = [work EXCEPT ![job[c].work] = NoWork]
         \/ Leave(job[c].work, "begun")
  BY DEF SessionReady, At, owners, discovery, IInv, Preflights
<1> QED BY <1>1, LeavesWork

LEMMA WorkEndsStep ==
  ASSUME IInv, NEW c \in Calls, WorkEnds(c)
  PROVE  IInv'
<1>1. /\ job[c].pc = "working" /\ work[job[c].work].pc = "running" /\ Done(c)
      /\ \E stage \in {"begun", "finished", "again"} :
           /\ Leave(job[c].work, stage)
           /\ stage = "begun" => work[job[c].work].stage = "begun"
      /\ UNCHANGED <<ha, gen, owned, builder, shut, published, route, broken, entries,
                     snapshot, missed>>
  BY DEF WorkEnds, Reaches, At, owners, discovery
<1> QED BY <1>1, LeavesWork

LEMMA CommitEndsStep ==
  ASSUME IInv, NEW c \in Calls, CommitEnds(c)
  PROVE  IInv'
<1>1. /\ job[c].pc = "working" /\ work[job[c].work].pc = "committing" /\ Done(c)
      /\ work' = [work EXCEPT ![job[c].work] = NoWork]
      /\ UNCHANGED <<ha, gen, owned, builder, shut, published, route, broken, entries,
                     snapshot, missed>>
  BY DEF CommitEnds, At, owners, discovery
<1> QED BY <1>1, LeavesWork

\* A transaction goes on to its commit: it was not cancelled, so that its
\* session manager is still there.
LEMMA CommitStep ==
  ASSUME IInv, NEW c \in Calls, Commit(c)
  PROVE  IInv'
<1>0. PICK w \in Works : w = job[c].work
  BY DEF IInv, CallStands, Commit, At
<1>1. /\ work[w].pc = "running" /\ work[w].kind = "transaction" /\ ~work[w].cancelled
      /\ work' = [work EXCEPT ![w].pc = "committing"] /\ job[c].pc = "working" /\ job' = job
      /\ UNCHANGED <<ha, gen, owned, builder, shut, published, route, broken, entries,
                     snapshot, missed, lock>>
  BY <1>0 DEF Commit, At, hass, owners, discovery
<1>2. Does(c, job'[c])
  BY <1>1 DEF Does, IInv, Shape
<1>3. /\ work' \in [Works -> WorkType] /\ \A v \in Works \ {w} : work'[v] = work[v]
      /\ work'[w].pc = "committing" /\ work'[w].kind = "transaction"
      /\ work'[w].gen = work[w].gen /\ work'[w].cancelled = work[w].cancelled
  BY <1>1 DEF IInv, Shape, WorkType, Live
<1>4. WorkStands(w)'
  BY <1>1, <1>3 DEF IInv, WorkStands, Managed
<1>5. \A v \in Works : WorkStands(v)'
  BY <1>1, <1>2, <1>3, <1>4, OtherWorks
<1>6. Locks' /\ lock' \in Seq(Calls) /\ CallStands(c)'
  BY <1>1 DEF IInv, Shape, Locks, CallStands, Managed
<1>7. Preflights' /\ AdoptionIsAlone'
  BY <1>1, <1>2, <1>3, QuietCall DEF Adopting
<1> QED BY <1>1, <1>2, <1>3, <1>5, <1>6, <1>7, CallKeeps

LEMMA RunWorkStep ==
  ASSUME IInv, NEW c \in Calls, RunWork(c)
  PROVE  IInv'
<1>1. /\ job[c].pc = "called" /\ job[c].kind = "use" /\ job[c].kind \notin Locked
      /\ UNCHANGED <<ha, gen, owned, builder, shut, published, route, broken, entries,
                     snapshot, missed>>
  BY DEF RunWork, At, owners, discovery, Locked
<1>2. CASE Done(c) /\ UNCHANGED work
  BY <1>1, <1>2, CallEnds
<1>3. ASSUME NEW w \in Usable(route),
             work' = [work EXCEPT ![w].pc = "running"],
             job' = [job EXCEPT ![c] = [@ EXCEPT !.pc = "working", !.gen = route, !.work = w]],
             UNCHANGED lock
      PROVE  IInv'
  <2>1. w \in Works /\ work[w].pc = "open" /\ work[w].gen = route
    BY <1>3 DEF Usable, OfGen
  <2>2. /\ route = gen /\ gen \in Gens /\ gen # 0 /\ "sessions" \in owned[gen] /\ ~shut[gen]
        /\ route \in 0 .. MaxSetups
    <3>1. work[w].gen \in 1 .. gen /\ gen \in 0 .. MaxSetups
      BY <2>1 DEF IInv, WorkStands, Shape
    <3> QED BY <2>1, <3>1, EntryAssumption DEF IInv, Loads, Made, Gens
  <2>3. /\ Does(c, job'[c]) /\ job'[c].pc = "working" /\ job'[c].work = w
        /\ job'[c].gen = gen /\ job'[c].kind = "use"
    <3> DEFINE k == [[[job[c] EXCEPT !.pc = "working"] EXCEPT !.gen = route] EXCEPT !.work = w]
    <3>1. job[c] \in JobType
      BY ActorsApart DEF IInv, Shape
    <3>2. /\ k \in JobType /\ k.pc = "working" /\ k.gen = route
          /\ k.kind = job[c].kind /\ k.work = w
      BY <2>1, <2>2, <3>1 DEF JobType
    <3>3. job' = [job EXCEPT ![c] = k]
      BY <1>3, <3>1, ActorsApart DEF IInv, Shape
    <3> HIDE DEF k
    <3> QED BY <1>1, <2>2, <3>2, <3>3, DoesFacts, ActorsApart DEF IInv, Does
  <2>4. /\ work' \in [Works -> WorkType] /\ \A v \in Works \ {w} : work'[v] = work[v]
        /\ work'[w].pc = "running" /\ work'[w].kind = work[w].kind
        /\ work'[w].gen = gen /\ work'[w].cancelled = work[w].cancelled
        /\ work'[w].stage = work[w].stage
    BY <1>3, <2>1, <2>2 DEF IInv, Shape, WorkType, Live
  <2>5. job[Loader].pc \notin PastDrain /\ job'[Loader] = job[Loader]
    BY <2>2, <2>3, ActorsApart DEF IInv, Loads, PastDrain, Does
  <2>6. WorkStands(w)'
    BY <1>1, <2>1, <2>2, <2>4, <2>5 DEF IInv, WorkStands, Managed
  <2>7. \A v \in Works : WorkStands(v)'
    BY <1>1, <2>3, <2>4, <2>6, OtherWorks
  <2>8. Locks' /\ lock' \in Seq(Calls)
    BY <1>1, <1>3, <2>3, KeptLocks
  <2>9. CallStands(c)'
    BY <1>1, <2>1, <2>2, <2>3, GenIsNat DEF CallStands, Managed
  <2>10. Preflights' /\ AdoptionIsAlone'
    BY <1>1, <2>1, <2>2, <2>3, <2>4, QuietCall DEF Adopting
  <2> QED BY <1>1, <2>3, <2>4, <2>7, <2>8, <2>9, <2>10, CallKeeps
<1> QED BY <1>2, <1>3 DEF RunWork

-----------------------------------------------------------------------------
(* The invariant of the specification, and what it says.                   *)

LEMMA TeardownStep ==
  ASSUME IInv, Teardown
  PROVE  IInv'
BY UnloadBeginsStep, CloseWorkflowStep, DrainSessionsStep, CloseBuilderStep,
   UnloadSessionsStep, TasksStep, ReleaseSessionsStep, CloseApiStep, StopProvisioningStep
   DEF Teardown

LEMMA SetUpStep ==
  ASSUME IInv, SetUp \/ SetupFails
  PROVE  IInv'
BY SetupCatalogStep, SetupDiscoverStep, SetupOwnersStep, SetupPanelStep, SetupFailsStep
   DEF SetUp

LEMMA CallStep ==
  ASSUME IInv, NEW c \in Calls, Arrive(c) \/ Call(c) \/ Fails(c) \/ WorkEnds(c) \/ Commit(c)
  PROVE  IInv'
BY ArriveStep, EnterStep, AdoptedStep, RebindStep, EndingSteps, StartSessionStep,
   PreviewStep, SessionReadyStep, RunWorkStep, WorkEndsStep, CommitStep, CommitEndsStep
   DEF Call

LEMMA InductiveStep ==
  ASSUME IInv, [Next]_vars
  PROVE  IInv'
<1>1. CASE UNCHANGED vars
  BY <1>1 DEF vars, IInv, Shape, Loads, Made, Unborn, ShutAdmitsNobody, CallStands,
     RefreshStands, WorkStands, OldOnesAreGone, Locks, Preflights, AdoptionIsAlone, Shows,
     Now, Managed, Gone, Adopting, Admits, Dialers, HaIdle, At
<1>2. CASE User
  BY <1>2, LoadStep, EntryAssumption DEF User
<1>3. ASSUME NEW a \in Actors, Dial(a) PROVE IInv'
  BY <1>3, DialStep, LoaderDialStep
<1> QED BY <1>1, <1>2, <1>3, TeardownStep, SetUpStep, CallStep, DiscoveryStep DEF Next

LEMMA InvariantHolds == Spec => []IInv
<1>1. ASSUME Init PROVE IInv
  <2>1. /\ MaxSetups \in Nat /\ \A a \in Actors : job[a] = NoJob
        /\ \A w \in Works : work[w].pc = "none"
    BY <1>1, NoWorkType, EntryAssumption DEF Init
  <2>2. Shape
    BY <1>1, <2>1, NoJobType, NoWorkType, EntryAssumption
       DEF Init, Shape, Quiet, NoBuilder, BuilderType
  <2>3. Loads /\ Made
    BY <1>1, <2>1, NoJobType, ActorsApart
       DEF Init, Loads, Made, Now, Quiet, Making, Closing, PastDrain, PastBuilder
  <2>4. Unborn /\ ShutAdmitsNobody
    BY <1>1 DEF Init, Unborn, ShutAdmitsNobody
  <2>5. \A c \in Calls : CallStands(c)
    BY <1>1, <2>1, NoJobType, ActorsApart DEF Init, CallStands
  <2>6. RefreshStands /\ \A w \in Works : WorkStands(w)
    BY <2>1, NoJobType, ActorsApart DEF RefreshStands, WorkStands
  <2>7. OldOnesAreGone
    BY <1>1, <2>1, NoJobType DEF Init, OldOnesAreGone, Gone, Dialers, At, NoBuilder
  <2>8. Locks
    BY <1>1, <2>1, NoJobType, ActorsApart DEF Init, Locks, Locked
  <2>9. Preflights /\ AdoptionIsAlone
    BY <1>1, <2>1, NoJobType, ActorsApart
       DEF Init, Preflights, AdoptionIsAlone, Adopting, Quiet
  <2>10. Shows
    BY <1>1, <2>1, NoJobType, ActorsApart DEF Init, Shows, At
  <2> QED BY <2>2, <2>3, <2>4, <2>5, <2>6, <2>7, <2>8, <2>9, <2>10 DEF IInv
<1> QED BY <1>1, InductiveStep, PTL DEF Spec

\* When no set-up or unload runs, a generation that is not published is closed
\* in every part, unless its teardown reported an error (the unwinding of
\* async_setup_entry, async_unload_entry).
THEOREM NothingIsLeft == Spec => []NothingOutlivesTheEntry
<1>1. ASSUME IInv PROVE NothingOutlivesTheEntry
  <2> SUFFICES ASSUME HaIdle, NEW g \in Gens \ ({published} \cup broken)
               PROVE  /\ owned[g] = {} /\ ~builder[g].connected
                      /\ route # g /\ job[Refresh].gen # g
                      /\ OfGen(g, {"committing"}) = {}
                      /\ \A w \in OfGen(g, {"running"}) : work[w].kind = "transaction"
    BY DEF NothingOutlivesTheEntry
  <2>1. Gone(g)
    BY <1>1 DEF IInv, OldOnesAreGone
  <2>2. g # 0
    BY EntryAssumption DEF Gens
  <2>3. route # g
    BY <1>1, <2>2 DEF IInv, Loads, HaIdle, At
  <2>4. job[Refresh].gen # g
    BY <1>1, <2>1, <2>2 DEF IInv, RefreshStands, Gone
  <2>5. \A w \in OfGen(g, {"committing"}) : FALSE
    BY <1>1, <2>1 DEF IInv, WorkStands, Gone, OfGen
  <2>6. ASSUME NEW w \in OfGen(g, {"running"}) PROVE work[w].kind = "transaction"
    <3>1. work[w].kind # "session" /\ work[w].kind # "none"
      BY <1>1, <2>1, <2>6 DEF IInv, WorkStands, Gone, OfGen
    <3> QED BY <1>1, <2>6, <3>1 DEF IInv, Shape, WorkType, OfGen
  <2> QED BY <2>1, <2>3, <2>4, <2>5, <2>6 DEF Gone
<1> QED BY <1>1, InvariantHolds, PTL

\* A task that outlives its session manager is cancelled, has no connection,
\* and runs no calibration and no commit (SessionManager.async_unload).
THEOREM StragglersDoNoHarm == Spec => []StragglersAreHarmless
<1>1. ASSUME IInv PROVE StragglersAreHarmless
  <2> SUFFICES ASSUME NEW w \in Works, work[w].pc \in Live, "sessions" \notin owned[work[w].gen]
               PROVE  /\ work[w].cancelled /\ work[w].pc # "committing"
                      /\ ~(work[w].kind = "session" /\ work[w].pc = "running")
                      /\ ~Admits(work[w].gen)
    BY DEF StragglersAreHarmless
  <2>1. work[w].gen \in Gens /\ work[w].pc # "none"
    BY <1>1, EntryAssumption DEF IInv, Shape, WorkStands, Gens, Live
  <2>2. shut[work[w].gen]
    BY <1>1, <2>1 DEF IInv, WorkStands, Managed
  <2> QED BY <1>1, <2>1, <2>2 DEF IInv, WorkStands, ShutAdmitsNobody, Live
<1> QED BY <1>1, InvariantHolds, PTL

\* A durable commit is neither cancelled nor outlived by its session manager
\* (persistence_commit_started, SessionManager.async_unload).
THEOREM CommitsEnd == Spec => []CommitSurvivesUnload
<1>1. IInv => CommitSurvivesUnload
  BY DEF IInv, WorkStands, CommitSurvivesUnload
<1> QED BY <1>1, InvariantHolds, PTL

\* The snapshot shows the entries when no refresh runs and none failed, though
\* a change during a refresh starts no other (the coordinator's debounce).
THEOREM ChangesAreShown == Spec => []NoChangeIsMissed
<1>1. IInv => NoChangeIsMissed
  BY DEF IInv, Loads, Shows, NoChangeIsMissed
<1> QED BY <1>1, InvariantHolds, PTL

\* The unload of a rebind ends no session that never finished, however long the
\* reload had to wait for its turn (the rebind lock of the websocket router).
THEOREM RebindsSpareNewSessions == Spec => RebindSparesNewSessions
<1> DEFINE Spared == UnloadBegins /\ ha.by \in Calls =>
             \A w \in OfGen(Now, {"preflight", "open", "running"}) :
               work[w].kind = "session" => work[w].stage # "begun"
<1>1. ASSUME IInv PROVE Spared
  <2> SUFFICES ASSUME UnloadBegins, ha.by \in Calls,
                      NEW w \in OfGen(Now, {"preflight", "open", "running"}),
                      work[w].kind = "session"
               PROVE  work[w].stage # "begun"
    OBVIOUS
  <2>1. Now = gen
    BY <1>1, ClosingFacts DEF UnloadBegins, At
  <2>2. Adopting(ha.by)
    BY <1>1 DEF IInv, AdoptionIsAlone, CallStands, Adopting
  <2> QED BY <1>1, <2>1, <2>2 DEF IInv, AdoptionIsAlone, OfGen
<1>2. IInv => [Spared]_vars
  BY <1>1
<1> QED BY <1>2, InvariantHolds, PTL DEF RebindSparesNewSessions
=============================================================================
