--------------------------- MODULE EntryLifeCycle ---------------------------
(***************************************************************************)
(* The life of the config entry: set-up and its unwinding, unload and the  *)
(* retry of a failed unload (__init__.py), the router of websocket calls   *)
(* with its rebind lock and the reload of an adopted meter                 *)
(* (websocket_api.py), the lazy Device Builder connection and the close of *)
(* the workflow (workflow.py), the unload of SessionManager                *)
(* (session_manager.py) and the discovery refresh (provisioning.py).       *)
(*                                                                         *)
(* Every set-up makes a new generation of owners: a coordinator, a builder *)
(* connection, a session manager, an API session, a workflow behind one    *)
(* controller.  What a generation leaves behind meets the next one here.   *)
(* A step runs to the next await.                                          *)
(***************************************************************************)
EXTENDS Naturals, Sequences, FiniteSets

CONSTANTS
  Calls,        \* websocket calls in progress at once
  Works,        \* sessions and transactions alive at once
  Kinds,        \* the kinds of call explored
  MaxSetups, MaxFaults, MaxChanges,
  None

Loader  == "loader"      \* async_setup_entry and async_unload_entry
Refresh == "refresh"     \* the debounced rescan of the coordinator
Gens    == 1 .. MaxSetups
Actors  == Calls \cup {Loader, Refresh}
Owners  == {"provisioning", "workflow", "sessions", "api"}
Locked  == {"adopt", "readopt", "create"}

ASSUME EntryAssumption ==
  /\ {MaxSetups, MaxFaults, MaxChanges} \subseteq Nat
  /\ Kinds \subseteq Locked \cup {"preview", "use", "rescan", "intent"}
  /\ Calls \cap {Loader, Refresh, "user", None} = {} /\ None \notin Works

VARIABLES
  ha,         \* Home Assistant: whose reload, set-up or unload is running
  job,        \* what the loader, the refresh task and each call do
  gen,        \* the newest generation
  owned,      \* the owners of each generation that are open
  builder,    \* LazyDeviceBuilder of each generation
  shut,       \* SessionManager._closed of each generation
  published,  \* the generation in hass.data, 0 if none
  route,      \* the generation whose controller the router knows, 0 if none
  panel,      \* the panel is registered at the frontend
  rebinding,  \* DATA_PANEL_REBIND_ENTRY_ID is set
  lock,       \* the rebind lock: its holder, and who waits in order
  work,       \* the sessions and transactions
  entries,    \* the version of the ESPHome entries
  snapshot,   \* what ProvisioningCoordinator of the newest generation publishes
  missed,     \* the last rescan failed
  faults,     \* failures so far
  broken      \* the generations whose teardown reported an error

hass == <<ha, published, route, panel, rebinding, lock>>
owners == <<gen, owned, builder, shut, broken>>
discovery == <<entries, snapshot, missed>>
vars == <<ha, job, gen, owned, builder, shut, published, route, panel, rebinding,
          lock, work, entries, snapshot, missed, faults, broken>>

-----------------------------------------------------------------------------

NoJob == [pc |-> "idle", kind |-> "none", gen |-> 0, work |-> None]
NoWork == [pc |-> "none", kind |-> "none", gen |-> 0, stage |-> "begun", cancelled |-> FALSE]
NoBuilder == [state |-> "none", connected |-> FALSE]
Quiet == [by |-> None, reload |-> FALSE, err |-> FALSE]

\* A snapshot of the devices, and the one of the installer's guide, which has
\* none; each with the version of the entries at its time.
Listing(v) == [devices |-> TRUE, of |-> v]
Guide(v) == [devices |-> FALSE, of |-> v]

Init ==
  /\ ha = Quiet
  /\ job = [a \in Actors |-> NoJob]
  /\ gen = 0
  /\ owned = [g \in Gens |-> {}]
  /\ builder = [g \in Gens |-> NoBuilder]
  /\ shut = [g \in Gens |-> FALSE]
  /\ published = 0 /\ route = 0
  /\ panel = FALSE /\ rebinding = FALSE
  /\ lock = <<>>
  /\ work = [w \in Works |-> NoWork]
  /\ entries = 0 /\ snapshot = Listing(0) /\ missed = FALSE
  /\ faults = 0 /\ broken = {}

At(a, s) == job[a].pc = s
Goto(a, s) == job' = [job EXCEPT ![a].pc = s]
Now == job[Loader].gen
Fault == faults < MaxFaults /\ faults' = faults + 1

OfGen(g, s) == {w \in Works : work[w].gen = g /\ work[w].pc \in s}
Live == {"preflight", "running", "committing"}

-----------------------------------------------------------------------------
(***************************************************************************)
(* The Device Builder connection is made by the first caller that needs it *)
(* and under a lock, which the close takes too: it is behind every caller  *)
(* that was let in before, and lets no other one in.                       *)
(***************************************************************************)

Admits(g) == builder[g].state = "open"

\* _ready: where a caller that was let in continues.
Ready(g) == IF builder[g].connected THEN "asking" ELSE "dialing"

Dialers(g) == {a \in Actors : At(a, "dialing") /\ job[a].gen = g}

Dial(a) ==
  /\ At(a, "dialing")
  /\ builder' = [builder EXCEPT ![job[a].gen].connected = TRUE]
  /\ Goto(a, "asking")
  /\ UNCHANGED <<hass, gen, owned, shut, broken, work, discovery, faults>>

\* Device Builder answers only while the connection stands.
Answered(a) == At(a, "asking") /\ (builder[job[a].gen].state = "none" \/ builder[job[a].gen].connected)

Unanswered(a) ==
  \/ At(a, "dialing") /\ Fault
  \/ At(a, "asking") /\ Fault
  \/ At(a, "asking") /\ ~Answered(a) /\ UNCHANGED faults

-----------------------------------------------------------------------------
(***************************************************************************)
(* Set-up.                                                                 *)
(***************************************************************************)

\* The state of the loader that starts to set the entry up.
Fresh == [pc |-> "catalog", kind |-> "setup", gen |-> gen + 1, work |-> None]

SetupCatalog ==
  /\ At(Loader, "catalog")
  /\ Goto(Loader, "discover")
  /\ UNCHANGED <<hass, owners, work, discovery, faults>>

\* create_device_builder finds one builder or none; the coordinator subscribes
\* before its first scan.
SetupDiscover ==
  /\ At(Loader, "discover")
  /\ \E found \in {"open", "none"} :
       /\ builder' = [builder EXCEPT ![Now].state = found]
       /\ Goto(Loader, IF found = "open" THEN "dialing" ELSE "asking")
  /\ owned' = [owned EXCEPT ![Now] = {"provisioning"}]
  /\ UNCHANGED <<hass, gen, shut, broken, work, discovery, faults>>

\* The first snapshot; then, without an await, every other owner and the route.
SetupOwners ==
  /\ At(Loader, "asking") /\ Answered(Loader)
  /\ snapshot' = Listing(entries) /\ missed' = FALSE
  /\ owned' = [owned EXCEPT ![Now] = Owners]
  /\ route' = Now
  /\ IF rebinding
       THEN /\ published' = Now
            /\ job' = [job EXCEPT ![Loader] = NoJob]
            /\ ha' = Quiet
       ELSE /\ Goto(Loader, "panel")
            /\ UNCHANGED <<ha, published>>
  /\ UNCHANGED <<gen, builder, shut, broken, panel, rebinding, lock, work, entries, faults>>

\* Home Assistant refuses to register a panel twice.
SetupPanel ==
  /\ At(Loader, "panel") /\ ~panel
  /\ panel' = TRUE
  /\ published' = Now
  /\ job' = [job EXCEPT ![Loader] = NoJob]
  /\ ha' = Quiet
  /\ UNCHANGED <<owners, route, rebinding, lock, work, discovery, faults>>

\* A step fails or Home Assistant cancels the set-up: unwind what there is.
SetupFails ==
  /\ \/ (At(Loader, "catalog") \/ At(Loader, "discover") \/ At(Loader, "panel")) /\ Fault
     \/ At(Loader, "panel") /\ panel /\ UNCHANGED faults
     \/ job[Loader].kind = "setup" /\ Unanswered(Loader)
  /\ Goto(Loader, "close")
  /\ route' = IF route = Now THEN 0 ELSE route
  /\ UNCHANGED <<ha, owners, published, panel, rebinding, lock, work, discovery>>

-----------------------------------------------------------------------------
(***************************************************************************)
(* Teardown, of a failed set-up and of an unload.                          *)
(***************************************************************************)

UnloadBegins ==
  /\ At(Loader, "begin")
  /\ panel' = (panel /\ rebinding)
  /\ route' = 0
  /\ Goto(Loader, "close")
  /\ UNCHANGED <<ha, owners, published, rebinding, lock, work, discovery, faults>>

\* The workflow revokes its sessions and cancels what they run.
CloseWorkflow ==
  /\ At(Loader, "close")
  /\ work' = [w \in Works |->
                IF w \in OfGen(Now, {"open", "running"}) /\ work[w].kind = "session"
                  THEN [work[w] EXCEPT !.cancelled = TRUE] ELSE work[w]]
  /\ Goto(Loader, "drain")
  /\ UNCHANGED <<hass, owners, discovery, faults>>

\* Variant: the drain does not wait for running calibrations.
DrainNothing(g) == {}

Draining(g) == {w \in OfGen(g, {"running"}) : work[w].kind = "session"}

DrainSessions ==
  /\ At(Loader, "drain") /\ Draining(Now) = {}
  /\ work' = [w \in Works |->
                IF w \in OfGen(Now, {"open"}) /\ work[w].kind = "session" THEN NoWork ELSE work[w]]
  /\ builder' = IF builder[Now].state = "open"
                  THEN [builder EXCEPT ![Now].state = "closing"] ELSE builder
  /\ Goto(Loader, "builder")
  /\ UNCHANGED <<hass, gen, owned, shut, broken, discovery, faults>>

\* Variant: the close does not take the lock of the connection.
ClosableAtOnce(g) == TRUE

Closable(g) == Dialers(g) = {}

CloseBuilder ==
  /\ At(Loader, "builder") /\ Closable(Now)
  /\ Goto(Loader, "sessions")
  /\ \/ /\ builder' = [builder EXCEPT ![Now].connected = FALSE,
                                      ![Now].state = IF @ = "closing" THEN "closed" ELSE @]
        /\ owned' = [owned EXCEPT ![Now] = @ \ {"workflow"}]
        /\ UNCHANGED <<ha, faults>>
     \/ /\ builder[Now].state = "closing" /\ Fault
        /\ ha' = [ha EXCEPT !.err = TRUE]
        /\ UNCHANGED <<builder, owned>>
  /\ UNCHANGED <<gen, shut, broken, published, route, panel, rebinding, lock, work, discovery>>

\* Variant: a durable commit is cancelled like any other task.
ProtectNothing(g) == {}

\* A transaction whose durable commit began is not cancelled.
Protected(g) == OfGen(g, {"committing"})

UnloadSessions ==
  /\ At(Loader, "sessions")
  /\ shut' = [shut EXCEPT ![Now] = TRUE]
  /\ work' = [w \in Works |->
                IF w \in OfGen(Now, Live) \ Protected(Now)
                  THEN [work[w] EXCEPT !.cancelled = TRUE] ELSE work[w]]
  /\ Goto(Loader, "wait")
  /\ UNCHANGED <<hass, gen, owned, builder, broken, discovery, faults>>

TasksEnd ==
  /\ At(Loader, "wait") /\ OfGen(Now, Live) = {}
  /\ Goto(Loader, "commits")
  /\ UNCHANGED <<hass, owners, work, discovery, faults>>

\* Variant: the unload waits for its tasks without a timeout.
TasksNeverTimeOut == FALSE /\ UNCHANGED vars

\* After unload_timeout the unload goes on without them.
TasksTimeOut ==
  /\ At(Loader, "wait") /\ OfGen(Now, Live) # {}
  /\ Goto(Loader, "commits")
  /\ UNCHANGED <<hass, owners, work, discovery, faults>>

Drained(g) == Protected(g) = {}

ReleaseSessions ==
  /\ At(Loader, "commits") /\ Drained(Now)
  /\ work' = [w \in Works |-> IF w \in OfGen(Now, {"open"}) THEN NoWork ELSE work[w]]
  /\ owned' = [owned EXCEPT ![Now] = @ \ {"sessions"}]
  /\ Goto(Loader, "api")
  /\ \/ UNCHANGED <<ha, faults>>
     \/ Fault /\ ha' = [ha EXCEPT !.err = TRUE]
  /\ UNCHANGED <<gen, builder, shut, broken, published, route, panel, rebinding, lock, discovery>>

CloseApi ==
  /\ At(Loader, "api")
  /\ \/ /\ owned' = [owned EXCEPT ![Now] = @ \ {"api"}]
        /\ UNCHANGED <<ha, faults>>
     \/ /\ "api" \in owned[Now] /\ Fault
        /\ ha' = [ha EXCEPT !.err = TRUE]
        /\ UNCHANGED owned
  /\ Goto(Loader, "stop")
  /\ UNCHANGED <<gen, builder, shut, broken, published, route, panel, rebinding, lock, work, discovery>>

\* The runtime of an entry stays where it is until its unload has no error.
\* A reload then sets the entry up again, if the unload succeeded.
StopProvisioning ==
  /\ At(Loader, "stop")
  /\ owned' = [owned EXCEPT ![Now] = @ \ {"provisioning"}]
  /\ broken' = IF ha.err THEN broken \cup {Now} ELSE broken
  /\ published' = IF ha.err \/ job[Loader].kind = "setup" THEN published ELSE 0
  /\ LET again == job[Loader].kind = "unload" /\ ha.reload /\ ~ha.err /\ gen < MaxSetups
     IN /\ job' = [job EXCEPT ![Loader] = IF again THEN Fresh ELSE NoJob,
                              ![Refresh] = IF @.gen = Now THEN NoJob ELSE @]
        /\ gen' = IF again THEN gen + 1 ELSE gen
        /\ ha' = IF again THEN ha ELSE Quiet
  /\ UNCHANGED <<builder, shut, route, panel, rebinding, lock, work, discovery, faults>>

-----------------------------------------------------------------------------
(***************************************************************************)
(* Home Assistant runs one set-up, unload or reload of the entry at a time *)
(* (entry.setup_lock).                                                     *)
(***************************************************************************)

HaIdle == At(Loader, "idle")

\* The loader starts, and a call that asked for it waits for it.
Handed(by, loader) ==
  [a \in Actors |-> IF a = Loader THEN loader
                    ELSE IF a = by THEN [job[a] EXCEPT !.pc = "reloading"] ELSE job[a]]

Load(by, reload) ==
  /\ HaIdle
  /\ ha' = [by |-> by, reload |-> reload, err |-> FALSE]
  /\ IF published = 0
       THEN /\ gen < MaxSetups
            /\ gen' = gen + 1
            /\ job' = Handed(by, Fresh)
       ELSE /\ job' = Handed(by, [pc |-> "begin", kind |-> "unload",
                                  gen |-> published, work |-> None])
            /\ UNCHANGED gen
  /\ UNCHANGED <<owned, builder, shut, broken, published, route, panel, rebinding, lock,
                 work, discovery, faults>>

User == \E reload \in BOOLEAN : Load("user", reload)

-----------------------------------------------------------------------------
(***************************************************************************)
(* Websocket calls.                                                        *)
(***************************************************************************)

\* A call ends; the next one gets the lock it may have held.
Done(c) ==
  /\ job' = [job EXCEPT ![c] = NoJob]
  /\ lock' = IF lock # <<>> /\ Head(lock) = c THEN Tail(lock) ELSE lock

\* Variant: only an adoption takes the rebind lock.
OnlyAdoptionLocks(kind) == kind = "adopt"

NeedsLock(kind) == kind \in Locked

Arrive(c) ==
  /\ At(c, "idle")
  /\ \E kind \in Kinds :
       /\ job' = [job EXCEPT ![c] = [NoJob EXCEPT !.pc = "called", !.kind = kind]]
       /\ lock' = IF NeedsLock(kind) THEN Append(lock, c) ELSE lock
  /\ UNCHANGED <<ha, published, route, panel, rebinding, owners, work, discovery, faults>>

\* A session is finished once verified or cancelled, a transaction once settled
\* with no rollback left: adoption refuses while the meter it leaves has a session
\* that is not, and looks at no transaction but the newest.  Which of those alive
\* that is, is left open.
RebindIdle(g, newest) ==
  /\ \A w \in OfGen(g, {"open", "running"}) : work[w].kind = "session" => work[w].stage = "finished"
  /\ newest # None => work[newest].stage = "finished"

Newest(g) ==
  LET alive == {w \in OfGen(g, {"open", "running", "committing"}) : work[w].kind = "transaction"}
  IN IF alive = {} THEN {None} ELSE alive

\* The meter that is in use already is adopted again without that check.
Accepts(c, newest) ==
  /\ route # 0
  /\ CASE job[c].kind = "adopt" -> Admits(route) /\ RebindIdle(route, newest)
       [] job[c].kind \in {"readopt", "preview"} -> Admits(route)
       [] OTHER -> builder[route].state \in {"open", "none"}

Turn(c) == NeedsLock(job[c].kind) => Head(lock) = c

\* The router looks the controller up, and the controller calls the workflow.
Enter(c) ==
  /\ At(c, "called") /\ job[c].kind \notin {"use", "intent"} /\ Turn(c)
  /\ \E newest \in Newest(route) :
       IF Accepts(c, newest)
       THEN /\ job' = [job EXCEPT ![c].gen = route,
                                  ![c].pc = IF builder[route].state = "none" THEN "asking"
                                            ELSE Ready(route)]
            /\ UNCHANGED lock
       ELSE Done(c)
  /\ UNCHANGED <<ha, published, route, panel, rebinding, owners, work, discovery, faults>>

Fails(c) ==
  /\ c \in Calls /\ Unanswered(c) /\ Done(c)
  /\ UNCHANGED <<ha, published, route, panel, rebinding, owners, work, discovery>>

\* The meter is adopted.  Its entry is reloaded unless it is the one in use.
Adopted(c) ==
  /\ Answered(c) /\ job[c].kind \in {"adopt", "readopt"}
  /\ \/ Done(c) /\ UNCHANGED rebinding
     \/ /\ route # 0 /\ job[c].kind = "adopt"
        /\ rebinding' = TRUE
        /\ Goto(c, "rebind")
        /\ UNCHANGED lock
  /\ UNCHANGED <<ha, published, route, panel, owners, work, discovery, faults>>

Rebind(c) ==
  /\ At(c, "rebind")
  /\ \/ Load(c, TRUE)
     \/ /\ HaIdle /\ published = 0 /\ gen = MaxSetups
        /\ Goto(c, "reloading")
        /\ UNCHANGED <<hass, owners, work, discovery, faults>>

\* async_reload returned, whatever it did; the flag of the panel goes.
Rebound(c) ==
  /\ At(c, "reloading") /\ ha.by # c
  /\ rebinding' = FALSE
  /\ Done(c)
  /\ UNCHANGED <<ha, published, route, panel, owners, work, discovery, faults>>

\* A manual rescan publishes the snapshot of its own coordinator.
Rescanned(c) ==
  /\ Answered(c) /\ job[c].kind = "rescan"
  /\ Done(c)
  /\ snapshot' = IF job[c].gen = gen THEN Listing(entries) ELSE snapshot
  /\ missed' = (missed /\ job[c].gen # gen)
  /\ UNCHANGED <<ha, published, route, panel, rebinding, owners, work, entries, faults>>

\* async_set_installer_intent, and async_begin_discovery, which only tests call,
\* publish a snapshot without devices at once.
Choose(c) ==
  /\ At(c, "called") /\ job[c].kind = "intent"
  /\ snapshot' = IF route # 0 /\ route = gen THEN Guide(entries) ELSE snapshot
  /\ Done(c)
  /\ UNCHANGED <<ha, published, route, panel, rebinding, owners, work, entries, missed, faults>>

Leased(g) == \E w \in OfGen(g, {"preflight", "running"}) : work[w].kind = "session"

\* A session is registered after its preflight, under the calibration lease.
StartSession(c) ==
  /\ Answered(c) /\ job[c].kind = "create"
  /\ LET g == job[c].gen IN
       IF shut[g] \/ Leased(g)
         THEN Done(c) /\ UNCHANGED work
         ELSE \E w \in Works :
                /\ work[w] = NoWork
                /\ work' = [work EXCEPT ![w] = [pc |-> "preflight", kind |-> "session",
                                               gen |-> g, stage |-> "begun", cancelled |-> FALSE]]
                /\ job' = [job EXCEPT ![c].pc = "preflight", ![c].work = w]
                /\ UNCHANGED lock
  /\ UNCHANGED <<ha, published, route, panel, rebinding, owners, discovery, faults>>

\* A preview registers its transaction, unless the manager is unloading.
Preview(c) ==
  /\ Answered(c) /\ job[c].kind \in {"create", "preview"}
  /\ \/ shut[job[c].gen] /\ UNCHANGED work
     \/ /\ ~shut[job[c].gen]
        /\ \E w \in Works :
             /\ work[w] = NoWork
             /\ work' = [work EXCEPT ![w] = [pc |-> "open", kind |-> "transaction",
                                            gen |-> job[c].gen, stage |-> "begun",
                                            cancelled |-> FALSE]]
  /\ Done(c)
  /\ UNCHANGED <<ha, published, route, panel, rebinding, owners, discovery, faults>>

\* A call that finds no room for its work, a bound of this model.
NoRoom(c) ==
  /\ Answered(c) /\ job[c].kind \in {"create", "preview"}
  /\ \A w \in Works : work[w] # NoWork
  /\ Done(c)
  /\ UNCHANGED <<ha, published, route, panel, rebinding, owners, work, discovery, faults>>

\* Work is left open for the next call, if its owner is still there.
Leave(w, stage) ==
  work' = [work EXCEPT ![w] = IF "sessions" \in owned[@.gen]
                                THEN [@ EXCEPT !.pc = "open", !.stage = stage] ELSE NoWork]

SessionReady(c) ==
  /\ At(c, "preflight")
  /\ LET w == job[c].work IN
       IF work[w].cancelled THEN work' = [work EXCEPT ![w] = NoWork] ELSE Leave(w, "begun")
  /\ Done(c)
  /\ UNCHANGED <<ha, published, route, panel, rebinding, owners, discovery, faults>>

Usable(g) == {w \in OfGen(g, {"open"}) :
                ~work[w].cancelled /\ (work[w].kind = "session" => ~Leased(g))}

\* A call claims a session or operates a transaction.
RunWork(c) ==
  /\ At(c, "called") /\ job[c].kind = "use"
  /\ \/ Usable(route) = {} /\ Done(c) /\ UNCHANGED work
     \/ \E w \in Usable(route) :
          /\ work' = [work EXCEPT ![w].pc = "running"]
          /\ job' = [job EXCEPT ![c] = [@ EXCEPT !.pc = "working", !.gen = route, !.work = w]]
          /\ UNCHANGED lock
  /\ UNCHANGED <<ha, published, route, panel, rebinding, owners, discovery, faults>>

\* What an operation may have finished.  Some take up what is finished: a new
\* cycle of a verified session, the retry of a failed transaction.
Reaches(stage) == {"finished"} \cup (IF stage = "begun" THEN {"begun"} ELSE {"again"})

WorkEnds(c) ==
  /\ At(c, "working") /\ work[job[c].work].pc = "running"
  /\ \E stage \in Reaches(work[job[c].work].stage) : Leave(job[c].work, stage)
  /\ Done(c)
  /\ UNCHANGED <<ha, published, route, panel, rebinding, owners, discovery, faults>>

\* persistence_commit_started: storage is not cancellable.
Commit(c) ==
  /\ At(c, "working")
  /\ LET w == job[c].work IN
       /\ work[w].pc = "running" /\ work[w].kind = "transaction" /\ ~work[w].cancelled
       /\ work' = [work EXCEPT ![w].pc = "committing"]
  /\ UNCHANGED <<hass, job, owners, discovery, faults>>

CommitEnds(c) ==
  /\ At(c, "working") /\ work[job[c].work].pc = "committing"
  /\ work' = [work EXCEPT ![job[c].work] = NoWork]
  /\ Done(c)
  /\ UNCHANGED <<ha, published, route, panel, rebinding, owners, discovery, faults>>

-----------------------------------------------------------------------------
(***************************************************************************)
(* Discovery: a change of the ESPHome entries starts one refresh, which    *)
(* later changes share.                                                    *)
(***************************************************************************)

EntryChanges ==
  /\ entries < MaxChanges /\ entries' = entries + 1
  /\ job' = IF gen # 0 /\ "provisioning" \in owned[gen] /\ At(Refresh, "idle")
              THEN [job EXCEPT ![Refresh] = [pc |-> "sleeping", kind |-> "refresh",
                                             gen |-> gen, work |-> None]]
              ELSE job
  /\ UNCHANGED <<hass, owners, work, snapshot, missed, faults>>

RefreshStarts ==
  /\ At(Refresh, "sleeping")
  /\ LET b == builder[job[Refresh].gen] IN
       \/ /\ b.state = "none" /\ Goto(Refresh, "asking") /\ UNCHANGED missed
       \/ /\ b.state = "open" /\ Goto(Refresh, Ready(job[Refresh].gen)) /\ UNCHANGED missed
       \/ /\ b.state \notin {"none", "open"}
          /\ job' = [job EXCEPT ![Refresh] = NoJob] /\ missed' = TRUE
  /\ UNCHANGED <<hass, owners, work, entries, snapshot, faults>>

\* Variant: the entries are those of the time the refresh started.
RefreshEndsWithEarlierEntries ==
  /\ Answered(Refresh)
  /\ job' = [job EXCEPT ![Refresh] = NoJob]
  /\ missed' = FALSE
  /\ \E v \in snapshot.of .. entries : snapshot' = Listing(v)
  /\ UNCHANGED <<hass, owners, work, entries, faults>>

\* The entries are read after the listing has arrived.
RefreshEnds ==
  /\ Answered(Refresh)
  /\ job' = [job EXCEPT ![Refresh] = NoJob]
  /\ snapshot' = Listing(entries) /\ missed' = FALSE
  /\ UNCHANGED <<hass, owners, work, entries, faults>>

RefreshFails ==
  /\ Unanswered(Refresh)
  /\ job' = [job EXCEPT ![Refresh] = NoJob]
  /\ missed' = TRUE
  /\ UNCHANGED <<hass, owners, work, entries, snapshot>>

-----------------------------------------------------------------------------

SetUp == SetupCatalog \/ SetupDiscover \/ SetupOwners \/ SetupPanel

Teardown ==
  \/ UnloadBegins \/ CloseWorkflow \/ DrainSessions \/ CloseBuilder
  \/ UnloadSessions \/ TasksEnd \/ TasksTimeOut \/ ReleaseSessions
  \/ CloseApi \/ StopProvisioning

Call(c) ==
  \/ Enter(c) \/ Adopted(c) \/ Rebind(c) \/ Rebound(c) \/ Rescanned(c) \/ Choose(c)
  \/ StartSession(c) \/ Preview(c) \/ NoRoom(c) \/ SessionReady(c)
  \/ RunWork(c) \/ CommitEnds(c)

Discovery == EntryChanges \/ RefreshStarts \/ RefreshEnds \/ RefreshFails

Next ==
  \/ User \/ SetUp \/ SetupFails \/ Teardown \/ Discovery
  \/ \E a \in Actors : Dial(a)
  \/ \E c \in Calls : Arrive(c) \/ Call(c) \/ Fails(c) \/ WorkEnds(c) \/ Commit(c)

Spec == Init /\ [][Next]_vars

\* Neither ws_connect nor async_command has a timeout: who dials Device Builder,
\* or asks it over a connection that stands, may wait for good.
Unheard(a) == At(a, "dialing") \/ (At(a, "asking") /\ builder[job[a].gen].connected)

\* The operations of a session have timeouts.  Those of a transaction ask Device
\* Builder, and a cancelled one may ignore its cancellation for good.
Obedient(c) == WorkEnds(c) /\ work[job[c].work].kind = "session"

\* Every task goes on unless it waits for Device Builder.
LoaderRuns == ~Unheard(Loader) /\ (SetUp \/ Teardown \/ SetupFails)
CallRuns(c) == ~Unheard(c) /\ (Call(c) \/ Fails(c) \/ Obedient(c))

FairSpec == Spec /\ WF_vars(LoaderRuns) /\ \A c \in Calls : WF_vars(CallRuns(c))

-----------------------------------------------------------------------------
(***************************************************************************)
(* Properties.                                                             *)
(***************************************************************************)

JobType == [pc : {"idle", "catalog", "discover", "dialing", "asking", "panel", "begin",
                  "close", "drain", "builder", "sessions", "wait", "commits", "api", "stop",
                  "called", "rebind", "reloading", "preflight", "working", "sleeping"},
            kind : {"none", "setup", "unload", "refresh", "preview", "use", "rescan",
                    "intent"} \cup Locked,
            gen : 0 .. MaxSetups, work : Works \cup {None}]

\* The state is well-formed; a published runtime and a route belong to a
\* generation that was set up.
TypeOK ==
  /\ ha \in [by : Calls \cup {"user", None}, reload : BOOLEAN, err : BOOLEAN]
  /\ job \in [Actors -> JobType]
  /\ gen \in 0 .. MaxSetups /\ {published, route} \subseteq 0 .. gen
  /\ owned \in [Gens -> SUBSET Owners]
  /\ builder \in [Gens -> [state : {"none", "open", "closing", "closed"}, connected : BOOLEAN]]
  /\ shut \in [Gens -> BOOLEAN] /\ {panel, rebinding, missed} \subseteq BOOLEAN
  /\ lock \in Seq(Calls)
  /\ work \in [Works -> [pc : {"none", "open"} \cup Live,
                         kind : {"none", "session", "transaction"},
                         gen : 0 .. MaxSetups, stage : {"begun", "finished", "again"},
                         cancelled : BOOLEAN]]
  /\ entries \in 0 .. MaxChanges /\ snapshot \in [devices : BOOLEAN, of : 0 .. MaxChanges]
  /\ faults \in 0 .. MaxFaults
  /\ broken \subseteq Gens

\* When no set-up or unload runs, a generation that is not published has no
\* open owner, no connection, no route, no refresh and no calibration or commit
\* in progress, unless its teardown reported an error.
NothingOutlivesTheEntry ==
  HaIdle => \A g \in Gens \ ({published} \cup broken) :
    /\ owned[g] = {} /\ ~builder[g].connected
    /\ route # g /\ job[Refresh].gen # g
    /\ OfGen(g, {"committing"}) = {}
    /\ \A w \in OfGen(g, {"running"}) : work[w].kind = "transaction"

\* A task that outlives the unload of its session manager has been cancelled,
\* runs no calibration and no commit, and gets no connection to Device Builder.
StragglersAreHarmless ==
  \A w \in Works : work[w].pc \in Live /\ "sessions" \notin owned[work[w].gen] =>
    /\ work[w].cancelled /\ work[w].pc # "committing"
    /\ ~(work[w].kind = "session" /\ work[w].pc = "running")
    /\ ~Admits(work[w].gen)

\* A durable commit that has begun is neither cancelled nor scrubbed by an
\* unload: its session manager waits for it, without the timeout.
CommitSurvivesUnload ==
  \A w \in Works : work[w].pc = "committing" =>
    ~work[w].cancelled /\ "sessions" \in owned[work[w].gen]

\* The unload of a rebind tears down no session that never finished: the lock
\* keeps start_session out from the check of the sessions until the new
\* controller is there.  A finished one it may find, at work even.
RebindSparesNewSessions ==
  [][(UnloadBegins /\ ha.by \in Calls) =>
       \A w \in OfGen(Now, {"preflight", "open", "running"}) :
         work[w].kind = "session" => work[w].stage # "begun"]_vars

\* No change of the ESPHome entries goes unseen when no refresh is under way,
\* although a change during a refresh starts none; a failed listing loses them.
\* Only a choice of the installer made since the last change hides the devices.
NoChangeIsMissed ==
  (published # 0 /\ "provisioning" \in owned[published] /\ At(Refresh, "idle") /\ ~missed)
    => snapshot \in {Listing(entries), Guide(entries)}

\* The loader waits for Device Builder, or for somebody who connects to it.
LoaderIsHeld ==
  \/ Unheard(Loader)
  \/ At(Loader, "builder") /\ Dialers(Now) # {}

\* Only Device Builder can keep a set-up or an unload from its end.  Only it, or
\* the loader it keeps, can keep a call that holds the rebind lock or waits for it:
\* the unload that a rebind asks for with the lock in its hand drains the others.
NobodyWaitsForever ==
  /\ <>[]~HaIdle => <>[]LoaderIsHeld
  /\ \A c \in Calls :
       <>[](job[c].kind \in Locked) =>
         <>[](LoaderIsHeld \/ (lock # <<>> /\ Unheard(Head(lock))))
=============================================================================
