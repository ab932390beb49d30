------------------------------ MODULE MeterApi ------------------------------
(***************************************************************************)
(* ESPHomeApiSession (esphome_api.py) with its StateTracker                *)
(* (state_tracker.py): one native-API connection to a meter, shared by the *)
(* tasks that connect, set numbers, wait for sensor windows, and read      *)
(* calibration evidence from the meter's log.                              *)
(*                                                                         *)
(* A step runs to the next await.  The lifecycle lock serializes connects, *)
(* reconnects and the dumps of the log; the connection state lock is held  *)
(* across an await by hold_connection_generation only.  There is one log   *)
(* subscription: whoever subscribes last hears the meter.                  *)
(*                                                                         *)
(* The calibration lease of the session manager is a lock that a task      *)
(* takes for the operations the calibration engine calls under it.  A      *)
(* connection delivers in order both ways; what is in flight to the meter  *)
(* when it ends is either applied or lost then.                            *)
(***************************************************************************)
EXTENDS Naturals, Sequences, FiniteSets, SequencesExt

CONSTANTS
  Tasks,        \* tasks that use the session, one operation at a time
  Conns,        \* the clients that can be created; then the entry is unloaded
  Values,       \* what the number entity may be set to
  Operations,   \* the operations explored
  SampleCount,  \* fresh samples a window takes
  MaxHistory,   \* deque(maxlen) of the state history
  MaxFlight,    \* messages under way in one direction
  None

Serialized == {"connect", "reconnect", "sources", "check", "dump", "shutdown"}
Logging == {"sources", "check", "dump"}
Windows == {"window", "absolute"}
Leased == {"number", "gain", "dump", "guard", "restart"}

ASSUME ApiAssumption ==
  /\ None \notin Conns \cup Tasks
  /\ Operations \subseteq Serialized \cup Windows \cup Leased
  /\ SampleCount \in 1 .. MaxHistory /\ MaxFlight \in Nat

VARIABLES
  link,       \* the transport of each client
  stops,      \* clients whose on_stop waits for the connection state lock
  client,     \* _client
  connected,  \* the tracker's connected
  gen,        \* the client of the tracker's connection_generation
  closed,     \* _closed
  bye,        \* the cleanup task of the shutdown
  life,       \* the task that holds the lifecycle lock
  hold,       \* the task that holds the connection state lock
  lease,      \* the task that holds the calibration lease
  logs,       \* the log subscription: its subscriber and its client
  captures,   \* the tasks with an entry in _gain_captures
  captor,     \* _gain_capture_client
  job,        \* what each task does and the await it is suspended at
  history,    \* the tracker's samples of one sensor, with who waits for them
  meter,      \* the value of the meter's number entity
  down,       \* commands under way to the meter, by client
  up          \* number states under way from the meter, by client

conn == <<client, connected, gen>>
ends == <<closed, bye>>
capt == <<captures, captor>>
wire == <<link, stops, meter, down, up>>
vars == <<link, stops, client, connected, gen, closed, bye, life, hold, lease,
          logs, captures, captor, job, history, meter, down, up>>

Pcs ==
  {"idle", "lock", "bye", "make", "hello", "list", "ready", "fail",
   "listen", "number", "window", "capture", "enter", "held", "restart", "down"}

NoJob == [op |-> "none", pc |-> "idle", c |-> None, v |-> None, ok |-> TRUE,
          out |-> "none"]
NoLogs == [by |-> "none", c |-> None]

TypeOK ==
  /\ link \in [Conns -> {"new", "open", "ended"}] /\ stops \subseteq Conns
  /\ client \in Conns \cup {None} /\ gen \in Conns \cup {None}
  /\ connected \in BOOLEAN /\ closed \in BOOLEAN
  /\ bye \in {"none", "start", "wait", "done", "failed"}
  /\ {life, hold, lease} \subseteq Tasks \cup {None}
  /\ logs \in [by : {"none", "normal", "capture"} \cup Logging,
               c : Conns \cup {None}]
  /\ captures \subseteq Tasks /\ captor \in Conns \cup {None}
  /\ job \in [Tasks -> [op : Operations \cup {"none"}, pc : Pcs,
                        c : Conns \cup {None}, v : Values \cup {None},
                        ok : BOOLEAN, out : {"none", "ok", "failed"}]]
  /\ \A i \in DOMAIN history : history[i] \in [c : Conns, fresh : SUBSET Tasks]
  /\ Len(history) <= MaxHistory /\ meter \in Values
  /\ \A c \in Conns : \A flow \in {up[c], down[c]} :
       Len(flow) <= MaxFlight /\ ToSet(flow) \subseteq Values

Init ==
  /\ link = [c \in Conns |-> "new"] /\ stops = {}
  /\ client = None /\ connected = FALSE /\ gen = None
  /\ closed = FALSE /\ bye = "none"
  /\ life = None /\ hold = None /\ lease = None
  /\ logs = NoLogs /\ captures = {} /\ captor = None
  /\ job = [t \in Tasks |-> NoJob]
  /\ history = <<>>
  /\ meter \in Values
  /\ down = [c \in Conns |-> <<>>] /\ up = [c \in Conns |-> <<>>]

-----------------------------------------------------------------------------
(* Steps of one task.                                                      *)

At(t, op, pc) == job[t].op = op /\ job[t].pc = pc
Goto(t, pc) == [job EXCEPT ![t].pc = pc]
Over(t, out) == [job EXCEPT ![t] = [NoJob EXCEPT !.out = out]]

Unlock(lock, t) == IF lock = t THEN None ELSE lock

\* _ready_client
Ready == connected /\ client # None

\* The connection a task began its wait on is still the session's.
Current(t) == connected /\ client = job[t].c /\ gen = job[t].c

\* The samples newer than the boundary of t's window, by their place.
Fresh(t) == {i \in DOMAIN history : t \in history[i].fresh}

\* Variant: a window is filled from the whole history.
AnyHistory(t) == DOMAIN history

\* The samples a window of t is made of.
Samples(t) == Fresh(t)

\* Variant: any state of the entity acknowledges the command.
AnyState(t, v) == At(t, "number", "number")

\* The states that resolve t's number waiter.
Acknowledges(t, v) == At(t, "number", "number") /\ job[t].v = v

\* StateTracker.disconnect: number waiters fail; on_stop also resolves the
\* disconnect futures of the tasks in "told".  Windows notice when they run.
Lose(j, told) ==
  /\ connected' = FALSE
  /\ job' = [t \in Tasks |->
       IF At(t, "number", "number") THEN [NoJob EXCEPT !.out = "failed"]
       ELSE IF t \in told THEN [NoJob EXCEPT !.out = "ok"] ELSE j[t]]

\* The connection state lock is free.
Unheld == hold = None

\* _async_connect_locked and async_reconnect refuse a closed session.
Refuses == closed

\* deque(maxlen=history_size)
Keep(h) == IF Len(h) > MaxHistory THEN Tail(h) ELSE h

\* Variant: a reconnect replaces the client without disconnecting it.
MakeAtOnce == "make"

\* _async_disconnect has a client to disconnect, or not.
Departure == IF client = None THEN "make" ELSE "bye"

\* Variant: a dump does not keep the lifecycle lock.
DumpFreely(t) == UNCHANGED life

\* A dump holds the lifecycle lock until it is judged.
Serialize(t) == life' = t

\* A transport ends.  The library calls on_stop; what is in flight to the
\* meter is applied up to some command.
End(c) ==
  /\ link' = [link EXCEPT ![c] = "ended"]
  /\ stops' = IF link[c] = "open" THEN stops \cup {c} ELSE stops
  /\ meter' \in {meter} \cup ToSet(down[c])
  /\ down' = [down EXCEPT ![c] = <<>>] /\ up' = [up EXCEPT ![c] = <<>>]

-----------------------------------------------------------------------------
(* Connecting.                                                             *)

\* A call starts; the serialized ones wait for the lifecycle lock.
Start(t, op) ==
  /\ op \in Operations \cap Serialized /\ job[t].pc = "idle"
  /\ op = "dump" => lease = t
  /\ job' = [job EXCEPT ![t] = [NoJob EXCEPT !.op = op, !.pc = "lock"]]
  /\ UNCHANGED <<wire, conn, ends, life, hold, lease, logs, capt, history>>

\* The calibration engine takes and releases the lease of the meter.
Lease(t) ==
  /\ job[t].pc = "idle"
  /\ \/ lease = None /\ lease' = t
     \/ lease = t /\ captures = {} /\ lease' = None
  /\ UNCHANGED <<wire, conn, ends, life, hold, logs, capt, job, history>>

\* async_connect, with the session connected already or closed.
Connect(t) ==
  /\ At(t, "connect", "lock") /\ life = None
  /\ IF Refuses \/ connected
     THEN job' = Over(t, IF Refuses THEN "failed" ELSE "ok") /\ UNCHANGED life
     ELSE job' = Goto(t, "make") /\ life' = t
  /\ UNCHANGED <<wire, conn, ends, hold, lease, logs, capt, history>>

\* async_reconnect disconnects what there is first.
Reconnect(t) ==
  /\ At(t, "reconnect", "lock") /\ life = None
  /\ \/ /\ Refuses /\ job' = Over(t, "failed")
        /\ UNCHANGED <<life, connected, logs>>
     \/ /\ ~Refuses /\ Unheld /\ life' = t
        /\ Lose([job EXCEPT ![t].pc = Departure, ![t].c = client], {})
        /\ logs' = IF client = None THEN logs ELSE NoLogs
  /\ UNCHANGED <<wire, client, gen, ends, hold, lease, capt, history>>

\* client.disconnect() returns or raises; the transport has ended either way.
Disconnected(t) ==
  /\ At(t, "reconnect", "bye") /\ Unheld /\ End(job[t].c)
  /\ \/ /\ client' = IF client = job[t].c THEN None ELSE client
        /\ \/ job' = Goto(t, "make") /\ UNCHANGED life
           \/ job' = Over(t, "failed") /\ life' = None
     \/ job' = Over(t, "failed") /\ life' = None /\ UNCHANGED client
  /\ UNCHANGED <<connected, gen, ends, hold, lease, logs, capt, history>>

\* _async_create_client: a new client, or an entry that is not loaded.
Make(t) ==
  /\ job[t].pc = "make"
  /\ \/ \E c \in Conns :
          /\ link[c] = "new" /\ link' = [link EXCEPT ![c] = "open"]
          /\ client' = c
          /\ job' = [job EXCEPT ![t].pc = "hello", ![t].c = c]
          /\ UNCHANGED life
     \/ job' = Over(t, "failed") /\ life' = None /\ UNCHANGED <<link, client>>
  /\ UNCHANGED <<stops, meter, down, up, connected, gen, ends, hold, lease,
                 logs, capt, history>>

\* Variant: an attempt goes on although its transport stopped.
StillCurrent(t) == client = job[t].c

\* ensure_attempt_is_live
Live(t) == link[job[t].c] = "open" /\ client = job[t].c

\* The handshake, then the device's identity and its entities; a failure, a
\* wrong device or a stopped attempt forces the client to disconnect.
Greet(t) ==
  /\ \/ /\ job[t].pc = "hello" /\ Live(t) /\ job' = Goto(t, "list")
        /\ UNCHANGED logs
     \/ /\ job[t].pc = "list" /\ Live(t) /\ job' = Goto(t, "ready")
        /\ logs' = [by |-> "normal", c |-> job[t].c]
     \/ /\ job[t].pc \in {"hello", "list"} /\ job' = Goto(t, "fail")
        /\ logs' = NoLogs
  /\ UNCHANGED <<wire, conn, ends, life, hold, lease, capt, history>>

\* The connection becomes ready under the connection state lock.  The tasks
\* the end of the last one woke have run: the ready queue is in order.
BecomeReady(t) ==
  /\ job[t].pc = "ready" /\ Unheld /\ life' = None
  /\ \/ /\ Live(t) /\ \A w \in Tasks : job[w].pc = "window" => connected
        /\ connected' = TRUE /\ gen' = job[t].c /\ history' = <<>>
        /\ job' = Over(t, "ok")
     \/ /\ ~Live(t) /\ job' = Over(t, "failed")
        /\ UNCHANGED <<connected, gen, history>>
  /\ UNCHANGED <<wire, client, ends, hold, lease, logs, capt>>

\* _disconnect_failed_client
DisconnectFailed(t) ==
  /\ job[t].pc = "fail" /\ Unheld /\ End(job[t].c)
  /\ client' = IF client = job[t].c THEN None ELSE client
  /\ Lose(Over(t, "failed"), {}) /\ life' = None
  /\ UNCHANGED <<gen, ends, hold, lease, logs, capt, history>>

\* The transport ends on its own: the meter restarts or the network fails.
Stop(c) ==
  /\ link[c] = "open" /\ End(c)
  /\ UNCHANGED <<conn, ends, life, hold, lease, logs, capt, job, history>>

\* Only the present client's on_stop counts.
OfSession(c) == client = c

\* _async_on_stop
OnStop(c) ==
  /\ c \in stops /\ Unheld /\ stops' = stops \ {c}
  /\ IF OfSession(c)
     THEN Lose(job, {t \in Tasks : At(t, "restart", "restart")})
     ELSE UNCHANGED <<connected, job>>
  /\ UNCHANGED <<link, meter, down, up, client, gen, ends, life, hold, lease,
                 logs, capt, history>>

-----------------------------------------------------------------------------
(* async_shutdown: its cleanup task disconnects outside the lifecycle lock.*)

Shutdown(t) ==
  /\ At(t, "shutdown", "lock") /\ life = None
  /\ closed' = TRUE
  /\ bye' = IF bye \in {"none", "failed"} THEN "start" ELSE bye
  /\ job' = [w \in Tasks |->
       IF w = t THEN [job[t] EXCEPT !.pc = "down"]
       ELSE IF job[w].pc \in {"number", "restart"}
            THEN [NoJob EXCEPT !.out = "failed"] ELSE job[w]]
  /\ UNCHANGED <<wire, conn, life, hold, lease, logs, capt, history>>

Cleanup ==
  \/ /\ bye = "start" /\ Unheld /\ Lose(job, {})
     /\ bye' = IF client = None THEN "done" ELSE "wait"
     /\ logs' = IF client = None THEN logs ELSE NoLogs
     /\ UNCHANGED <<wire, client>>
  \/ /\ bye = "wait" /\ Unheld /\ End(client)
     /\ \/ bye' = "done" /\ client' = None
        \/ bye' = "failed" /\ UNCHANGED client
     /\ UNCHANGED <<connected, logs, job>>

ShutdownStep ==
  /\ Cleanup
  /\ UNCHANGED <<gen, closed, life, hold, lease, capt, history>>

ShutdownReturn(t) ==
  /\ At(t, "shutdown", "down") /\ bye \in {"done", "failed"}
  /\ job' = Over(t, IF bye = "done" THEN "ok" ELSE "failed")
  /\ UNCHANGED <<wire, conn, ends, life, hold, lease, logs, capt, history>>

-----------------------------------------------------------------------------
(* Numbers, sensor windows and the restart button.                         *)

\* No earlier command is under way, and no state it has changed since.
Quiet(c) == down[c] = <<>> /\ ToSet(up[c]) \subseteq {meter}

\* async_set_number; a command on a transport that has ended raises.
SetNumber(t, v) ==
  /\ "number" \in Operations /\ job[t].pc = "idle" /\ lease = t /\ Ready
  /\ link[client] = "open" /\ Len(down[client]) < MaxFlight
  /\ down' = [down EXCEPT ![client] = Append(@, v)]
  /\ job' = [job EXCEPT ![t] = [NoJob EXCEPT !.op = "number", !.pc = "number",
                                             !.c = client, !.v = v,
                                             !.ok = Quiet(client)]]
  /\ UNCHANGED <<link, stops, meter, up, conn, ends, life, hold, lease, logs,
                 capt, history>>

\* The meter takes a command and publishes the state, or repeats it.
Act(c) ==
  /\ link[c] = "open" /\ Len(up[c]) < MaxFlight
  /\ \/ /\ down[c] # <<>> /\ meter' = Head(down[c])
        /\ down' = [down EXCEPT ![c] = Tail(@)]
        /\ up' = [up EXCEPT ![c] = Append(@, Head(down[c]))]
     \/ /\ up' = [up EXCEPT ![c] = Append(@, meter)] /\ UNCHANGED <<meter, down>>
  /\ UNCHANGED <<link, stops, conn, ends, life, hold, lease, logs, capt, job,
                 history>>

\* _on_state and StateTracker.record for a number.
OnNumber(c) ==
  /\ up[c] # <<>> /\ up' = [up EXCEPT ![c] = Tail(@)]
  /\ job' = [t \in Tasks |->
       IF client = c /\ connected /\ Acknowledges(t, Head(up[c]))
       THEN [NoJob EXCEPT !.out = "ok"] ELSE job[t]]
  /\ UNCHANGED <<link, stops, meter, down, conn, ends, life, hold, lease, logs,
                 capt, history>>

\* async_wait_for_sensor_window and async_wait_for_absolute_sensor_window.
Wait(t, op) ==
  /\ op \in Operations \cap Windows /\ job[t].pc = "idle" /\ Ready
  /\ job' = [job EXCEPT ![t] = [NoJob EXCEPT !.op = op, !.pc = "window",
                                             !.c = client]]
  /\ UNCHANGED <<wire, conn, ends, life, hold, lease, logs, capt, history>>

\* StateTracker.record for a sensor: it is fresh for whoever waits.
OnSample(c) ==
  /\ link[c] = "open" /\ client = c /\ connected
  /\ LET r == [c |-> c, fresh |-> {t \in Tasks : job[t].pc = "window"}]
     IN  r.fresh # {} /\ history' = Keep(Append(history, r))
  /\ UNCHANGED <<wire, conn, ends, life, hold, lease, logs, capt, job>>

\* The window of a lost connection, or of another generation, is refused.
Stale(t) == ~connected \/ (job[t].op = "absolute" /\ gen # job[t].c)

\* A waiting window runs: it is complete, or its connection is lost.
Window(t) ==
  /\ job[t].pc = "window"
  /\ \/ ~Stale(t) /\ Cardinality(Samples(t)) >= SampleCount /\ job' = Over(t, "ok")
     \/ Stale(t) /\ job' = Over(t, "failed")
  /\ history' = [i \in DOMAIN history |->
                   [history[i] EXCEPT !.fresh = @ \ {t}]]
  /\ UNCHANGED <<wire, conn, ends, life, hold, lease, logs, capt>>

\* expect_disconnect, then async_press_button on Restart.
PressRestart(t) ==
  /\ "restart" \in Operations /\ job[t].pc = "idle" /\ lease = t /\ Ready
  /\ job' = [job EXCEPT ![t] = [NoJob EXCEPT !.op = "restart", !.pc = "restart",
                                             !.c = client]]
  /\ UNCHANGED <<wire, conn, ends, life, hold, lease, logs, capt, history>>

\* The timeout of a wait, or the cancellation of its caller.
GiveUp(t) ==
  /\ job[t].pc \in {"number", "window", "restart"} /\ job' = Over(t, "failed")
  /\ history' = [i \in DOMAIN history |->
                   [history[i] EXCEPT !.fresh = @ \ {t}]]
  /\ UNCHANGED <<wire, conn, ends, life, hold, lease, logs, capt>>

-----------------------------------------------------------------------------
(* Evidence from the log.                                                  *)

\* async_calibration_sources, async_check_meter_communication and
\* _async_offset_dump ask for a fresh dump through a subscription of theirs.
Listen(t) ==
  /\ job[t].op \in Logging /\ job[t].pc = "lock" /\ life = None
  /\ \/ /\ Ready /\ Serialize(t)
        /\ logs' = [by |-> job[t].op, c |-> client]
        /\ job' = [job EXCEPT ![t].pc = "listen", ![t].c = client]
     \/ ~Ready /\ job' = Over(t, "failed") /\ UNCHANGED <<life, logs>>
  /\ UNCHANGED <<wire, conn, ends, hold, lease, capt, history>>

Normal == [by |-> "normal", c |-> client]

\* The subscription after a dump of t: sources leaves its own behind.
AfterListen(t) ==
  CASE job[t].op = "sources" -> logs
    [] job[t].op = "check" ->
         IF client = job[t].c /\ connected THEN Normal ELSE NoLogs
    [] job[t].op = "dump" ->
         IF Current(t) THEN Normal
         ELSE IF logs = [by |-> "dump", c |-> job[t].c] THEN NoLogs ELSE logs

EndListen(t) ==
  /\ job[t].pc = "listen" /\ life' = Unlock(life, t) /\ logs' = AfterListen(t)
  /\ \/ Current(t) /\ job' = Over(t, "ok")
     \/ job' = Over(t, "failed")
  /\ UNCHANGED <<wire, conn, ends, hold, lease, capt, history>>

\* expect_gain_run, by the holder of the lease or for another group of its
\* batch: the first capture subscribes for all.
Capture(t) ==
  /\ "gain" \in Operations /\ job[t].pc = "idle" /\ Ready
  /\ lease = t \/ (captures # {} /\ lease \in captures)
  /\ \/ /\ captures' = captures \cup {t}
        /\ job' = [job EXCEPT ![t] = [NoJob EXCEPT !.op = "gain",
                                       !.pc = "capture", !.c = client]]
        /\ IF captor = None
           THEN captor' = client /\ logs' = [by |-> "capture", c |-> client]
           ELSE UNCHANGED <<captor, logs>>
     \/ /\ captor = None /\ logs' = Normal /\ job' = Over(t, "failed")
        /\ UNCHANGED capt
  /\ UNCHANGED <<wire, conn, ends, life, hold, lease, history>>

\* The capture ends, for the engine once the others of the batch have: the
\* last one gives the subscription back.
EndCapture(t) ==
  /\ job[t].pc = "capture" /\ captures' = captures \ {t}
  /\ lease = t => captures' = {}
  /\ \/ Current(t) /\ job' = Over(t, "ok")
     \/ job' = Over(t, "failed")
  /\ IF captures' = {} /\ captor = job[t].c
     THEN /\ captor' = None
          /\ logs' = IF client = job[t].c /\ connected THEN Normal ELSE NoLogs
     ELSE UNCHANGED <<captor, logs>>
  /\ UNCHANGED <<wire, conn, ends, life, hold, lease, history>>

\* A line of the meter's log: who listens through another subscription than
\* the one that is installed misses it.
Misses(t, c) ==
  /\ job[t].c = c
  /\ \/ job[t].pc = "capture" /\ logs # [by |-> "capture", c |-> c]
     \/ job[t].pc = "listen" /\ logs # [by |-> job[t].op, c |-> c]

Line(c) ==
  /\ link[c] = "open" /\ client = c /\ connected
  /\ \E t \in Tasks : Misses(t, c) /\ job[t].ok
  /\ job' = [t \in Tasks |->
               IF Misses(t, c) THEN [job[t] EXCEPT !.ok = FALSE] ELSE job[t]]
  /\ UNCHANGED <<wire, conn, ends, life, hold, lease, logs, capt, history>>

-----------------------------------------------------------------------------
(* hold_connection_generation, around the save of a verified calibration.  *)

Guard(t) ==
  \/ /\ "guard" \in Operations /\ job[t].pc = "idle" /\ lease = t /\ gen # None
     /\ job' = [job EXCEPT ![t] = [NoJob EXCEPT !.op = "guard", !.pc = "enter",
                                                !.c = gen]]
     /\ UNCHANGED hold
  \/ /\ job[t].pc = "enter" /\ hold = None
     /\ IF connected /\ gen = job[t].c
        THEN hold' = t /\ job' = Goto(t, "held")
        ELSE job' = Over(t, "failed") /\ UNCHANGED hold
  \/ /\ job[t].pc = "held" /\ hold' = None
     /\ \/ connected /\ gen = job[t].c /\ job' = Over(t, "ok")
        \/ job' = Over(t, "failed")

HoldGeneration(t) ==
  /\ Guard(t)
  /\ UNCHANGED <<wire, conn, ends, life, lease, logs, capt, history>>

-----------------------------------------------------------------------------

Connecting(t) ==
  Connect(t) \/ Reconnect(t) \/ Disconnected(t) \/ Make(t) \/ Greet(t)
  \/ BecomeReady(t) \/ DisconnectFailed(t)

Evidence(t) == Listen(t) \/ EndListen(t) \/ Capture(t) \/ EndCapture(t)

Next ==
  \/ \E t \in Tasks :
       \/ \E op \in Operations : Start(t, op) \/ Wait(t, op)
       \/ \E v \in Values : SetNumber(t, v)
       \/ Lease(t) \/ Connecting(t) \/ Shutdown(t) \/ ShutdownReturn(t)
       \/ Window(t) \/ PressRestart(t) \/ GiveUp(t)
       \/ Evidence(t) \/ HoldGeneration(t)
  \/ \E c \in Conns :
       Stop(c) \/ OnStop(c) \/ Act(c) \/ OnNumber(c) \/ OnSample(c) \/ Line(c)
  \/ ShutdownStep

Spec == Init /\ [][Next]_vars

-----------------------------------------------------------------------------
(* Properties.                                                             *)

\* A connection that is lost is noticed: while the session says it is
\* connected, its client is up or the client's on_stop is on its way.  And it
\* does not change while a verified calibration is saved under
\* hold_connection_generation.
ConnectionIsTrue ==
  /\ connected => /\ client # None /\ client = gen
                  /\ link[client] = "open" \/ client \in stops
  /\ \A t \in Tasks :
       job[t].pc = "held" => connected /\ gen = job[t].c /\ hold = t

\* No client is forgotten with its transport up: one that is up is the
\* session's, whoever made it and however an attempt, a reconnect or a
\* shutdown failed; after a shutdown returned there is none.
NoClientIsForgotten ==
  /\ \A c \in Conns : link[c] = "open" => client = c
  /\ bye = "done" => ~connected /\ \A c \in Conns : link[c] # "open"

\* A sensor window is made of samples of one connection, all received after
\* the caller asked (wait_sensor_states, sensor_window).
Windowed(t) ==
  (job[t].pc = "window" /\ job'[t].out = "ok") =>
    /\ Cardinality(Fresh(t)) >= SampleCount
    /\ \A i \in Fresh(t) : history[i].c = job[t].c
WindowsAreFresh == [][\A t \in Tasks : Windowed(t)]_vars

\* An acknowledged number is the one the meter settles at on the connection,
\* and has it already unless the effect of an earlier command, one that was
\* given up, was under way when this one was sent
\* (async_set_number, expect_number_state, record).
Settled(c) == IF down[c] = <<>> THEN meter ELSE Last(down[c])
Applied(t) ==
  (job[t].pc = "number" /\ job'[t].out = "ok") =>
    /\ Settled(client) = job[t].v
    /\ job[t].ok => meter = job[t].v
AcknowledgedIsApplied == [][\A t \in Tasks : Applied(t)]_vars

\* A dump that is judged heard the whole dump: no other subscription replaced
\* its own (_async_offset_dump: "Capture the complete restart dump before
\* judging restore evidence").
DumpIsComplete ==
  [][\A t \in Tasks :
       (At(t, "dump", "listen") /\ job'[t].out = "ok") => job[t].ok]_vars
=============================================================================
