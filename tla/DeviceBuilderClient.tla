------------------------ MODULE DeviceBuilderClient ------------------------
(***************************************************************************)
(* DeviceBuilderClient (device_builder.py): one websocket to Device Builder*)
(* shared by the tasks that connect, disconnect and send commands, with a  *)
(* listener task per socket that resolves the futures the commands wait on.*)
(*                                                                         *)
(* A step runs to the next await.  A step that fails stands for whatever   *)
(* the await can raise, the cancellation of its task included.  A command  *)
(* and a stream have one future each, registered under a fresh message id, *)
(* so a future is known by its task.                                       *)
(***************************************************************************)
EXTENDS FiniteSets

CONSTANTS
  Callers,   \* tasks that use the client, one call at a time
  Conns,     \* the sockets that can be opened; then Device Builder refuses
  None

ASSUME ClientAssumption == None \notin Conns

VARIABLES
  sock,      \* the transports, by socket
  lst,       \* the listener tasks, by socket
  ws,        \* _ws
  listener,  \* _listener, named by its socket
  ready,     \* _ready, which is the property "connected"
  pc,        \* the await a caller is suspended at, or how its call ended
  via,       \* the socket a caller connects with or sends on
  stale,     \* the generation changed since the caller began to connect
  fut,       \* the future of a caller in _pending or _stream_futures
  disc,      \* _disconnect_task: its await, its socket and who waits for it
  before,    \* history: the sockets opened before a caller's disconnect,
             \* and whether the caller joined the task of another one
  unclosed   \* history: the sockets whose close raised after a failed connect

link == <<ws, listener, ready>>
vars == <<sock, lst, ws, listener, ready, pc, via, stale, fut, disc, before,
          unclosed>>

Ended == {"connected", "disconnected", "answered", "failed"}
Opening == {"open", "hello", "auth", "cleanup", "cl_join", "cl_close"}
Waiting == {"auth", "send", "wait"}
Leaving == {"disconnect", "dc_ok", "dc_error"}
Labels == Ended \cup Opening \cup Waiting \cup Leaving \cup {"idle", "connect"}

Futures == {"none", "wait", "ok", "error"}
Tasks == [at : {"none", "start", "close", "join", "done", "error"},
          s : Conns \cup {None}, who : SUBSET Callers]
Marks == [joined : BOOLEAN, open : SUBSET Conns]

NoTask == [at |-> "none", s |-> None, who |-> {}]
NoSockets == [joined |-> FALSE, open |-> {}]

LinkOK ==
  /\ sock \in [Conns -> {"new", "open", "closed"}]
  /\ lst \in [Conns -> {"none", "run", "cancelled", "done"}]
  /\ ws \in Conns \cup {None} /\ listener \in Conns \cup {None}

CallsOK ==
  /\ pc \in [Callers -> Labels]
  /\ via \in [Callers -> Conns \cup {None}]
  /\ stale \in [Callers -> BOOLEAN]
  /\ fut \in [Callers -> Futures]
  /\ before \in [Callers -> Marks] /\ unclosed \in SUBSET Conns

\* A future stays registered while its caller waits for it, and no longer.
Registered == \A c \in Callers : (fut[c] # "none") <=> pc[c] \in Waiting

TypeOK ==
  LinkOK /\ CallsOK /\ Registered /\ ready \in BOOLEAN /\ disc \in Tasks

Init ==
  /\ sock = [s \in Conns |-> "new"] /\ lst = [s \in Conns |-> "none"]
  /\ ws = None /\ listener = None /\ ready = FALSE
  /\ pc = [c \in Callers |-> "idle"] /\ via = [c \in Callers |-> None]
  /\ stale = [c \in Callers |-> FALSE]
  /\ fut = [c \in Callers |-> "none"]
  /\ disc = NoTask
  /\ before = [c \in Callers |-> NoSockets] /\ unclosed = {}

At(c, label) == pc[c] = label
Goto(c, label) == pc' = [pc EXCEPT ![c] = label]

\* Variant: the futures of a lost connection are left alone.
FailNobody == fut

\* _fail_pending
FailPending == [c \in Callers |-> IF fut[c] = "wait" THEN "error" ELSE fut[c]]

\* Variant: the listener task is forgotten when its socket is.
DetachSocket ==
  /\ ws' = None /\ ready' = FALSE /\ UNCHANGED listener
  /\ fut' = FailPending

\* The client is disconnected and everyone who waits is told.
Detach ==
  /\ ws' = None /\ listener' = None /\ ready' = FALSE
  /\ fut' = FailPending

\* listener.cancel(), unless it is done.
Cancel(s) ==
  lst' = IF lst[s] = "run" THEN [lst EXCEPT ![s] = "cancelled"] ELSE lst

\* Variant: nobody looks at the generation.
OwnedForever(c) == TRUE

\* _ensure_connect_owner
Owned(c) == ~stale[c]

-----------------------------------------------------------------------------
(* async_connect.                                                          *)

StartConnect(c) ==
  /\ Goto(c, "connect")
  /\ UNCHANGED <<sock, lst, link, via, stale, fut, disc, before, unclosed>>

\* _connect_lock, then "already connected".
Connect(c) ==
  /\ At(c, "connect")
  /\ \A d \in Callers : pc[d] \notin Opening
  /\ Goto(c, IF ws # None \/ listener # None THEN "failed" ELSE "open")
  /\ stale' = [stale EXCEPT ![c] = FALSE]
  /\ UNCHANGED <<sock, lst, link, via, fut, disc, before, unclosed>>

\* The factory's socket.
OpenWith(c, label) ==
  /\ At(c, "open")
  /\ \/ \E s \in Conns :
          /\ sock[s] = "new" /\ sock' = [sock EXCEPT ![s] = "open"]
          /\ via' = [via EXCEPT ![c] = s]
          /\ Goto(c, label)
     \/ Goto(c, "failed") /\ UNCHANGED <<sock, via>>
  /\ UNCHANGED <<lst, link, stale, fut, disc, before, unclosed>>

\* Variant: a socket that comes after a disconnect is left to itself.
OpenAndLeave(c) == OpenWith(c, IF Owned(c) THEN "hello" ELSE "failed")

\* One that comes after a disconnect is closed again.
Open(c) == OpenWith(c, IF Owned(c) THEN "hello" ELSE "cleanup")

\* The server info arrived: the listener starts, and unless Device Builder
\* asks for authentication the client is connected.  Without a token, or if
\* the token cannot be sent, the connection is given up.
Hello(c) ==
  LET s == via[c] IN
  /\ At(c, "hello")
  /\ \/ /\ sock[s] = "open" /\ Owned(c)
        /\ ws' = s /\ listener' = s /\ lst' = [lst EXCEPT ![s] = "run"]
        /\ \/ /\ ready' = TRUE /\ Goto(c, "connected") /\ UNCHANGED fut
           \/ /\ fut' = [fut EXCEPT ![c] = "wait"]
              /\ Goto(c, "auth") /\ UNCHANGED ready
           \/ Goto(c, "cleanup") /\ UNCHANGED <<ready, fut>>
     \/ Goto(c, "cleanup") /\ UNCHANGED <<lst, link, fut>>
  /\ UNCHANGED <<sock, via, stale, disc, before, unclosed>>

\* The answer to auth, whatever became of the socket since.
Auth(c) ==
  /\ At(c, "auth")
  /\ \/ /\ fut[c] = "ok" /\ Owned(c)
        /\ ready' = TRUE /\ Goto(c, "connected")
     \/ UNCHANGED ready /\ Goto(c, "cleanup")
  /\ fut' = [fut EXCEPT ![c] = "none"]
  /\ UNCHANGED <<sock, lst, ws, listener, via, stale, disc, before, unclosed>>

\* _async_connect_cleanup, in a task of its own that outlives cancellation.
Cleanup(c) ==
  LET s == via[c] IN
  /\ At(c, "cleanup")
  /\ IF ws = s THEN Detach ELSE UNCHANGED <<link, fut>>
  /\ Cancel(s)
  /\ Goto(c, IF lst[s] \in {"none", "done"} THEN "cl_close" ELSE "cl_join")
  /\ UNCHANGED <<sock, via, stale, disc, before, unclosed>>

CleanupJoin(c) ==
  /\ At(c, "cl_join") /\ lst[via[c]] = "done"
  /\ Goto(c, "cl_close")
  /\ UNCHANGED <<sock, lst, link, via, stale, fut, disc, before, unclosed>>

\* A close that raises is reported with the failure of the connect, and
\* nobody tries again.
CleanupClose(c) ==
  /\ At(c, "cl_close")
  /\ \/ sock' = [sock EXCEPT ![via[c]] = "closed"] /\ UNCHANGED unclosed
     \/ unclosed' = unclosed \cup {via[c]} /\ UNCHANGED sock
  /\ Goto(c, "failed")
  /\ UNCHANGED <<lst, link, via, stale, fut, disc, before>>

-----------------------------------------------------------------------------
(* async_disconnect.                                                       *)

\* A new generation invalidates connects in flight; the owned task is joined
\* if there is one that has not failed, even if it has finished.
StartDisconnect(c) ==
  /\ stale' = [d \in Callers |-> pc[d] \in Opening]
  /\ before' = [before EXCEPT ![c] =
        [joined |-> disc.at \notin {"none", "error"},
         open |-> {s \in Conns : sock[s] # "new"}]]
  /\ \/ /\ disc.at \in {"none", "error"}
        /\ disc' = [at |-> "start", s |-> None, who |-> {c}]
        /\ Goto(c, "disconnect")
     \/ /\ disc.at \notin {"none", "error"}
        /\ disc' = [disc EXCEPT !.who = @ \cup {c}]
        /\ Goto(c, IF disc.at = "done" THEN "dc_ok" ELSE "disconnect")
  /\ UNCHANGED <<sock, lst, link, via, fut, unclosed>>

\* The task ends and wakes everyone who waits for it.
EndDisconnect(outcome, label) ==
  /\ disc' = [disc EXCEPT !.at = outcome]
  /\ pc' = [c \in Callers |-> IF c \in disc.who /\ At(c, "disconnect")
                              THEN label ELSE pc[c]]

\* _async_disconnect_owned, which remembers the socket it found.
Disconnect ==
  /\ disc.at = "start"
  /\ \/ /\ ws = None
        /\ Detach /\ EndDisconnect("done", "dc_ok")
     \/ /\ ws # None
        /\ disc' = [disc EXCEPT !.at = "close", !.s = ws]
        /\ UNCHANGED <<link, pc, fut>>
  /\ UNCHANGED <<sock, lst, via, stale, before, unclosed>>

\* A close that raises leaves the client as it is, for another attempt.
DisconnectClose ==
  /\ disc.at = "close"
  /\ \/ /\ sock' = [sock EXCEPT ![disc.s] = "closed"]
        /\ disc' = [disc EXCEPT !.at = "join"]
        /\ Cancel(disc.s)
        /\ UNCHANGED pc
     \/ EndDisconnect("error", "dc_error") /\ UNCHANGED <<sock, lst>>
  /\ UNCHANGED <<link, via, stale, fut, before, unclosed>>

DisconnectJoin ==
  /\ disc.at = "join" /\ lst[disc.s] = "done"
  /\ ws' = IF ws = disc.s THEN None ELSE ws
  /\ ready' = (ready /\ ws # disc.s)
  /\ listener' = IF listener = disc.s THEN None ELSE listener
  /\ fut' = FailPending
  /\ EndDisconnect("done", "dc_ok")
  /\ UNCHANGED <<sock, lst, via, stale, before, unclosed>>

\* A caller whose task succeeded forgets it, unless it was replaced.
DisconnectReturn(c) ==
  /\ \/ /\ At(c, "dc_ok") /\ Goto(c, "disconnected")
        /\ disc' = IF c \in disc.who THEN NoTask ELSE disc
     \/ At(c, "dc_error") /\ Goto(c, "failed") /\ UNCHANGED disc
  /\ before' = [before EXCEPT ![c] = NoSockets]
  /\ UNCHANGED <<sock, lst, link, via, stale, fut, unclosed>>

-----------------------------------------------------------------------------
(* async_command and _async_stream_command.                                *)

StartCommand(c) ==
  \/ /\ ready /\ ws # None
     /\ fut' = [fut EXCEPT ![c] = "wait"] /\ via' = [via EXCEPT ![c] = ws]
     /\ Goto(c, "send")
     /\ UNCHANGED <<sock, lst, link, stale, disc, before, unclosed>>
  \/ /\ ~ready \/ ws = None
     /\ Goto(c, "failed")
     /\ UNCHANGED <<sock, lst, link, via, stale, fut, disc, before, unclosed>>

\* A future whose message could not be sent is not waited for (its entry
\* stays in the table, under an id that is never used again).
Send(c) ==
  /\ At(c, "send")
  /\ \/ sock[via[c]] = "open" /\ Goto(c, "wait") /\ UNCHANGED fut
     \/ Goto(c, "failed") /\ fut' = [fut EXCEPT ![c] = "none"]
  /\ UNCHANGED <<sock, lst, link, via, stale, disc, before, unclosed>>

Answered(c) ==
  /\ At(c, "wait")
  /\ \/ fut[c] = "ok" /\ Goto(c, "answered")
     \/ Goto(c, "failed")
  /\ fut' = [fut EXCEPT ![c] = "none"]
  /\ UNCHANGED <<sock, lst, link, via, stale, disc, before, unclosed>>

-----------------------------------------------------------------------------
(* _listen and the other end of the socket.                                *)

\* A message resolves the future it names.
Receive(s) ==
  /\ lst[s] = "run"
  /\ \E c \in Callers, result \in {"ok", "error"} :
       /\ via[c] = s /\ pc[c] \in {"auth", "wait"} /\ fut[c] = "wait"
       /\ fut' = [fut EXCEPT ![c] = result]
  /\ UNCHANGED <<sock, lst, link, pc, via, stale, disc, before, unclosed>>

\* The listener ends on a closing frame, when it is cancelled, on a message
\* that is not text (it closes the socket), or on one it cannot read.
ListenEnd(s) ==
  /\ lst[s] \in {"run", "cancelled"}
  /\ lst' = [lst EXCEPT ![s] = "done"]
  /\ \/ /\ ws = s /\ ws' = None /\ ready' = FALSE /\ fut' = FailPending
        /\ listener' = IF listener = s THEN None ELSE listener
     \/ ws # s /\ UNCHANGED <<link, fut>>
  /\ UNCHANGED <<sock, pc, via, stale, disc, before, unclosed>>

\* Device Builder, the network or a protocol error closes the socket.
Hangup(s) ==
  /\ sock[s] = "open" /\ sock' = [sock EXCEPT ![s] = "closed"]
  /\ UNCHANGED <<lst, link, pc, via, stale, fut, disc, before, unclosed>>

-----------------------------------------------------------------------------
Call(c) ==
  At(c, "idle") /\ (StartConnect(c) \/ StartDisconnect(c) \/ StartCommand(c))

Return(c) ==
  /\ pc[c] \in Ended /\ Goto(c, "idle")
  /\ via' = [via EXCEPT ![c] = None] /\ stale' = [stale EXCEPT ![c] = FALSE]
  /\ UNCHANGED <<sock, lst, link, fut, disc, before, unclosed>>

\* The rest of a call that has started, and of the tasks the client owns.
Proceeds(c) ==
  \/ Connect(c) \/ Open(c) \/ Hello(c) \/ Auth(c)
  \/ Cleanup(c) \/ CleanupJoin(c) \/ CleanupClose(c)
  \/ DisconnectReturn(c) \/ Send(c) \/ Answered(c)

Disconnects == Disconnect \/ DisconnectClose \/ DisconnectJoin

Next ==
  \/ \E c \in Callers : Call(c) \/ Proceeds(c) \/ Return(c)
  \/ Disconnects
  \/ \E s \in Conns : Receive(s) \/ ListenEnd(s) \/ Hangup(s)

Spec == Init /\ [][Next]_vars
-----------------------------------------------------------------------------
\* The two guards of async_connect agree: a lost connection, whoever noticed
\* it first, never leaves a listener behind that forbids the next one.
CanConnectAgain == listener = ws

\* A future is waited for only while the socket of its answer is attached:
\* every path that detaches a socket fails the futures of its callers.
NobodyIsStranded == \A c \in Callers : fut[c] = "wait" => via[c] = ws

\* No open socket is forgotten: it is attached, or somebody is connecting
\* with it or closing it, or the close that follows a failed connect was tried
\* and raised.  The exception is a socket whose listener stopped at a message
\* it could not read: nobody closes that one.
NoSocketIsLost ==
  \A s \in Conns : sock[s] = "open" =>
    \/ ws = s \/ s \in unclosed \/ lst[s] = "done"
    \/ \E c \in Callers : pc[c] \in Opening /\ via[c] = s

\* When a disconnect returns, no connection of before the call is connected,
\* even if it was still being opened.
DisconnectWins ==
  [][\A c \in Callers :
       At(c, "dc_ok") /\ pc'[c] = "disconnected" /\ ~before[c].joined
         => ~(ready' /\ ws' \in before[c].open)]_vars
=============================================================================
