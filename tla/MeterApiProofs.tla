--------------------------- MODULE MeterApiProofs ---------------------------
(***************************************************************************)
(* Proofs about MeterApi: whatever tasks connect, reconnect, restart, read *)
(* or shut the session down, and whenever transports fail, the session     *)
(* never takes a dead connection for a live one and forgets no client; and *)
(* the numbers it acknowledges, the windows it fills and the dumps it      *)
(* judges are what their callers take them for.                            *)
(***************************************************************************)
EXTENDS MeterApi, TLAPS

Jobs == [op : Operations \cup {"none"}, pc : Pcs, c : Conns \cup {None},
         v : Values \cup {None}, ok : BOOLEAN, out : {"none", "ok", "failed"}]

\* What the proof needs to know of the shape of the state.
Shape ==
  /\ link \in [Conns -> {"new", "open", "ended"}] /\ stops \subseteq Conns
  /\ client \in Conns \cup {None} /\ gen \in Conns \cup {None}
  /\ connected \in BOOLEAN /\ closed \in BOOLEAN
  /\ life \in Tasks \cup {None} /\ hold \in Tasks \cup {None}
  /\ job \in [Tasks -> Jobs]

\* The awaits of a task between the first and the last of a connect or a
\* reconnect, and those with a client to answer for.
Answering == {"bye", "hello", "list", "ready", "fail"}
Attempting == Answering \cup {"make"}

\* An attempt owns the lifecycle lock, with the session neither connected nor
\* closed; the client it answers for is the session's.
AttemptsAreAlone ==
  \A t \in Tasks :
    /\ job[t].pc \in Attempting => life = t /\ ~connected /\ ~closed
    /\ job[t].pc \in Answering => client # None /\ job[t].c = client

\* A client that is up is the session's, and somebody answers for it.
OpenIsOwned ==
  \A c \in Conns :
    link[c] = "open" =>
      /\ client = c
      /\ connected \/ closed \/ \E t \in Tasks : job[t].pc \in Answering

\* on_stop is called for a transport that has ended.
StopsHaveEnded == \A c \in stops : link[c] = "ended"

\* The shutdown closes the session first and disconnects for good.
ShutdownIsLast ==
  /\ bye # "none" => closed
  /\ bye \in {"wait", "done", "failed"} => ~connected
  /\ bye = "wait" => client # None
  /\ bye = "done" => client = None

IInv ==
  /\ Shape /\ AttemptsAreAlone /\ OpenIsOwned /\ StopsHaveEnded
  /\ ShutdownIsLast /\ ConnectionIsTrue

-----------------------------------------------------------------------------
(* The jobs the actions write.                                             *)

LEMMA NoJobType ==
  ASSUME NEW out \in {"none", "ok", "failed"}
  PROVE  [NoJob EXCEPT !.out = out] \in Jobs
BY DEF NoJob, Jobs, Pcs

LEMMA BeginType ==
  ASSUME NEW op \in Operations, NEW pc \in Pcs, NEW c \in Conns \cup {None}
  PROVE  /\ [NoJob EXCEPT !.op = op, !.pc = pc] \in Jobs
         /\ [NoJob EXCEPT !.op = op, !.pc = pc, !.c = c] \in Jobs
BY DEF NoJob, Jobs

LEMMA GotoType ==
  ASSUME NEW j \in Jobs, NEW pc \in Pcs
  PROVE  /\ [j EXCEPT !.pc = pc] \in Jobs
         /\ [j EXCEPT !.pc = pc].pc = pc /\ [j EXCEPT !.pc = pc].c = j.c
BY DEF Jobs

\* The job k is at pc for the client c.
Serves(k, pc, c) == k \in Jobs /\ k.pc = pc /\ k.c = c

LEMMA GotoForType ==
  ASSUME NEW j \in Jobs, NEW pc \in Pcs, NEW c \in Conns \cup {None}
  PROVE  Serves([j EXCEPT !.pc = pc, !.c = c], pc, c)
BY DEF Jobs, Serves

LEMMA MissType ==
  ASSUME NEW j \in Jobs
  PROVE  /\ [j EXCEPT !.ok = FALSE] \in Jobs
         /\ [j EXCEPT !.ok = FALSE].pc = j.pc /\ [j EXCEPT !.ok = FALSE].c = j.c
BY DEF Jobs

-----------------------------------------------------------------------------
(* Most steps are no business of the connection.                           *)

\* t goes on with its part in the connection, or has none before and after.
Keeps(t) ==
  \/ job'[t].pc = job[t].pc /\ job'[t].c = job[t].c
  \/ /\ job[t].pc \notin Attempting
     /\ job'[t].pc \notin Attempting \cup {"held"}

Bystands ==
  /\ UNCHANGED <<link, stops, client, connected, gen, closed, bye, hold>>
  /\ job' \in [Tasks -> Jobs] /\ \A t \in Tasks : Keeps(t)
  /\ life' \in Tasks \cup {None}
  /\ \A t \in Tasks : job[t].pc \in Attempting => life' = life

LEMMA BystanderIsHarmless ==
  ASSUME IInv, Bystands
  PROVE  IInv'
<1> USE DEF IInv, Bystands, Keeps
<1>1. Shape'
  BY DEF Shape
<1>2. AttemptsAreAlone'
  BY DEF AttemptsAreAlone, Answering, Attempting
<1>3. OpenIsOwned'
  BY DEF OpenIsOwned, Answering, Attempting
<1>4. StopsHaveEnded' /\ ShutdownIsLast'
  BY DEF StopsHaveEnded, ShutdownIsLast
<1>5. ConnectionIsTrue'
  BY DEF ConnectionIsTrue
<1> QED BY <1>1, <1>2, <1>3, <1>4, <1>5

\* A step that changes the job of t only, to one with no part.
LEMMA OneBystands ==
  ASSUME IInv, NEW t \in Tasks, NEW j \in Jobs, job' = [job EXCEPT ![t] = j],
         job[t].pc \notin Attempting, j.pc \notin Attempting \cup {"held"},
         UNCHANGED <<link, stops, client, connected, gen, closed, bye, hold>>,
         life' \in Tasks \cup {None},
         \A u \in Tasks : job[u].pc \in Attempting => life' = life
  PROVE  Bystands
BY DEF Bystands, Keeps, IInv, Shape

-----------------------------------------------------------------------------

LEMMA OverType ==
  ASSUME NEW out \in {"ok", "failed"}
  PROVE  [NoJob EXCEPT !.out = out] \in Jobs
         /\ [NoJob EXCEPT !.out = out].pc = "idle"
BY NoJobType DEF NoJob

LEMMA StartBystands ==
  ASSUME IInv, NEW t \in Tasks, NEW op \in Operations,
         Start(t, op) \/ Wait(t, op)
  PROVE  Bystands
<1>1. PICK pc \in {"lock", "window"}, c \in Conns \cup {None} :
        job' \in {[job EXCEPT ![t] = [NoJob EXCEPT !.op = op, !.pc = pc]],
                 [job EXCEPT ![t] = [NoJob EXCEPT !.op = op, !.pc = pc,
                                                  !.c = c]]}
  BY DEF Start, Wait, IInv, Shape
<1>2. pc \in Pcs /\ pc \notin Attempting \cup {"held"}
  BY DEF Pcs, Attempting, Answering
<1>3. PICK j \in Jobs : job' = [job EXCEPT ![t] = j] /\ j.pc = pc
  BY <1>1, <1>2, BeginType DEF NoJob
<1>4. /\ job[t].pc = "idle"
      /\ UNCHANGED <<link, stops, client, connected, gen, closed, bye, hold, life>>
  BY DEF Start, Wait, wire, conn, ends
<1> QED BY <1>2, <1>3, <1>4, OneBystands DEF Attempting, Answering, IInv, Shape

LEMMA LeaseBystands ==
  ASSUME IInv, NEW t \in Tasks, Lease(t)
  PROVE  Bystands
BY DEF Lease, Bystands, Keeps, IInv, Shape, wire, conn, ends

LEMMA ShutdownReturnBystands ==
  ASSUME IInv, NEW t \in Tasks, ShutdownReturn(t)
  PROVE  Bystands
<1>1. PICK out \in {"ok", "failed"} :
        job' = [job EXCEPT ![t] = [NoJob EXCEPT !.out = out]]
  BY DEF ShutdownReturn, Over
<1>2. /\ job[t].pc = "down"
      /\ UNCHANGED <<link, stops, client, connected, gen, closed, bye, hold, life>>
  BY DEF ShutdownReturn, At, wire, conn, ends
<1> QED BY <1>1, <1>2, OverType, OneBystands DEF Attempting, Answering, IInv, Shape

\* Windows end, and waits are given up.
LEMMA WaitEnds ==
  ASSUME IInv, NEW t \in Tasks, Window(t) \/ GiveUp(t)
  PROVE  Bystands
<1>1. PICK out \in {"ok", "failed"} :
        job' = [job EXCEPT ![t] = [NoJob EXCEPT !.out = out]]
  BY DEF Window, GiveUp, Over
<1>2. /\ job[t].pc \in {"number", "window", "restart"}
      /\ UNCHANGED <<link, stops, client, connected, gen, closed, bye, hold, life>>
  BY DEF Window, GiveUp, wire, conn, ends
<1> QED BY <1>1, <1>2, OverType, OneBystands DEF Attempting, Answering, IInv, Shape

LEMMA PressRestartBystands ==
  ASSUME IInv, NEW t \in Tasks, PressRestart(t)
  PROVE  Bystands
<1> DEFINE j == [NoJob EXCEPT !.op = "restart", !.pc = "restart", !.c = client]
<1>1. j \in Jobs /\ j.pc = "restart"
  BY BeginType DEF PressRestart, Pcs, NoJob, IInv, Shape
<1>2. /\ job[t].pc = "idle" /\ job' = [job EXCEPT ![t] = j]
      /\ UNCHANGED <<link, stops, client, connected, gen, closed, bye, hold, life>>
  BY DEF PressRestart, wire, conn, ends
<1> HIDE DEF j
<1> QED BY <1>1, <1>2, OneBystands DEF Attempting, Answering, IInv, Shape

LEMMA SetNumberBystands ==
  ASSUME IInv, NEW t \in Tasks, NEW v \in Values, SetNumber(t, v)
  PROVE  Bystands
<1> DEFINE q == Quiet(client)
           j == [NoJob EXCEPT !.op = "number", !.pc = "number", !.c = client,
                              !.v = v, !.ok = q]
<1>1. q \in BOOLEAN
  BY DEF Quiet
<1>2. job' = [job EXCEPT ![t] = j]
  BY Zenon DEF SetNumber
<1> HIDE DEF q
<1>3. "number" \in Operations /\ client \in Conns \cup {None}
  BY DEF SetNumber, IInv, Shape
<1>4. j \in Jobs /\ j.pc = "number"
  BY <1>1, <1>3 DEF Jobs, NoJob, Pcs
<1>5. /\ job[t].pc = "idle"
      /\ UNCHANGED <<link, stops, client, connected, gen, closed, bye, hold, life>>
  BY DEF SetNumber, conn, ends
<1> HIDE DEF j
<1> QED BY <1>2, <1>4, <1>5, OneBystands DEF Attempting, Answering, IInv, Shape

LEMMA MeterBystands ==
  ASSUME IInv, NEW c \in Conns, Act(c) \/ OnSample(c)
  PROVE  Bystands
BY DEF Act, OnSample, Bystands, Keeps, IInv, Shape, wire, conn, ends

\* A number state and a line of the log wake the tasks that wait for them.
LEMMA OnNumberBystands ==
  ASSUME IInv, NEW c \in Conns, OnNumber(c)
  PROVE  Bystands
<1>1. \A u \in Tasks :
        \/ job'[u] = job[u]
        \/ job[u].pc = "number" /\ job'[u] = [NoJob EXCEPT !.out = "ok"]
  BY DEF OnNumber, Acknowledges, At
<1>2. job' \in [Tasks -> Jobs]
  <2>1. job' = [u \in Tasks |-> job'[u]]
    BY DEF OnNumber
  <2>2. \A u \in Tasks : job'[u] \in Jobs
    BY <1>1, OverType DEF IInv, Shape
  <2> QED BY <2>1, <2>2
<1>3. \A u \in Tasks : Keeps(u)
  BY <1>1, OverType DEF Keeps, Attempting, Answering
<1> QED BY <1>2, <1>3 DEF OnNumber, Bystands, IInv, Shape, conn, ends

LEMMA LineBystands ==
  ASSUME IInv, NEW c \in Conns, Line(c)
  PROVE  Bystands
<1>1. \A u \in Tasks :
        \/ job'[u] = job[u]
        \/ job'[u] = [job[u] EXCEPT !.ok = FALSE]
  BY DEF Line
<1>2. \A u \in Tasks : job'[u] \in Jobs /\ job'[u].pc = job[u].pc
                       /\ job'[u].c = job[u].c
  <2> TAKE u \in Tasks
  <2>1. job[u] \in Jobs
    BY DEF IInv, Shape
  <2> QED BY <1>1, <2>1, MissType
<1>3. job' \in [Tasks -> Jobs]
  <2>1. job' = [u \in Tasks |-> job'[u]]
    BY DEF Line
  <2> QED BY <2>1, <1>2
<1> QED BY <1>2, <1>3 DEF Line, Bystands, Keeps, IInv, Shape, wire, conn, ends

LEMMA TwoFields ==
  ASSUME NEW f \in [Tasks -> Jobs], NEW t \in Tasks, NEW pc, NEW c
  PROVE  [f EXCEPT ![t].pc = pc, ![t].c = c]
           = [f EXCEPT ![t] = [f[t] EXCEPT !.pc = pc, !.c = c]]
BY DEF Jobs

LEMMA ListenBystands ==
  ASSUME IInv, NEW t \in Tasks, Listen(t)
  PROVE  Bystands
<1>1. /\ job[t].pc = "lock" /\ life = None /\ life' \in {None, t}
      /\ UNCHANGED <<link, stops, client, connected, gen, closed, bye, hold>>
  BY DEF Listen, Serialize, wire, conn, ends
<1>2. "listen" \in Pcs /\ job[t] \in Jobs /\ client \in Conns \cup {None}
  BY DEF Pcs, IInv, Shape
<1>3. PICK j \in Jobs : job' = [job EXCEPT ![t] = j] /\ j.pc \in {"listen", "idle"}
  <2>1. CASE Ready
    <3>1. job' = [job EXCEPT ![t] = [job[t] EXCEPT !.pc = "listen", !.c = client]]
      BY <2>1, TwoFields DEF Listen, IInv, Shape
    <3>2. Serves([job[t] EXCEPT !.pc = "listen", !.c = client], "listen", client)
      BY <1>2, GotoForType
    <3> QED BY <3>1, <3>2, Zenon DEF Serves
  <2>2. CASE ~Ready
    BY <2>2, OverType DEF Listen, Over
  <2> QED BY <2>1, <2>2
<1>4. \A u \in Tasks : job[u].pc \notin Attempting
  BY <1>1, ApiAssumption DEF IInv, AttemptsAreAlone
<1> QED BY <1>1, <1>3, <1>4, OneBystands DEF Attempting, Answering

LEMMA EndListenBystands ==
  ASSUME IInv, NEW t \in Tasks, EndListen(t)
  PROVE  Bystands
<1>1. PICK out \in {"ok", "failed"} :
        job' = [job EXCEPT ![t] = [NoJob EXCEPT !.out = out]]
  BY DEF EndListen, Over
<1>2. /\ job[t].pc = "listen" /\ life' = Unlock(life, t)
      /\ UNCHANGED <<link, stops, client, connected, gen, closed, bye, hold>>
  BY DEF EndListen, wire, conn, ends
<1>3. /\ life' \in Tasks \cup {None}
      /\ \A u \in Tasks : job[u].pc \in Attempting => life' = life
  BY <1>2 DEF Unlock, IInv, Shape, AttemptsAreAlone, Attempting, Answering
<1> QED BY <1>1, <1>2, <1>3, OverType, OneBystands DEF Attempting, Answering

LEMMA CaptureBystands ==
  ASSUME IInv, NEW t \in Tasks, Capture(t)
  PROVE  Bystands
<1>1. /\ job[t].pc = "idle" /\ "gain" \in Operations /\ "capture" \in Pcs
      /\ client \in Conns \cup {None} /\ life \in Tasks \cup {None}
      /\ UNCHANGED <<link, stops, client, connected, gen, closed, bye, hold, life>>
  BY DEF Capture, Pcs, IInv, Shape, wire, conn, ends
<1>2. PICK j \in Jobs : job' = [job EXCEPT ![t] = j] /\ j.pc \in {"capture", "idle"}
  <2>1. CASE job' = [job EXCEPT ![t] = [NoJob EXCEPT !.op = "gain",
                                          !.pc = "capture", !.c = client]]
    BY <1>1, <2>1, BeginType DEF NoJob
  <2>2. CASE job' = Over(t, "failed")
    BY <2>2, OverType DEF Over
  <2> QED BY <2>1, <2>2 DEF Capture
<1> QED BY <1>1, <1>2, OneBystands DEF Attempting, Answering

LEMMA EndCaptureBystands ==
  ASSUME IInv, NEW t \in Tasks, EndCapture(t)
  PROVE  Bystands
<1>1. PICK out \in {"ok", "failed"} :
        job' = [job EXCEPT ![t] = [NoJob EXCEPT !.out = out]]
  BY DEF EndCapture, Over
<1>2. /\ job[t].pc = "capture" /\ life \in Tasks \cup {None}
      /\ UNCHANGED <<link, stops, client, connected, gen, closed, bye, hold, life>>
  BY DEF EndCapture, wire, conn, ends, IInv, Shape
<1> QED BY <1>1, <1>2, OverType, OneBystands DEF Attempting, Answering

-----------------------------------------------------------------------------
(* The steps of the connection.                                            *)

\* Replacing the job of one task.
LEMMA OneJob ==
  ASSUME IInv, NEW t \in Tasks, NEW j \in Jobs, job' = [job EXCEPT ![t] = j]
  PROVE  /\ job' \in [Tasks -> Jobs] /\ job'[t] = j
         /\ \A u \in Tasks \ {t} : job'[u] = job[u]
BY DEF IInv, Shape

\* What a task that loses its connection is left with: Lose leaves the jobs
\* of f alone but for the waits it ends, and no attempt is one of them.
LEMMA LoseJobs ==
  ASSUME NEW f \in [Tasks -> Jobs], NEW told,
         \A u \in told : f[u].pc \notin Attempting \cup {"held"},
         \A u \in Tasks : job[u].pc = "number" => f[u].pc = "number",
         Lose(f, told)
  PROVE  /\ job' \in [Tasks -> Jobs] /\ connected' = FALSE
         /\ \A u \in Tasks : \/ job'[u] = f[u]
                              \/ /\ f[u].pc \notin Attempting \cup {"held"}
                                 /\ job'[u].pc = "idle"
<1>1. \A u \in Tasks :
        \/ job'[u] = f[u]
        \/ /\ job[u].pc = "number" \/ u \in told
           /\ job'[u] \in {[NoJob EXCEPT !.out = "ok"], [NoJob EXCEPT !.out = "failed"]}
  BY DEF Lose, At
<1>2. job' = [u \in Tasks |-> job'[u]]
  BY DEF Lose
<1>3. \A u \in Tasks : job'[u] \in Jobs
  BY <1>1, OverType
<1>4. job' \in [Tasks -> Jobs]
  BY <1>2, <1>3
<1> QED BY <1>1, <1>4, OverType DEF Lose, Attempting, Answering

LEMMA ConnectStep ==
  ASSUME IInv, NEW t \in Tasks, Connect(t)
  PROVE  IInv'
<1>1. /\ job[t].pc = "lock" /\ life = None
      /\ UNCHANGED <<link, stops, client, connected, gen, closed, bye, hold>>
  BY DEF Connect, At, wire, conn, ends
<1>2. CASE Refuses \/ connected
  <2>1. PICK out \in {"ok", "failed"} :
          job' = [job EXCEPT ![t] = [NoJob EXCEPT !.out = out]]
    BY <1>2 DEF Connect, Over
  <2>2. Bystands
    BY <1>1, <1>2, <2>1, OverType, OneBystands
       DEF Connect, Attempting, Answering, IInv, Shape
  <2> QED BY <2>2, BystanderIsHarmless
<1>3. CASE ~(Refuses \/ connected)
  <2>1. /\ job' \in [Tasks -> Jobs] /\ job'[t].pc = "make" /\ life' = t
        /\ \A u \in Tasks \ {t} : job'[u] = job[u]
    <3>1. "make" \in Pcs /\ job[t] \in Jobs
      BY DEF Pcs, IInv, Shape
    <3>2. job' = [job EXCEPT ![t] = [job[t] EXCEPT !.pc = "make"]] /\ life' = t
      BY <1>3 DEF Connect, Goto, IInv, Shape
    <3>3. [job[t] EXCEPT !.pc = "make"] \in Jobs /\ [job[t] EXCEPT !.pc = "make"].pc = "make"
      BY <3>1, GotoType, Zenon
    <3> QED BY <3>2, <3>3, OneJob
  <2>2. \A u \in Tasks : job[u].pc \notin Attempting
    BY <1>1, ApiAssumption DEF IInv, AttemptsAreAlone
  <2>3. Shape'
    BY <1>1, <2>1 DEF IInv, Shape
  <2>4. AttemptsAreAlone'
    BY <1>1, <1>3, <2>1, <2>2 DEF AttemptsAreAlone, Attempting, Answering, Refuses
  <2>5. OpenIsOwned'
    BY <1>1, <1>3, <2>1, <2>2 DEF OpenIsOwned, IInv, Attempting, Refuses
  <2>6. StopsHaveEnded' /\ ShutdownIsLast'
    BY <1>1 DEF StopsHaveEnded, ShutdownIsLast, IInv
  <2>7. ConnectionIsTrue'
    BY <1>1, <1>3, <2>1 DEF ConnectionIsTrue, IInv
  <2> QED BY <2>3, <2>4, <2>5, <2>6, <2>7 DEF IInv
<1> QED BY <1>2, <1>3

\* The step of an attempt of t, of which there is one.
LEMMA OneAttempt ==
  ASSUME IInv, NEW t \in Tasks, job[t].pc \in Attempting
  PROVE  /\ life = t /\ ~connected /\ ~closed /\ bye = "none"
         /\ \A u \in Tasks \ {t} : job[u].pc \notin Attempting
         /\ \A u \in Tasks : job[u].pc # "held"
BY DEF IInv, AttemptsAreAlone, ShutdownIsLast, ConnectionIsTrue

\* An attempt that ends with the transport of its client down.
LEMMA EndType ==
  ASSUME IInv, NEW c \in Conns, End(c)
  PROVE  /\ link' \in [Conns -> {"new", "open", "ended"}]
         /\ stops' \subseteq Conns /\ link'[c] = "ended"
         /\ \A d \in Conns \ {c} : link'[d] = link[d]
         /\ stops \subseteq stops' /\ stops' \subseteq stops \cup {c}
         /\ link[c] = "open" => c \in stops'
BY DEF End, IInv, Shape

LEMMA ReconnectStep ==
  ASSUME IInv, NEW t \in Tasks, Reconnect(t)
  PROVE  IInv'
<1>1. /\ job[t].pc = "lock" /\ life = None
      /\ UNCHANGED <<link, stops, client, gen, closed, bye, hold>>
  BY DEF Reconnect, At, wire, ends
<1>2. \A u \in Tasks : job[u].pc \notin Attempting
  BY <1>1, ApiAssumption DEF IInv, AttemptsAreAlone
<1>3. CASE Refuses /\ job' = Over(t, "failed") /\ UNCHANGED <<life, connected, logs>>
  <2>1. Bystands
    BY <1>1, <1>3, OverType, OneBystands
       DEF Over, Attempting, Answering, IInv, Shape
  <2> QED BY <2>1, BystanderIsHarmless
<1>4. CASE /\ ~Refuses /\ Unheld /\ life' = t
           /\ Lose([job EXCEPT ![t].pc = Departure, ![t].c = client], {})
  <2> DEFINE k == [job[t] EXCEPT !.pc = Departure, !.c = client]
             f == [job EXCEPT ![t] = k]
  <2>1. Departure \in Pcs /\ job[t] \in Jobs /\ client \in Conns \cup {None}
    BY DEF Departure, Pcs, IInv, Shape
  <2>2. Serves(k, Departure, client)
    BY <2>1, GotoForType
  <2>3. Lose(f, {})
    BY <1>4, TwoFields DEF IInv, Shape
  <2> HIDE DEF k
  <2>4. /\ f \in [Tasks -> Jobs] /\ f[t] = k
        /\ \A u \in Tasks \ {t} : f[u] = job[u]
    BY <2>2 DEF IInv, Shape, Serves
  <2> HIDE DEF f
  <2>5. /\ job' \in [Tasks -> Jobs] /\ connected' = FALSE
        /\ \A u \in Tasks : \/ job'[u] = f[u]
                             \/ /\ f[u].pc \notin Attempting \cup {"held"}
                                /\ job'[u].pc = "idle"
    BY <1>1, <2>3, <2>4, LoseJobs
  <2>6. /\ job'[t] = k
        /\ \A u \in Tasks \ {t} : job'[u].pc \in {job[u].pc, "idle"}
    BY <2>2, <2>4, <2>5 DEF Serves, Departure, Attempting, Answering
  <2>7. Shape'
    BY <1>1, <1>4, <2>5 DEF IInv, Shape
  <2>8. AttemptsAreAlone'
    BY <1>1, <1>2, <1>4, <2>2, <2>5, <2>6
       DEF AttemptsAreAlone, Attempting, Answering, Refuses, Departure, Serves
  <2>9. OpenIsOwned'
    <3> SUFFICES ASSUME NEW c \in Conns, link[c] = "open"
                 PROVE  client = c /\ job'[t].pc \in Answering
      BY <1>1 DEF OpenIsOwned
    <3>1. client = c
      BY DEF OpenIsOwned, IInv
    <3> QED BY <3>1, <2>2, <2>6, ApiAssumption DEF Departure, Answering, Serves
  <2>10. StopsHaveEnded' /\ ShutdownIsLast'
    BY <1>1, <2>5 DEF StopsHaveEnded, ShutdownIsLast, IInv
  <2>11. ConnectionIsTrue'
    <3>1. \A u \in Tasks : job[u].pc # "held"
      BY <1>4, ApiAssumption DEF ConnectionIsTrue, IInv, Unheld
    <3> QED BY <2>2, <2>5, <2>6, <3>1 DEF ConnectionIsTrue, Departure, Serves
  <2> QED BY <2>7, <2>8, <2>9, <2>10, <2>11 DEF IInv
<1> QED BY <1>3, <1>4 DEF Reconnect

\* The attempt is over, or makes a new client, and the transport of the old
\* one has ended.
LEMMA DisconnectedStep ==
  ASSUME IInv, NEW t \in Tasks, Disconnected(t)
  PROVE  IInv'
<1>1. /\ job[t].pc = "bye" /\ Unheld /\ End(client) /\ client \in Conns
      /\ client' \in {client, None}
      /\ UNCHANGED <<connected, gen, closed, bye, hold>>
  BY DEF Disconnected, At, ends, IInv, AttemptsAreAlone, Answering, Attempting, Shape
<1>2. /\ life = t /\ ~connected /\ ~closed /\ bye = "none"
      /\ \A u \in Tasks \ {t} : job[u].pc \notin Attempting
      /\ \A u \in Tasks : job[u].pc # "held"
  BY <1>1, OneAttempt DEF Attempting, Answering
<1>3. PICK j \in Jobs :
        /\ job' = [job EXCEPT ![t] = j]
        /\ \/ j.pc = "make" /\ life' = life
           \/ j.pc = "idle" /\ life' = None
  <2>1. "make" \in Pcs /\ job[t] \in Jobs
    BY DEF Pcs, IInv, Shape
  <2>2. CASE job' = Goto(t, "make") /\ life' = life
    <3> DEFINE k == [job[t] EXCEPT !.pc = "make"]
    <3>1. job' = [job EXCEPT ![t] = k]
      BY <2>2 DEF Goto, IInv, Shape
    <3>2. k \in Jobs /\ k.pc = "make"
      BY <2>1, GotoType
    <3> HIDE DEF k
    <3> QED BY <2>2, <3>1, <3>2
  <2>3. CASE job' = Over(t, "failed") /\ life' = None
    BY <2>3, OverType DEF Over
  <2> QED BY <2>2, <2>3 DEF Disconnected
<1>4. /\ job' \in [Tasks -> Jobs] /\ job'[t] = j
      /\ \A u \in Tasks \ {t} : job'[u] = job[u]
  BY <1>3, OneJob
<1>5. \A c \in Conns : link'[c] # "open"
  BY <1>1, EndType DEF OpenIsOwned, IInv
<1>6. Shape'
  BY <1>1, <1>3, <1>4, EndType DEF IInv, Shape
<1>7. AttemptsAreAlone'
  BY <1>1, <1>2, <1>3, <1>4 DEF AttemptsAreAlone, Attempting, Answering
<1>8. OpenIsOwned' /\ StopsHaveEnded' /\ ShutdownIsLast'
  BY <1>1, <1>2, <1>5, EndType
     DEF OpenIsOwned, StopsHaveEnded, ShutdownIsLast, IInv, Shape
<1>9. ConnectionIsTrue'
  BY <1>1, <1>2, <1>3, <1>4 DEF ConnectionIsTrue
<1> QED BY <1>6, <1>7, <1>8, <1>9 DEF IInv

LEMMA MakeStep ==
  ASSUME IInv, NEW t \in Tasks, Make(t)
  PROVE  IInv'
<1>1. /\ job[t].pc = "make"
      /\ UNCHANGED <<stops, connected, gen, closed, bye, hold>>
  BY DEF Make, conn, ends
<1>2. /\ life = t /\ ~connected /\ ~closed /\ bye = "none"
      /\ \A u \in Tasks \ {t} : job[u].pc \notin Attempting
      /\ \A u \in Tasks : job[u].pc # "held"
  BY <1>1, OneAttempt DEF Attempting
<1>3. \A c \in Conns : link[c] # "open"
  BY <1>1, <1>2 DEF OpenIsOwned, IInv, Attempting, Answering
<1>4. CASE job' = Over(t, "failed") /\ life' = None /\ UNCHANGED <<link, client>>
  <2>1. /\ job' \in [Tasks -> Jobs] /\ job'[t].pc = "idle"
        /\ \A u \in Tasks \ {t} : job'[u] = job[u]
    BY <1>4, OverType, OneJob DEF Over
  <2> QED BY <1>1, <1>2, <1>3, <1>4, <2>1
          DEF IInv, Shape, AttemptsAreAlone, Attempting, Answering, OpenIsOwned,
              StopsHaveEnded, ShutdownIsLast, ConnectionIsTrue
<1>5. ASSUME NEW c \in Conns, link[c] = "new",
             link' = [link EXCEPT ![c] = "open"], client' = c, life' = life,
             job' = [job EXCEPT ![t].pc = "hello", ![t].c = c]
      PROVE  IInv'
  <2> DEFINE k == [job[t] EXCEPT !.pc = "hello", !.c = c]
  <2>1. Serves(k, "hello", c)
    <3>1. "hello" \in Pcs /\ job[t] \in Jobs /\ c \in Conns \cup {None}
      BY DEF Pcs, IInv, Shape
    <3> QED BY <3>1, GotoForType
  <2>2. job' = [job EXCEPT ![t] = k]
    BY <1>5, TwoFields DEF IInv, Shape
  <2> HIDE DEF k
  <2>3. /\ job' \in [Tasks -> Jobs] /\ job'[t] = k
        /\ \A u \in Tasks \ {t} : job'[u] = job[u]
    BY <2>1, <2>2, OneJob DEF Serves
  <2>4. Shape'
    BY <1>1, <1>5, <2>3 DEF IInv, Shape
  <2>5. AttemptsAreAlone'
    BY <1>1, <1>2, <1>5, <2>1, <2>3, ApiAssumption
       DEF AttemptsAreAlone, Attempting, Answering, Serves
  <2>6. OpenIsOwned'
    BY <1>3, <1>5, <2>1, <2>3 DEF OpenIsOwned, Answering, Serves, IInv, Shape
  <2>7. StopsHaveEnded' /\ ShutdownIsLast'
    BY <1>1, <1>2, <1>5 DEF StopsHaveEnded, ShutdownIsLast, IInv, Shape
  <2>8. ConnectionIsTrue'
    BY <1>1, <1>2, <2>1, <2>3 DEF ConnectionIsTrue, Serves
  <2> QED BY <2>4, <2>5, <2>6, <2>7, <2>8 DEF IInv
<1> QED BY <1>4, <1>5 DEF Make

\* The handshake goes on or fails.
LEMMA GreetStep ==
  ASSUME IInv, NEW t \in Tasks, Greet(t)
  PROVE  IInv'
<1>1. /\ job[t].pc \in {"hello", "list"} /\ life' = life
      /\ UNCHANGED <<link, stops, client, connected, gen, closed, bye, hold>>
  BY DEF Greet, wire, conn, ends
<1>2. PICK pc \in {"list", "ready", "fail"} : job' = [job EXCEPT ![t].pc = pc]
  BY DEF Greet, Goto
<1>3. pc \in Pcs /\ job[t] \in Jobs
  BY DEF Pcs, IInv, Shape
<1> DEFINE k == [job[t] EXCEPT !.pc = pc]
<1>4. k \in Jobs /\ k.pc = pc /\ k.c = job[t].c
  BY <1>3, GotoType
<1>5. job' = [job EXCEPT ![t] = k]
  BY <1>2 DEF IInv, Shape
<1> HIDE DEF k
<1>6. /\ job' \in [Tasks -> Jobs] /\ job'[t] = k
      /\ \A u \in Tasks \ {t} : job'[u] = job[u]
  BY <1>4, <1>5, OneJob
<1>7. Shape'
  BY <1>1, <1>6 DEF IInv, Shape
<1>8. AttemptsAreAlone'
  BY <1>1, <1>4, <1>6 DEF IInv, AttemptsAreAlone, Attempting, Answering
<1>9. OpenIsOwned'
  <2>1. job'[t].pc \in Answering
    BY <1>4, <1>6 DEF Answering
  <2> QED BY <1>1, <2>1 DEF OpenIsOwned, IInv
<1>10. StopsHaveEnded' /\ ShutdownIsLast'
  BY <1>1 DEF StopsHaveEnded, ShutdownIsLast, IInv
<1>11. ConnectionIsTrue'
  BY <1>1, <1>4, <1>6 DEF ConnectionIsTrue, IInv
<1> QED BY <1>7, <1>8, <1>9, <1>10, <1>11 DEF IInv

\* The attempt of t is over; the session is connected to a client that is up.
LEMMA BecomeReadyStep ==
  ASSUME IInv, NEW t \in Tasks, BecomeReady(t)
  PROVE  IInv'
<1>1. /\ job[t].pc = "ready" /\ hold = None /\ life' = None
      /\ UNCHANGED <<link, stops, client, closed, bye, hold>>
  BY DEF BecomeReady, Unheld, wire, ends
<1>2. /\ ~connected /\ ~closed /\ bye = "none"
      /\ \A u \in Tasks \ {t} : job[u].pc \notin Attempting
      /\ \A u \in Tasks : job[u].pc # "held"
  BY <1>1, OneAttempt DEF Attempting, Answering
<1>3. job[t].c = client /\ client \in Conns
  BY <1>1 DEF IInv, AttemptsAreAlone, Answering, Shape
<1>4. PICK out \in {"ok", "failed"} :
        job' = [job EXCEPT ![t] = [NoJob EXCEPT !.out = out]]
  BY DEF BecomeReady, Over
<1>5. /\ job' \in [Tasks -> Jobs] /\ job'[t].pc = "idle"
      /\ \A u \in Tasks \ {t} : job'[u] = job[u]
  BY <1>4, OverType, OneJob
<1>6. \/ connected' = TRUE /\ gen' = client /\ link[client] = "open"
      \/ UNCHANGED <<connected, gen>> /\ link[client] # "open"
  BY <1>3 DEF BecomeReady, Live
<1>7. Shape'
  BY <1>1, <1>5, <1>6 DEF IInv, Shape
<1>8. AttemptsAreAlone'
  BY <1>2, <1>5 DEF AttemptsAreAlone, Attempting, Answering
<1>9. OpenIsOwned'
  BY <1>1, <1>6 DEF OpenIsOwned, IInv
<1>10. StopsHaveEnded' /\ ShutdownIsLast'
  BY <1>1, <1>2 DEF StopsHaveEnded, ShutdownIsLast, IInv
<1>11. ConnectionIsTrue'
  BY <1>1, <1>2, <1>3, <1>5, <1>6, ApiAssumption DEF ConnectionIsTrue
<1> QED BY <1>7, <1>8, <1>9, <1>10, <1>11 DEF IInv

LEMMA DisconnectFailedStep ==
  ASSUME IInv, NEW t \in Tasks, DisconnectFailed(t)
  PROVE  IInv'
<1>1. /\ job[t].pc = "fail" /\ End(client) /\ client \in Conns /\ client' = None
      /\ life' = None /\ UNCHANGED <<gen, closed, bye, hold>>
  BY DEF DisconnectFailed, ends, IInv, AttemptsAreAlone, Answering, Shape
<1>2. /\ bye = "none" /\ \A u \in Tasks \ {t} : job[u].pc \notin Attempting
      /\ \A u \in Tasks : job[u].pc # "held"
  BY <1>1, OneAttempt DEF Attempting, Answering
<1> DEFINE k == [NoJob EXCEPT !.out = "failed"]
           f == [job EXCEPT ![t] = k]
<1>3. k \in Jobs /\ k.pc = "idle"
  BY OverType
<1>4. Lose(f, {})
  BY DEF DisconnectFailed, Over
<1> HIDE DEF k
<1>5. /\ f \in [Tasks -> Jobs] /\ f[t] = k
      /\ \A u \in Tasks \ {t} : f[u] = job[u]
  BY <1>3 DEF IInv, Shape
<1> HIDE DEF f
<1>6. /\ job' \in [Tasks -> Jobs] /\ connected' = FALSE
      /\ \A u \in Tasks : \/ job'[u] = f[u]
                           \/ /\ f[u].pc \notin Attempting \cup {"held"}
                              /\ job'[u].pc = "idle"
  BY <1>1, <1>4, <1>5, LoseJobs
<1>7. \A u \in Tasks : job'[u].pc \notin Attempting \cup {"held"}
  BY <1>2, <1>3, <1>5, <1>6 DEF Attempting, Answering
<1>8. \A c \in Conns : link'[c] # "open"
  BY <1>1, EndType DEF OpenIsOwned, IInv
<1>9. Shape'
  BY <1>1, <1>6, EndType DEF IInv, Shape
<1>10. AttemptsAreAlone'
  BY <1>7 DEF AttemptsAreAlone, Attempting
<1>11. OpenIsOwned' /\ StopsHaveEnded' /\ ShutdownIsLast'
  BY <1>1, <1>2, <1>6, <1>8, EndType
     DEF OpenIsOwned, StopsHaveEnded, ShutdownIsLast, IInv, Shape
<1>12. ConnectionIsTrue'
  BY <1>6, <1>7 DEF ConnectionIsTrue
<1> QED BY <1>9, <1>10, <1>11, <1>12 DEF IInv

\* A transport that ends is noticed when its on_stop runs.
LEMMA StopStep ==
  ASSUME IInv, NEW c \in Conns, Stop(c)
  PROVE  IInv'
<1>1. /\ link[c] = "open" /\ End(c)
      /\ UNCHANGED <<client, connected, gen, closed, bye, life, hold, job>>
  BY DEF Stop, conn, ends
<1>2. Shape'
  BY <1>1, EndType DEF IInv, Shape
<1>3. AttemptsAreAlone' /\ ShutdownIsLast'
  BY <1>1 DEF IInv, AttemptsAreAlone, ShutdownIsLast
<1>4. OpenIsOwned' /\ StopsHaveEnded'
  BY <1>1, EndType DEF OpenIsOwned, StopsHaveEnded, IInv, Shape
<1>5. ConnectionIsTrue'
  BY <1>1, EndType DEF ConnectionIsTrue, IInv, Shape
<1> QED BY <1>2, <1>3, <1>4, <1>5 DEF IInv

\* on_stop of a client that is no longer the session's is ignored; one of the
\* present client ends the connection, unless it is held for a save.
LEMMA OnStopStep ==
  ASSUME IInv, NEW c \in Conns, OnStop(c)
  PROVE  IInv'
<1>1. /\ c \in stops /\ hold = None /\ stops' = stops \ {c} /\ link[c] = "ended"
      /\ UNCHANGED <<link, client, gen, closed, bye, life, hold>>
  BY DEF OnStop, Unheld, ends, IInv, StopsHaveEnded
<1>2. CASE ~OfSession(c)
  <2>1. UNCHANGED <<connected, job>>
    BY <1>2 DEF OnStop
  <2>2. Shape' /\ AttemptsAreAlone' /\ OpenIsOwned'
    BY <1>1, <2>1 DEF IInv, Shape, AttemptsAreAlone, OpenIsOwned
  <2>3. StopsHaveEnded' /\ ShutdownIsLast'
    BY <1>1, <2>1 DEF IInv, StopsHaveEnded, ShutdownIsLast
  <2>4. ConnectionIsTrue'
    BY <1>1, <1>2, <2>1 DEF IInv, ConnectionIsTrue, OfSession
  <2> QED BY <2>2, <2>3, <2>4 DEF IInv
<1>3. CASE OfSession(c)
  <2> DEFINE told == {u \in Tasks : At(u, "restart", "restart")}
  <2>1. /\ job' \in [Tasks -> Jobs] /\ connected' = FALSE
        /\ \A u \in Tasks : \/ job'[u] = job[u]
                             \/ /\ job[u].pc \notin Attempting \cup {"held"}
                                /\ job'[u].pc = "idle"
    <3>1. job \in [Tasks -> Jobs] /\ Lose(job, told)
      BY <1>3 DEF OnStop, IInv, Shape
    <3>2. \A u \in told : job[u].pc \notin Attempting \cup {"held"}
      BY DEF At, Attempting, Answering
    <3> HIDE DEF told
    <3> QED BY <3>1, <3>2, LoseJobs
  <2>2. Shape'
    BY <1>1, <2>1 DEF IInv, Shape
  <2>3. AttemptsAreAlone'
    BY <1>1, <2>1 DEF IInv, AttemptsAreAlone, Attempting, Answering
  <2>4. OpenIsOwned'
    BY <1>1, <1>3 DEF IInv, OpenIsOwned, OfSession
  <2>5. StopsHaveEnded' /\ ShutdownIsLast'
    BY <1>1, <2>1 DEF IInv, StopsHaveEnded, ShutdownIsLast
  <2>6. ConnectionIsTrue'
    BY <1>1, <2>1, ApiAssumption DEF IInv, ConnectionIsTrue
  <2> QED BY <2>2, <2>3, <2>4, <2>5, <2>6 DEF IInv
<1> QED BY <1>2, <1>3

\* The session closes between attempts.
LEMMA ShutdownStarts ==
  ASSUME IInv, NEW t \in Tasks, Shutdown(t)
  PROVE  IInv'
<1>1. /\ job[t].op = "shutdown" /\ job[t].pc = "lock" /\ life = None /\ closed' = TRUE
      /\ bye' = "start" \/ bye' = bye
      /\ UNCHANGED <<link, stops, client, connected, gen, life, hold>>
  BY DEF Shutdown, At, wire, conn
<1>2. \A u \in Tasks : job[u].pc \notin Attempting
  BY <1>1, ApiAssumption DEF IInv, AttemptsAreAlone
<1> DEFINE k == [job[t] EXCEPT !.pc = "down"]
<1>3. k \in Jobs /\ k.pc = "down"
  BY GotoType DEF Pcs, IInv, Shape
<1>4. \A u \in Tasks : job'[u] \in {k, [NoJob EXCEPT !.out = "failed"], job[u]}
  BY DEF Shutdown
<1> HIDE DEF k
<1>5. \A u \in Tasks :
        /\ job'[u] \in Jobs
        /\ job'[u].pc \in {"down", "idle"} \/ job'[u] = job[u]
  BY <1>3, <1>4, OverType DEF IInv, Shape
<1>6. job' \in [Tasks -> Jobs]
  <2>1. job' = [u \in Tasks |-> job'[u]]
    BY DEF Shutdown
  <2> QED BY <1>5, <2>1
<1>7. Shape'
  BY <1>1, <1>6 DEF IInv, Shape
<1>8. AttemptsAreAlone'
  BY <1>2, <1>5 DEF AttemptsAreAlone, Attempting, Answering
<1>9. OpenIsOwned' /\ StopsHaveEnded' /\ ShutdownIsLast'
  BY <1>1 DEF OpenIsOwned, StopsHaveEnded, ShutdownIsLast, IInv
<1>10. ConnectionIsTrue'
  BY <1>1, <1>5 DEF ConnectionIsTrue, IInv
<1> QED BY <1>7, <1>8, <1>9, <1>10 DEF IInv

\* The clean-up of a closed session disconnects its client for good.
LEMMA ShutdownStepStep ==
  ASSUME IInv, ShutdownStep
  PROVE  IInv'
<1>1. hold = None /\ UNCHANGED <<gen, closed, life, hold>> /\ closed
  BY DEF ShutdownStep, Cleanup, Unheld, IInv, ShutdownIsLast
<1>2. \A u \in Tasks : job[u].pc \notin Attempting \cup {"held"}
  BY <1>1, ApiAssumption DEF IInv, AttemptsAreAlone, ConnectionIsTrue
<1>3. CASE /\ bye = "start" /\ Lose(job, {}) /\ UNCHANGED <<wire, client>>
           /\ bye' = IF client = None THEN "done" ELSE "wait"
  <2>1. /\ job' \in [Tasks -> Jobs] /\ connected' = FALSE
        /\ \A u \in Tasks : job'[u].pc \notin Attempting \cup {"held"}
    <3>1. job \in [Tasks -> Jobs]
      BY DEF IInv, Shape
    <3> QED BY <1>2, <1>3, <3>1, LoseJobs DEF Attempting, Answering
  <2>2. Shape'
    BY <1>1, <1>3, <2>1 DEF IInv, Shape, wire
  <2>3. AttemptsAreAlone'
    BY <2>1 DEF AttemptsAreAlone, Attempting
  <2>4. OpenIsOwned' /\ StopsHaveEnded' /\ ShutdownIsLast'
    BY <1>1, <1>3, <2>1 DEF OpenIsOwned, StopsHaveEnded, ShutdownIsLast, IInv, wire
  <2>5. ConnectionIsTrue'
    BY <2>1 DEF ConnectionIsTrue
  <2> QED BY <2>2, <2>3, <2>4, <2>5 DEF IInv
<1>4. CASE /\ bye = "wait" /\ End(client) /\ UNCHANGED <<connected, logs, job>>
           /\ \/ bye' = "done" /\ client' = None
              \/ bye' = "failed" /\ UNCHANGED client
  <2>1. client \in Conns /\ ~connected
    BY <1>4 DEF IInv, ShutdownIsLast, Shape
  <2>2. \A c \in Conns : link'[c] # "open"
    BY <1>4, <2>1, EndType DEF OpenIsOwned, IInv
  <2>3. Shape'
    BY <1>1, <1>4, <2>1, EndType DEF IInv, Shape
  <2>4. AttemptsAreAlone'
    BY <1>2, <1>4 DEF AttemptsAreAlone, Attempting
  <2>5. OpenIsOwned' /\ StopsHaveEnded' /\ ShutdownIsLast'
    BY <1>1, <1>4, <2>1, <2>2, EndType
       DEF OpenIsOwned, StopsHaveEnded, ShutdownIsLast, IInv, Shape
  <2>6. ConnectionIsTrue'
    BY <1>2, <1>4, <2>1 DEF ConnectionIsTrue
  <2> QED BY <2>3, <2>4, <2>5, <2>6 DEF IInv
<1> QED BY <1>3, <1>4 DEF ShutdownStep, Cleanup

\* One task at a time holds the connection, and only a live one.
LEMMA HoldGenerationStep ==
  ASSUME IInv, NEW t \in Tasks, HoldGeneration(t)
  PROVE  IInv'
<1>1. UNCHANGED <<link, stops, client, connected, gen, closed, bye, life>>
  BY DEF HoldGeneration, wire, conn, ends
<1>2. PICK j \in Jobs :
        /\ job' = [job EXCEPT ![t] = j]
        /\ job[t].pc \notin Attempting
        /\ \/ j.pc \in {"enter", "idle"} /\ job[t].pc # "held" /\ hold' = hold
           \/ j.pc = "idle" /\ job[t].pc = "held" /\ hold' = None
           \/ /\ j.pc = "held" /\ hold = None /\ hold' = t
              /\ connected /\ gen = j.c
  <2>1. CASE /\ "guard" \in Operations /\ job[t].pc = "idle" /\ UNCHANGED hold
             /\ job' = [job EXCEPT ![t] = [NoJob EXCEPT !.op = "guard",
                                              !.pc = "enter", !.c = gen]]
    <3> DEFINE k == [NoJob EXCEPT !.op = "guard", !.pc = "enter", !.c = gen]
    <3>1. k \in Jobs /\ k.pc = "enter"
      BY <2>1, BeginType DEF NoJob, Pcs, IInv, Shape
    <3> HIDE DEF k
    <3>2. job' = [job EXCEPT ![t] = k]
      BY <2>1 DEF k
    <3> QED BY <2>1, <3>1, <3>2 DEF Attempting, Answering
  <2>2. CASE /\ job[t].pc = "enter" /\ hold = None
             /\ connected /\ gen = job[t].c /\ hold' = t /\ job' = Goto(t, "held")
    <3> DEFINE k == [job[t] EXCEPT !.pc = "held"]
    <3>1. k \in Jobs /\ k.pc = "held" /\ k.c = job[t].c
      BY GotoType DEF Pcs, IInv, Shape
    <3>2. job' = [job EXCEPT ![t] = k]
      BY <2>2 DEF Goto, IInv, Shape
    <3> HIDE DEF k
    <3> QED BY <2>2, <3>1, <3>2 DEF Attempting, Answering
  <2>3. CASE job[t].pc = "enter" /\ job' = Over(t, "failed") /\ UNCHANGED hold
    BY <2>3, OverType DEF Over, Attempting, Answering
  <2>4. CASE /\ job[t].pc = "held" /\ hold' = None
             /\ job' = Over(t, "ok") \/ job' = Over(t, "failed")
    BY <2>4, OverType DEF Over, Attempting, Answering
  <2> QED BY <2>1, <2>2, <2>3, <2>4 DEF HoldGeneration, Guard
<1>3. /\ job' \in [Tasks -> Jobs] /\ job'[t] = j
      /\ \A u \in Tasks \ {t} : job'[u] = job[u]
  BY <1>2, OneJob
<1>4. Shape'
  BY <1>1, <1>2, <1>3 DEF IInv, Shape
<1>5. AttemptsAreAlone'
  BY <1>1, <1>2, <1>3 DEF IInv, AttemptsAreAlone, Attempting, Answering
<1>6. OpenIsOwned'
  BY <1>1, <1>2, <1>3 DEF IInv, OpenIsOwned, Attempting
<1>7. StopsHaveEnded' /\ ShutdownIsLast'
  BY <1>1 DEF IInv, StopsHaveEnded, ShutdownIsLast
<1>8. ConnectionIsTrue'
  BY <1>1, <1>2, <1>3, ApiAssumption DEF IInv, ConnectionIsTrue
<1> QED BY <1>4, <1>5, <1>6, <1>7, <1>8 DEF IInv

-----------------------------------------------------------------------------
(* The theorems.                                                           *)

\* The session starts with no client, and every step keeps the invariant.
LEMMA InvariantHolds == Spec => []IInv
<1>1. Init => IInv
  <2> SUFFICES ASSUME Init PROVE IInv
    OBVIOUS
  <2>1. Shape
    BY DEF Init, Shape, Jobs, NoJob, Pcs
  <2>2. \A t \in Tasks : job[t].pc = "idle"
    BY DEF Init, NoJob
  <2> QED BY <2>1, <2>2 DEF Init, IInv, AttemptsAreAlone, Attempting, Answering,
            OpenIsOwned, StopsHaveEnded, ShutdownIsLast, ConnectionIsTrue
<1>2. IInv /\ [Next]_vars => IInv'
  <2> SUFFICES ASSUME IInv, [Next]_vars
               PROVE  IInv'
    OBVIOUS
  <2>1. CASE UNCHANGED vars
    BY <2>1 DEF vars, IInv, Shape, AttemptsAreAlone, OpenIsOwned,
       StopsHaveEnded, ShutdownIsLast, ConnectionIsTrue
  <2>2. ASSUME NEW t \in Tasks, NEW op \in Operations,
               Start(t, op) \/ Wait(t, op)
        PROVE  IInv'
    BY <2>2, StartBystands, BystanderIsHarmless
  <2>3. ASSUME NEW t \in Tasks, NEW v \in Values, SetNumber(t, v)
        PROVE  IInv'
    BY <2>3, SetNumberBystands, BystanderIsHarmless
  <2>4. ASSUME NEW t \in Tasks,
               \/ Lease(t) \/ ShutdownReturn(t) \/ Window(t)
               \/ PressRestart(t) \/ GiveUp(t) \/ Evidence(t)
        PROVE  IInv'
    BY <2>4, LeaseBystands, ShutdownReturnBystands, WaitEnds,
       PressRestartBystands, ListenBystands, EndListenBystands,
       CaptureBystands, EndCaptureBystands, BystanderIsHarmless DEF Evidence
  <2>5. ASSUME NEW t \in Tasks, Connecting(t) \/ Shutdown(t) \/ HoldGeneration(t)
        PROVE  IInv'
    BY <2>5, ConnectStep, ReconnectStep, DisconnectedStep, MakeStep, GreetStep,
       BecomeReadyStep, DisconnectFailedStep, ShutdownStarts,
       HoldGenerationStep DEF Connecting
  <2>6. ASSUME NEW c \in Conns, Stop(c) \/ OnStop(c)
        PROVE  IInv'
    BY <2>6, StopStep, OnStopStep
  <2>7. ASSUME NEW c \in Conns, Act(c) \/ OnNumber(c) \/ OnSample(c) \/ Line(c)
        PROVE  IInv'
    BY <2>7, MeterBystands, OnNumberBystands, LineBystands, BystanderIsHarmless
  <2>8. CASE ShutdownStep
    BY <2>8, ShutdownStepStep
  <2> QED BY <2>1, <2>2, <2>3, <2>4, <2>5, <2>6, <2>7, <2>8 DEF Next
<1> QED BY <1>1, <1>2, PTL DEF Spec

\* A connection that is lost is noticed, and one that is held does not change,
\* for any number of tasks, clients and failures.
THEOREM LossIsNoticed == Spec => []ConnectionIsTrue
<1>1. IInv => ConnectionIsTrue
  BY DEF IInv
<1> QED BY <1>1, InvariantHolds, PTL

\* No client is left with its transport up and nobody to disconnect it, and a
\* shutdown that returned leaves none, for any number of tasks and clients.
THEOREM ClientsAreKept == Spec => []NoClientIsForgotten
<1>1. IInv => NoClientIsForgotten
  BY ApiAssumption
     DEF IInv, OpenIsOwned, ShutdownIsLast, NoClientIsForgotten
<1> QED BY <1>1, InvariantHolds, PTL

-----------------------------------------------------------------------------
(* The answers a task is given.  What follows says of every await with an  *)
(* answer, a dump, a number or a window, what must be true while it lasts. *)

\* What the proof needs to know of the dumps of the log: a listener holds the
\* lifecycle lock and a dump the lease, so no capture subscribes meanwhile; and
\* the dump has heard every line while its connection is the session's.
Dumps ==
  /\ captures = {t \in Tasks : job[t].pc = "capture"}
  /\ captures # {} => lease \in captures
  /\ \A t \in Tasks :
       /\ job[t].pc = "listen" => life = t
       /\ job[t].op = "dump" =>
            lease = t /\ job[t].out = "none" /\ job[t].pc \in {"lock", "listen"}
       /\ At(t, "dump", "lock") => job[t].ok
       /\ At(t, "dump", "listen") /\ Current(t) =>
            logs = [by |-> "dump", c |-> client] /\ job[t].ok

\* Messages travel on transports that are up.
Wired ==
  /\ meter \in Values
  /\ down \in [Conns -> Seq(Values)] /\ up \in [Conns -> Seq(Values)]
  /\ \A c \in Conns : link[c] # "open" => down[c] = <<>> /\ up[c] = <<>>

\* The command of t is the last one under way or was the last one applied.  One
\* that began on a quiet connection is the only one, and no state from before it
\* differs from the meter's value.
Commanded(t) ==
  /\ Settled(client) = job[t].v
  /\ job[t].ok =>
       \/ down[client] = <<job[t].v>> /\ ToSet(up[client]) \subseteq {meter}
       \/ down[client] = <<>>

\* A task that waits for a number has the lease, on the session's connection.
Numbers ==
  \A t \in Tasks :
    job[t].pc = "number" =>
      /\ job[t].op = "number" /\ job[t].out = "none" /\ lease = t
      /\ connected /\ client = job[t].c
      /\ link[client] = "open" => Commanded(t)

Sample == [c : Conns, fresh : SUBSET Tasks]

\* A sample is fresh for tasks whose window began on its connection.
Samplings ==
  /\ history \in Seq(Sample)
  /\ \A t \in Tasks :
       job[t].pc = "window" => job[t].out = "none" /\ job[t].c = gen
  /\ \A i \in DOMAIN history : \A t \in history[i].fresh :
       job[t].pc = "window" /\ history[i].c = gen

\* What the answers given by a step are.
Heard(t) == (At(t, "dump", "listen") /\ job'[t].out = "ok") => job[t].ok
Answered == \A t \in Tasks : Heard(t) /\ Applied(t) /\ Windowed(t)

ForDump(k) == k.pc \in {"listen", "capture"} \/ k.op = "dump"

\* A step leaves the part of u in the dumps, its number or its window alone,
\* or fails its number.
DumpAside(u) ==
  job'[u] = job[u] \/ (~ForDump(job[u]) /\ ~ForDump(job'[u]))
NumberAside(u) ==
  \/ job'[u] = job[u]
  \/ /\ job'[u].pc # "number"
     /\ job[u].pc = "number" => job'[u].out = "failed"
WindowAside(u) ==
  job'[u] = job[u] \/ (job[u].pc # "window" /\ job'[u].pc # "window")

\* Steps that are no business of the dumps, of the numbers and of the windows.
DumpFrame ==
  /\ UNCHANGED <<lease, captures>> /\ \A u \in Tasks : DumpAside(u)
  /\ \A u \in Tasks : job[u].pc = "listen" =>
       life' = life /\ (connected' => UNCHANGED <<connected, client, gen, logs>>)

NumberFrame ==
  /\ \A u \in Tasks :
       /\ NumberAside(u)
       /\ job'[u].pc = "number" => UNCHANGED <<connected, client, lease>>
  /\ \/ UNCHANGED <<link, meter, down, up>>
     \/ /\ Wired'
        /\ \A u \in Tasks : job'[u].pc = "number" => link'[client] # "open"

WindowFrame ==
  /\ \A u \in Tasks : WindowAside(u)
  /\ \/ UNCHANGED <<gen, history>>
     \/ history' = <<>> /\ \A u \in Tasks : job'[u].pc # "window"

LEMMA DumpsKept ==
  ASSUME Dumps, DumpFrame
  PROVE  Dumps' /\ \A t \in Tasks : Heard(t)
<1> USE DEF Dumps, DumpFrame, DumpAside, ForDump, At
<1>1. \A t \in Tasks : job'[t].op = "dump" \/ job'[t].pc \in {"listen", "capture"}
                         => job'[t] = job[t]
  OBVIOUS
<1>2. captures' = {t \in Tasks : job'[t].pc = "capture"}
  <2>1. \A t \in Tasks : job'[t].pc = "capture" <=> job[t].pc = "capture"
    OBVIOUS
  <2> QED BY <2>1
<1>3. \A t \in Tasks : At(t, "dump", "listen")' /\ Current(t)' =>
        logs' = [by |-> "dump", c |-> client'] /\ job'[t].ok
  BY <1>1 DEF Current
<1>4. \A t \in Tasks :
        /\ job'[t].pc = "listen" => life' = t
        /\ job'[t].op = "dump" => /\ lease' = t /\ job'[t].out = "none"
                                  /\ job'[t].pc \in {"lock", "listen"}
        /\ At(t, "dump", "lock")' => job'[t].ok
  BY <1>1
<1>5. Dumps'
  BY <1>2, <1>3, <1>4
<1>6. \A t \in Tasks : Heard(t)
  BY DEF Heard
<1> QED BY <1>5, <1>6

LEMMA NumbersKept ==
  ASSUME Wired, Numbers, NumberFrame
  PROVE  Wired' /\ Numbers' /\ \A t \in Tasks : Applied(t)
<1>1. Wired'
  BY DEF Wired, NumberFrame
<1>2. \A t \in Tasks : job'[t].pc = "number" =>
        /\ job'[t] = job[t] /\ UNCHANGED <<connected, client, lease>>
        /\ UNCHANGED <<link, meter, down, up>> \/ link'[client] # "open"
  BY DEF NumberFrame, NumberAside
<1>3. Numbers'
  BY <1>2 DEF Numbers, Commanded, Settled
<1>4. \A t \in Tasks : Applied(t)
  BY DEF Applied, Numbers, NumberFrame, NumberAside
<1> QED BY <1>1, <1>3, <1>4

LEMMA SamplingsKept ==
  ASSUME Samplings, WindowFrame
  PROVE  Samplings' /\ \A t \in Tasks : Windowed(t)
<1>1. \A t \in Tasks : Windowed(t)
  BY DEF Windowed, Samplings, WindowFrame, WindowAside
<1>2. \A t \in Tasks : (job'[t].pc = "window" \/ job[t].pc = "window")
                         => job'[t] = job[t]
  BY DEF WindowFrame, WindowAside
<1>3. CASE UNCHANGED <<gen, history>>
  <2>1. \A i \in DOMAIN history : history[i].fresh \subseteq Tasks
    <3> TAKE i \in DOMAIN history
    <3>1. history \in Seq(Sample)
      BY DEF Samplings
    <3>2. history[i] \in Sample
      BY <3>1
    <3> QED BY <3>2 DEF Sample
  <2>2. \A i \in DOMAIN history' : \A t \in history'[i].fresh :
          job'[t].pc = "window" /\ history'[i].c = gen'
    BY <1>2, <1>3, <2>1 DEF Samplings
  <2>3. \A t \in Tasks : job'[t].pc = "window" =>
          job'[t].out = "none" /\ job'[t].c = gen'
    BY <1>2, <1>3 DEF Samplings
  <2> QED BY <1>1, <1>3, <2>2, <2>3 DEF Samplings
<1>4. CASE history' = <<>> /\ \A u \in Tasks : job'[u].pc # "window"
  BY <1>1, <1>4 DEF Samplings
<1> QED BY <1>3, <1>4 DEF WindowFrame

-----------------------------------------------------------------------------
(* Calls that begin and end, and the steps of the connection.              *)

\* A job that waits for none of these answers.
Elsewhere(k) ==
  k.pc \notin {"listen", "capture", "number", "window"} /\ k.op # "dump"

Fails(u) ==
  job[u].pc = "number" /\ job[u].op = "number"
    /\ job'[u] = [NoJob EXCEPT !.out = "failed"]

Apart ==
  \A u \in Tasks :
    \/ job'[u] = job[u] \/ Fails(u)
    \/ Elsewhere(job[u]) /\ Elsewhere(job'[u])

\* What a step that is no business of the answers leaves behind.
AInv == Dumps /\ Wired /\ Numbers /\ Samplings
Frame == DumpFrame /\ NumberFrame /\ WindowFrame
Holds == AInv' /\ Answered

LEMMA FrameHolds ==
  ASSUME AInv, Frame
  PROVE  Holds
BY DumpsKept, NumbersKept, SamplingsKept DEF AInv, Frame, Holds, Answered

LEMMA OverElsewhere ==
  ASSUME NEW out \in {"ok", "failed"}
  PROVE  /\ Elsewhere([NoJob EXCEPT !.out = out])
         /\ [NoJob EXCEPT !.out = out].op = "none"
         /\ [NoJob EXCEPT !.out = out].pc = "idle"
         /\ [NoJob EXCEPT !.out = out].out = out
BY DEF Elsewhere, NoJob

LEMMA ApartAsides ==
  ASSUME Apart
  PROVE  \A u \in Tasks : DumpAside(u) /\ NumberAside(u) /\ WindowAside(u)
BY OverElsewhere
   DEF Apart, Fails, Elsewhere, DumpAside, ForDump, NumberAside, WindowAside

\* A call begins, goes on or ends without the connection.
LEMMA CallHolds ==
  ASSUME AInv, Apart, UNCHANGED <<link, meter, down, up, conn>>,
         UNCHANGED <<lease, captures, history>>,
         \A u \in Tasks : job[u].pc = "listen" => UNCHANGED <<life, logs>>
  PROVE  Holds
<1>1. DumpFrame /\ WindowFrame
  BY ApartAsides DEF DumpFrame, WindowFrame, conn
<1>2. NumberFrame
  BY ApartAsides DEF NumberFrame, conn
<1> QED BY <1>1, <1>2, FrameHolds DEF Frame

\* The session is not connected after the step, and no number waits.
LEMMA DisconnectHolds ==
  ASSUME AInv, Apart, ~connected', \A u \in Tasks : job'[u].pc # "number",
         UNCHANGED <<lease, captures, history, gen>>, Wired',
         \A u \in Tasks : job[u].pc = "listen" => life' = life
  PROVE  Holds
<1>1. DumpFrame /\ WindowFrame
  BY ApartAsides DEF DumpFrame, WindowFrame
<1>2. NumberFrame
  BY ApartAsides DEF NumberFrame
<1> QED BY <1>1, <1>2, FrameHolds DEF Frame

LEMMA OneApart ==
  ASSUME IInv, NEW t \in Tasks, NEW j, job' = [job EXCEPT ![t] = j],
         Elsewhere(job[t]), Elsewhere(j)
  PROVE  Apart /\ \A u \in Tasks : job'[u] = IF u = t THEN j ELSE job[u]
BY DEF Apart, IInv, Shape

\* Nobody listens while the lifecycle lock is free or an attempt's.
LEMMA NobodyListens ==
  ASSUME IInv, AInv, NEW t \in Tasks, life = None \/ job[t].pc \in Attempting
  PROVE  \A u \in Tasks : job[u].pc # "listen"
BY ApiAssumption
   DEF IInv, AInv, Dumps, AttemptsAreAlone, Attempting, Answering

\* A task at one of the other awaits is no dump.
LEMMA AtElsewhere ==
  ASSUME AInv, NEW t \in Tasks,
         job[t].pc \notin {"listen", "capture", "number", "window"},
         job[t].pc = "lock" => job[t].op # "dump"
  PROVE  Elsewhere(job[t])
BY DEF AInv, Dumps, Elsewhere

LEMMA WiredKept ==
  ASSUME AInv, UNCHANGED <<link, meter, down, up>>
  PROVE  Wired'
BY DEF AInv, Wired

LEMMA EndWired ==
  ASSUME IInv, AInv, NEW c \in Conns, End(c)
  PROVE  Wired'
<1>1. /\ meter' \in {meter} \cup ToSet(down[c])
      /\ down' = [down EXCEPT ![c] = <<>>] /\ up' = [up EXCEPT ![c] = <<>>]
      /\ \A d \in Conns \ {c} : link'[d] = link[d]
  BY EndType DEF End
<1>2. down[c] \in Seq(Values) /\ meter \in Values
  BY DEF AInv, Wired
<1>3. ToSet(down[c]) \subseteq Values
  BY <1>2 DEF ToSet
<1> QED BY <1>1, <1>2, <1>3 DEF AInv, Wired

\* The jobs f differ from the jobs in nothing that concerns an answer.
Alike(f) ==
  \A u \in Tasks : f[u] = job[u] \/ (Elsewhere(job[u]) /\ Elsewhere(f[u]))

LEMMA OneAlike ==
  ASSUME IInv, NEW t \in Tasks, NEW k, Elsewhere(job[t]), Elsewhere(k)
  PROVE  Alike([job EXCEPT ![t] = k])
BY DEF Alike, IInv, Shape

\* Tasks that lose the connection: a wait for a number fails.
LEMMA LoseApart ==
  ASSUME AInv, NEW f, NEW told \in SUBSET {u \in Tasks : Elsewhere(job[u])},
         Alike(f), Lose(f, told)
  PROVE  Apart /\ ~connected' /\ \A u \in Tasks : job'[u].pc # "number"
<1>1. \A u \in Tasks :
        \/ job[u].pc = "number" /\ job'[u] = [NoJob EXCEPT !.out = "failed"]
        \/ job[u].pc # "number" /\ u \in told /\ job'[u] = [NoJob EXCEPT !.out = "ok"]
        \/ job[u].pc # "number" /\ job'[u] = f[u]
  <2>1. \A u \in Tasks : At(u, "number", "number") <=> job[u].pc = "number"
    BY DEF AInv, Numbers, At
  <2> QED BY <2>1 DEF Lose
<1>2. Apart
  BY <1>1, OverElsewhere DEF Alike, Apart, Fails, AInv, Numbers
<1>3. \A u \in Tasks : job'[u].pc # "number"
  BY <1>1, OverElsewhere DEF Alike, Elsewhere
<1> QED BY <1>2, <1>3 DEF Lose

LEMMA StartHolds ==
  ASSUME IInv, AInv, NEW t \in Tasks, NEW op \in Operations, Start(t, op)
  PROVE  Holds
<1> DEFINE k == [NoJob EXCEPT !.op = op, !.pc = "lock"]
<1>1. /\ job[t].pc = "idle" /\ job' = [job EXCEPT ![t] = k]
      /\ op = "dump" => lease = t
      /\ UNCHANGED <<link, meter, down, up, conn, lease, captures, history, life, logs>>
  BY DEF Start, wire, capt
<1>2. k.op = op /\ k.pc = "lock" /\ k.out = "none" /\ k.ok
  BY DEF NoJob
<1> HIDE DEF k
<1>3. Elsewhere(job[t])
  BY <1>1, AtElsewhere
<1>4. CASE op # "dump"
  <2>1. Apart
    BY <1>1, <1>2, <1>3, <1>4, OneApart DEF Elsewhere
  <2> QED BY <1>1, <2>1, CallHolds
<1>5. CASE op = "dump"
  <2>1. \A u \in Tasks : job'[u] = IF u = t THEN k ELSE job[u]
    BY <1>1 DEF IInv, Shape
  <2>2. NumberFrame /\ WindowFrame
    BY <1>1, <1>2, <2>1
       DEF NumberFrame, NumberAside, WindowFrame, WindowAside, conn
  <2>3. Dumps' /\ \A u \in Tasks : Heard(u)
    <3>1. captures' = {u \in Tasks : job'[u].pc = "capture"}
      <4>1. \A u \in Tasks : job'[u].pc = "capture" <=> job[u].pc = "capture"
        BY <1>1, <1>2, <2>1
      <4> QED BY <1>1, <4>1 DEF AInv, Dumps
    <3>2. captures' # {} => lease' \in captures'
      BY <1>1 DEF AInv, Dumps
    <3>3. \A u \in Tasks :
            /\ job'[u].pc = "listen" => life' = u
            /\ job'[u].op = "dump" =>
                 /\ lease' = u /\ job'[u].out = "none"
                 /\ job'[u].pc \in {"lock", "listen"}
            /\ At(u, "dump", "lock")' => job'[u].ok
            /\ At(u, "dump", "listen")' /\ Current(u)' =>
                 logs' = [by |-> "dump", c |-> client'] /\ job'[u].ok
      BY <1>1, <1>2, <1>5, <2>1 DEF AInv, Dumps, At, Current, conn
    <3>4. \A u \in Tasks : Heard(u)
      BY <1>1, <1>2, <2>1 DEF AInv, Dumps, At, Heard
    <3> QED BY <3>1, <3>2, <3>3, <3>4 DEF Dumps
  <2> QED BY <2>2, <2>3, NumbersKept, SamplingsKept DEF AInv, Holds, Answered
<1> QED BY <1>4, <1>5

LEMMA CallsHold ==
  ASSUME IInv, AInv, NEW t \in Tasks,
         Connect(t) \/ ShutdownReturn(t) \/ HoldGeneration(t) \/ PressRestart(t)
  PROVE  Holds
<1>1. PICK j : /\ job' = [job EXCEPT ![t] = j] /\ Elsewhere(job[t]) /\ Elsewhere(j)
               /\ UNCHANGED <<link, meter, down, up, conn, lease, captures, history, logs>>
               /\ life = None \/ UNCHANGED life
  <2>1. CASE Connect(t)
    <3>1. /\ job[t].pc = "lock" /\ job[t].op = "connect" /\ life = None
          /\ UNCHANGED <<link, meter, down, up, conn, lease, captures, history, logs>>
      BY <2>1 DEF Connect, At, wire, capt
    <3>2. CASE Refuses \/ connected
      BY <2>1, <3>1, <3>2, OverElsewhere DEF Connect, Over, Elsewhere
    <3>3. CASE ~(Refuses \/ connected)
      <4> DEFINE k == [job[t] EXCEPT !.pc = "make"]
      <4>1. job[t] \in Jobs /\ job' = [job EXCEPT ![t] = k]
        BY <2>1, <3>3 DEF Connect, Goto, IInv, Shape
      <4>2. k.pc = "make" /\ k.op = "connect"
        BY <3>1, <4>1 DEF Jobs
      <4> HIDE DEF k
      <4> QED BY <3>1, <4>1, <4>2 DEF Elsewhere
    <3> QED BY <3>2, <3>3
  <2>2. CASE ShutdownReturn(t)
    <3>1. job[t].pc = "down" /\ job[t].op = "shutdown"
      BY <2>2 DEF ShutdownReturn, At
    <3>2. PICK out \in {"ok", "failed"} :
            job' = [job EXCEPT ![t] = [NoJob EXCEPT !.out = out]]
      BY <2>2 DEF ShutdownReturn, Over
    <3>3. Elsewhere(job[t]) /\ Elsewhere([NoJob EXCEPT !.out = out])
      BY <3>1, OverElsewhere DEF Elsewhere
    <3> QED BY <2>2, <3>2, <3>3 DEF ShutdownReturn, wire, capt
  <2>3. CASE HoldGeneration(t)
    <3>1. /\ job[t].pc \in {"idle", "enter", "held"}
          /\ UNCHANGED <<link, meter, down, up, conn, lease, captures, history, logs, life>>
      BY <2>3 DEF HoldGeneration, Guard, wire, capt
    <3>2. Elsewhere(job[t])
      BY <3>1, AtElsewhere
    <3>3. CASE job' = [job EXCEPT ![t] = [NoJob EXCEPT !.op = "guard",
                                            !.pc = "enter", !.c = gen]]
      <4> DEFINE k == [NoJob EXCEPT !.op = "guard", !.pc = "enter", !.c = gen]
      <4>1. Elsewhere(k)
        BY DEF NoJob, Elsewhere
      <4>2. job' = [job EXCEPT ![t] = k]
        BY <3>3
      <4> HIDE DEF k
      <4> QED BY <3>1, <3>2, <4>1, <4>2
    <3>4. CASE job' = Goto(t, "held")
      <4> DEFINE k == [job[t] EXCEPT !.pc = "held"]
      <4>1. job[t] \in Jobs /\ job' = [job EXCEPT ![t] = k]
        BY <3>4 DEF Goto, IInv, Shape
      <4>2. k.pc = "held" /\ k.op = job[t].op
        BY <4>1 DEF Jobs
      <4> HIDE DEF k
      <4> QED BY <3>1, <3>2, <4>1, <4>2 DEF Elsewhere
    <3>5. CASE job' = Over(t, "failed") \/ job' = Over(t, "ok")
      BY <3>1, <3>2, <3>5, OverElsewhere DEF Over
    <3> QED BY <2>3, <3>3, <3>4, <3>5 DEF HoldGeneration, Guard
  <2>4. CASE PressRestart(t)
    <3> DEFINE k == [NoJob EXCEPT !.op = "restart", !.pc = "restart", !.c = client]
    <3>1. Elsewhere(k)
      BY DEF NoJob, Elsewhere
    <3>2. /\ job[t].pc = "idle" /\ job' = [job EXCEPT ![t] = k]
          /\ UNCHANGED <<link, meter, down, up, conn, lease, captures, history, logs, life>>
      BY <2>4 DEF PressRestart, wire, capt
    <3>3. Elsewhere(job[t])
      BY <3>2, AtElsewhere
    <3> HIDE DEF k
    <3> QED BY <3>1, <3>2, <3>3
  <2> QED BY <2>1, <2>2, <2>3, <2>4
<1>2. Apart
  BY <1>1, OneApart
<1>3. \A u \in Tasks : job[u].pc = "listen" => UNCHANGED <<life, logs>>
  BY <1>1, NobodyListens
<1> QED BY <1>1, <1>2, <1>3, CallHolds

LEMMA ShutdownHolds ==
  ASSUME IInv, AInv, NEW t \in Tasks, Shutdown(t)
  PROVE  Holds
<1>1. /\ job[t].pc = "lock" /\ job[t].op = "shutdown"
      /\ UNCHANGED <<link, meter, down, up, conn, lease, captures, history, life, logs>>
  BY DEF Shutdown, At, wire, capt
<1> DEFINE k == [job[t] EXCEPT !.pc = "down"]
<1>2. k.pc = "down" /\ k.op = "shutdown"
  BY <1>1 DEF IInv, Shape, Jobs
<1>3. \A u \in Tasks :
        \/ u = t /\ job'[u] = k
        \/ job'[u] = job[u]
        \/ /\ job[u].pc \in {"number", "restart"}
           /\ job'[u] = [NoJob EXCEPT !.out = "failed"]
  BY DEF Shutdown
<1> HIDE DEF k
<1>4. Apart
  <2> SUFFICES ASSUME NEW u \in Tasks
               PROVE  \/ job'[u] = job[u] \/ Fails(u)
                      \/ Elsewhere(job[u]) /\ Elsewhere(job'[u])
    BY DEF Apart
  <2>1. CASE u = t /\ job'[u] = k
    BY <1>1, <1>2, <2>1 DEF Elsewhere
  <2>2. CASE job'[u] = [NoJob EXCEPT !.out = "failed"] /\ job[u].pc = "number"
    BY <2>2 DEF Fails, AInv, Numbers
  <2>3. CASE job'[u] = [NoJob EXCEPT !.out = "failed"] /\ job[u].pc = "restart"
    <3>1. Elsewhere(job[u])
      BY <2>3, AtElsewhere
    <3> QED BY <2>3, <3>1, OverElsewhere
  <2> QED BY <1>3, <2>1, <2>2, <2>3
<1> QED BY <1>1, <1>4, CallHolds

\* No number waits during an attempt, and none after a step apart from it.
LEMMA NoNumberWaits ==
  ASSUME AInv, ~connected, Apart
  PROVE  \A u \in Tasks : job[u].pc # "number" /\ job'[u].pc # "number"
<1>1. \A u \in Tasks : job[u].pc # "number"
  BY DEF AInv, Numbers
<1> QED BY <1>1 DEF Apart, Fails, Elsewhere

LEMMA ReconnectHolds ==
  ASSUME IInv, AInv, NEW t \in Tasks, Reconnect(t)
  PROVE  Holds
<1>1. /\ job[t].pc = "lock" /\ job[t].op = "reconnect" /\ life = None
      /\ UNCHANGED <<link, meter, down, up, client, gen, lease, captures, history>>
  BY DEF Reconnect, At, wire, capt
<1>2. \A u \in Tasks : job[u].pc # "listen"
  BY <1>1, NobodyListens
<1>3. Elsewhere(job[t])
  BY <1>1 DEF Elsewhere
<1>4. CASE job' = Over(t, "failed") /\ UNCHANGED connected
  <2>1. Apart
    BY <1>3, <1>4, OneApart, OverElsewhere DEF Over
  <2> QED BY <1>1, <1>2, <1>4, <2>1, CallHolds DEF conn
<1>5. CASE Lose([job EXCEPT ![t].pc = Departure, ![t].c = client], {})
  <2> DEFINE k == [job[t] EXCEPT !.pc = Departure, !.c = client]
             f == [job EXCEPT ![t] = k]
  <2>1. Lose(f, {})
    BY <1>5, TwoFields DEF IInv, Shape
  <2>2. k.pc = Departure /\ k.op = "reconnect"
    BY <1>1 DEF IInv, Shape, Jobs
  <2>3. Elsewhere(k)
    BY <2>2 DEF Elsewhere, Departure
  <2> HIDE DEF k
  <2>4. Alike(f)
    BY <1>3, <2>3, OneAlike
  <2> HIDE DEF f
  <2>5. Apart /\ ~connected' /\ \A u \in Tasks : job'[u].pc # "number"
    BY <2>1, <2>4, LoseApart
  <2>6. Wired'
    BY <1>1, WiredKept
  <2> QED BY <1>1, <1>2, <2>5, <2>6, DisconnectHolds
<1> QED BY <1>4, <1>5 DEF Reconnect

\* The other steps of an attempt but the last, which may connect.
LEMMA AttemptHolds ==
  ASSUME IInv, AInv, NEW t \in Tasks,
         Disconnected(t) \/ Make(t) \/ Greet(t) \/ DisconnectFailed(t)
  PROVE  Holds
<1>1. job[t].pc \in Attempting
  BY DEF Disconnected, Make, Greet, DisconnectFailed, At, Attempting, Answering
<1>2. /\ ~connected /\ ~connected'
      /\ UNCHANGED <<gen, lease, captures, history>>
  <2>1. ~connected
    BY <1>1, OneAttempt
  <2> QED BY <2>1 DEF Disconnected, Make, Greet, DisconnectFailed, Lose, conn, capt
<1>3. Elsewhere(job[t])
  BY <1>1, AtElsewhere DEF Attempting, Answering
<1>4. \A u \in Tasks : job[u].pc # "listen"
  BY <1>1, NobodyListens
<1>5. Apart
  <2>1. CASE DisconnectFailed(t)
    <3> DEFINE k == [NoJob EXCEPT !.out = "failed"]
               f == [job EXCEPT ![t] = k]
    <3>1. Lose(f, {}) /\ Elsewhere(k)
      BY <2>1, OverElsewhere DEF DisconnectFailed, Over
    <3> HIDE DEF k
    <3>2. Alike(f)
      BY <1>3, <3>1, OneAlike
    <3> HIDE DEF f
    <3> QED BY <3>1, <3>2, LoseApart
  <2>2. CASE job' = Over(t, "failed")
    BY <1>3, <2>2, OverElsewhere, OneApart DEF Over
  <2>3. ASSUME NEW pc \in {"make", "list", "ready", "fail"}, job' = Goto(t, pc)
        PROVE  Apart
    <3> DEFINE k == [job[t] EXCEPT !.pc = pc]
    <3>1. job' = [job EXCEPT ![t] = k] /\ k.pc = pc /\ k.op = job[t].op
      BY <2>3 DEF Goto, IInv, Shape, Jobs
    <3> HIDE DEF k
    <3> QED BY <1>3, <3>1, OneApart DEF Elsewhere
  <2>4. ASSUME NEW c \in Conns,
               job' = [job EXCEPT ![t].pc = "hello", ![t].c = c]
        PROVE  Apart
    <3> DEFINE k == [job[t] EXCEPT !.pc = "hello", !.c = c]
    <3>1. job' = [job EXCEPT ![t] = k]
      BY <2>4, TwoFields DEF IInv, Shape
    <3>2. k.pc = "hello" /\ k.op = job[t].op
      BY DEF IInv, Shape, Jobs
    <3> HIDE DEF k
    <3> QED BY <1>3, <3>1, <3>2, OneApart DEF Elsewhere
  <2> QED BY <2>1, <2>2, <2>3, <2>4 DEF Disconnected, Make, Greet
<1>6. Wired'
  <2>1. CASE Disconnected(t) \/ DisconnectFailed(t)
    <3>1. job[t].c \in Conns /\ End(job[t].c)
      BY <1>1, <2>1 DEF Disconnected, DisconnectFailed, At, Answering, IInv,
         AttemptsAreAlone, Shape
    <3> QED BY <3>1, EndWired
  <2>2. CASE Make(t)
    <3>1. UNCHANGED <<meter, down, up>>
      BY <2>2 DEF Make
    <3>2. \A c \in Conns : link'[c] # "open" => link[c] # "open"
      BY <2>2 DEF Make, IInv, Shape
    <3> QED BY <3>1, <3>2 DEF AInv, Wired
  <2>3. CASE Greet(t)
    BY <2>3, WiredKept DEF Greet, wire
  <2> QED BY <2>1, <2>2, <2>3
<1>7. \A u \in Tasks : job'[u].pc # "number"
  BY <1>2, <1>5, NoNumberWaits
<1> QED BY <1>2, <1>4, <1>5, <1>6, <1>7, DisconnectHolds

\* A connection begins with no sample and nobody who waits for one.
LEMMA BecomeReadyHolds ==
  ASSUME IInv, AInv, NEW t \in Tasks, BecomeReady(t)
  PROVE  Holds
<1>1. job[t].pc \in Attempting /\ ~connected
  BY OneAttempt DEF BecomeReady, Attempting, Answering
<1>2. Apart
  <2>1. Elsewhere(job[t])
    BY <1>1, AtElsewhere DEF Attempting, Answering
  <2>2. PICK out \in {"ok", "failed"} :
          job' = [job EXCEPT ![t] = [NoJob EXCEPT !.out = out]]
    BY DEF BecomeReady, Over
  <2> QED BY <2>1, <2>2, OverElsewhere, OneApart
<1>3. \A u \in Tasks : job[u].pc # "listen" /\ job'[u].pc # "number"
  BY <1>1, <1>2, NobodyListens, NoNumberWaits
<1>4. DumpFrame
  BY <1>2, <1>3, ApartAsides DEF DumpFrame, BecomeReady, capt
<1>5. NumberFrame
  BY <1>2, <1>3, ApartAsides DEF NumberFrame, BecomeReady, wire
<1>6. WindowFrame
  <2>1. CASE UNCHANGED <<gen, history>>
    BY <1>2, <2>1, ApartAsides DEF WindowFrame
  <2>2. CASE history' = <<>> /\ \A w \in Tasks : job[w].pc = "window" => connected
    <3>1. \A w \in Tasks : job'[w].pc # "window"
      BY <1>1, <1>2, <2>2 DEF Apart, Fails, Elsewhere, NoJob
    <3> QED BY <1>2, <2>2, <3>1, ApartAsides DEF WindowFrame
  <2> QED BY <2>1, <2>2 DEF BecomeReady
<1> QED BY <1>4, <1>5, <1>6, FrameHolds DEF Frame

\* The transport that ends is the session's: nothing more travels on it.
LEMMA StopHolds ==
  ASSUME IInv, AInv, NEW c \in Conns, Stop(c)
  PROVE  Holds
<1>1. /\ link[c] = "open" /\ End(c) /\ UNCHANGED <<conn, life, lease, logs, capt, job, history>>
  BY DEF Stop
<1>2. client = c /\ link'[c] = "ended"
  BY <1>1, EndType DEF IInv, OpenIsOwned
<1>3. Wired'
  BY <1>1, EndWired
<1>4. DumpFrame /\ WindowFrame
  BY <1>1 DEF DumpFrame, DumpAside, WindowFrame, WindowAside, conn, capt
<1>5. NumberFrame
  BY <1>1, <1>2, <1>3 DEF NumberFrame, NumberAside, conn
<1> QED BY <1>4, <1>5, FrameHolds DEF Frame

LEMMA OnStopHolds ==
  ASSUME IInv, AInv, NEW c \in Conns, OnStop(c)
  PROVE  Holds
<1>1. UNCHANGED <<link, meter, down, up, client, gen, life, lease, logs,
                  captures, history>>
  BY DEF OnStop, capt
<1>2. CASE OfSession(c)
  <2> DEFINE told == {u \in Tasks : At(u, "restart", "restart")}
  <2>1. Lose(job, told)
    BY <1>2 DEF OnStop
  <2>2. told \in SUBSET {u \in Tasks : Elsewhere(job[u])} /\ Alike(job)
    BY DEF At, Elsewhere, Alike
  <2> HIDE DEF told
  <2>3. Apart /\ ~connected' /\ \A u \in Tasks : job'[u].pc # "number"
    BY <2>1, <2>2, LoseApart
  <2>4. Wired'
    BY <1>1, WiredKept
  <2> QED BY <1>1, <2>3, <2>4, DisconnectHolds
<1>3. CASE ~OfSession(c)
  <2>1. Apart /\ UNCHANGED conn
    BY <1>1, <1>3 DEF OnStop, Apart, conn
  <2> QED BY <1>1, <2>1, CallHolds
<1> QED BY <1>2, <1>3

LEMMA ShutdownStepHolds ==
  ASSUME IInv, AInv, ShutdownStep
  PROVE  Holds
<1>1. UNCHANGED <<gen, life, lease, captures, history>>
  BY DEF ShutdownStep, capt
<1>2. CASE Lose(job, {}) /\ UNCHANGED <<wire, client>>
  <2>1. Apart /\ ~connected' /\ \A u \in Tasks : job'[u].pc # "number"
    BY <1>2, LoseApart DEF Alike
  <2>2. Wired'
    BY <1>2, WiredKept DEF wire
  <2> QED BY <1>1, <2>1, <2>2, DisconnectHolds
<1>3. CASE bye = "wait" /\ End(client) /\ UNCHANGED <<connected, logs, job>>
  <2>1. client \in Conns /\ ~connected
    BY <1>3 DEF IInv, ShutdownIsLast, Shape
  <2>2. Apart /\ \A u \in Tasks : job'[u].pc # "number"
    BY <1>3, <2>1, NoNumberWaits DEF Apart
  <2>3. Wired'
    BY <1>3, <2>1, EndWired
  <2> QED BY <1>1, <1>3, <2>1, <2>2, <2>3, DisconnectHolds
<1> QED BY <1>2, <1>3 DEF ShutdownStep, Cleanup

-----------------------------------------------------------------------------
(* The lease and the evidence from the log.                                *)

LEMMA EvidenceHolds ==
  ASSUME AInv, UNCHANGED <<link, meter, down, up, conn, lease, history>>,
         \A u \in Tasks : NumberAside(u) /\ WindowAside(u),
         Dumps', \A u \in Tasks : Heard(u)
  PROVE  Holds
<1>1. NumberFrame /\ WindowFrame
  BY DEF NumberFrame, WindowFrame, conn
<1> QED BY <1>1, NumbersKept, SamplingsKept DEF AInv, Holds, Answered

\* A dump and a number keep the lease, and a capture keeps it from a dump.
LEMMA LeaseHolds ==
  ASSUME IInv, AInv, NEW t \in Tasks, Lease(t)
  PROVE  Holds
<1>1. /\ job[t].pc = "idle"
      /\ UNCHANGED <<link, meter, down, up, conn, captures, history, job, life, logs>>
      /\ \/ lease = None /\ lease' = t
         \/ lease = t /\ captures = {} /\ lease' = None
  BY DEF Lease, wire, capt
<1>2. \A u \in Tasks : job[u].op # "dump" /\ job[u].pc # "number"
  BY <1>1, ApiAssumption DEF AInv, Dumps, Numbers
<1>3. captures = {}
  BY <1>1, ApiAssumption DEF AInv, Dumps
<1>4. Dumps' /\ \A u \in Tasks : Heard(u)
  BY <1>1, <1>2, <1>3 DEF AInv, Dumps, Heard, At
<1>5. NumberFrame /\ WindowFrame
  BY <1>1, <1>2 DEF NumberFrame, NumberAside, WindowFrame, WindowAside, conn
<1> QED BY <1>4, <1>5, NumbersKept, SamplingsKept DEF AInv, Holds, Answered

LEMMA ListenHolds ==
  ASSUME IInv, AInv, NEW t \in Tasks, Listen(t)
  PROVE  Holds
<1>1. /\ job[t].pc = "lock" /\ life = None
      /\ UNCHANGED <<link, meter, down, up, conn, lease, history, captures>>
  BY DEF Listen, wire, capt
<1>2. \A u \in Tasks : job[u].pc # "listen"
  BY <1>1, NobodyListens
<1>3. PICK k : job' = [job EXCEPT ![t] = k] /\
         \/ /\ life' = t /\ logs' = [by |-> job[t].op, c |-> client]
            /\ k.pc = "listen" /\ k.op = job[t].op /\ k.ok = job[t].ok
            /\ k.out = job[t].out
         \/ k = [NoJob EXCEPT !.out = "failed"]
  <2>1. CASE Ready
    <3> DEFINE k == [job[t] EXCEPT !.pc = "listen", !.c = client]
    <3>1. job' = [job EXCEPT ![t] = k]
      BY <2>1, TwoFields DEF Listen, IInv, Shape
    <3>2. /\ k.pc = "listen" /\ k.op = job[t].op /\ k.ok = job[t].ok
          /\ k.out = job[t].out
      BY DEF IInv, Shape, Jobs
    <3>3. life' = t /\ logs' = [by |-> job[t].op, c |-> client]
      BY <2>1 DEF Listen, Serialize
    <3> HIDE DEF k
    <3> QED BY <3>1, <3>2, <3>3
  <2>2. CASE ~Ready
    BY <2>2 DEF Listen, Over
  <2> QED BY <2>1, <2>2
<1>4. \A u \in Tasks : job'[u] = IF u = t THEN k ELSE job[u]
  BY <1>3 DEF IInv, Shape
<1>5. k.pc \in {"listen", "idle"} /\ (k.pc = "idle" => k.op = "none")
  BY <1>3, OverElsewhere
<1>6. captures' = {u \in Tasks : job'[u].pc = "capture"}
  <2>1. \A u \in Tasks : job'[u].pc = "capture" <=> job[u].pc = "capture"
    BY <1>1, <1>4, <1>5
  <2> QED BY <1>1, <2>1 DEF AInv, Dumps
<1>7. \A u \in Tasks :
        /\ job'[u].pc = "listen" => life' = u
        /\ job'[u].op = "dump" =>
             /\ lease' = u /\ job'[u].out = "none"
             /\ job'[u].pc \in {"lock", "listen"}
        /\ At(u, "dump", "lock")' => job'[u].ok
  <2> TAKE u \in Tasks
  <2>1. CASE u # t
    BY <1>1, <1>2, <1>4, <2>1 DEF AInv, Dumps, At
  <2>2. CASE u = t
    BY <1>1, <1>3, <1>4, <1>5, <2>2, OverElsewhere DEF AInv, Dumps, At
  <2> QED BY <2>1, <2>2
<1>8. \A u \in Tasks : At(u, "dump", "listen")' =>
        logs' = [by |-> "dump", c |-> client'] /\ job'[u].ok
  <2> SUFFICES ASSUME NEW u \in Tasks, At(u, "dump", "listen")'
               PROVE  logs' = [by |-> "dump", c |-> client'] /\ job'[u].ok
    OBVIOUS
  <2>1. u = t /\ k.pc = "listen" /\ k.op = "dump"
    BY <1>2, <1>4 DEF At
  <2>2. /\ logs' = [by |-> job[t].op, c |-> client]
        /\ k.op = job[t].op /\ k.ok = job[t].ok
    BY <1>3, <2>1, OverElsewhere
  <2>3. job[t].ok
    BY <1>1, <2>1, <2>2 DEF AInv, Dumps, At
  <2> QED BY <1>1, <1>4, <2>1, <2>2, <2>3 DEF conn
<1>9. Dumps' /\ \A u \in Tasks : Heard(u)
  BY <1>1, <1>2, <1>6, <1>7, <1>8 DEF AInv, Dumps, Heard, At
<1>10. \A u \in Tasks : NumberAside(u) /\ WindowAside(u)
  BY <1>1, <1>4, <1>5 DEF NumberAside, WindowAside
<1> QED BY <1>1, <1>9, <1>10, EvidenceHolds

LEMMA EndListenHolds ==
  ASSUME IInv, AInv, NEW t \in Tasks, EndListen(t)
  PROVE  Holds
<1>1. /\ job[t].pc = "listen"
      /\ UNCHANGED <<link, meter, down, up, conn, lease, history, captures>>
  BY DEF EndListen, wire, capt
<1>2. PICK k : /\ job' = [job EXCEPT ![t] = k]
               /\ k.pc = "idle" /\ k.op = "none" /\ k.out \in {"ok", "failed"}
               /\ k.out = "ok" => Current(t)
  BY OverElsewhere DEF EndListen, Over
<1>3. \A u \in Tasks \ {t} : job[u].pc # "listen" /\ job'[u] = job[u]
  BY <1>1, <1>2 DEF AInv, Dumps, IInv, Shape
<1>4. job'[t] = k
  BY <1>2 DEF IInv, Shape
<1>5. captures' = {u \in Tasks : job'[u].pc = "capture"}
  <2>1. \A u \in Tasks : job'[u].pc = "capture" <=> job[u].pc = "capture"
    BY <1>1, <1>2, <1>3, <1>4
  <2> QED BY <1>1, <2>1 DEF AInv, Dumps
<1>6. \A u \in Tasks :
        /\ job'[u].pc # "listen"
        /\ job'[u].op = "dump" =>
             /\ lease' = u /\ job'[u].out = "none"
             /\ job'[u].pc \in {"lock", "listen"}
        /\ At(u, "dump", "lock")' => job'[u].ok
  BY <1>1, <1>2, <1>3, <1>4 DEF AInv, Dumps, At
<1>7. Dumps'
  BY <1>1, <1>5, <1>6 DEF AInv, Dumps, At
<1>8. \A u \in Tasks : Heard(u)
  <2>1. Heard(t)
    BY <1>2, <1>4 DEF Heard, AInv, Dumps
  <2>2. \A u \in Tasks \ {t} : Heard(u)
    BY <1>3 DEF Heard, At
  <2> QED BY <2>1, <2>2
<1>9. \A u \in Tasks : NumberAside(u) /\ WindowAside(u)
  BY <1>1, <1>2, <1>3, <1>4 DEF NumberAside, WindowAside
<1> QED BY <1>1, <1>7, <1>8, <1>9, EvidenceHolds

\* A capture begins under another's lease only in its batch of captures.
LEMMA CaptureHolds ==
  ASSUME IInv, AInv, NEW t \in Tasks, Capture(t)
  PROVE  Holds
<1>1. /\ job[t].pc = "idle"
      /\ lease = t \/ (captures # {} /\ lease \in captures)
      /\ UNCHANGED <<link, meter, down, up, conn, lease, history, life>>
  BY DEF Capture, wire
<1>2. PICK k : job' = [job EXCEPT ![t] = k] /\
         \/ captures' = captures \cup {t} /\ k.pc = "capture" /\ k.op = "gain"
         \/ captures' = captures /\ k.pc = "idle" /\ k.op = "none"
  <2>1. CASE /\ captures' = captures \cup {t}
             /\ job' = [job EXCEPT ![t] = [NoJob EXCEPT !.op = "gain",
                                       !.pc = "capture", !.c = client]]
    <3> DEFINE k == [NoJob EXCEPT !.op = "gain", !.pc = "capture", !.c = client]
    <3>1. job' = [job EXCEPT ![t] = k] /\ k.pc = "capture" /\ k.op = "gain"
      BY <2>1 DEF NoJob
    <3> HIDE DEF k
    <3> QED BY <2>1, <3>1
  <2>2. CASE job' = Over(t, "failed") /\ captures' = captures
    BY <2>2, OverElsewhere DEF Over
  <2> QED BY <2>1, <2>2 DEF Capture, capt
<1>3. \A u \in Tasks : job'[u] = IF u = t THEN k ELSE job[u]
  BY <1>2 DEF IInv, Shape
<1>4. \A u \in Tasks : ~At(u, "dump", "listen")
  BY <1>1 DEF AInv, Dumps, At
<1>5. captures' = {u \in Tasks : job'[u].pc = "capture"}
  <2>1. captures = {u \in Tasks : job[u].pc = "capture"}
    BY DEF AInv, Dumps
  <2>2. CASE captures' = captures \cup {t} /\ k.pc = "capture"
    BY <1>3, <2>1, <2>2
  <2>3. CASE captures' = captures /\ k.pc = "idle"
    BY <1>1, <1>3, <2>1, <2>3
  <2> QED BY <1>2, <2>2, <2>3
<1>6. captures' # {} => lease' \in captures'
  BY <1>1, <1>2 DEF AInv, Dumps
<1>7. \A u \in Tasks :
        /\ job'[u].pc = "listen" => life' = u
        /\ job'[u].op = "dump" =>
             /\ lease' = u /\ job'[u].out = "none"
             /\ job'[u].pc \in {"lock", "listen"}
        /\ At(u, "dump", "lock")' => job'[u].ok
        /\ ~At(u, "dump", "listen")'
  BY <1>1, <1>2, <1>3, <1>4 DEF AInv, Dumps, At
<1>8. Dumps' /\ \A u \in Tasks : Heard(u)
  BY <1>4, <1>5, <1>6, <1>7 DEF Dumps, Heard
<1>9. \A u \in Tasks : NumberAside(u) /\ WindowAside(u)
  BY <1>1, <1>2, <1>3 DEF NumberAside, WindowAside
<1> QED BY <1>1, <1>8, <1>9, EvidenceHolds

\* The lease stays with a capture until the last of its batch has ended.
LEMMA EndCaptureHolds ==
  ASSUME IInv, AInv, NEW t \in Tasks, EndCapture(t)
  PROVE  Holds
<1>1. /\ job[t].pc = "capture" /\ captures' = captures \ {t}
      /\ lease = t => captures' = {}
      /\ UNCHANGED <<link, meter, down, up, conn, lease, history, life>>
  BY DEF EndCapture, wire
<1>2. PICK k : /\ job' = [job EXCEPT ![t] = k]
               /\ k.pc = "idle" /\ k.op = "none"
  BY OverElsewhere DEF EndCapture, Over
<1>3. job'[t] = k /\ \A u \in Tasks \ {t} : job'[u] = job[u]
  BY <1>2 DEF IInv, Shape
<1>4. lease \in captures /\ \A u \in Tasks : ~At(u, "dump", "listen")
  BY <1>1 DEF AInv, Dumps, At
<1>5. captures' = {u \in Tasks : job'[u].pc = "capture"}
  <2>1. captures = {u \in Tasks : job[u].pc = "capture"}
    BY DEF AInv, Dumps
  <2> QED BY <1>1, <1>2, <1>3, <2>1
<1>6. captures' # {} => lease' \in captures'
  BY <1>1, <1>4
<1>7. \A u \in Tasks :
        /\ job'[u].pc = "listen" => life' = u
        /\ job'[u].op = "dump" =>
             /\ lease' = u /\ job'[u].out = "none"
             /\ job'[u].pc \in {"lock", "listen"}
        /\ At(u, "dump", "lock")' => job'[u].ok
        /\ ~At(u, "dump", "listen")'
  BY <1>1, <1>2, <1>3, <1>4 DEF AInv, Dumps, At
<1>8. Dumps' /\ \A u \in Tasks : Heard(u)
  BY <1>4, <1>5, <1>6, <1>7 DEF Dumps, Heard
<1>9. \A u \in Tasks : NumberAside(u) /\ WindowAside(u)
  BY <1>1, <1>2, <1>3 DEF NumberAside, WindowAside
<1> QED BY <1>1, <1>8, <1>9, EvidenceHolds

\* A line of the log is missed by listeners of other subscriptions only.
LEMMA LineHolds ==
  ASSUME IInv, AInv, NEW c \in Conns, Line(c)
  PROVE  Holds
<1>1. UNCHANGED <<link, meter, down, up, conn, lease, history, life, logs, captures>>
  BY DEF Line, wire, capt
<1>2. \A u \in Tasks :
        /\ \/ job'[u] = job[u]
           \/ Misses(u, c) /\ job'[u] = [job[u] EXCEPT !.ok = FALSE]
        /\ job'[u].pc = job[u].pc /\ job'[u].op = job[u].op
        /\ job'[u].out = job[u].out /\ job'[u].c = job[u].c
  <2> TAKE u \in Tasks
  <2>1. job[u] \in Jobs
    BY DEF IInv, Shape
  <2>2. \/ job'[u] = job[u]
        \/ Misses(u, c) /\ job'[u] = [job[u] EXCEPT !.ok = FALSE]
    BY DEF Line
  <2> QED BY <2>1, <2>2 DEF Jobs
<1>3. captures' = {u \in Tasks : job'[u].pc = "capture"}
  <2>1. \A u \in Tasks : job'[u].pc = "capture" <=> job[u].pc = "capture"
    BY <1>2
  <2> QED BY <1>1, <2>1 DEF AInv, Dumps
<1>4. \A u \in Tasks : At(u, "dump", "lock")' => job'[u].ok
  BY <1>2 DEF AInv, Dumps, At, Misses
<1>5. \A u \in Tasks : At(u, "dump", "listen")' /\ Current(u)' =>
        logs' = [by |-> "dump", c |-> client'] /\ job'[u].ok
  <2> SUFFICES ASSUME NEW u \in Tasks, At(u, "dump", "listen")', Current(u)'
               PROVE  logs' = [by |-> "dump", c |-> client'] /\ job'[u].ok
    OBVIOUS
  <2>1. At(u, "dump", "listen") /\ Current(u)
    BY <1>1, <1>2 DEF At, Current, conn
  <2>2. logs = [by |-> "dump", c |-> client] /\ job[u].ok
    BY <2>1 DEF AInv, Dumps
  <2>3. ~Misses(u, c)
    BY <2>1, <2>2 DEF Misses, At, Current
  <2> QED BY <1>1, <1>2, <2>2, <2>3 DEF conn
<1>6. \A u \in Tasks :
        /\ job'[u].pc = "listen" => life' = u
        /\ job'[u].op = "dump" =>
             /\ lease' = u /\ job'[u].out = "none"
             /\ job'[u].pc \in {"lock", "listen"}
  BY <1>1, <1>2 DEF AInv, Dumps
<1>7. captures' # {} => lease' \in captures'
  BY <1>1 DEF AInv, Dumps
<1>8. Dumps' /\ \A u \in Tasks : Heard(u)
  <2>1. Dumps'
    BY <1>3, <1>4, <1>5, <1>6, <1>7 DEF Dumps
  <2>2. \A u \in Tasks : Heard(u)
    BY <1>2 DEF Heard, AInv, Dumps, At
  <2> QED BY <2>1, <2>2
<1>9. \A u \in Tasks : NumberAside(u) /\ WindowAside(u)
  BY <1>2 DEF NumberAside, WindowAside, Misses
<1> QED BY <1>1, <1>8, <1>9, EvidenceHolds

-----------------------------------------------------------------------------
(* Numbers.                                                                *)

LEMMA NumberHolds ==
  ASSUME AInv, UNCHANGED <<conn, lease, captures, history, life, logs>>,
         \A u \in Tasks : DumpAside(u) /\ WindowAside(u),
         Wired', Numbers', \A u \in Tasks : Applied(u)
  PROVE  Holds
<1>1. DumpFrame /\ WindowFrame
  BY DEF DumpFrame, WindowFrame, conn
<1> QED BY <1>1, DumpsKept, SamplingsKept DEF AInv, Holds, Answered

LEMMA SeqFacts ==
  ASSUME NEW q \in Seq(Values), NEW v \in Values
  PROVE  /\ Append(q, v) \in Seq(Values) /\ Append(q, v) # <<>>
         /\ Last(Append(q, v)) = v
         /\ q = <<>> => Append(q, v) = <<v>>
         /\ ToSet(q) \subseteq Values /\ ToSet(Append(q, v)) = ToSet(q) \cup {v}
         /\ q # <<>> => /\ Head(q) \in Values /\ Head(q) \in ToSet(q)
                        /\ Tail(q) \in Seq(Values)
                        /\ ToSet(Tail(q)) \subseteq ToSet(q)
                        /\ Tail(q) = <<>> => Last(q) = Head(q)
                        /\ Tail(q) # <<>> => Last(Tail(q)) = Last(q)
                        /\ q = <<v>> => Head(q) = v /\ Tail(q) = <<>>
<1>1. Append(q, v) \in Seq(Values) /\ Append(q, v) # <<>>
  <2>1. Append(q, v) \in Seq(Values)
    OBVIOUS
  <2>2. Len(Append(q, v)) = Len(q) + 1 /\ Len(q) \in Nat /\ Len(<<>>) = 0
    OBVIOUS
  <2> QED BY <2>1, <2>2
<1>2. Last(Append(q, v)) = v
  BY DEF Last
<1>3. q = <<>> => Append(q, v) = <<v>>
  OBVIOUS
<1>4. ToSet(q) \subseteq Values /\ ToSet(Append(q, v)) = ToSet(q) \cup {v}
  <2>1. ToSet(q) \subseteq Values
    BY DEF ToSet
  <2>2. ToSet(q) \cup {v} \subseteq ToSet(Append(q, v))
    <3>1. \A i \in 1 .. Len(q) : Append(q, v)[i] = q[i]
      OBVIOUS
    <3>2. DOMAIN Append(q, v) = 1 .. (Len(q) + 1) /\ Append(q, v)[Len(q) + 1] = v
      OBVIOUS
    <3> QED BY <3>1, <3>2 DEF ToSet
  <2>3. ToSet(Append(q, v)) \subseteq ToSet(q) \cup {v}
    BY DEF ToSet
  <2> QED BY <2>1, <2>2, <2>3
<1>5. ASSUME q # <<>>
      PROVE  /\ Head(q) \in Values /\ Head(q) \in ToSet(q)
             /\ Tail(q) \in Seq(Values)
             /\ ToSet(Tail(q)) \subseteq ToSet(q)
             /\ Tail(q) = <<>> => Last(q) = Head(q)
             /\ Tail(q) # <<>> => Last(Tail(q)) = Last(q)
             /\ q = <<v>> => Head(q) = v /\ Tail(q) = <<>>
  <2>1. Len(q) \in Nat /\ Len(q) # 0 /\ Head(q) = q[1]
    BY <1>5
  <2>2. /\ Tail(q) \in Seq(Values) /\ Len(Tail(q)) = Len(q) - 1
        /\ \A i \in 1 .. Len(Tail(q)) : Tail(q)[i] = q[i + 1]
    BY <1>5
  <2>3. Head(q) \in Values /\ Head(q) \in ToSet(q)
    BY <2>1 DEF ToSet
  <2>4. ToSet(Tail(q)) \subseteq ToSet(q)
    BY <2>1, <2>2 DEF ToSet
  <2>5. Tail(q) = <<>> => Last(q) = Head(q)
    BY <2>1, <2>2 DEF Last
  <2>6. Tail(q) # <<>> => Last(Tail(q)) = Last(q)
    BY <2>1, <2>2 DEF Last
  <2>7. q = <<v>> => Head(q) = v /\ Tail(q) = <<>>
    OBVIOUS
  <2> QED BY <2>2, <2>3, <2>4, <2>5, <2>6, <2>7
<1> QED BY <1>1, <1>2, <1>3, <1>4, <1>5

\* The holder of the lease is the only one who waits for a number.
LEMMA SetNumberHolds ==
  ASSUME IInv, AInv, NEW t \in Tasks, NEW v \in Values, SetNumber(t, v)
  PROVE  Holds
<1> DEFINE q == Quiet(client)
           k == [NoJob EXCEPT !.op = "number", !.pc = "number", !.c = client,
                              !.v = v, !.ok = q]
<1>1. job' = [job EXCEPT ![t] = k]
  BY Zenon DEF SetNumber
<1>2. /\ job[t].pc = "idle" /\ lease = t /\ connected /\ client # None
      /\ link[client] = "open"
      /\ down' = [down EXCEPT ![client] = Append(@, v)]
      /\ UNCHANGED <<link, meter, up, conn, lease, captures, history, life, logs>>
  BY DEF SetNumber, Ready, capt
<1>3. /\ k.op = "number" /\ k.pc = "number" /\ k.out = "none"
      /\ k.c = client /\ k.v = v /\ k.ok = q
  BY DEF NoJob
<1> HIDE DEF k
<1>4. \A u \in Tasks : job'[u] = IF u = t THEN k ELSE job[u]
  BY <1>1 DEF IInv, Shape
<1>5. \A u \in Tasks : job[u].pc # "number"
  BY <1>2 DEF AInv, Numbers
<1>6. job[t].op # "dump"
  BY <1>2 DEF AInv, Dumps
<1>7. \A u \in Tasks : DumpAside(u) /\ WindowAside(u)
  BY <1>2, <1>3, <1>4, <1>6 DEF DumpAside, ForDump, WindowAside
<1>8. client \in Conns /\ down[client] \in Seq(Values)
  BY <1>2 DEF IInv, Shape, AInv, Wired
<1>9. /\ down' \in [Conns -> Seq(Values)] /\ down'[client] = Append(down[client], v)
      /\ \A c \in Conns \ {client} : down'[c] = down[c]
  BY <1>2, <1>8, SeqFacts DEF AInv, Wired
<1>10. Wired'
  BY <1>2, <1>9 DEF AInv, Wired
<1>11. Commanded(t)'
  <2>1. client' = client /\ up' = up /\ meter' = meter /\ job'[t] = k
    BY <1>2, <1>4 DEF conn
  <2>2. down'[client] # <<>> /\ Last(down'[client]) = v
    BY <1>8, <1>9, SeqFacts
  <2>3. q => down'[client] = <<v>> /\ ToSet(up[client]) \subseteq {meter}
    BY <1>8, <1>9, SeqFacts DEF Quiet
  <2> HIDE DEF q
  <2> QED BY <1>3, <2>1, <2>2, <2>3 DEF Commanded, Settled
<1>12. Numbers'
  <2> SUFFICES ASSUME NEW u \in Tasks, job'[u].pc = "number"
               PROVE  /\ job'[u].op = "number" /\ job'[u].out = "none"
                      /\ lease' = u /\ connected' /\ client' = job'[u].c
                      /\ Commanded(u)'
    BY DEF Numbers
  <2>1. u = t
    BY <1>4, <1>5
  <2> QED BY <1>2, <1>3, <1>4, <1>11, <2>1 DEF conn
<1>13. \A u \in Tasks : Applied(u)
  BY <1>5 DEF Applied
<1> QED BY <1>2, <1>7, <1>10, <1>12, <1>13, NumberHolds

\* The meter takes the oldest command; the last one is what it settles at.
LEMMA ActHolds ==
  ASSUME IInv, AInv, NEW c \in Conns, Act(c)
  PROVE  Holds
<1>1. /\ link[c] = "open"
      /\ UNCHANGED <<link, conn, lease, captures, job, history, life, logs>>
  BY DEF Act, capt
<1>2. client = c
  BY <1>1 DEF IInv, OpenIsOwned
<1>3. /\ up[c] \in Seq(Values) /\ down[c] \in Seq(Values) /\ meter \in Values
      /\ up \in [Conns -> Seq(Values)] /\ down \in [Conns -> Seq(Values)]
  BY DEF AInv, Wired
<1>4. /\ Wired' /\ (Settled(c))' = Settled(c)
      /\ \A v \in Values :
           (\/ down[c] = <<v>> /\ ToSet(up[c]) \subseteq {meter}
            \/ down[c] = <<>>)
             => \/ down'[c] = <<v>> /\ ToSet(up'[c]) \subseteq {meter'}
                \/ down'[c] = <<>>
  <2>1. CASE /\ down[c] # <<>> /\ meter' = Head(down[c])
             /\ down' = [down EXCEPT ![c] = Tail(@)]
             /\ up' = [up EXCEPT ![c] = Append(@, Head(down[c]))]
    <3>1. Head(down[c]) \in Values /\ Tail(down[c]) \in Seq(Values)
      BY <1>3, <2>1, SeqFacts
    <3>2. Append(up[c], Head(down[c])) \in Seq(Values)
      BY <1>3, <3>1, SeqFacts
    <3>3. down'[c] = Tail(down[c]) /\ Wired'
      BY <1>1, <1>3, <2>1, <3>1, <3>2 DEF AInv, Wired
    <3>4. (Settled(c))' = Settled(c)
      BY <1>3, <2>1, <3>3, SeqFacts DEF Settled
    <3>5. \A v \in Values : down[c] = <<v>> => down'[c] = <<>>
      BY <1>3, <2>1, <3>3, SeqFacts
    <3> QED BY <2>1, <3>3, <3>4, <3>5
  <2>2. CASE up' = [up EXCEPT ![c] = Append(@, meter)] /\ UNCHANGED <<meter, down>>
    <3>1. /\ Append(up[c], meter) \in Seq(Values)
          /\ ToSet(Append(up[c], meter)) = ToSet(up[c]) \cup {meter}
      BY <1>3, SeqFacts
    <3>2. up'[c] = Append(up[c], meter) /\ Wired'
      BY <1>1, <1>3, <2>2, <3>1 DEF AInv, Wired
    <3> QED BY <2>2, <3>1, <3>2 DEF Settled
  <2> QED BY <2>1, <2>2 DEF Act
<1>5. \A u \in Tasks : job[u].pc = "number" =>
        /\ job'[u] = job[u] /\ Commanded(u) /\ job[u].out = "none"
  BY <1>1, <1>2 DEF AInv, Numbers
<1>6. \A u \in Tasks : job[u].pc = "number" => Commanded(u)'
  <2> SUFFICES ASSUME NEW u \in Tasks, job[u].pc = "number"
               PROVE  Commanded(u)'
    OBVIOUS
  <2>1. job[u].v = Settled(c) /\ Settled(c) \in Values
    <3>1. Settled(c) = job[u].v
      BY <1>2, <1>5 DEF Commanded
    <3>2. Settled(c) \in Values
      <4>1. down[c] # <<>> => down[c][Len(down[c])] \in Values
        BY <1>3
      <4> QED BY <1>3, <4>1 DEF Settled, Last
    <3> QED BY <3>1, <3>2
  <2>2. client' = c /\ job'[u] = job[u]
    BY <1>1, <1>2 DEF conn
  <2> QED BY <1>2, <1>4, <1>5, <2>1, <2>2 DEF Commanded
<1>7. Numbers'
  BY <1>1, <1>6 DEF AInv, Numbers, conn
<1>8. \A u \in Tasks : Applied(u)
  BY <1>1, <1>5 DEF Applied
<1>9. \A u \in Tasks : DumpAside(u) /\ WindowAside(u)
  BY <1>1 DEF DumpAside, WindowAside
<1> QED BY <1>1, <1>4, <1>7, <1>8, <1>9, NumberHolds

\* A state acknowledges the number its task waits for, and no other.
LEMMA OnNumberHolds ==
  ASSUME IInv, AInv, NEW c \in Conns, OnNumber(c)
  PROVE  Holds
<1>1. /\ up[c] # <<>> /\ up' = [up EXCEPT ![c] = Tail(@)]
      /\ UNCHANGED <<link, meter, down, conn, lease, captures, history, life, logs>>
  BY DEF OnNumber, capt
<1>2. link[c] = "open" /\ client = c
  BY <1>1 DEF AInv, Wired, IInv, OpenIsOwned
<1>3. /\ up[c] \in Seq(Values) /\ up \in [Conns -> Seq(Values)]
  BY DEF AInv, Wired
<1>4. /\ Tail(up[c]) \in Seq(Values) /\ ToSet(Tail(up[c])) \subseteq ToSet(up[c])
      /\ Head(up[c]) \in ToSet(up[c])
  BY <1>1, <1>3, SeqFacts
<1>5. up'[c] = Tail(up[c]) /\ Wired'
  BY <1>1, <1>3, <1>4 DEF AInv, Wired
<1>6. \A u \in Tasks :
        \/ job'[u] = job[u]
        \/ /\ job[u].pc = "number" /\ job[u].op = "number"
           /\ job[u].v = Head(up[c]) /\ job'[u] = [NoJob EXCEPT !.out = "ok"]
  BY DEF OnNumber, Acknowledges, At
<1>7. \A u \in Tasks : DumpAside(u) /\ WindowAside(u)
  BY <1>6, OverElsewhere DEF DumpAside, ForDump, WindowAside, Elsewhere
<1>8. \A u \in Tasks : job'[u].pc = "number" => job'[u] = job[u]
  BY <1>6, OverElsewhere
<1>9. \A u \in Tasks : job[u].pc = "number" => Commanded(u)
  BY <1>2 DEF AInv, Numbers
<1>10. Numbers'
  <2> SUFFICES ASSUME NEW u \in Tasks, job'[u].pc = "number"
               PROVE  /\ job'[u].op = "number" /\ job'[u].out = "none"
                      /\ lease' = u /\ connected' /\ client' = job'[u].c
                      /\ Commanded(u)'
    BY DEF Numbers
  <2>1. job'[u] = job[u] /\ job[u].pc = "number" /\ Commanded(u)
    BY <1>8, <1>9
  <2>2. Commanded(u)'
    BY <1>1, <1>2, <1>4, <1>5, <2>1 DEF Commanded, Settled, conn
  <2> QED BY <1>1, <2>1, <2>2 DEF AInv, Numbers, conn
<1>11. \A u \in Tasks : Applied(u)
  <2> SUFFICES ASSUME NEW u \in Tasks, job[u].pc = "number", job'[u].out = "ok"
               PROVE  /\ Settled(client) = job[u].v
                      /\ job[u].ok => meter = job[u].v
    BY DEF Applied
  <2>1. Commanded(u) /\ job[u].out = "none"
    BY <1>9 DEF AInv, Numbers
  <2>2. job[u].v = Head(up[c])
    BY <1>6, <2>1
  <2> QED BY <1>2, <1>4, <2>1, <2>2 DEF Commanded, Settled
<1> QED BY <1>1, <1>5, <1>7, <1>10, <1>11, NumberHolds

-----------------------------------------------------------------------------
(* Sensor windows.                                                         *)

LEMMA SampleHolds ==
  ASSUME AInv, UNCHANGED <<link, meter, down, up, conn, lease, captures>>,
         UNCHANGED <<life, logs>>,
         \A u \in Tasks : DumpAside(u) /\ NumberAside(u),
         Samplings', \A u \in Tasks : Windowed(u)
  PROVE  Holds
<1>1. DumpFrame /\ NumberFrame
  BY DEF DumpFrame, NumberFrame, conn
<1> QED BY <1>1, DumpsKept, NumbersKept DEF AInv, Holds, Answered

\* The samples, one by one.
LEMMA HistoryType ==
  ASSUME Samplings
  PROVE  /\ history \in Seq(Sample)
         /\ \A i \in DOMAIN history :
              history[i] \in Sample /\ history[i].fresh \subseteq Tasks
<1>1. history \in Seq(Sample)
  BY DEF Samplings
<1>2. \A i \in DOMAIN history : history[i] \in Sample
  BY <1>1
<1> QED BY <1>1, <1>2 DEF Sample

\* A window begins on the connection there is, with no sample.
LEMMA WaitHolds ==
  ASSUME IInv, AInv, NEW t \in Tasks, NEW op \in Operations, Wait(t, op)
  PROVE  Holds
<1> DEFINE k == [NoJob EXCEPT !.op = op, !.pc = "window", !.c = client]
<1>1. /\ job[t].pc = "idle" /\ op \in Windows /\ job' = [job EXCEPT ![t] = k]
      /\ connected
      /\ UNCHANGED <<link, meter, down, up, conn, lease, captures, history, life, logs>>
  BY DEF Wait, Ready, wire, capt
<1>2. /\ k.op = op /\ k.pc = "window" /\ k.out = "none" /\ k.c = client
      /\ op # "dump"
  BY <1>1 DEF NoJob, Windows
<1> HIDE DEF k
<1>3. \A u \in Tasks : job'[u] = IF u = t THEN k ELSE job[u]
  BY <1>1 DEF IInv, Shape
<1>4. job[t].op # "dump" /\ client = gen
  BY <1>1 DEF AInv, Dumps, IInv, ConnectionIsTrue
<1>5. \A u \in Tasks : DumpAside(u) /\ NumberAside(u)
  BY <1>1, <1>2, <1>3, <1>4 DEF DumpAside, ForDump, NumberAside
<1>6. Samplings'
  <2>1. history' \in Seq(Sample)
    BY <1>1 DEF AInv, Samplings
  <2>2. \A u \in Tasks : job'[u].pc = "window" =>
          job'[u].out = "none" /\ job'[u].c = gen'
    BY <1>1, <1>2, <1>3, <1>4 DEF AInv, Samplings, conn
  <2>3. \A i \in DOMAIN history' : \A u \in history'[i].fresh :
          job'[u].pc = "window" /\ history'[i].c = gen'
    <3> SUFFICES ASSUME NEW i \in DOMAIN history, NEW u \in history[i].fresh
                 PROVE  job'[u].pc = "window" /\ history[i].c = gen'
      BY <1>1
    <3>1. u \in Tasks /\ job[u].pc = "window" /\ history[i].c = gen
      BY HistoryType DEF AInv, Samplings
    <3> QED BY <1>1, <1>3, <3>1 DEF conn
  <2> QED BY <2>1, <2>2, <2>3 DEF Samplings
<1>7. \A u \in Tasks : Windowed(u)
  BY <1>1, <1>2, <1>3 DEF Windowed, AInv, Samplings
<1> QED BY <1>1, <1>5, <1>6, <1>7, SampleHolds

\* The wait of t ends, and no sample is fresh for it.
LEMMA Forgets ==
  ASSUME IInv, AInv, NEW t \in Tasks, UNCHANGED gen,
         NEW k, job' = [job EXCEPT ![t] = k], k.pc = "idle",
         history' = [i \in DOMAIN history |->
                       [history[i] EXCEPT !.fresh = @ \ {t}]]
  PROVE  Samplings'
<1>1. \A u \in Tasks : job'[u] = IF u = t THEN k ELSE job[u]
  BY DEF IInv, Shape
<1>2. /\ history \in Seq(Sample)
      /\ \A i \in DOMAIN history :
           history[i] \in Sample /\ history[i].fresh \subseteq Tasks
  BY HistoryType DEF AInv
<1>3. DOMAIN history' = DOMAIN history /\ DOMAIN history = 1 .. Len(history)
  BY <1>2
<1>4. \A i \in DOMAIN history :
        /\ history'[i] \in Sample /\ history'[i].c = history[i].c
        /\ history'[i].fresh = history[i].fresh \ {t}
  BY <1>2 DEF Sample
<1>5. history' \in Seq(Sample)
  <2>1. Len(history) \in Nat
    BY <1>2
  <2>2. history' \in [1 .. Len(history) -> Sample]
    BY <1>3, <1>4
  <2> QED BY <2>1, <2>2
<1>6. \A u \in Tasks : job'[u].pc = "window" =>
        job'[u].out = "none" /\ job'[u].c = gen'
  BY <1>1 DEF AInv, Samplings
<1>7. \A i \in DOMAIN history' : \A u \in history'[i].fresh :
        job'[u].pc = "window" /\ history'[i].c = gen'
  BY <1>1, <1>2, <1>3, <1>4 DEF AInv, Samplings
<1> QED BY <1>5, <1>6, <1>7 DEF Samplings

\* A window that is full is made of samples of its connection.
LEMMA WaitEndHolds ==
  ASSUME IInv, AInv, NEW t \in Tasks, Window(t) \/ GiveUp(t)
  PROVE  Holds
<1>1. /\ job[t].pc \in {"number", "window", "restart"}
      /\ UNCHANGED <<link, meter, down, up, conn, lease, captures, life, logs>>
      /\ history' = [i \in DOMAIN history |->
                       [history[i] EXCEPT !.fresh = @ \ {t}]]
  BY DEF Window, GiveUp, wire, capt
<1>2. PICK k : /\ job' = [job EXCEPT ![t] = k]
               /\ k.pc = "idle" /\ k.op = "none"
               /\ \/ k.out = "failed"
                  \/ /\ k.out = "ok" /\ job[t].pc = "window"
                     /\ Cardinality(Fresh(t)) >= SampleCount
  BY OverElsewhere DEF Window, GiveUp, Over, Samples
<1>3. \A u \in Tasks : job'[u] = IF u = t THEN k ELSE job[u]
  BY <1>2 DEF IInv, Shape
<1>4. job[t].op # "dump"
  BY <1>1 DEF AInv, Dumps
<1>5. Samplings'
  <2>1. UNCHANGED gen
    BY <1>1 DEF conn
  <2> QED BY <1>1, <1>2, <2>1, Forgets
<1>6. \A u \in Tasks : Windowed(u)
  <2> SUFFICES ASSUME NEW u \in Tasks, job[u].pc = "window", job'[u].out = "ok"
               PROVE  /\ Cardinality(Fresh(u)) >= SampleCount
                      /\ \A i \in Fresh(u) : history[i].c = job[u].c
    BY DEF Windowed
  <2>1. u = t /\ Cardinality(Fresh(t)) >= SampleCount
    BY <1>2, <1>3 DEF AInv, Samplings
  <2>2. \A i \in Fresh(u) : history[i].c = job[u].c
    BY DEF AInv, Samplings, Fresh
  <2> QED BY <2>1, <2>2
<1>7. \A u \in Tasks : DumpAside(u)
  BY <1>1, <1>2, <1>3, <1>4 DEF DumpAside, ForDump
<1>8. CASE k.out = "failed" \/ job[t].pc # "number"
  <2>1. \A u \in Tasks : NumberAside(u)
    BY <1>2, <1>3, <1>8 DEF NumberAside
  <2> QED BY <1>1, <1>5, <1>6, <1>7, <2>1, SampleHolds
<1> QED BY <1>2, <1>8

\* A sample is of the connection the windows that take it began on.
LEMMA OnSampleHolds ==
  ASSUME IInv, AInv, NEW c \in Conns, OnSample(c)
  PROVE  Holds
<1> DEFINE r == [c |-> c, fresh |-> {t \in Tasks : job[t].pc = "window"}]
           h == Append(history, r)
<1>1. /\ client = c /\ connected /\ history' = Keep(h)
      /\ UNCHANGED <<link, meter, down, up, conn, lease, captures, life, logs, job>>
  BY DEF OnSample, wire, capt
<1>2. r \in Sample /\ r.c = c /\ r.fresh = {t \in Tasks : job[t].pc = "window"}
  BY DEF Sample
<1> HIDE DEF r
<1>3. /\ history \in Seq(Sample) /\ gen = c
      /\ \A i \in DOMAIN history : \A t \in history[i].fresh :
           job[t].pc = "window" /\ history[i].c = gen
  BY <1>1 DEF AInv, Samplings, IInv, ConnectionIsTrue
<1>4. /\ h \in Seq(Sample) /\ Len(h) = Len(history) + 1 /\ Len(history) \in Nat
      /\ h[Len(h)] = r /\ \A i \in 1 .. Len(history) : h[i] = history[i]
  BY <1>2, <1>3
<1>5. \A i \in 1 .. Len(h) : \A t \in h[i].fresh :
        job[t].pc = "window" /\ h[i].c = gen
  <2> SUFFICES ASSUME NEW i \in 1 .. Len(h), NEW t \in h[i].fresh
               PROVE  job[t].pc = "window" /\ h[i].c = gen
    OBVIOUS
  <2>1. CASE i = Len(h)
    BY <1>2, <1>3, <1>4, <2>1
  <2>2. CASE i # Len(h)
    BY <1>3, <1>4, <2>2
  <2> QED BY <2>1, <2>2
<1> HIDE DEF h
<1>6. /\ Keep(h) \in Seq(Sample)
      /\ \A i \in DOMAIN Keep(h) : \E j \in 1 .. Len(h) : Keep(h)[i] = h[j]
  <2>1. CASE Len(h) > MaxHistory
    <3>1. /\ Tail(h) \in Seq(Sample) /\ Len(Tail(h)) = Len(h) - 1
          /\ \A i \in 1 .. Len(Tail(h)) : Tail(h)[i] = h[i + 1]
      BY <1>4
    <3> QED BY <1>4, <2>1, <3>1 DEF Keep
  <2>2. CASE ~(Len(h) > MaxHistory)
    BY <1>4, <2>2 DEF Keep
  <2> QED BY <2>1, <2>2
<1>7. \A i \in DOMAIN history' : \A t \in history'[i].fresh :
        job[t].pc = "window" /\ history'[i].c = gen
  BY <1>1, <1>5, <1>6
<1>8. Samplings'
  BY <1>1, <1>6, <1>7 DEF AInv, Samplings, conn
<1>9. \A u \in Tasks : DumpAside(u) /\ NumberAside(u)
  BY <1>1 DEF DumpAside, NumberAside
<1>10. \A u \in Tasks : Windowed(u)
  BY <1>1 DEF Windowed, AInv, Samplings
<1> QED BY <1>1, <1>8, <1>9, <1>10, SampleHolds

-----------------------------------------------------------------------------
(* The theorems about the answers.                                         *)

LEMMA AnswersStart == Init => AInv
<1> SUFFICES ASSUME Init PROVE AInv
  OBVIOUS
<1>1. \A t \in Tasks : job[t].pc = "idle" /\ job[t].op = "none"
  BY DEF Init, NoJob
<1>2. Dumps
  BY <1>1 DEF Init, Dumps, At
<1>3. Wired
  BY DEF Init, Wired
<1>4. Numbers /\ Samplings
  BY <1>1 DEF Init, Numbers, Samplings
<1> QED BY <1>2, <1>3, <1>4 DEF AInv

LEMMA AnswersHold == IInv /\ AInv /\ [Next]_vars => Holds
<1> SUFFICES ASSUME IInv, AInv, [Next]_vars
             PROVE  Holds
  OBVIOUS
<1>1. CASE UNCHANGED vars
  <2>1. /\ Apart /\ UNCHANGED <<link, meter, down, up, conn>>
        /\ UNCHANGED <<lease, captures, history, life, logs>>
    BY <1>1 DEF vars, conn, Apart
  <2> QED BY <2>1, CallHolds
<1>2. ASSUME NEW t \in Tasks, NEW op \in Operations, Start(t, op) \/ Wait(t, op)
      PROVE  Holds
  BY <1>2, StartHolds, WaitHolds
<1>3. ASSUME NEW t \in Tasks, NEW v \in Values, SetNumber(t, v)
      PROVE  Holds
  BY <1>3, SetNumberHolds
<1>4. ASSUME NEW t \in Tasks, Lease(t) \/ Connecting(t)
      PROVE  Holds
  BY <1>4, LeaseHolds, CallsHold, ReconnectHolds, AttemptHolds, BecomeReadyHolds
     DEF Connecting
<1>5. ASSUME NEW t \in Tasks,
             \/ Shutdown(t) \/ ShutdownReturn(t) \/ PressRestart(t)
             \/ HoldGeneration(t) \/ Window(t) \/ GiveUp(t)
      PROVE  Holds
  BY <1>5, ShutdownHolds, CallsHold, WaitEndHolds
<1>6. ASSUME NEW t \in Tasks, Evidence(t)
      PROVE  Holds
  BY <1>6, ListenHolds, EndListenHolds, CaptureHolds, EndCaptureHolds DEF Evidence
<1>7. ASSUME NEW c \in Conns,
             \/ Stop(c) \/ OnStop(c) \/ Act(c) \/ OnNumber(c) \/ OnSample(c)
             \/ Line(c)
      PROVE  Holds
  BY <1>7, StopHolds, OnStopHolds, ActHolds, OnNumberHolds, OnSampleHolds, LineHolds
<1>8. CASE ShutdownStep
  BY <1>8, ShutdownStepHolds
<1> QED BY <1>1, <1>2, <1>3, <1>4, <1>5, <1>6, <1>7, <1>8 DEF Next

\* Every step of the session gives the answers it should.
LEMMA AnswersAreGood == Spec => [][Answered]_vars
<1>1. IInv /\ AInv /\ [Next]_vars => AInv' /\ Answered
  BY AnswersHold DEF Holds
<1> QED BY <1>1, AnswersStart, InvariantHolds, PTL DEF Spec

\* A window that is returned has as many samples as were asked for, all of the
\* connection on which the task began to wait and received since, for any
\* number of tasks, clients and samples.
THEOREM WindowsHold == Spec => WindowsAreFresh
<1>1. [Answered]_vars => [\A t \in Tasks : Windowed(t)]_vars
  BY DEF Answered
<1> QED BY <1>1, AnswersAreGood, PTL DEF WindowsAreFresh

\* A number that is acknowledged is what the meter settles at on the
\* connection, and the one it has unless an earlier command was under way, for
\* any number of tasks, clients, values and messages.
THEOREM AcknowledgementsHold == Spec => AcknowledgedIsApplied
<1>1. [Answered]_vars => [\A t \in Tasks : Applied(t)]_vars
  BY DEF Answered
<1> QED BY <1>1, AnswersAreGood, PTL DEF AcknowledgedIsApplied

\* A dump that is judged has heard every line of it, for any number of tasks
\* that capture, listen or reconnect.
THEOREM DumpsAreHeard == Spec => DumpIsComplete
<1>1. [Answered]_vars =>
        [\A t \in Tasks :
           (At(t, "dump", "listen") /\ job'[t].out = "ok") => job[t].ok]_vars
  BY DEF Answered, Heard
<1> QED BY <1>1, AnswersAreGood, PTL DEF DumpIsComplete
=============================================================================
