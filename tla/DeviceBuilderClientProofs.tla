--------------------- MODULE DeviceBuilderClientProofs ---------------------
(***************************************************************************)
(* Proofs about DeviceBuilderClient for any callers and any sockets: its   *)
(* four invariants and DisconnectWins follow from one inductive invariant. *)
(***************************************************************************)
EXTENDS DeviceBuilderClient, TLAPS

Running == {"start", "close", "join"}

\* _connect_lock: one caller opens at a time, and until its socket has said
\* hello no other socket is attached.
OneOpening ==
  \A c, d \in Callers : pc[c] \in Opening /\ pc[d] \in Opening => c = d
Unattached == \A c \in Callers : pc[c] \in {"open", "hello"} => ws = None

\* A caller that waits, or has opened a socket, has one.
Addressed ==
  \A c \in Callers :
    /\ pc[c] \in (Opening \ {"open"}) \cup Waiting => via[c] \in Conns
    /\ pc[c] \in {"idle", "connect", "open"} => via[c] = None

\* While a caller waits for the answer to auth its socket is attached, or
\* somebody took care of it.
Settled ==
  \A c \in Callers : pc[c] = "auth" /\ ~stale[c] =>
    ws = via[c] \/ lst[via[c]] = "done" \/ sock[via[c]] = "closed"

\* The disconnect task has the socket it closes, and joins a closed one's
\* listener.
Target ==
  /\ disc.at \in {"close", "join"} => disc.s \in Conns
  /\ disc.at = "join" => sock[disc.s] = "closed"

Links ==
  /\ OneOpening /\ Unattached /\ Addressed /\ Settled /\ Target
  /\ CanConnectAgain /\ NobodyIsStranded /\ NoSocketIsLost

\* The callers that wait for the disconnect task are those it will wake.
Members ==
  \A c \in Callers :
    pc[c] = "disconnect" <=> (disc.at \in Running /\ c \in disc.who)

\* What a caller of disconnect must not find connected: opened before it, and
\* either attached and closed by its task, or no longer owned.
Owner(c) == pc[c] \in {"disconnect", "dc_ok"} /\ ~before[c].joined
Old == \A c \in Callers : \A s \in before[c].open : sock[s] # "new"
Superseded ==
  \A c, d \in Callers :
    Owner(c) /\ pc[d] \in Opening /\ via[d] \in before[c].open => stale[d]
Chased ==
  \A c \in Callers : Owner(c) /\ ws \in before[c].open =>
    pc[c] = "disconnect" /\ (disc.at \in {"close", "join"} => ws = disc.s)

Wins == Members /\ Old /\ Superseded /\ Chased

IInv == TypeOK /\ Links /\ Wins

\* A call that starts.
LEMMA CallStep ==
  ASSUME TypeOK, Links, Wins, NEW c \in Callers, Call(c)
  PROVE  IInv'
<1> USE DEF Call, At, Goto, link, StartConnect, StartDisconnect, StartCommand
<1>1. LinkOK'
  BY DEF TypeOK, LinkOK, CallsOK, Tasks
<1>2. CallsOK'
  <2>1. CASE StartConnect(c)
    BY <2>1 DEF TypeOK, LinkOK, CallsOK, Labels, Ended, Opening, Waiting,
        Leaving, Futures, Marks
  <2>2. CASE StartDisconnect(c)
    BY <2>2 DEF TypeOK, LinkOK, CallsOK, Labels, Ended, Opening, Waiting,
        Leaving, Futures, Marks
  <2>3. CASE StartCommand(c)
    <3>1. (via \in [Callers -> Conns \cup {None}])'
      BY <2>3 DEF TypeOK, LinkOK, CallsOK
    <3>2. (pc \in [Callers -> Labels])'
      BY <2>3 DEF TypeOK, CallsOK, Labels, Ended, Waiting
    <3>3. (fut \in [Callers -> Futures])'
      BY <2>3 DEF TypeOK, CallsOK, Futures
    <3> QED
      BY <2>3, <3>1, <3>2, <3>3 DEF TypeOK, CallsOK
  <2> QED
    BY <2>1, <2>2, <2>3
<1>3. Registered'
  BY DEF TypeOK, CallsOK, Registered, Labels, Ended, Opening, Waiting, Leaving
<1>4. (ready \in BOOLEAN)'
  BY DEF TypeOK
<1>5. (disc \in Tasks)'
  BY DEF TypeOK, LinkOK, Tasks
<1>6. OneOpening'
  BY DEF Links, TypeOK, CallsOK, OneOpening, Labels, Ended, Opening, Waiting,
         Leaving
<1>7. Unattached'
  BY DEF Links, TypeOK, CallsOK, OneOpening, Unattached, Addressed, Labels,
         Ended, Opening, Waiting, Leaving
<1>8. Addressed'
  BY DEF Links, TypeOK, LinkOK, CallsOK, Addressed, Labels, Ended, Opening,
         Waiting, Leaving
<1>9. Settled'
  BY DEF Links, TypeOK, LinkOK, CallsOK, OneOpening, Unattached, Settled,
         Target, Tasks, Labels, Ended, Opening, Waiting, Leaving
<1>10. Target'
  BY DEF Links, TypeOK, LinkOK, CallsOK, Target, Tasks
<1>11. CanConnectAgain'
  BY DEF Links, TypeOK, LinkOK, Target, Tasks, CanConnectAgain
<1>12. NobodyIsStranded'
  BY DEF Links, TypeOK, LinkOK, CallsOK, Registered, Futures, Unattached,
         Addressed, NobodyIsStranded, Labels, Ended, Opening, Waiting, Leaving
<1>13. NoSocketIsLost'
  BY DEF Links, TypeOK, LinkOK, CallsOK, OneOpening, Unattached, Addressed,
         Settled, Target, NoSocketIsLost, Tasks, Labels, Ended, Opening,
         Waiting, Leaving
<1>14. Members'
  BY DEF Wins, TypeOK, LinkOK, CallsOK, Running, Members, Tasks, Labels,
         Ended, Opening, Waiting, Leaving
<1>15. Old'
  BY DEF Links, Wins, TypeOK, LinkOK, CallsOK, Marks, Old, Addressed,
         NoSockets, Labels, Ended, Opening, Waiting, Leaving
<1>16. Superseded'
  <2>1. CASE StartConnect(c)
    BY <2>1, ClientAssumption DEF Links, Wins, TypeOK, LinkOK, CallsOK, Marks,
        Old, Addressed, OneOpening, Owner, Superseded, Unattached, Labels,
        Ended, Opening, Waiting, Leaving
  <2>2. CASE StartDisconnect(c)
    BY <2>2 DEF Superseded, TypeOK, CallsOK, Opening, Ended, Waiting, Leaving, Labels
  <2>3. CASE StartCommand(c)
    BY <2>3, ClientAssumption DEF Links, Wins, TypeOK, LinkOK, CallsOK, Marks,
        Old, Addressed, OneOpening, Owner, Superseded, Unattached, Labels,
        Ended, Opening, Waiting, Leaving
  <2> QED
    BY <2>1, <2>2, <2>3
<1>17. Chased'
  <2>1. CASE StartConnect(c)
    BY <2>1, ClientAssumption DEF Links, Wins, TypeOK, LinkOK, CallsOK, Marks,
        Tasks, Old, Addressed, Owner, Members, Running, Target, Superseded,
        Chased, Unattached, Labels, Ended, Opening, Waiting, Leaving
  <2>2. CASE StartDisconnect(c)
    <3> SUFFICES ASSUME NEW d \in Callers, Owner(d)', ws' \in before'[d].open
                 PROVE  (/\ pc[d] = "disconnect"
                         /\ disc.at \in {"close", "join"} => ws = disc.s)'
      BY DEF Chased
    <3>1. CASE d = c
      <4>1. disc.at \in {"none", "error"}
        BY <2>2, <3>1 DEF Owner, TypeOK, CallsOK
      <4> QED
        BY <2>2, <3>1, <4>1 DEF TypeOK, CallsOK
    <3>2. CASE d # c
      <4>1. Owner(d) /\ ws \in before[d].open /\ pc'[d] = pc[d]
        BY <2>2, <3>2 DEF Owner, TypeOK, CallsOK
      <4>2. /\ pc[d] = "disconnect" /\ disc.at \in Running
            /\ disc.at \in {"close", "join"} => ws = disc.s
        BY <4>1 DEF Wins, Chased, Members
      <4> QED
        BY <2>2, <4>1, <4>2 DEF Running, TypeOK, Tasks
    <3> QED
      BY <3>1, <3>2
  <2>3. CASE StartCommand(c)
    BY <2>3, ClientAssumption DEF Links, Wins, TypeOK, LinkOK, CallsOK, Marks,
        Tasks, Old, Addressed, Owner, Members, Running, Target, Superseded,
        Chased, Unattached, Labels, Ended, Opening, Waiting, Leaving
  <2> QED
    BY <2>1, <2>2, <2>3
<1> QED
  BY <1>1, <1>2, <1>3, <1>4, <1>5, <1>6, <1>7, <1>8, <1>9, <1>10, <1>11,
      <1>12, <1>13, <1>14, <1>15, <1>16, <1>17 DEF IInv, TypeOK, Links, Wins

\* A caller that opens a socket.
LEMMA OpeningStep ==
  ASSUME TypeOK, Links, Wins, NEW c \in Callers, Connect(c) \/ Open(c) \/
      Hello(c) \/ Auth(c)
  PROVE  IInv'
<1> USE DEF At, Goto, link, Connect, Open, OpenWith, Owned, Hello, Auth
<1>1. LinkOK'
  BY DEF TypeOK, LinkOK, CallsOK, Tasks
<1>2. CallsOK'
  <2>1. CASE Connect(c)
    BY <2>1 DEF TypeOK, LinkOK, CallsOK, Labels, Ended, Opening, Waiting,
        Leaving, Futures, Marks
  <2>2. CASE Open(c)
    <3>1. (pc \in [Callers -> Labels])'
      BY <2>2 DEF TypeOK, CallsOK, Labels, Ended, Opening
    <3>2. (via \in [Callers -> Conns \cup {None}])'
      BY <2>2 DEF TypeOK, CallsOK
    <3> QED
      BY <2>2, <3>1, <3>2 DEF TypeOK, CallsOK
  <2>3. CASE Hello(c)
    BY <2>3 DEF TypeOK, LinkOK, CallsOK, Labels, Ended, Opening, Waiting,
        Leaving, Futures, Marks
  <2>4. CASE Auth(c)
    BY <2>4 DEF TypeOK, LinkOK, CallsOK, Labels, Ended, Opening, Waiting,
        Leaving, Futures, Marks
  <2> QED
    BY <2>1, <2>2, <2>3, <2>4
<1>3. Registered'
  BY DEF TypeOK, CallsOK, Registered, Labels, Ended, Opening, Waiting, Leaving
<1>4. (ready \in BOOLEAN)'
  <2>1. CASE Connect(c)
    BY <2>1 DEF TypeOK
  <2>2. CASE Open(c)
    BY <2>2 DEF TypeOK
  <2>3. CASE Hello(c)
    BY <2>3, Zenon DEF TypeOK
  <2>4. CASE Auth(c)
    BY <2>4, Zenon DEF TypeOK
  <2> QED
    BY <2>1, <2>2, <2>3, <2>4
<1>5. (disc \in Tasks)'
  BY DEF TypeOK, LinkOK, Tasks
<1>6. OneOpening'
  BY DEF Links, TypeOK, CallsOK, OneOpening, Labels, Ended, Opening, Waiting,
         Leaving
<1>7. Unattached'
  BY DEF Links, TypeOK, CallsOK, OneOpening, Unattached, Addressed, Labels,
         Ended, Opening, Waiting, Leaving
<1>8. Addressed'
  BY DEF Links, TypeOK, LinkOK, CallsOK, Addressed, Labels, Ended, Opening,
         Waiting, Leaving
<1>9. Settled'
  BY DEF Links, TypeOK, LinkOK, CallsOK, OneOpening, Unattached, Settled,
         Target, Tasks, Labels, Ended, Opening, Waiting, Leaving
<1>10. Target'
  BY DEF Links, TypeOK, LinkOK, CallsOK, Target, Tasks
<1>11. CanConnectAgain'
  BY DEF Links, TypeOK, LinkOK, Target, Tasks, CanConnectAgain
<1>12. NobodyIsStranded'
  <2>1. CASE Connect(c)
    BY <2>1 DEF Links, TypeOK, LinkOK, CallsOK, Registered, Futures,
        Unattached, Addressed, NobodyIsStranded, Labels, Ended, Opening,
        Waiting, Leaving
  <2>2. CASE Open(c)
    BY <2>2 DEF Links, TypeOK, LinkOK, CallsOK, Registered, Futures,
        Unattached, Addressed, NobodyIsStranded, Labels, Ended, Opening,
        Waiting, Leaving
  <2>3. CASE Hello(c)
    <3>1. \A d \in Callers : fut[d] # "wait"
      BY <2>3, ClientAssumption DEF Links, Unattached, Addressed, NobodyIsStranded,
         TypeOK, CallsOK, Registered
    <3>2. CASE UNCHANGED fut
      BY <3>1, <3>2 DEF NobodyIsStranded
    <3>3. CASE fut' = [fut EXCEPT ![c] = "wait"] /\ ws' = via[c] /\ via' = via
      BY <3>1, <3>3 DEF NobodyIsStranded, TypeOK, CallsOK
    <3> QED
      BY <2>3, <3>2, <3>3
  <2>4. CASE Auth(c)
    BY <2>4 DEF Links, TypeOK, LinkOK, CallsOK, Registered, Futures,
        Unattached, Addressed, NobodyIsStranded, Labels, Ended, Opening,
        Waiting, Leaving
  <2> QED
    BY <2>1, <2>2, <2>3, <2>4
<1>13. NoSocketIsLost'
  <2>1. CASE Connect(c)
    BY <2>1 DEF Links, TypeOK, LinkOK, CallsOK, OneOpening, Unattached,
        Addressed, Settled, Target, NoSocketIsLost, Tasks, Labels, Ended,
        Opening, Waiting, Leaving
  <2>2. CASE Open(c)
    BY <2>2 DEF Links, TypeOK, LinkOK, CallsOK, OneOpening, Unattached,
        Addressed, Settled, Target, NoSocketIsLost, Tasks, Labels, Ended,
        Opening, Waiting, Leaving
  <2>3. CASE Hello(c)
    <3> SUFFICES ASSUME NEW s \in Conns, sock'[s] = "open"
                 PROVE  (\/ ws = s \/ s \in unclosed \/ lst[s] = "done"
                         \/ \E d \in Callers : pc[d] \in Opening /\ via[d] = s)'
      BY DEF NoSocketIsLost
    <3>1. ws = None /\ sock[s] = "open" /\ via' = via /\ pc[c] \in Opening
      BY <2>3 DEF Links, Unattached, Opening
    <3>2. pc'[c] \in Opening \/ ws' = via[c]
      BY <2>3 DEF TypeOK, CallsOK, Opening
    <3>3. CASE via[c] = s
      BY <3>1, <3>2, <3>3
    <3>4. CASE via[c] # s
      <4>1. s \in unclosed \/ lst[s] = "done"
        BY <3>1, <3>4, ClientAssumption DEF Links, NoSocketIsLost, OneOpening
      <4> QED
        BY <2>3, <3>4, <4>1 DEF TypeOK, LinkOK
    <3> QED
      BY <3>3, <3>4
  <2>4. CASE Auth(c)
    BY <2>4 DEF Links, TypeOK, LinkOK, CallsOK, OneOpening, Unattached,
        Addressed, Settled, Target, NoSocketIsLost, Tasks, Labels, Ended,
        Opening, Waiting, Leaving
  <2> QED
    BY <2>1, <2>2, <2>3, <2>4
<1>14. Members'
  BY DEF Wins, TypeOK, LinkOK, CallsOK, Running, Members, Tasks, Labels,
         Ended, Opening, Waiting, Leaving
<1>15. Old'
  BY DEF Links, Wins, TypeOK, LinkOK, CallsOK, Marks, Old, Addressed,
         NoSockets, Labels, Ended, Opening, Waiting, Leaving
<1>16. Superseded'
  BY ClientAssumption DEF Links, Wins, TypeOK, LinkOK, CallsOK, Marks, Old,
      Addressed, OneOpening, Owner, Superseded, Unattached, Labels, Ended,
      Opening, Waiting, Leaving
<1>17. Chased'
  BY ClientAssumption DEF Links, Wins, TypeOK, LinkOK, CallsOK, Marks, Tasks,
      Old, Addressed, Owner, Members, Running, Target, Superseded, Chased,
      Unattached, Labels, Ended, Opening, Waiting, Leaving
<1> QED
  BY <1>1, <1>2, <1>3, <1>4, <1>5, <1>6, <1>7, <1>8, <1>9, <1>10, <1>11,
      <1>12, <1>13, <1>14, <1>15, <1>16, <1>17 DEF IInv, TypeOK, Links, Wins

\* The cleanup after a connection that failed.
LEMMA CleaningStep ==
  ASSUME TypeOK, Links, Wins, NEW c \in Callers, Cleanup(c) \/ CleanupJoin(c)
      \/ CleanupClose(c)
  PROVE  IInv'
<1> USE DEF At, Goto, link, Cleanup, CleanupJoin, CleanupClose, Detach,
    FailPending, Cancel
<1>1. LinkOK'
  BY DEF TypeOK, LinkOK, CallsOK, Tasks
<1>2. CallsOK'
  <2>1. CASE Cleanup(c)
    BY <2>1 DEF TypeOK, LinkOK, CallsOK, Labels, Ended, Opening, Waiting,
        Leaving, Futures, Marks
  <2>2. CASE CleanupJoin(c)
    BY <2>2 DEF TypeOK, CallsOK, Labels, Opening
  <2>3. CASE CleanupClose(c)
    <3>1. unclosed' \in SUBSET Conns
      BY <2>3 DEF Links, Addressed, Opening, TypeOK, CallsOK
    <3> QED
      BY <2>3, <3>1 DEF TypeOK, CallsOK, Labels, Ended
  <2> QED
    BY <2>1, <2>2, <2>3
<1>3. Registered'
  BY DEF TypeOK, CallsOK, Registered, Labels, Ended, Opening, Waiting, Leaving
<1>4. (ready \in BOOLEAN)'
  <2>1. CASE Cleanup(c)
    BY <2>1, Zenon DEF TypeOK
  <2>2. CASE CleanupJoin(c)
    BY <2>2 DEF TypeOK
  <2>3. CASE CleanupClose(c)
    BY <2>3 DEF TypeOK
  <2> QED
    BY <2>1, <2>2, <2>3
<1>5. (disc \in Tasks)'
  BY DEF TypeOK, LinkOK, Tasks
<1>6. OneOpening'
  BY DEF Links, TypeOK, CallsOK, OneOpening, Labels, Ended, Opening, Waiting,
         Leaving
<1>7. Unattached'
  BY DEF Links, TypeOK, CallsOK, OneOpening, Unattached, Addressed, Labels,
         Ended, Opening, Waiting, Leaving
<1>8. Addressed'
  BY DEF Links, TypeOK, LinkOK, CallsOK, Addressed, Labels, Ended, Opening,
         Waiting, Leaving
<1>9. Settled'
  BY DEF Links, TypeOK, LinkOK, CallsOK, OneOpening, Unattached, Settled,
         Target, Tasks, Labels, Ended, Opening, Waiting, Leaving
<1>10. Target'
  BY DEF Links, TypeOK, LinkOK, CallsOK, Target, Tasks
<1>11. CanConnectAgain'
  BY DEF Links, TypeOK, LinkOK, Target, Tasks, CanConnectAgain
<1>12. NobodyIsStranded'
  BY DEF Links, TypeOK, LinkOK, CallsOK, Registered, Futures, Unattached,
         Addressed, NobodyIsStranded, Labels, Ended, Opening, Waiting, Leaving
<1>13. NoSocketIsLost'
  BY DEF Links, TypeOK, LinkOK, CallsOK, OneOpening, Unattached, Addressed,
         Settled, Target, NoSocketIsLost, Tasks, Labels, Ended, Opening,
         Waiting, Leaving
<1>14. Members'
  BY DEF Wins, TypeOK, LinkOK, CallsOK, Running, Members, Tasks, Labels,
         Ended, Opening, Waiting, Leaving
<1>15. Old'
  BY DEF Links, Wins, TypeOK, LinkOK, CallsOK, Marks, Old, Addressed,
         NoSockets, Labels, Ended, Opening, Waiting, Leaving
<1>16. Superseded'
  BY ClientAssumption DEF Links, Wins, TypeOK, LinkOK, CallsOK, Marks, Old,
      Addressed, OneOpening, Owner, Superseded, Unattached, Labels, Ended,
      Opening, Waiting, Leaving
<1>17. Chased'
  BY ClientAssumption DEF Links, Wins, TypeOK, LinkOK, CallsOK, Marks, Tasks,
      Old, Addressed, Owner, Members, Running, Target, Superseded, Chased,
      Unattached, Labels, Ended, Opening, Waiting, Leaving
<1> QED
  BY <1>1, <1>2, <1>3, <1>4, <1>5, <1>6, <1>7, <1>8, <1>9, <1>10, <1>11,
      <1>12, <1>13, <1>14, <1>15, <1>16, <1>17 DEF IInv, TypeOK, Links, Wins

\* A command, and the end of a call.
LEMMA EndingStep ==
  ASSUME TypeOK, Links, Wins, NEW c \in Callers, DisconnectReturn(c) \/
      Send(c) \/ Answered(c) \/ Return(c)
  PROVE  IInv'
<1> USE DEF At, Goto, link, DisconnectReturn, NoTask, NoSockets, Send,
    Answered, Return
<1>1. LinkOK'
  BY DEF TypeOK, LinkOK, CallsOK, Tasks
<1>2. CallsOK'
  <2>1. CASE DisconnectReturn(c)
    BY <2>1 DEF TypeOK, LinkOK, CallsOK, Labels, Ended, Opening, Waiting,
        Leaving, Futures, Marks
  <2>2. CASE Send(c)
    BY <2>2 DEF TypeOK, LinkOK, CallsOK, Labels, Ended, Opening, Waiting,
        Leaving, Futures, Marks
  <2>3. CASE Answered(c)
    BY <2>3 DEF TypeOK, LinkOK, CallsOK, Labels, Ended, Opening, Waiting,
        Leaving, Futures, Marks
  <2>4. CASE Return(c)
    BY <2>4 DEF TypeOK, LinkOK, CallsOK, Labels, Ended, Opening, Waiting,
        Leaving, Futures, Marks
  <2> QED
    BY <2>1, <2>2, <2>3, <2>4
<1>3. Registered'
  BY DEF TypeOK, CallsOK, Registered, Labels, Ended, Opening, Waiting, Leaving
<1>4. (ready \in BOOLEAN)'
  BY DEF TypeOK
<1>5. (disc \in Tasks)'
  BY DEF TypeOK, LinkOK, Tasks
<1>6. OneOpening'
  BY DEF Links, TypeOK, CallsOK, OneOpening, Labels, Ended, Opening, Waiting,
         Leaving
<1>7. Unattached'
  BY DEF Links, TypeOK, CallsOK, OneOpening, Unattached, Addressed, Labels,
         Ended, Opening, Waiting, Leaving
<1>8. Addressed'
  BY DEF Links, TypeOK, LinkOK, CallsOK, Addressed, Labels, Ended, Opening,
         Waiting, Leaving
<1>9. Settled'
  BY DEF Links, TypeOK, LinkOK, CallsOK, OneOpening, Unattached, Settled,
         Target, Tasks, Labels, Ended, Opening, Waiting, Leaving
<1>10. Target'
  BY DEF Links, TypeOK, LinkOK, CallsOK, Target, Tasks
<1>11. CanConnectAgain'
  BY DEF Links, TypeOK, LinkOK, Target, Tasks, CanConnectAgain
<1>12. NobodyIsStranded'
  BY DEF Links, TypeOK, LinkOK, CallsOK, Registered, Futures, Unattached,
         Addressed, NobodyIsStranded, Labels, Ended, Opening, Waiting, Leaving
<1>13. NoSocketIsLost'
  BY DEF Links, TypeOK, LinkOK, CallsOK, OneOpening, Unattached, Addressed,
         Settled, Target, NoSocketIsLost, Tasks, Labels, Ended, Opening,
         Waiting, Leaving
<1>14. Members'
  BY DEF Wins, TypeOK, LinkOK, CallsOK, Running, Members, Tasks, Labels,
         Ended, Opening, Waiting, Leaving
<1>15. Old'
  BY DEF Links, Wins, TypeOK, LinkOK, CallsOK, Marks, Old, Addressed,
         NoSockets, Labels, Ended, Opening, Waiting, Leaving
<1>16. Superseded'
  BY ClientAssumption DEF Links, Wins, TypeOK, LinkOK, CallsOK, Marks, Old,
      Addressed, OneOpening, Owner, Superseded, Unattached, Labels, Ended,
      Opening, Waiting, Leaving
<1>17. Chased'
  <2>1. CASE DisconnectReturn(c)
    BY <2>1, ClientAssumption DEF Links, Wins, TypeOK, LinkOK, CallsOK,
        Marks, Tasks, Old, Addressed, Owner, Members, Running, Target,
        Superseded, Chased, Unattached, Labels, Ended, Opening, Waiting,
        Leaving
  <2>2. CASE Send(c)
    BY <2>2, ClientAssumption DEF Links, Wins, TypeOK, LinkOK, CallsOK,
        Marks, Tasks, Old, Addressed, Owner, Members, Running, Target,
        Superseded, Chased, Unattached, Labels, Ended, Opening, Waiting,
        Leaving
  <2>3. CASE Answered(c)
    BY <2>3, ClientAssumption DEF Links, Wins, TypeOK, LinkOK, CallsOK,
        Marks, Tasks, Old, Addressed, Owner, Members, Running, Target,
        Superseded, Chased, Unattached, Labels, Ended, Opening, Waiting,
        Leaving
  <2>4. CASE Return(c)
    BY <2>4, ClientAssumption DEF Links, Wins, TypeOK, LinkOK, CallsOK,
        Marks, Tasks, Old, Addressed, Owner, Members, Running, Target,
        Superseded, Chased, Unattached, Labels, Ended, Opening, Waiting,
        Leaving
  <2> QED
    BY <2>1, <2>2, <2>3, <2>4
<1> QED
  BY <1>1, <1>2, <1>3, <1>4, <1>5, <1>6, <1>7, <1>8, <1>9, <1>10, <1>11,
      <1>12, <1>13, <1>14, <1>15, <1>16, <1>17 DEF IInv, TypeOK, Links, Wins

\* The disconnect task.
LEMMA DisconnectStep ==
  ASSUME TypeOK, Links, Wins, Disconnects
  PROVE  IInv'
<1> USE DEF At, Goto, link, Disconnects, Disconnect, DisconnectClose,
    DisconnectJoin, EndDisconnect, Detach, FailPending, Cancel
<1>1. LinkOK'
  BY DEF TypeOK, LinkOK, CallsOK, Tasks
<1>2. CallsOK'
  BY DEF TypeOK, LinkOK, CallsOK, Labels, Ended, Opening, Waiting, Leaving,
         Futures, Marks
<1>3. Registered'
  BY DEF TypeOK, CallsOK, Registered, Labels, Ended, Opening, Waiting, Leaving
<1>4. (ready \in BOOLEAN)'
  <2>1. CASE Disconnect
    BY <2>1, Zenon DEF TypeOK
  <2>2. CASE DisconnectClose
    BY <2>2 DEF TypeOK
  <2>3. CASE DisconnectJoin
    BY <2>3 DEF TypeOK
  <2> QED
    BY <2>1, <2>2, <2>3
<1>5. (disc \in Tasks)'
  <2>1. CASE Disconnect
    BY <2>1, Zenon DEF TypeOK, LinkOK, Tasks
  <2>2. CASE DisconnectClose
    BY <2>2 DEF TypeOK, LinkOK, Tasks
  <2>3. CASE DisconnectJoin
    BY <2>3 DEF TypeOK, LinkOK, Tasks
  <2> QED
    BY <2>1, <2>2, <2>3
<1>6. OneOpening'
  BY DEF Links, TypeOK, CallsOK, OneOpening, Labels, Ended, Opening, Waiting,
         Leaving
<1>7. Unattached'
  BY DEF Links, TypeOK, CallsOK, OneOpening, Unattached, Addressed, Labels,
         Ended, Opening, Waiting, Leaving
<1>8. Addressed'
  BY DEF Links, TypeOK, LinkOK, CallsOK, Addressed, Labels, Ended, Opening,
         Waiting, Leaving
<1>9. Settled'
  <2>1. CASE Disconnect
    BY <2>1 DEF Links, TypeOK, LinkOK, CallsOK, OneOpening, Unattached,
        Settled, Target, Tasks, Labels, Ended, Opening, Waiting, Leaving
  <2>2. CASE DisconnectClose
    <3> SUFFICES ASSUME NEW c \in Callers, pc'[c] = "auth", ~stale'[c]
                 PROVE  (\/ ws = via[c] \/ lst[via[c]] = "done"
                         \/ sock[via[c]] = "closed")'
      BY DEF Settled
    <3>1. pc[c] = "auth" /\ ~stale[c] /\ via[c] \in Conns /\ via' = via /\ ws' = ws
      BY <2>2 DEF Links, Addressed, TypeOK, CallsOK, Opening, Waiting
    <3>2. lst[via[c]] = "done" => lst'[via[c]] = "done"
      BY <2>2, <3>1 DEF TypeOK, LinkOK
    <3>3. sock[via[c]] = "closed" => sock'[via[c]] = "closed"
      BY <2>2, <3>1 DEF TypeOK, LinkOK
    <3> QED
      BY <3>1, <3>2, <3>3 DEF Links, Settled
  <2>3. CASE DisconnectJoin
    BY <2>3 DEF Links, TypeOK, LinkOK, CallsOK, OneOpening, Unattached,
        Settled, Target, Tasks, Labels, Ended, Opening, Waiting, Leaving
  <2> QED
    BY <2>1, <2>2, <2>3
<1>10. Target'
  <2>1. CASE Disconnect
    BY <2>1, Zenon DEF Links, TypeOK, LinkOK, CallsOK, Target, Tasks
  <2>2. CASE DisconnectClose
    BY <2>2 DEF Links, TypeOK, LinkOK, CallsOK, Target, Tasks
  <2>3. CASE DisconnectJoin
    BY <2>3 DEF Links, TypeOK, LinkOK, CallsOK, Target, Tasks
  <2> QED
    BY <2>1, <2>2, <2>3
<1>11. CanConnectAgain'
  BY DEF Links, TypeOK, LinkOK, Target, Tasks, CanConnectAgain
<1>12. NobodyIsStranded'
  BY DEF Links, TypeOK, LinkOK, CallsOK, Registered, Futures, Unattached,
         Addressed, NobodyIsStranded, Labels, Ended, Opening, Waiting, Leaving
<1>13. NoSocketIsLost'
  BY DEF Links, TypeOK, LinkOK, CallsOK, OneOpening, Unattached, Addressed,
         Settled, Target, NoSocketIsLost, Tasks, Labels, Ended, Opening,
         Waiting, Leaving
<1>14. Members'
  <2>1. CASE Disconnect
    BY <2>1, Zenon DEF Wins, TypeOK, LinkOK, CallsOK, Running, Members, Tasks,
        Labels, Ended, Opening, Waiting, Leaving
  <2>2. CASE DisconnectClose
    BY <2>2 DEF Wins, TypeOK, LinkOK, CallsOK, Running, Members, Tasks,
        Labels, Ended, Opening, Waiting, Leaving
  <2>3. CASE DisconnectJoin
    BY <2>3 DEF Wins, TypeOK, LinkOK, CallsOK, Running, Members, Tasks,
        Labels, Ended, Opening, Waiting, Leaving
  <2> QED
    BY <2>1, <2>2, <2>3
<1>15. Old'
  BY DEF Links, Wins, TypeOK, LinkOK, CallsOK, Marks, Old, Addressed,
         NoSockets, Labels, Ended, Opening, Waiting, Leaving
<1>16. Superseded'
  BY ClientAssumption DEF Links, Wins, TypeOK, LinkOK, CallsOK, Marks, Old,
      Addressed, OneOpening, Owner, Superseded, Unattached, Labels, Ended,
      Opening, Waiting, Leaving
<1>17. Chased'
  <2>1. CASE Disconnect
    <3>1. CASE ws = None
      BY <2>1, <3>1, ClientAssumption DEF Chased, TypeOK, CallsOK, Marks, Wins
    <3>2. CASE ws # None
      BY <2>1, <3>2 DEF Chased, Owner, TypeOK, Tasks, Wins
    <3> QED
      BY <3>1, <3>2
  <2>2. CASE DisconnectClose
    BY <2>2, ClientAssumption DEF Links, Wins, TypeOK, LinkOK, CallsOK, Marks,
        Tasks, Old, Addressed, Owner, Members, Running, Target, Superseded,
        Chased, Unattached, Labels, Ended, Opening, Waiting, Leaving
  <2>3. CASE DisconnectJoin
    BY <2>3, ClientAssumption DEF Links, Wins, TypeOK, LinkOK, CallsOK, Marks,
        Tasks, Old, Addressed, Owner, Members, Running, Target, Superseded,
        Chased, Unattached, Labels, Ended, Opening, Waiting, Leaving
  <2> QED
    BY <2>1, <2>2, <2>3
<1> QED
  BY <1>1, <1>2, <1>3, <1>4, <1>5, <1>6, <1>7, <1>8, <1>9, <1>10, <1>11,
      <1>12, <1>13, <1>14, <1>15, <1>16, <1>17 DEF IInv, TypeOK, Links, Wins

\* The listener and the other end of its socket.
LEMMA SocketStep ==
  ASSUME TypeOK, Links, Wins, NEW s \in Conns, Receive(s) \/ ListenEnd(s) \/
      Hangup(s)
  PROVE  IInv'
<1> USE DEF At, link, Receive, ListenEnd, FailPending, Hangup
<1>1. LinkOK'
  BY DEF TypeOK, LinkOK, CallsOK, Tasks
<1>2. CallsOK'
  BY DEF TypeOK, LinkOK, CallsOK, Labels, Ended, Opening, Waiting, Leaving,
         Futures, Marks
<1>3. Registered'
  BY DEF TypeOK, CallsOK, Registered, Labels, Ended, Opening, Waiting, Leaving
<1>4. (ready \in BOOLEAN)'
  <2>1. CASE Receive(s)
    BY <2>1 DEF TypeOK
  <2>2. CASE ListenEnd(s)
    BY <2>2, Zenon DEF TypeOK
  <2>3. CASE Hangup(s)
    BY <2>3 DEF TypeOK
  <2> QED
    BY <2>1, <2>2, <2>3
<1>5. (disc \in Tasks)'
  BY DEF TypeOK, LinkOK, Tasks
<1>6. OneOpening'
  BY DEF Links, TypeOK, CallsOK, OneOpening, Labels, Ended, Opening, Waiting,
         Leaving
<1>7. Unattached'
  BY DEF Links, TypeOK, CallsOK, OneOpening, Unattached, Addressed, Labels,
         Ended, Opening, Waiting, Leaving
<1>8. Addressed'
  BY DEF Links, TypeOK, LinkOK, CallsOK, Addressed, Labels, Ended, Opening,
         Waiting, Leaving
<1>9. Settled'
  <2>1. CASE Receive(s)
    BY <2>1 DEF Links, TypeOK, LinkOK, CallsOK, OneOpening, Unattached,
        Settled, Target, Tasks, Labels, Ended, Opening, Waiting, Leaving
  <2>2. CASE ListenEnd(s)
    BY <2>2 DEF Links, TypeOK, LinkOK, CallsOK, OneOpening, Unattached,
        Settled, Target, Tasks, Labels, Ended, Opening, Waiting, Leaving
  <2>3. CASE Hangup(s)
    BY <2>3 DEF Links, TypeOK, LinkOK, CallsOK, OneOpening, Unattached,
        Settled, Target, Tasks, Labels, Ended, Opening, Waiting, Leaving
  <2> QED
    BY <2>1, <2>2, <2>3
<1>10. Target'
  BY DEF Links, TypeOK, LinkOK, CallsOK, Target, Tasks
<1>11. CanConnectAgain'
  BY DEF Links, TypeOK, LinkOK, Target, Tasks, CanConnectAgain
<1>12. NobodyIsStranded'
  BY DEF Links, TypeOK, LinkOK, CallsOK, Registered, Futures, Unattached,
         Addressed, NobodyIsStranded, Labels, Ended, Opening, Waiting, Leaving
<1>13. NoSocketIsLost'
  BY DEF Links, TypeOK, LinkOK, CallsOK, OneOpening, Unattached, Addressed,
         Settled, Target, NoSocketIsLost, Tasks, Labels, Ended, Opening,
         Waiting, Leaving
<1>14. Members'
  BY DEF Wins, TypeOK, LinkOK, CallsOK, Running, Members, Tasks, Labels,
         Ended, Opening, Waiting, Leaving
<1>15. Old'
  BY DEF Links, Wins, TypeOK, LinkOK, CallsOK, Marks, Old, Addressed,
         NoSockets, Labels, Ended, Opening, Waiting, Leaving
<1>16. Superseded'
  BY ClientAssumption DEF Links, Wins, TypeOK, LinkOK, CallsOK, Marks, Old,
      Addressed, OneOpening, Owner, Superseded, Unattached, Labels, Ended,
      Opening, Waiting, Leaving
<1>17. Chased'
  BY ClientAssumption DEF Links, Wins, TypeOK, LinkOK, CallsOK, Marks, Tasks,
      Old, Addressed, Owner, Members, Running, Target, Superseded, Chased,
      Unattached, Labels, Ended, Opening, Waiting, Leaving
<1> QED
  BY <1>1, <1>2, <1>3, <1>4, <1>5, <1>6, <1>7, <1>8, <1>9, <1>10, <1>11,
      <1>12, <1>13, <1>14, <1>15, <1>16, <1>17 DEF IInv, TypeOK, Links, Wins

\* Every step keeps the inductive invariant.
LEMMA InductiveStep == IInv /\ [Next]_vars => IInv'
<1> SUFFICES ASSUME IInv, [Next]_vars PROVE IInv'
  OBVIOUS
<1> USE DEF IInv
<1>1. CASE UNCHANGED vars
  BY <1>1 DEF vars, link, TypeOK, LinkOK, CallsOK, Registered, Links, OneOpening,
     Unattached, Addressed, Settled, Target, CanConnectAgain, NobodyIsStranded,
     NoSocketIsLost, Wins, Members, Old, Superseded, Chased, Owner
<1>2. CASE \E c \in Callers : Call(c) \/ Proceeds(c) \/ Return(c)
  BY <1>2, CallStep, OpeningStep, CleaningStep, EndingStep DEF Proceeds
<1>3. CASE Disconnects
  BY <1>3, DisconnectStep
<1>4. CASE \E s \in Conns : Receive(s) \/ ListenEnd(s) \/ Hangup(s)
  BY <1>4, SocketStep
<1> QED
  BY <1>1, <1>2, <1>3, <1>4 DEF Next

THEOREM Inductive == Spec => []IInv
<1>1. Init => IInv
  <2> SUFFICES ASSUME Init PROVE IInv
    OBVIOUS
  <2>1. TypeOK
    BY DEF Init, TypeOK, LinkOK, CallsOK, Registered, Labels, Ended, Opening,
       Waiting, Leaving, Futures, Tasks, Marks, NoTask, NoSockets
  <2>2. Links
    BY DEF Init, Links, OneOpening, Unattached, Addressed, Settled, Target,
       CanConnectAgain, NobodyIsStranded, NoSocketIsLost, Opening, Waiting, NoTask
  <2>3. Wins
    BY DEF Init, Wins, Members, Old, Superseded, Chased, Owner, Running, NoTask,
       NoSockets
  <2> QED
    BY <2>1, <2>2, <2>3 DEF IInv
<1> QED
  BY <1>1, InductiveStep, PTL DEF Spec

\* Every variable of the client keeps its type, and a future is registered
\* exactly while its caller waits for it.
THEOREM ClientTypes == Spec => []TypeOK
BY Inductive, PTL DEF IInv

\* A lost connection never forbids the next one (the guards of async_connect).
THEOREM ConnectsAgain == Spec => []CanConnectAgain
BY Inductive, PTL DEF IInv, Links

\* Whoever waits for an answer waits for one of the attached socket
\* (_fail_pending on every path that detaches it).
THEOREM NobodyWaitsForALostSocket == Spec => []NobodyIsStranded
BY Inductive, PTL DEF IInv, Links

\* Every open socket has an owner, unless its listener gave up on it or the
\* close that follows a failed connect raised.
THEOREM SocketsHaveOwners == Spec => []NoSocketIsLost
BY Inductive, PTL DEF IInv, Links

\* A disconnect that started its own task returns to a client that is not
\* connected through any socket of before the call.
THEOREM DisconnectIsFinal == Spec => DisconnectWins
<1> DEFINE Won(c) ==
      At(c, "dc_ok") /\ pc'[c] = "disconnected" /\ ~before[c].joined
        => ~(ready' /\ ws' \in before[c].open)
<1>1. ASSUME IInv, [Next]_vars, NEW c \in Callers, At(c, "dc_ok"),
             pc'[c] = "disconnected", ~before[c].joined
      PROVE  ~(ready' /\ ws' \in before[c].open)
  <2>1. ws \notin before[c].open
    BY <1>1 DEF IInv, Wins, Chased, Owner, At
  <2>2. CASE ws' = ws
    BY <2>1, <2>2
  <2>3. CASE ws' # ws
    <3>1. pc'[c] = pc[c]
      BY <2>3, <1>1 DEF At, Goto, Next, vars, link, Call, Proceeds, Return,
         StartConnect, StartDisconnect, StartCommand, Connect, Open, OpenWith,
         Hello, Auth, Cleanup, CleanupJoin, CleanupClose, DisconnectReturn, Send,
         Answered, Disconnects, Disconnect, DisconnectClose, DisconnectJoin,
         EndDisconnect, Receive, ListenEnd, Hangup, IInv, TypeOK, CallsOK
    <3> QED
      BY <3>1, <1>1 DEF At
  <2> QED
    BY <2>2, <2>3
<1>2. IInv /\ [Next]_vars => [\A c \in Callers : Won(c)]_vars
  BY <1>1
<1> QED
  BY <1>2, Inductive, PTL DEF Spec, DisconnectWins
=============================================================================
