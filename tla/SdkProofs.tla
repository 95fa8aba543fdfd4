------------------------------ MODULE SdkProofs ------------------------------
(***************************************************************************)
(* Proofs about the Flutter SDK: the connection it holds (SdkLifecycle),   *)
(* for every number of connections and faults, and what it shows of a room *)
(* (SdkSync), for every length of the session and number of changes,       *)
(* faults and calls.                                                       *)
(***************************************************************************)
EXTENDS SdkLifecycle, SdkSync, FiniteSetTheorems, WellFoundedInduction, TLAPS

-----------------------------------------------------------------------------
(***************************************************************************)
(* The connection: the inductive invariant of SdkLifecycle.                *)
(***************************************************************************)

\* Who begins a task decides its kind; only a task of the reconnect timer
\* forces, and only a task knows a connection before it connects.
TaskShape ==
  Busy =>
    /\ (task.kind = "resync") <=> (task.by = "host")
    /\ task.kind = "resync" => task.at = "syncing"
    /\ task.force => task.by = "timer"
    /\ task.at = "syncing" => task.link # None

\* A connection that is open is the one listened to or is being closed, and it
\* is the one the task knows.
Links ==
  /\ open = dying \cup ({connection} \ {None})
  /\ \A a, b \in open : a = b
  /\ task.at \in {"token", "connecting"} => open = {}
  /\ task.at = "detaching" \/ (Busy /\ task.at = "failing") =>
       connection = None /\ open \subseteq {task.link}
  /\ task.at = "syncing" =>
       /\ open \subseteq {task.link}
       /\ connection = IF closed THEN None ELSE task.link
  /\ ~Busy /\ ~closed => dying = {}

\* A closed SDK listens to nothing and has no timers.
ClosedStops ==
  /\ closed => connection = None /\ ~timer /\ ~refreshTimer
  /\ closing = "closed" => ~Busy /\ dying = {}

\* Only the end of a replacement sets the refresh timer, and callbacks wait
\* for nothing but a task.
WaitersWait ==
  /\ ~Busy => waiters = {}
  /\ Busy /\ task.by = "timer" => waiters # {}
  /\ Busy /\ task.kind = "replace" => ~refreshTimer

\* An SDK whose connection is in place knows why it will be replaced.
ReasonToWake ==
  started /\ (~Busy \/ task.kind = "resync") => replacement \/ lost \/ refreshTimer

\* A task that forces began with the reconnect timer, which stays off, so that
\* what is asked for meanwhile waits in the flag.
ForcedTask ==
  Busy /\ task.force => ~timer /\ (owed => force \/ absorbed)

IInv ==
  /\ TypeOK /\ TaskShape /\ Links /\ ClosedStops /\ WaitersWait
  /\ ReasonToWake /\ ForcedTask /\ NeverStranded /\ ForceRemembered

-----------------------------------------------------------------------------
(***************************************************************************)
(* The task.                                                               *)
(***************************************************************************)

\* The task that start() begins.
LEMMA StartedTask ==
  ASSUME IInv, Start
  PROVE  task' \in Task /\ task'.by = "start"
<1>1. connection \in Connection \cup {None}
  BY DEF IInv, TypeOK
<1>2. task' = [kind |-> "replace", at |-> "detaching", by |-> "start",
               force |-> FALSE, link |-> connection]
  BY Zenon DEF Start, BeginReplace
<1>3. QED BY <1>1, <1>2 DEF Task, Stages

\* A task that goes on keeps what it was begun for.
LEMMA MovedTask ==
  ASSUME task \in Task, NEW stage \in Stages, NEW c \in Connection \cup {None},
         task' = [task EXCEPT !.at = stage, !.link = c]
  PROVE  /\ task' \in Task /\ task' # NoTask
         /\ task'.at = stage /\ task'.link = c
         /\ task'.kind = task.kind /\ task'.by = task.by /\ task'.force = task.force
<1> DEFINE moved == [task EXCEPT !.at = stage]
<1>1. /\ moved \in Task /\ moved.at = stage /\ moved.kind = task.kind
      /\ moved.by = task.by /\ moved.force = task.force
  BY DEF Task, Stages
<1>2. task' = [moved EXCEPT !.link = c]
  BY Zenon
<1> HIDE DEF moved
<1>3. QED BY <1>1, <1>2 DEF Task, NoTask

\* The old connection is closed.
LEMMA DetachedTask ==
  ASSUME IInv, Detached
  PROVE  /\ task' \in Task /\ task' # NoTask
         /\ task'.at = "token" /\ task'.link = None
         /\ task'.kind = task.kind /\ task'.by = task.by /\ task'.force = task.force
         /\ task.at = "detaching" /\ task.link \notin dying
         /\ UNCHANGED <<started, closing, connection, open, dying, lost, replacement,
                        force, timer, waiters, refreshTimer, state, owed, absorbed, faults>>
<1>1. task \in Task
  BY DEF IInv, TypeOK, Detached, NoTask
<1>2. /\ task' = [task EXCEPT !.at = "token", !.link = None]
      /\ task.at = "detaching" /\ task.link \notin dying
  BY Zenon DEF Detached
<1>3. UNCHANGED <<started, closing, connection, open, dying, lost, replacement,
                  force, timer, waiters, refreshTimer, state, owed, absorbed, faults>>
  BY Zenon DEF Detached, requests, timers, history
<1>4. /\ task' \in Task /\ task' # NoTask
      /\ task'.at = "token" /\ task'.link = None
      /\ task'.kind = task.kind /\ task'.by = task.by /\ task'.force = task.force
  BY <1>1, <1>2, MovedTask DEF Stages
<1>5. QED BY <1>2, <1>3, <1>4

\* The new connection has arrived, in time or too late.
LEMMA ConnectedTask ==
  ASSUME IInv, NEW c \in Connection, Connected(c)
  PROVE  /\ task' \in Task /\ task' # NoTask
         /\ task'.at = (IF closed THEN "failing" ELSE "syncing") /\ task'.link = c
         /\ task'.kind = task.kind /\ task'.by = task.by /\ task'.force = task.force
         /\ task.at = "connecting" /\ c \notin open /\ open' = open \cup {c}
         /\ closed => dying' = dying \cup {c} /\ UNCHANGED <<connection, state>>
         /\ ~closed => connection' = c /\ state' = "synchronizing" /\ UNCHANGED dying
         /\ UNCHANGED <<started, closing, lost, replacement, force, timer, waiters,
                        refreshTimer, owed, absorbed, faults>>
<1> DEFINE stage == IF closed THEN "failing" ELSE "syncing"
<1>1. task \in Task
  BY DEF IInv, TypeOK, Connected, NoTask
<1>2. stage \in Stages
  BY DEF Stages
<1>3. /\ task' = [task EXCEPT !.at = stage, !.link = c]
      /\ task.at = "connecting" /\ c \notin open /\ open' = open \cup {c}
  BY Zenon DEF Connected
<1>4. /\ closed => dying' = dying \cup {c} /\ UNCHANGED <<connection, state>>
      /\ ~closed => connection' = c /\ state' = "synchronizing" /\ UNCHANGED dying
  BY Zenon DEF Connected, CloseLate
<1>5. UNCHANGED <<started, closing, lost, replacement, force, timer, waiters,
                  refreshTimer, owed, absorbed, faults>>
  BY Zenon DEF Connected, requests, timers, history
<1> HIDE DEF stage
<1>6. /\ task' \in Task /\ task' # NoTask /\ task'.at = stage /\ task'.link = c
      /\ task'.kind = task.kind /\ task'.by = task.by /\ task'.force = task.force
  BY <1>1, <1>2, <1>3, MovedTask
<1>7. QED BY <1>3, <1>4, <1>5, <1>6 DEF stage

-----------------------------------------------------------------------------
(***************************************************************************)
(* Every action keeps the invariant.                                       *)
(***************************************************************************)

LEMMA StartKeeps ==
  ASSUME IInv, faults' \in 0 .. MaxFaults, Start
  PROVE  IInv'
<1>1. TypeOK'
  BY StartedTask DEF IInv, TypeOK, Start, BeginReplace, Detach, ClearRequests,
     closed, States
<1>2. TaskShape'
  BY DEF TaskShape, Start, BeginReplace, Detach, ClearRequests
<1>3. Links'
  BY DEF IInv, Links, Start, BeginReplace, Detach, ClearRequests, Busy
<1>4. ClosedStops'
  BY DEF ClosedStops, Start, BeginReplace, Detach, ClearRequests, closed
<1>5. WaitersWait'
  BY DEF WaitersWait, Start, BeginReplace, Detach, ClearRequests, Busy, NoTask
<1>6. ReasonToWake'
  BY DEF ReasonToWake, Start, BeginReplace, Detach, ClearRequests, Busy, NoTask
<1>7. ForcedTask'
  BY DEF ForcedTask, Start, BeginReplace, Detach, ClearRequests
<1>8. NeverStranded'
  BY DEF NeverStranded, Start, BeginReplace, Detach, ClearRequests, Busy, NoTask
<1>9. ForceRemembered'
  BY DEF IInv, TypeOK, ForceRemembered, Start, BeginReplace, Detach, ClearRequests
<1>10. QED BY <1>1, <1>2, <1>3, <1>4, <1>5, <1>6, <1>7, <1>8, <1>9 DEF IInv

LEMMA DetachedKeeps ==
  ASSUME IInv, faults' \in 0 .. MaxFaults, Detached
  PROVE  IInv'
<1>1. TypeOK'
  BY DetachedTask DEF IInv, TypeOK, closed
<1>2. TaskShape'
  BY DetachedTask DEF IInv, TaskShape, Busy, NoTask
<1>3. Links'
  BY DetachedTask DEF IInv, Links
<1>4. ClosedStops'
  BY DetachedTask DEF IInv, ClosedStops, closed, Busy, NoTask
<1>5. WaitersWait'
  BY DetachedTask DEF IInv, WaitersWait, Busy, NoTask
<1>6. ReasonToWake'
  BY DetachedTask DEF IInv, ReasonToWake, Busy
<1>7. ForcedTask'
  BY DetachedTask DEF IInv, ForcedTask, Detached, Busy, NoTask, requests, timers,
     history
<1>8. NeverStranded'
  BY DetachedTask DEF NeverStranded, Busy
<1>9. ForceRemembered'
  BY DetachedTask DEF IInv, ForceRemembered
<1>10. QED BY <1>1, <1>2, <1>3, <1>4, <1>5, <1>6, <1>7, <1>8, <1>9 DEF IInv

LEMMA GetTokenKeeps ==
  ASSUME IInv, faults' \in 0 .. MaxFaults, GetToken
  PROVE  IInv'
<1>1. TypeOK'
  BY DEF IInv, TypeOK, GetToken, closed, Task, NoTask, Stages, requests, timers,
     history
<1>2. TaskShape'
  BY DEF IInv, TaskShape, GetToken, Busy, NoTask
<1>3. Links'
  BY DEF IInv, Links, GetToken
<1>4. ClosedStops'
  BY DEF ClosedStops, GetToken, closed
<1>5. WaitersWait'
  BY DEF IInv, WaitersWait, GetToken, Busy, NoTask, timers
<1>6. ReasonToWake'
  BY DEF IInv, ReasonToWake, GetToken, Busy, NoTask, requests, timers
<1>7. ForcedTask'
  BY DEF IInv, ForcedTask, GetToken, Busy, NoTask, requests, timers, history
<1>8. NeverStranded'
  BY DEF NeverStranded, GetToken, Busy, NoTask
<1>9. ForceRemembered'
  BY DEF IInv, ForceRemembered, GetToken, requests, timers, history
<1>10. QED BY <1>1, <1>2, <1>3, <1>4, <1>5, <1>6, <1>7, <1>8, <1>9 DEF IInv

LEMMA ConnectedKeeps ==
  ASSUME IInv, NEW c \in Connection, faults' \in 0 .. MaxFaults, Connected(c)
  PROVE  IInv'
<1>1. TypeOK'
  BY ConnectedTask DEF IInv, TypeOK, closed, States
<1>2. TaskShape'
  BY SdkLifecycleAssumption, ConnectedTask DEF IInv, TaskShape, Busy, NoTask
<1>3. Links'
  BY SdkLifecycleAssumption, ConnectedTask DEF IInv, Links, closed
<1>4. ClosedStops'
  BY ConnectedTask DEF IInv, ClosedStops, closed, Busy, NoTask
<1>5. WaitersWait'
  BY ConnectedTask DEF IInv, WaitersWait, Busy, NoTask
<1>6. ReasonToWake'
  BY ConnectedTask DEF IInv, ReasonToWake, Busy
<1>7. ForcedTask'
  <2>1. /\ Busy /\ task'.force = task.force
        /\ timer' = timer /\ owed' = owed /\ force' = force /\ absorbed' = absorbed
    BY ConnectedTask DEF Busy, NoTask
  <2>2. QED BY <2>1, Zenon DEF IInv, ForcedTask
<1>8. NeverStranded'
  BY ConnectedTask DEF NeverStranded, Busy
<1>9. ForceRemembered'
  BY ConnectedTask DEF IInv, ForceRemembered
<1>10. QED BY <1>1, <1>2, <1>3, <1>4, <1>5, <1>6, <1>7, <1>8, <1>9 DEF IInv

LEMMA ConnectionClosedKeeps ==
  ASSUME IInv, NEW c \in Connection, faults' \in 0 .. MaxFaults, ConnectionClosed(c)
  PROVE  IInv'
<1>1. TypeOK'
  BY DEF IInv, TypeOK, ConnectionClosed, closed, requests, timers, history
<1>2. TaskShape'
  BY DEF IInv, TaskShape, ConnectionClosed, Busy
<1>3. Links'
  BY DEF IInv, TypeOK, Links, ConnectionClosed, closed
<1>4. ClosedStops'
  BY DEF IInv, ClosedStops, ConnectionClosed, closed, timers
<1>5. WaitersWait'
  BY DEF IInv, WaitersWait, ConnectionClosed, Busy, timers
<1>6. ReasonToWake'
  BY DEF IInv, ReasonToWake, ConnectionClosed, Busy, requests, timers
<1>7. ForcedTask'
  BY DEF IInv, ForcedTask, ConnectionClosed, Busy, requests, timers, history
<1>8. NeverStranded'
  BY DEF IInv, NeverStranded, ConnectionClosed, Busy, requests, timers
<1>9. ForceRemembered'
  BY DEF IInv, ForceRemembered, ConnectionClosed, requests, timers, history
<1>10. QED BY <1>1, <1>2, <1>3, <1>4, <1>5, <1>6, <1>7, <1>8, <1>9 DEF IInv

LEMMA FinishReplaceKeeps ==
  ASSUME IInv, NEW degraded \in BOOLEAN, faults' \in 0 .. MaxFaults, FinishReplace(degraded)
  PROVE  IInv'
<1>1. TypeOK'
  BY DEF IInv, TypeOK, FinishReplace, Succeed, FollowUp, closed, States
<1>2. TaskShape'
  BY DEF TaskShape, FinishReplace, Succeed, FollowUp, Busy
<1>3. Links'
  BY SdkLifecycleAssumption DEF IInv, TypeOK, Links, FinishReplace, Succeed,
     FollowUp, Busy, NoTask
<1>4. ClosedStops'
  BY DEF ClosedStops, FinishReplace, Succeed, FollowUp, closed
<1>5. WaitersWait'
  BY DEF WaitersWait, FinishReplace, Succeed, FollowUp, Busy
<1>6. ReasonToWake'
  BY DEF ReasonToWake, FinishReplace, Succeed, FollowUp
<1>7. ForcedTask'
  BY DEF ForcedTask, FinishReplace, Succeed, FollowUp, Busy
<1>8. NeverStranded'
  BY DEF IInv, TypeOK, TaskShape, Links, NeverStranded, FinishReplace, Succeed,
     FollowUp
<1>9. ForceRemembered'
  BY DEF IInv, WaitersWait, ForcedTask, ForceRemembered, FinishReplace, Succeed,
     FollowUp
<1>10. QED BY <1>1, <1>2, <1>3, <1>4, <1>5, <1>6, <1>7, <1>8, <1>9 DEF IInv

LEMMA FinishResyncKeeps ==
  ASSUME IInv, NEW degraded \in BOOLEAN, faults' \in 0 .. MaxFaults, FinishResync(degraded)
  PROVE  IInv'
<1>1. TypeOK'
  BY DEF IInv, TypeOK, FinishResync, Succeed, FollowUp, closed, States
<1>2. TaskShape'
  BY DEF TaskShape, FinishResync, Succeed, FollowUp, Busy
<1>3. Links'
  BY DEF IInv, TypeOK, TaskShape, Links, FinishResync, Succeed, FollowUp, Busy,
     NoTask
<1>4. ClosedStops'
  BY DEF ClosedStops, FinishResync, Succeed, FollowUp, closed
<1>5. WaitersWait'
  BY DEF WaitersWait, FinishResync, Succeed, FollowUp, Busy
<1>6. ReasonToWake'
  BY DEF IInv, TypeOK, ReasonToWake, FinishResync, Succeed, FollowUp
<1>7. ForcedTask'
  BY DEF ForcedTask, FinishResync, Succeed, FollowUp, Busy
<1>8. NeverStranded'
  BY DEF IInv, TypeOK, TaskShape, Links, ReasonToWake, NeverStranded, FinishResync,
     Succeed, FollowUp
<1>9. ForceRemembered'
  BY DEF IInv, WaitersWait, ForcedTask, ForceRemembered, FinishResync, Succeed,
     FollowUp
<1>10. QED BY <1>1, <1>2, <1>3, <1>4, <1>5, <1>6, <1>7, <1>8, <1>9 DEF IInv

LEMMA ConnectFailsKeeps ==
  ASSUME IInv, faults' \in 0 .. MaxFaults, ConnectFails
  PROVE  IInv'
<1>1. TypeOK'
  BY DEF IInv, TypeOK, ConnectFails, Fail, Retry, FollowUp, closed, history
<1>2. TaskShape'
  BY DEF TaskShape, ConnectFails, Fail, Retry, FollowUp, Busy
<1>3. Links'
  BY DEF IInv, Links, ConnectFails, Fail, Retry, FollowUp, NoTask
<1>4. ClosedStops'
  BY DEF IInv, TypeOK, ClosedStops, ConnectFails, Fail, Retry, FollowUp, closed,
     Busy
<1>5. WaitersWait'
  BY DEF WaitersWait, ConnectFails, Fail, Retry, FollowUp, Busy
<1>6. ReasonToWake'
  BY DEF IInv, TypeOK, TaskShape, WaitersWait, ReasonToWake, ConnectFails, Fail,
     Retry, FollowUp, Busy, Task
<1>7. ForcedTask'
  BY DEF ForcedTask, ConnectFails, Fail, Retry, FollowUp, Busy
<1>8. NeverStranded'
  BY DEF IInv, TypeOK, TaskShape, WaitersWait, NeverStranded, ConnectFails, Fail,
     Retry, FollowUp, Busy, Task
<1>9. ForceRemembered'
  BY DEF IInv, TypeOK, ForceRemembered, ConnectFails, Fail, Retry, FollowUp, history
<1>10. QED BY <1>1, <1>2, <1>3, <1>4, <1>5, <1>6, <1>7, <1>8, <1>9 DEF IInv

LEMMA ReplaceFailsKeeps ==
  ASSUME IInv, faults' \in 0 .. MaxFaults, ReplaceFails
  PROVE  IInv'
<1>1. TypeOK'
  BY DEF IInv, TypeOK, ReplaceFails, Detach, closed, Task, NoTask, Stages, requests,
     timers, history
<1>2. TaskShape'
  BY DEF IInv, TaskShape, ReplaceFails, Detach, Busy, NoTask
<1>3. Links'
  BY DEF IInv, Links, ReplaceFails, Detach, Busy, NoTask
<1>4. ClosedStops'
  BY DEF IInv, ClosedStops, ReplaceFails, Detach, closed, Busy, NoTask, timers
<1>5. WaitersWait'
  BY DEF IInv, WaitersWait, ReplaceFails, Detach, Busy, NoTask, timers
<1>6. ReasonToWake'
  BY DEF ReasonToWake, ReplaceFails, Detach, Busy, NoTask
<1>7. ForcedTask'
  BY DEF IInv, ForcedTask, ReplaceFails, Detach, Busy, NoTask, requests, timers,
     history
<1>8. NeverStranded'
  BY DEF NeverStranded, ReplaceFails, Detach, Busy, NoTask
<1>9. ForceRemembered'
  BY DEF IInv, ForceRemembered, ReplaceFails, Detach, requests, timers, history
<1>10. QED BY <1>1, <1>2, <1>3, <1>4, <1>5, <1>6, <1>7, <1>8, <1>9 DEF IInv

LEMMA ResyncFailsKeeps ==
  ASSUME IInv, faults' \in 0 .. MaxFaults, ResyncFails
  PROVE  IInv'
<1>1. TypeOK'
  BY DEF IInv, TypeOK, ResyncFails, Fail, Retry, FollowUp, closed, history
<1>2. TaskShape'
  BY DEF TaskShape, ResyncFails, Fail, Retry, FollowUp, Busy
<1>3. Links'
  BY DEF IInv, TypeOK, TaskShape, Links, ResyncFails, Fail, Retry, FollowUp, closed,
     Busy, NoTask
<1>4. ClosedStops'
  BY DEF IInv, TypeOK, ClosedStops, ResyncFails, Fail, Retry, FollowUp, closed, Busy
<1>5. WaitersWait'
  BY DEF WaitersWait, ResyncFails, Fail, Retry, FollowUp, Busy
<1>6. ReasonToWake'
  BY DEF IInv, TypeOK, ReasonToWake, ResyncFails, Fail, Retry, FollowUp
<1>7. ForcedTask'
  BY DEF ForcedTask, ResyncFails, Fail, Retry, FollowUp, Busy
<1>8. NeverStranded'
  BY DEF IInv, TypeOK, TaskShape, Links, ReasonToWake, NeverStranded, ResyncFails,
     Fail, Retry, FollowUp
<1>9. ForceRemembered'
  BY DEF IInv, TypeOK, ForceRemembered, ResyncFails, Fail, Retry, FollowUp, history
<1>10. QED BY <1>1, <1>2, <1>3, <1>4, <1>5, <1>6, <1>7, <1>8, <1>9 DEF IInv

LEMMA ReplaceFailedKeeps ==
  ASSUME IInv, faults' \in 0 .. MaxFaults, ReplaceFailed
  PROVE  IInv'
<1>1. TypeOK'
  BY DEF IInv, TypeOK, ReplaceFailed, Fail, Retry, FollowUp, closed, history
<1>2. TaskShape'
  BY DEF TaskShape, ReplaceFailed, Fail, Retry, FollowUp, Busy
<1>3. Links'
  BY DEF IInv, Links, ReplaceFailed, Fail, Retry, FollowUp, NoTask
<1>4. ClosedStops'
  BY DEF IInv, TypeOK, ClosedStops, ReplaceFailed, Fail, Retry, FollowUp, closed
<1>5. WaitersWait'
  BY DEF WaitersWait, ReplaceFailed, Fail, Retry, FollowUp, Busy
<1>6. ReasonToWake'
  BY DEF IInv, TypeOK, TaskShape, WaitersWait, ReasonToWake, ReplaceFailed, Fail,
     Retry, FollowUp, Busy, Task
<1>7. ForcedTask'
  BY DEF ForcedTask, ReplaceFailed, Fail, Retry, FollowUp, Busy
<1>8. NeverStranded'
  BY DEF IInv, TypeOK, TaskShape, WaitersWait, NeverStranded, ReplaceFailed, Fail,
     Retry, FollowUp, Busy, Task
<1>9. ForceRemembered'
  BY DEF IInv, TypeOK, ForceRemembered, ReplaceFailed, Fail, Retry, FollowUp,
     history
<1>10. QED BY <1>1, <1>2, <1>3, <1>4, <1>5, <1>6, <1>7, <1>8, <1>9 DEF IInv

LEMMA ResyncKeeps ==
  ASSUME IInv, faults' \in 0 .. MaxFaults, Resync
  PROVE  IInv'
<1>1. TypeOK'
  BY DEF IInv, TypeOK, Resync, closed, Task, Stages, States, requests, timers,
     history
<1>2. TaskShape'
  BY DEF TaskShape, Resync
<1>3. Links'
  BY DEF IInv, Links, Resync, closed
<1>4. ClosedStops'
  BY DEF ClosedStops, Resync, closed
<1>5. WaitersWait'
  BY DEF WaitersWait, Resync, Busy, NoTask
<1>6. ReasonToWake'
  BY DEF IInv, ReasonToWake, Resync, requests, timers
<1>7. ForcedTask'
  BY DEF ForcedTask, Resync
<1>8. NeverStranded'
  BY DEF NeverStranded, Resync, Busy, NoTask
<1>9. ForceRemembered'
  BY DEF IInv, ForceRemembered, Resync, requests, timers, history
<1>10. QED BY <1>1, <1>2, <1>3, <1>4, <1>5, <1>6, <1>7, <1>8, <1>9 DEF IInv

LEMMA ConnectionLostKeeps ==
  ASSUME IInv, faults' \in 0 .. MaxFaults, ConnectionLost
  PROVE  IInv'
<1>1. TypeOK'
  BY DEF IInv, TypeOK, ConnectionLost, Request, closed
<1>2. TaskShape'
  BY DEF IInv, TaskShape, ConnectionLost, Request, Busy
<1>3. Links'
  BY DEF IInv, Links, ConnectionLost, Request, closed, Busy
<1>4. ClosedStops'
  BY DEF IInv, ClosedStops, ConnectionLost, Request, closed
<1>5. WaitersWait'
  BY DEF IInv, WaitersWait, ConnectionLost, Request, Busy
<1>6. ReasonToWake'
  BY DEF ReasonToWake, ConnectionLost, Request
<1>7. ForcedTask'
  BY DEF IInv, TypeOK, ForcedTask, ConnectionLost, Request, Busy
<1>8. NeverStranded'
  BY DEF IInv, TypeOK, NeverStranded, ConnectionLost, Request, Busy
<1>9. ForceRemembered'
  BY DEF IInv, ForceRemembered, ConnectionLost, Request
<1>10. QED BY <1>1, <1>2, <1>3, <1>4, <1>5, <1>6, <1>7, <1>8, <1>9 DEF IInv

LEMMA AuthExpiredKeeps ==
  ASSUME IInv, faults' \in 0 .. MaxFaults, AuthExpired
  PROVE  IInv'
<1>1. TypeOK'
  BY DEF IInv, TypeOK, AuthExpired, Request, closed
<1>2. TaskShape'
  BY DEF IInv, TaskShape, AuthExpired, Request, Busy
<1>3. Links'
  BY DEF IInv, Links, AuthExpired, Request, closed, Busy
<1>4. ClosedStops'
  BY DEF IInv, ClosedStops, AuthExpired, Request, closed
<1>5. WaitersWait'
  BY DEF IInv, WaitersWait, AuthExpired, Request, Busy
<1>6. ReasonToWake'
  BY DEF ReasonToWake, AuthExpired, Request
<1>7. ForcedTask'
  BY DEF IInv, TypeOK, ForcedTask, AuthExpired, Request, Busy
<1>8. NeverStranded'
  BY DEF IInv, TypeOK, NeverStranded, AuthExpired, Request, Busy
<1>9. ForceRemembered'
  BY DEF ForceRemembered, AuthExpired, Request
<1>10. QED BY <1>1, <1>2, <1>3, <1>4, <1>5, <1>6, <1>7, <1>8, <1>9 DEF IInv

LEMMA RefreshDueKeeps ==
  ASSUME IInv, faults' \in 0 .. MaxFaults, RefreshDue
  PROVE  IInv'
<1>1. TypeOK'
  BY DEF IInv, TypeOK, TaskShape, RefreshDue, closed
<1>2. TaskShape'
  BY DEF IInv, TaskShape, RefreshDue, Busy
<1>3. Links'
  BY DEF IInv, Links, RefreshDue, closed, Busy
<1>4. ClosedStops'
  BY DEF IInv, ClosedStops, RefreshDue, closed
<1>5. WaitersWait'
  BY DEF IInv, WaitersWait, RefreshDue, Busy
<1>6. ReasonToWake'
  BY DEF ReasonToWake, RefreshDue
<1>7. ForcedTask'
  BY DEF IInv, TypeOK, TaskShape, WaitersWait, ForcedTask, RefreshDue, Busy, Task
<1>8. NeverStranded'
  BY DEF IInv, TypeOK, NeverStranded, RefreshDue
<1>9. ForceRemembered'
  BY DEF ForceRemembered, RefreshDue
<1>10. QED BY <1>1, <1>2, <1>3, <1>4, <1>5, <1>6, <1>7, <1>8, <1>9 DEF IInv

LEMMA ReconnectDueKeeps ==
  ASSUME IInv, faults' \in 0 .. MaxFaults, ReconnectDue
  PROVE  IInv'
<1>1. TypeOK'
  <2>1. CASE closed \/ ~started
    BY <2>1 DEF IInv, TypeOK, ReconnectDue, closed, requests
  <2>2. CASE ~closed /\ started /\ Busy
    BY <2>2 DEF IInv, TypeOK, ReconnectDue, closed
  <2>3. CASE ~closed /\ started /\ ~Busy
    <3>1. /\ BeginReplace("timer", force, IF force THEN "refreshing" ELSE "reconnecting")
          /\ waiters' = {force} /\ timer' = FALSE
          /\ UNCHANGED <<started, closing, open, absorbed, faults>>
      BY <2>3 DEF ReconnectDue
    <3>2. connection \in Connection \cup {None} /\ force \in BOOLEAN
      BY DEF IInv, TypeOK
    <3>3. task' \in Task
      BY <3>1, <3>2 DEF BeginReplace, Task, Stages
    <3>4. {lost', replacement', force', timer', refreshTimer'} \subseteq BOOLEAN
      BY <3>1 DEF BeginReplace, ClearRequests
    <3>5. state' \in States
      BY <3>1 DEF BeginReplace, States
    <3>6. owed' \in BOOLEAN
      BY <3>1, Zenon DEF BeginReplace
    <3>7. waiters' \subseteq BOOLEAN
      BY <3>1, <3>2
    <3>8. QED
      BY <3>1, <3>3, <3>4, <3>5, <3>6, <3>7 DEF IInv, TypeOK, BeginReplace, Detach, closed
  <2>4. QED BY <2>1, <2>2, <2>3
<1>2. TaskShape'
  BY DEF IInv, TaskShape, ReconnectDue, BeginReplace, Detach, ClearRequests, Busy
<1>3. Links'
  BY DEF IInv, Links, ReconnectDue, BeginReplace, Detach, ClearRequests, closed,
     Busy
<1>4. ClosedStops'
  BY DEF IInv, ClosedStops, ReconnectDue, BeginReplace, Detach, ClearRequests,
     closed
<1>5. WaitersWait'
  BY DEF IInv, WaitersWait, ReconnectDue, BeginReplace, Detach, ClearRequests, Busy,
     NoTask
<1>6. ReasonToWake'
  BY DEF IInv, ReasonToWake, ReconnectDue, BeginReplace, Detach, ClearRequests,
     Busy, NoTask, requests
<1>7. ForcedTask'
  BY DEF IInv, TypeOK, ForcedTask, ReconnectDue, BeginReplace, Detach,
     ClearRequests, Busy
<1>8. NeverStranded'
  BY DEF IInv, TypeOK, NeverStranded, ReconnectDue, BeginReplace, Detach,
     ClearRequests, Busy, NoTask
<1>9. ForceRemembered'
  BY DEF IInv, WaitersWait, ForceRemembered, ReconnectDue, BeginReplace, Detach,
     ClearRequests, requests
<1>10. QED BY <1>1, <1>2, <1>3, <1>4, <1>5, <1>6, <1>7, <1>8, <1>9 DEF IInv

LEMMA CloseKeeps ==
  ASSUME IInv, faults' \in 0 .. MaxFaults, Close
  PROVE  IInv'
<1>1. TypeOK'
  BY DEF IInv, TypeOK, TaskShape, Close, StopTimers, Detach, Closings, requests,
     history
<1>2. TaskShape'
  BY DEF IInv, TaskShape, Close, StopTimers, Detach, Busy
<1>3. Links'
  BY DEF IInv, Links, Close, StopTimers, Detach, closed, Busy
<1>4. ClosedStops'
  BY DEF ClosedStops, Close, StopTimers, Detach
<1>5. WaitersWait'
  BY DEF IInv, WaitersWait, Close, StopTimers, Detach, Busy
<1>6. ReasonToWake'
  BY DEF ReasonToWake, Close, StopTimers, Detach
<1>7. ForcedTask'
  BY DEF IInv, ForcedTask, Close, StopTimers, Detach, Busy, requests, history
<1>8. NeverStranded'
  BY DEF NeverStranded, Close, StopTimers, Detach
<1>9. ForceRemembered'
  BY DEF ForceRemembered, Close, StopTimers, Detach
<1>10. QED BY <1>1, <1>2, <1>3, <1>4, <1>5, <1>6, <1>7, <1>8, <1>9 DEF IInv

LEMMA CloseEndKeeps ==
  ASSUME IInv, faults' \in 0 .. MaxFaults, CloseEnd
  PROVE  IInv'
<1>1. TypeOK'
  BY DEF IInv, TypeOK, CloseEnd, closed, States, Closings, requests, timers, history
<1>2. TaskShape'
  BY DEF TaskShape, CloseEnd, Busy
<1>3. Links'
  BY DEF IInv, Links, CloseEnd, closed, Busy
<1>4. ClosedStops'
  BY DEF IInv, ClosedStops, CloseEnd, closed, Busy, timers
<1>5. WaitersWait'
  BY DEF IInv, WaitersWait, CloseEnd, Busy, timers
<1>6. ReasonToWake'
  BY DEF IInv, ReasonToWake, CloseEnd, requests, timers
<1>7. ForcedTask'
  BY DEF ForcedTask, CloseEnd, Busy
<1>8. NeverStranded'
  BY DEF IInv, NeverStranded, CloseEnd, requests, timers
<1>9. ForceRemembered'
  BY DEF IInv, TypeOK, ForceRemembered, CloseEnd, closed
<1>10. QED BY <1>1, <1>2, <1>3, <1>4, <1>5, <1>6, <1>7, <1>8, <1>9 DEF IInv

LEMMA InitIInv == Init => IInv
<1> SUFFICES ASSUME Init PROVE IInv
  OBVIOUS
<1>1. TypeOK
  <2>1. faults \in 0 .. MaxFaults
    BY SdkLifecycleAssumption DEF Init
  <2>2. {lost, replacement, force, timer, refreshTimer} \subseteq BOOLEAN
    BY DEF Init
  <2>3. QED BY <2>1, <2>2 DEF Init, TypeOK, Closings, States, closed
<1>2. TaskShape /\ Links /\ ClosedStops /\ WaitersWait
  BY DEF Init, TaskShape, Links, ClosedStops, WaitersWait, Busy, NoTask, closed
<1>3. ReasonToWake /\ ForcedTask /\ NeverStranded /\ ForceRemembered
  BY DEF Init, ReasonToWake, ForcedTask, NeverStranded, ForceRemembered, Busy
<1>4. QED BY <1>1, <1>2, <1>3 DEF IInv

LEMMA NextIInv == IInv /\ [Next]_vars => IInv'
<1> SUFFICES ASSUME IInv, [Next]_vars PROVE IInv'
  OBVIOUS
<1>1. faults \in 0 .. MaxFaults /\ MaxFaults \in Nat
  BY SdkLifecycleAssumption DEF IInv, TypeOK
<1>2. Fault => faults' \in 0 .. MaxFaults
  BY <1>1 DEF Fault
<1>3. faults' = faults => faults' \in 0 .. MaxFaults
  BY <1>1
<1>4. CASE Start \/ Detached \/ GetToken \/ ReplaceFailed
  <2>1. faults' = faults
    BY <1>4 DEF Start, Detached, GetToken, ReplaceFailed
  <2>2. QED BY <1>3, <1>4, <2>1, StartKeeps, DetachedKeeps, GetTokenKeeps, ReplaceFailedKeeps
<1>5. ASSUME NEW c \in Connection, Connected(c) \/ ConnectionClosed(c) PROVE IInv'
  <2>1. faults' = faults
    BY <1>5 DEF Connected, ConnectionClosed
  <2>2. QED BY <1>3, <1>5, <2>1, ConnectedKeeps, ConnectionClosedKeeps
<1>6. ASSUME NEW degraded \in BOOLEAN, FinishReplace(degraded) \/ FinishResync(degraded),
             Fault \/ faults' = faults
      PROVE  IInv'
  BY <1>2, <1>3, <1>6, FinishReplaceKeeps, FinishResyncKeeps
<1>7. CASE (ConnectFails \/ ReplaceFails \/ ResyncFails) /\ (Fault \/ faults' = faults)
  BY <1>2, <1>3, <1>7, ConnectFailsKeeps, ReplaceFailsKeeps, ResyncFailsKeeps
<1>8. CASE Fault /\ (Resync \/ ConnectionLost \/ AuthExpired)
  BY <1>2, <1>8, ResyncKeeps, ConnectionLostKeeps, AuthExpiredKeeps
<1>9. CASE RefreshDue \/ ReconnectDue \/ Close \/ CloseEnd
  <2>1. faults' = faults
    BY <1>9 DEF RefreshDue, ReconnectDue, Close, CloseEnd
  <2>2. QED BY <1>3, <1>9, <2>1, RefreshDueKeeps, ReconnectDueKeeps, CloseKeeps, CloseEndKeeps
<1>10. CASE UNCHANGED vars
  <2>1. UNCHANGED <<started, closing, task, connection, open, dying, lost, replacement,
                    force, timer, waiters, refreshTimer, state, owed, absorbed, faults>>
    BY <1>10 DEF vars, requests, timers, history
  <2>2. TypeOK' /\ TaskShape' /\ Links' /\ ClosedStops'
    <3>1. TypeOK'
      <4>1. TypeOK BY DEF IInv
      <4>2. QED BY <2>1, <4>1, ZenonT(30) DEF TypeOK, closed
    <3>2. TaskShape' /\ ClosedStops'
      BY <2>1 DEF IInv, TaskShape, ClosedStops, Busy, closed
    <3>3. Links'
      BY <2>1 DEF IInv, Links, Busy, closed
    <3>4. QED BY <3>1, <3>2, <3>3
  <2>3. WaitersWait' /\ ReasonToWake' /\ ForcedTask' /\ NeverStranded' /\ ForceRemembered'
    BY <2>1, Zenon DEF IInv, WaitersWait, ReasonToWake, ForcedTask, NeverStranded,
         ForceRemembered, Busy
  <2>4. QED BY <2>2, <2>3 DEF IInv
<1>11. QED
  BY <1>4, <1>5, <1>6, <1>7, <1>8, <1>9, <1>10 DEF Next

-----------------------------------------------------------------------------
(***************************************************************************)
(* The theorems.                                                           *)
(***************************************************************************)

LEMMA Invariant == Spec => []IInv
<1>1. IInv /\ [Next]_vars => IInv'
  BY NextIInv
<1>2. QED BY InitIInv, <1>1, PTL DEF Spec

\* Every variable has its type; a stopped SDK is not started, and the
\* connection the SDK listens to is open and not being closed.
THEOREM TypeCorrect == Spec => []TypeOK
<1>1. IInv => TypeOK
  BY DEF IInv
<1>2. QED BY <1>1, Invariant, PTL

\* However reconnects, refreshes and close() meet, and however many
\* connections there are to take, the SDK holds one at most.
THEOREM HoldsOneConnection == Spec => []OneConnection
<1>1. ASSUME IInv PROVE OneConnection
  <2>1. CASE open = {}
    BY <2>1, FS_EmptySet DEF OneConnection
  <2>2. CASE open # {}
    <3>1. PICK c : c \in open
      BY <2>2
    <3>2. open = {c}
      BY <1>1, <3>1 DEF IInv, Links
    <3>3. Cardinality(open) = 1
      BY <3>2, FS_Singleton
    <3>4. QED BY <3>3 DEF OneConnection
  <2>3. QED BY <2>1, <2>2
<1>2. QED BY <1>1, Invariant, PTL

\* After close() has returned no task runs, no timer is active, nobody waits
\* and no connection is open.
THEOREM ClosedSdkIsQuiet == Spec => []ClosedIsQuiet
<1>1. IInv => ClosedIsQuiet
  BY DEF IInv, ClosedIsQuiet, ClosedStops, WaitersWait, Links, closed
<1>2. QED BY <1>1, Invariant, PTL

\* A started SDK always has what wakes it: a task, a timer to reconnect, or
\* the refresh timer of a connection in place.
THEOREM IsNeverStranded == Spec => []NeverStranded
<1>1. IInv => NeverStranded
  BY DEF IInv
<1>2. QED BY <1>1, Invariant, PTL

\* A forced refresh that was asked for is not forgotten before a task forces,
\* but for the ones that waited for a task that did not.
THEOREM ForceIsRemembered == Spec => []ForceRemembered
<1>1. IInv => ForceRemembered
  BY DEF IInv
<1>2. QED BY <1>1, Invariant, PTL

(***************************************************************************)
(* The cache: the inductive invariant of SdkSync.                          *)
(***************************************************************************)

\* What c claims was true of the room and of the session at some time, and c
\* is behind the last revision it has heard of only if it knows.
Past(c) ==
  /\ c.version <= room.version /\ c.content <= room.version
  /\ c.version < c.content => c.setBack
  /\ c.newest <= revision
  /\ ~c.behind => c.session = Active(c.newest)

PastEvent(e) ==
  IF e.kind = "session" THEN e.at <= revision ELSE e.at <= room.version

\* Nothing under way is ahead of the database.
NothingAhead ==
  /\ \A e \in outbox : PastEvent(e)
  /\ \A e \in replies : PastEvent(e) /\ e.kind \in {"state", "session"}
  /\ \A i \in DOMAIN buffer : PastEvent(buffer[i]) /\ buffer[i].kind # "evict"
  /\ Past(cache) /\ Past(sync.previous) /\ Past(sync.draft)
  /\ call.seed <= room.version

\* Events are buffered while a synchronization runs, a lifecycle task that is
\* off has no connection, and a command is on its way over a connection.
TasksAndCalls ==
  /\ ~buffering => buffer = <<>>
  /\ phase = "off" => ~socket.open
  /\ phase \in {"subscribing", "admitted"} => sync.draft = Empty /\ sync.read \in {"room", "done"}
  /\ phase = "admitted" => Listed
  /\ call.at = "none" => call.seed = 0
  /\ call.at \in Asking \cup {"undoing"} => socket.open
  /\ leaving = "sent" => socket.open
  /\ call.at = "syncing" => phase = "reading"

\* rooms.subscribe has joined the room, and is still to synchronize or to
\* remove it.
Undecided == call.at \in {"joined", "failed", "undoing", "undone"}

\* A synchronization has not read the room, and cannot end as if it had.
Unread ==
  /\ phase = "reading" /\ (Listed \/ sync.draft.stale)
  /\ \/ sync.replacing \/ call.at = "syncing" \/ lossy = "before"
     \/ cache.stale /\ sync.previous.stale

\* A removal is under way until a read or the buffer has shown it, unless an
\* event was lost since the last read or the room could not be read.
RemovalShows ==
  joined /\ socket.open =>
    \/ room.member \/ Gone \in outbox \/ Heard(Gone)
    \/ lossy = "since"
    \/ Undecided
    \/ phase \in {"subscribing", "admitted"} /\ Listed
    \/ Unread
    \/ Idle /\ (lossy = "before" \/ cache.stale)

HeardState == \E i \in DOMAIN buffer : buffer[i].kind = "state"

\* A removed room leaves nothing from which it could come back.
RemovedIsGone ==
  (~joined /\ ~exposed) =>
    /\ ~socket.subscribed /\ ~StatePending
    /\ phase \in {"subscribing", "admitted", "reading"} => ~HeardState /\ sync.read = "done"
    /\ phase = "reading" => sync.draft.version = 0
    /\ phase = "reading" /\ ~sync.replacing => sync.previous.version = 0
    /\ Idle \/ (phase = "reading" /\ ~sync.replacing) => cache.version = 0

\* rooms.subscribe has not joined the room.
Calm == call.at \in {"none"} \cup Asking

\* The SDK hears every event of the room, from before its last read on.
Listens ==
  /\ joined /\ socket.subscribed /\ lossy # "since"
  /\ Calm \/ call.at = "syncing"

\* What there was before a synchronization that replaces no connection: the SDK
\* falls back on it.
FallsBack == phase = "reading" /\ ~sync.replacing /\ Calm

Coming(e) == e \in outbox \/ Heard(e)

RoomIn(c) ==
  c.stale \/ c.content = room.version \/ c.setBack \/ Coming(State(room.version))

SessionIn(c) ==
  c.stale \/ c.newest = revision \/ Coming(Session(revision))

\* While the SDK listens, what it shows or will show has the last state of the
\* room, or will hear of it.
RoomFollows ==
  Listens =>
    /\ phase = "reading" /\ sync.read # "room" => RoomIn(sync.draft)
    /\ (Idle \/ FallsBack) /\ lossy = "no" => RoomIn(cache)
    /\ FallsBack /\ lossy = "no" => RoomIn(sync.previous)

SessionFollows ==
  Listens =>
    /\ phase = "reading" /\ sync.read = "done" => SessionIn(sync.draft)
    /\ (Idle \/ FallsBack) /\ lossy = "no" => SessionIn(cache)
    /\ FallsBack /\ lossy = "no" => SessionIn(sync.previous)

\* What is under way is bounded by what has happened.
Counted ==
  /\ happened \in 0 .. MaxHappenings
  /\ room.version <= happened + 1
  /\ IsFiniteSet(outbox) /\ Cardinality(outbox) + Len(buffer) <= 3 * happened

SyncInv ==
  /\ SyncTypeOK /\ Counted /\ NothingAhead /\ TasksAndCalls
  /\ RemovalShows /\ RemovedIsGone /\ RoomFollows /\ SessionFollows

-----------------------------------------------------------------------------
(***************************************************************************)
(* The cache as a value.                                                   *)
(***************************************************************************)

LEMMA Bounds ==
  /\ MaxRevision \in Nat /\ MaxHappenings \in Nat
  /\ \A v \in Versions : v \in Nat /\ v > 0
  /\ \A r \in Revisions : r \in Nat /\ r > 0
  BY SdkSyncAssumption DEF Versions, Revisions

LEMMA EmptyIs ==
  /\ Empty \in Cache
  /\ Empty.version = 0 /\ Empty.content = 0 /\ Empty.newest = 0 /\ Empty.session = 0
  /\ Empty.stale = FALSE /\ Empty.setBack = FALSE /\ Empty.behind = FALSE
  BY DEF Empty, Cache

\* Of a cache c it keeps what is known of the sessions.
SameSession(d, c) ==
  d.session = c.session /\ d.newest = c.newest /\ d.behind = c.behind

SameRoom(d, c) ==
  d.version = c.version /\ d.content = c.content /\ d.setBack = c.setBack

LEMMA WithRoomIs ==
  ASSUME NEW c \in Cache, NEW v, v = 0 \/ v \in Versions
  PROVE  /\ WithRoom(c, v) \in Cache
         /\ WithRoom(c, v).version = v /\ WithRoom(c, v).content = v
         /\ SameSession(WithRoom(c, v), c)
         /\ WithRoom(c, v).stale = c.stale /\ WithRoom(c, v).setBack = c.setBack
<1> DEFINE d == [c EXCEPT !.version = v]
<1>1. /\ d \in Cache /\ d.version = v /\ SameSession(d, c)
      /\ d.stale = c.stale /\ d.setBack = c.setBack
  BY DEF Cache, SameSession
<1>2. WithRoom(c, v) = [d EXCEPT !.content = v]
  BY Zenon DEF WithRoom
<1> HIDE DEF d
<1>3. QED BY <1>1, <1>2 DEF Cache, SameSession

LEMMA ActiveIs ==
  ASSUME NEW r, r = 0 \/ r \in Revisions
  PROVE  Active(r) \in {0} \cup Revisions
  BY DEF Active

LEMMA WithSessionIs ==
  ASSUME NEW c \in Cache, NEW r, r = 0 \/ r \in Revisions
  PROVE  /\ WithSession(c, r) \in Cache
         /\ WithSession(c, r).session = Active(r)
         /\ WithSession(c, r).behind = (r < c.newest)
         /\ WithSession(c, r).newest = IF r > c.newest THEN r ELSE c.newest
         /\ WithSession(c, r).stale = c.stale /\ SameRoom(WithSession(c, r), c)
<1> DEFINE d == [c EXCEPT !.session = Active(r)]
           e == [d EXCEPT !.behind = r < c.newest]
<1>1. /\ d \in Cache /\ d.session = Active(r) /\ d.newest = c.newest
      /\ d.stale = c.stale /\ SameRoom(d, c)
  BY ActiveIs DEF Cache, SameRoom
<1>2. (r < c.newest) \in BOOLEAN
  OBVIOUS
<1> HIDE DEF d
<1>3. /\ e \in Cache /\ e.session = Active(r) /\ e.newest = c.newest
      /\ e.behind = (r < c.newest) /\ e.stale = c.stale /\ SameRoom(e, c)
  BY <1>1, <1>2 DEF Cache, SameRoom
<1>4. WithSession(c, r) = [e EXCEPT !.newest = IF r > @ THEN r ELSE @]
  BY Zenon DEF WithSession, d
<1> HIDE DEF e
<1>5. QED BY <1>3, <1>4 DEF Cache, SameRoom

LEMMA WithPresenceIs ==
  ASSUME NEW c \in Cache, NEW v \in Versions
  PROVE  /\ WithPresence(c, v) \in Cache
         /\ WithPresence(c, v).version = v /\ WithPresence(c, v).content = c.content
         /\ WithPresence(c, v).setBack = (c.setBack \/ v < c.content)
         /\ WithPresence(c, v).stale = c.stale /\ SameSession(WithPresence(c, v), c)
<1> DEFINE b == [c EXCEPT !.version = v]
<1>1. /\ b \in Cache /\ b.version = v /\ b.content = c.content
      /\ b.setBack = c.setBack /\ b.stale = c.stale /\ SameSession(b, c)
  BY DEF Cache, SameSession
<1>2. PICK s \in BOOLEAN : s = (c.setBack \/ v < c.content)
  OBVIOUS
<1>3. WithPresence(c, v) = [b EXCEPT !.setBack = s]
  BY <1>2, Zenon DEF WithPresence
<1> HIDE DEF b
<1>4. QED BY <1>1, <1>2, <1>3 DEF Cache, SameSession

LEMMA ForgetRoomIs ==
  ASSUME NEW c \in Cache
  PROVE  /\ ForgetRoom(c) \in Cache
         /\ ForgetRoom(c).version = 0 /\ ForgetRoom(c).content = 0
         /\ SameSession(ForgetRoom(c), Empty)
         /\ ForgetRoom(c).stale = c.stale
  BY EmptyIs DEF ForgetRoom, Cache, SameSession

-----------------------------------------------------------------------------
(***************************************************************************)
(* One event, and a buffer of them.                                        *)
(***************************************************************************)

LEMMA EventKinds ==
  ASSUME NEW e \in Event
  PROVE  /\ e.kind \in {"state", "presence"} => e.at \in Versions
         /\ e.kind = "session" => e.at \in Revisions
         /\ e.kind \in {"gone", "evict"} => e.at = 0
         /\ e.kind \in {"state", "presence", "session", "gone", "evict"}
         /\ e.kind = "state" => e = State(e.at)
         /\ e.kind = "session" => e = Session(e.at)
         /\ e.kind = "gone" => e = Gone
         /\ e.kind = "evict" => e = Evict
  BY DEF Event, State, Session, Gone, Evict

\* What follows from one event or several: new is what they make of old, gone
\* and states tell whether membership.updated or a state of the room was
\* among them, newState and newSession whether the last was.
Leads(new, old, gone, states, newState, newSession) ==
  /\ new \in Cache /\ Past(new) /\ new.stale = old.stale
  /\ new.version # 0 => old.version # 0 \/ states
  /\ ~gone =>
       /\ newState \/ old.content = room.version \/ old.setBack =>
            new.content = room.version \/ new.setBack
       /\ newSession \/ old.newest = revision => new.newest = revision

LEMMA AppliedEvent ==
  ASSUME SyncTypeOK, NEW c \in Cache, Past(c), NEW e \in Event, e.kind # "evict", PastEvent(e)
  PROVE  Leads(ApplyEvent(c, e), c, e = Gone, e.kind = "state",
                 e = State(room.version), e = Session(revision))
<1> SUFFICES ASSUME NEW d, d = ApplyEvent(c, e)
             PROVE  Leads(d, c, e = Gone, e.kind = "state",
                          e = State(room.version), e = Session(revision))
  OBVIOUS
<1>0. /\ room.version \in Nat /\ revision \in Nat
      /\ c.version \in Nat /\ c.content \in Nat /\ c.newest \in Nat
      /\ c.setBack \in BOOLEAN /\ c.behind \in BOOLEAN
  <2>1. room.version \in Versions /\ revision \in Nat
    BY Bounds DEF SyncTypeOK
  <2>2. /\ c.version \in {0} \cup Versions /\ c.content \in {0} \cup Versions
        /\ c.newest \in {0} \cup Revisions
        /\ c.setBack \in BOOLEAN /\ c.behind \in BOOLEAN
    BY DEF Cache
  <2>3. QED BY <2>1, <2>2, Bounds
<1>1. CASE e.kind = "state"
  <2>1. d = ApplyState(c, e.at) /\ e.at \in Versions
    BY <1>1, EventKinds DEF ApplyEvent
  <2>2. CASE c.version <= e.at
    <3>1. d = WithRoom(c, e.at) BY <2>1, <2>2 DEF ApplyState
    <3>2. /\ d \in Cache /\ d.version = e.at /\ d.content = e.at
          /\ d.stale = c.stale /\ d.setBack = c.setBack /\ SameSession(d, c)
      BY <2>1, <3>1, WithRoomIs
    <3>3. Past(d)
      BY <1>0, <1>1, <2>1, <3>2, Bounds DEF Past, PastEvent, SameSession
    <3>4. e.at <= room.version BY <1>1 DEF PastEvent
    <3>5. QED
      BY <1>0, <1>1, <2>1, <2>2, <3>2, <3>3, <3>4, Bounds
         DEF Leads, Past, SameSession, State, Session
  <2>3. CASE ~(c.version <= e.at)
    <3>1. d = c BY <2>1, <2>3 DEF ApplyState
    <3>2. e # State(room.version)
      BY <1>0, <2>1, <2>3, Bounds DEF Past, State
    <3>3. e # Session(revision) BY <1>1 DEF Session
    <3>4. QED BY <1>0, <3>1, <3>2, <3>3 DEF Leads
  <2>4. QED BY <2>2, <2>3
<1>2. CASE e.kind = "presence"
  <2>0. e # State(room.version) /\ e # Session(revision) /\ e.at \in Versions
    BY <1>2, EventKinds DEF State, Session
  <2>1. CASE c.version = 0
    <3>1. d = c BY <1>2, <2>1 DEF ApplyEvent
    <3>2. QED BY <1>0, <2>0, <3>1 DEF Leads
  <2>2. CASE c.version # 0
    <3>1. d = WithPresence(c, e.at)
      BY <1>2, <2>2 DEF ApplyEvent
    <3>2. /\ d \in Cache /\ d.version = e.at /\ d.content = c.content
          /\ d.setBack = (c.setBack \/ e.at < c.content)
          /\ d.stale = c.stale /\ SameSession(d, c)
      <4>1. e.at \in Versions BY <2>0
      <4>2. QED BY <3>1, <4>1, WithPresenceIs
    <3>3. e.at <= room.version BY <1>2 DEF PastEvent
    <3>4. Past(d)
      BY <1>0, <2>0, <3>2, <3>3, Bounds DEF Past, SameSession
    <3>5. QED BY <1>0, <2>0, <2>2, <3>2, <3>4 DEF Leads, SameSession
  <2>3. QED BY <2>1, <2>2
<1>3. CASE e.kind = "session"
  <2>0. e.at \in Revisions /\ e # State(room.version) /\ e = Session(e.at)
    BY <1>3, EventKinds DEF State
  <2>1. d = WithSession(c, e.at) BY <1>3 DEF ApplyEvent
  <2>2. /\ d \in Cache /\ d.session = Active(e.at) /\ d.behind = (e.at < c.newest)
        /\ d.newest = IF e.at > c.newest THEN e.at ELSE c.newest
        /\ d.stale = c.stale /\ SameRoom(d, c)
    BY <2>0, <2>1, WithSessionIs
  <2>3. e.at <= revision /\ e.at \in Nat
    BY <1>3, <2>0, Bounds DEF PastEvent
  <2>4. Past(d)
    <3>1. ~d.behind => d.session = Active(d.newest)
      <4>1. CASE e.at < c.newest BY <2>2, <4>1
      <4>2. CASE ~(e.at < c.newest)
        <5>1. d.newest = e.at BY <1>0, <2>2, <2>3, <4>2
        <5>2. QED BY <2>2, <5>1
      <4>3. QED BY <4>1, <4>2
    <3>2. d.newest <= revision
      BY <1>0, <2>2, <2>3 DEF Past
    <3>3. QED BY <2>2, <3>1, <3>2 DEF Past, SameRoom
  <2>5. e = Session(revision) => d.newest = revision
    BY <1>0, <2>0, <2>2, Bounds DEF Past, Session
  <2>6. c.newest = revision => d.newest = revision
    BY <1>0, <2>0, <2>2, <2>3, Bounds
  <2>7. QED BY <2>0, <2>2, <2>4, <2>5, <2>6 DEF Leads, SameRoom
<1>4. CASE e.kind = "gone"
  <2>1. d = ForgetRoom(c) /\ e = Gone
    BY <1>4, EventKinds DEF ApplyEvent
  <2>2. /\ d \in Cache /\ d.version = 0 /\ d.content = 0 /\ SameSession(d, Empty)
        /\ d.stale = c.stale
    BY <2>1, ForgetRoomIs
  <2>3. Active(0) = 0 BY DEF Active
  <2>4. Past(d)
    BY <1>0, <2>2, <2>3, EmptyIs DEF Past, SameSession
  <2>5. QED BY <2>1, <2>2, <2>4 DEF Leads
<1>5. QED BY <1>1, <1>2, <1>3, <1>4, EventKinds

\* A set of numbers with 0 and, with every number below n, the next one.
LEMMA Counting ==
  ASSUME NEW n \in Nat, NEW S, 0 \in S,
         \A i \in 1 .. n : i - 1 \in S => i \in S
  PROVE  0 .. n \subseteq S
<1> DEFINE T == (0 .. n) \ S
           R == OpToRel(<, Nat)
<1> SUFFICES ASSUME T # {} PROVE FALSE
  OBVIOUS
<1>1. IsWellFoundedOn(R, Nat)
  BY NatLessThanWellFounded, Zenon
<1>2. T \subseteq Nat
  OBVIOUS
<1>3. PICK x \in T : \A y \in T : ~(<<y, x>> \in R)
  <2> HIDE DEF T, R
  <2>1. QED BY <1>1, <1>2, WFMin
<1>4. x \in 1 .. n /\ x - 1 \in T
  OBVIOUS
<1>5. <<x - 1, x>> \in R
  BY <1>4 DEF OpToRel
<1>6. QED BY <1>3, <1>4, <1>5

\* The states that the first n events of the buffer lead through from c.
Replay(g, n, c) ==
  /\ g = [i \in 0 .. n |-> g[i]]
  /\ g[0] = c
  /\ \A i \in 1 .. n : g[i] = ApplyEvent(g[i - 1], buffer[i])

LEMMA ReplayExists ==
  ASSUME NEW n \in Nat, NEW c
  PROVE  \E g : Replay(g, n, c)
<1> DEFINE S == {k \in Nat : \E g : Replay(g, k, c)}
<1>1. 0 \in S
  <2>1. Replay([i \in 0 .. 0 |-> c], 0, c)
    BY DEF Replay
  <2>2. QED BY <2>1
<1>2. ASSUME NEW i \in 1 .. n, i - 1 \in S
      PROVE  i \in S
  <2>1. PICK g : Replay(g, i - 1, c)
    BY <1>2
  <2> DEFINE new == ApplyEvent(g[i - 1], buffer[i])
             h == [k \in 0 .. i |-> IF k = i THEN new ELSE g[k]]
  <2>2. h[0] = c
    BY <2>1 DEF Replay
  <2>3. ASSUME NEW k \in 1 .. i
        PROVE  h[k] = ApplyEvent(h[k - 1], buffer[k])
    <3>1. CASE k = i
      <4> HIDE DEF new
      <4>1. h[k] = new /\ h[k - 1] = g[i - 1] BY <3>1
      <4>2. QED BY <3>1, <4>1 DEF new
    <3>2. CASE k # i
      <4>1. k \in 1 .. i - 1 BY <3>2
      <4> HIDE DEF new
      <4>2. h[k] = g[k] /\ h[k - 1] = g[k - 1] BY <4>1
      <4>3. QED BY <2>1, <4>1, <4>2 DEF Replay
    <3>3. QED BY <3>1, <3>2
  <2>4. Replay(h, i, c)
    BY <2>2, <2>3 DEF Replay
  <2>5. QED BY <2>4
<1> HIDE DEF S
<1>3. 0 .. n \subseteq S
  BY <1>1, <1>2, Counting
<1>4. QED BY <1>3 DEF S

\* What _finishEventBuffer computes is the last of these states.
LEMMA BufferReplayed ==
  ASSUME buffer \in Seq(Event), NEW c
  PROVE  \E g : Replay(g, Len(buffer), c) /\ FinishBuffer(c) = g[Len(buffer)]
<1> DEFINE Step(f) == [i \in 0 .. Len(buffer) |->
             IF i = 0 THEN c ELSE ApplyEvent(f[i - 1], buffer[i])]
           replayed == CHOOSE f : f = Step(f)
<1>1. Len(buffer) \in Nat
  OBVIOUS
<1>2. PICK g : Replay(g, Len(buffer), c)
  BY <1>1, ReplayExists
<1>3. g = Step(g)
  <2>1. g = [i \in 0 .. Len(buffer) |-> g[i]]
    BY <1>2 DEF Replay
  <2>2. \A i \in 0 .. Len(buffer) :
          g[i] = IF i = 0 THEN c ELSE ApplyEvent(g[i - 1], buffer[i])
    BY <1>1, <1>2 DEF Replay
  <2>3. QED BY <2>1, <2>2, ZenonT(60)
<1>4. replayed = Step(replayed)
  <2> HIDE DEF Step
  <2>1. QED BY <1>3
<1>5. Replay(replayed, Len(buffer), c)
  <2> HIDE DEF replayed
  <2>1. QED BY <1>1, <1>4 DEF Replay
<1>6. FinishBuffer(c) = replayed[Len(buffer)]
  BY DEF FinishBuffer
<1>7. QED BY <1>5, <1>6

\* The whole buffer keeps what each of its events keeps.
LEMMA AppliedBuffer ==
  ASSUME SyncTypeOK, NothingAhead, NEW c \in Cache, Past(c)
  PROVE  Leads(FinishBuffer(c), c, Heard(Gone), HeardState,
                 Heard(State(room.version)), Heard(Session(revision)))
<1> DEFINE n == Len(buffer)
           Among(i, e) == \E j \in 1 .. i : buffer[j] = e
           StateAmong(i) == \E j \in 1 .. i : buffer[j].kind = "state"
           After(new, i) == Leads(new, c, Among(i, Gone), StateAmong(i),
                              Among(i, State(room.version)), Among(i, Session(revision)))
<1>1. buffer \in Seq(Event) /\ n \in Nat /\ DOMAIN buffer = 1 .. n
  BY DEF SyncTypeOK
<1>2. PICK g : Replay(g, n, c) /\ FinishBuffer(c) = g[n]
  BY <1>1, BufferReplayed
<1> DEFINE S == {i \in 0 .. n : After(g[i], i)}
<1>3. 0 \in S
  <2>1. g[0] = c BY <1>2 DEF Replay
  <2>2. \A e : ~Among(0, e) OBVIOUS
  <2>3. After(c, 0) BY <2>2 DEF Leads
  <2> HIDE DEF After
  <2>4. QED BY <1>1, <2>1, <2>3
<1>4. ASSUME NEW i \in 1 .. n, i - 1 \in S
      PROVE  i \in S
  <2> DEFINE old == g[i - 1]
             new == g[i]
             e == buffer[i]
  <2>1. e \in Event /\ e.kind # "evict" /\ PastEvent(e)
    BY <1>1 DEF NothingAhead
  <2>2. new = ApplyEvent(old, e)
    BY <1>2 DEF Replay
  <2>3. After(old, i - 1)
    BY <1>4
  <2>4. old \in Cache /\ Past(old)
    BY <2>3 DEF Leads
  <2> HIDE DEF old, new, e
  <2>5. Leads(new, old, e = Gone, e.kind = "state",
                e = State(room.version), e = Session(revision))
    BY <2>1, <2>2, <2>4, AppliedEvent
  <2>6. \A x : Among(i, x) <=> Among(i - 1, x) \/ e = x
    BY <1>1 DEF e
  <2>7. StateAmong(i) <=> StateAmong(i - 1) \/ e.kind = "state"
    BY <1>1 DEF e
  <2> HIDE DEF Among, StateAmong
  <2>8. After(new, i)
    BY <2>3, <2>5, <2>6, <2>7 DEF Leads
  <2> HIDE DEF After
  <2>9. QED BY <1>1, <2>8 DEF new
<1> HIDE DEF S
<1>5. n \in S
  <2>1. 0 .. n \subseteq S
    BY <1>1, <1>3, <1>4, Counting
  <2>2. QED BY <1>1, <2>1
<1>6. After(g[n], n)
  <2> HIDE DEF After
  <2>1. QED BY <1>5 DEF S
<1>7. QED BY <1>1, <1>2, <1>6 DEF Heard, HeardState

-----------------------------------------------------------------------------
(***************************************************************************)
(* What the steps of several actions have in common.                       *)
(***************************************************************************)

LEMMA Types ==
  ASSUME SyncTypeOK
  PROVE  /\ room.version \in Versions /\ room.version \in Nat /\ room.member \in BOOLEAN
         /\ revision \in Nat /\ revision <= MaxRevision
         /\ revision = 0 \/ revision \in Revisions
         /\ cache \in Cache /\ sync.draft \in Cache /\ sync.previous \in Cache
         /\ sync.replacing \in BOOLEAN /\ sync.read \in Reads
         /\ buffer \in Seq(Event) /\ Len(buffer) \in Nat /\ DOMAIN buffer = 1 .. Len(buffer)
         /\ \A e \in outbox : e \in Event
         /\ \A e \in replies : e \in Event
  BY Bounds DEF SyncTypeOK, Sync, Revisions

LEMMA CacheTypes ==
  ASSUME NEW c \in Cache
  PROVE  /\ c.version \in Nat /\ c.content \in Nat /\ c.newest \in Nat
         /\ c.version = 0 \/ c.version \in Versions
         /\ c.stale \in BOOLEAN /\ c.behind \in BOOLEAN /\ c.setBack \in BOOLEAN
<1>1. /\ c.version \in {0} \cup Versions /\ c.content \in {0} \cup Versions
      /\ c.newest \in {0} \cup Revisions
      /\ c.stale \in BOOLEAN /\ c.behind \in BOOLEAN /\ c.setBack \in BOOLEAN
  BY DEF Cache
<1>2. QED BY <1>1, Bounds

LEMMA CallTypes ==
  ASSUME SyncTypeOK
  PROVE  /\ call.seed = 0 \/ call.seed \in Versions
         /\ call.seed \in Nat
         /\ call.at \in CallStages
<1>1. call.seed \in {0} \cup Versions /\ call.at \in CallStages
  BY DEF SyncTypeOK, Call
<1>2. QED BY <1>1, Bounds

\* What becomes of a call when the connection closes, when the task it waits
\* for fails, and when the room is removed.
LEMMA CallIs ==
  ASSUME NEW k \in Call, k.at = "none" => k.seed = 0
  PROVE  /\ Abandoned(k) \in Call /\ Abandoned(k).seed \in {0, k.seed}
         /\ Abandoned(k).at = IF k.at \in Asking THEN "none"
                              ELSE IF k.at = "undoing" THEN "undone" ELSE k.at
         /\ Abandoned(k).at = "none" => Abandoned(k).seed = 0
         /\ Failed(k) \in Call /\ Failed(k).seed = k.seed
         /\ Failed(k).at = IF k.at \in {"joined", "syncing"} THEN "failed" ELSE k.at
         /\ Unseeded(k) \in Call /\ Unseeded(k).seed \in {0, k.seed}
         /\ Unseeded(k).at = k.at
<1>1. /\ k.at \in CallStages /\ k.seed \in {0} \cup Versions
      /\ k = [at |-> k.at, seed |-> k.seed]
  BY DEF Call
<1>2. /\ Abandoned(k) \in Call /\ Abandoned(k).seed \in {0, k.seed}
      /\ Abandoned(k).at = IF k.at \in Asking THEN "none"
                           ELSE IF k.at = "undoing" THEN "undone" ELSE k.at
      /\ Abandoned(k).at = "none" => Abandoned(k).seed = 0
  <2>1. CASE k.at \in Asking
    BY <2>1 DEF Abandoned, NoCall, Call, CallStages
  <2>2. CASE k.at = "undoing"
    BY <2>2 DEF Abandoned, Call, CallStages, Asking
  <2>3. CASE k.at \notin Asking \cup {"undoing"}
    BY <1>1, <2>3 DEF Abandoned, Call
  <2>4. QED BY <2>1, <2>2, <2>3
<1>3. /\ Failed(k) \in Call /\ Failed(k).seed = k.seed
      /\ Failed(k).at = IF k.at \in {"joined", "syncing"} THEN "failed" ELSE k.at
  BY DEF Failed, Call, CallStages
<1>4. /\ Unseeded(k) \in Call /\ Unseeded(k).seed \in {0, k.seed}
      /\ Unseeded(k).at = k.at
  BY DEF Unseeded, Call
<1>5. QED BY <1>2, <1>3, <1>4

LEMMA EmptyIsPast ==
  ASSUME SyncTypeOK
  PROVE  Past(Empty)
<1>1. Active(0) = 0
  BY DEF Active
<1>2. QED BY <1>1, EmptyIs, Types DEF Past

\* The database moves on, and what was true stays true of an earlier time.
LEMMA StaysPast ==
  ASSUME SyncTypeOK, NEW c \in Cache, Past(c),
         room'.version \in Nat, revision' \in Nat,
         room.version <= room'.version, revision <= revision'
  PROVE  Past(c)'
  BY Types, CacheTypes DEF Past

\* The buffer takes one more event.
LEMMA Buffered ==
  ASSUME SyncTypeOK, NEW e \in Event, buffer' = Append(buffer, e)
  PROVE  /\ buffer' \in Seq(Event) /\ Len(buffer') = Len(buffer) + 1
         /\ \A x : Heard(x)' <=> Heard(x) \/ x = e
         /\ HeardState' <=> HeardState \/ e.kind = "state"
         /\ \A i \in DOMAIN buffer' : buffer'[i] = e \/ (i \in DOMAIN buffer /\ buffer'[i] = buffer[i])
<1>1. buffer \in Seq(Event) /\ Len(buffer) \in Nat /\ DOMAIN buffer = 1 .. Len(buffer)
  BY Types
<1>2. /\ buffer' \in Seq(Event) /\ Len(buffer') = Len(buffer) + 1
      /\ DOMAIN buffer' = 1 .. Len(buffer) + 1
      /\ \A i \in 1 .. Len(buffer) : buffer'[i] = buffer[i]
      /\ buffer'[Len(buffer) + 1] = e
  BY <1>1
<1>3. \A x : Heard(x)' <=> Heard(x) \/ x = e
  BY <1>1, <1>2 DEF Heard
<1>4. HeardState' <=> HeardState \/ e.kind = "state"
  BY <1>1, <1>2 DEF HeardState
<1>5. QED BY <1>1, <1>2, <1>3, <1>4

LEMMA NothingBuffered ==
  ASSUME buffer' = <<>>
  PROVE  /\ buffer' \in Seq(Event) /\ Len(buffer') = 0
         /\ \A x : ~Heard(x)'
         /\ ~HeardState'
         /\ \A i \in DOMAIN buffer' : FALSE
  BY DEF Heard, HeardState

LEMMA OneMore ==
  ASSUME NEW S, IsFiniteSet(S), NEW x
  PROVE  /\ IsFiniteSet(S \cup {x}) /\ Cardinality(S \cup {x}) <= Cardinality(S) + 1
         /\ Cardinality(S) \in Nat /\ Cardinality(S \cup {x}) \in Nat
<1>1. Cardinality(S) \in Nat
  BY FS_CardinalityType
<1>2. QED BY <1>1, FS_AddElement

\* Publishing three events at most.
LEMMA Publishing ==
  ASSUME IsFiniteSet(outbox), NEW a, NEW b, NEW c, Send({a, b, c})
  PROVE  /\ IsFiniteSet(outbox') /\ Cardinality(outbox') <= Cardinality(outbox) + 3
         /\ Cardinality(outbox) \in Nat /\ Cardinality(outbox') \in Nat
<1>1. PICK S : S = outbox \cup {a}
  OBVIOUS
<1>2. PICK T : T = S \cup {b}
  OBVIOUS
<1>3. outbox' = T \cup {c}
  BY <1>1, <1>2 DEF Send
<1>4. /\ IsFiniteSet(S) /\ Cardinality(S) <= Cardinality(outbox) + 1
      /\ Cardinality(outbox) \in Nat /\ Cardinality(S) \in Nat
  BY <1>1, OneMore
<1>5. IsFiniteSet(T) /\ Cardinality(T) <= Cardinality(S) + 1 /\ Cardinality(T) \in Nat
  BY <1>2, <1>4, OneMore
<1>6. /\ IsFiniteSet(outbox') /\ Cardinality(outbox') <= Cardinality(T) + 1
      /\ Cardinality(outbox') \in Nat
  BY <1>3, <1>5, OneMore
<1>7. QED BY <1>4, <1>5, <1>6

LEMMA Removing ==
  ASSUME IsFiniteSet(outbox), NEW e \in outbox, outbox' = outbox \ {e}
  PROVE  /\ IsFiniteSet(outbox') /\ Cardinality(outbox') = Cardinality(outbox) - 1
         /\ Cardinality(outbox) \in Nat /\ Cardinality(outbox') \in Nat
  BY FS_RemoveElement, FS_CardinalityType

-----------------------------------------------------------------------------
(***************************************************************************)
(* The server: the room and the session change, and are published.         *)
(***************************************************************************)

ServerCommits ==
  /\ UNCHANGED <<socket, client, lossy>>
  /\ exposed' \in BOOLEAN /\ (exposed => exposed')
  /\ StatePending' => StatePending \/ joined \/ exposed'
  /\ room' \in [version: Nat, member: BOOLEAN] /\ revision' \in 0 .. MaxRevision
  /\ room'.version \in {room.version, room.version + 1} /\ revision <= revision'
  /\ outbox \subseteq outbox'
  /\ IsFiniteSet(outbox') /\ Cardinality(outbox') <= Cardinality(outbox) + 3
  /\ Cardinality(outbox) \in Nat /\ Cardinality(outbox') \in Nat
  /\ \A e \in outbox' : e \in outbox \/ (e \in Event /\ PastEvent(e)')
  /\ \A e \in replies' :
       e \in replies \/ (e \in Event /\ PastEvent(e)' /\ e.kind \in {"state", "session"})
  /\ room'.version # room.version => State(room'.version) \in outbox'
  /\ revision' # revision => Session(revision') \in outbox'
  /\ room.member /\ ~room'.member => Gone \in outbox'

LEMMA ServerKeeps ==
  ASSUME SyncInv, Happens, ServerCommits
  PROVE  SyncInv'
<1> USE DEF SyncInv
<1>1. UNCHANGED <<socket, phase, joined, call, leaving, cache, sync, buffering, buffer, lossy>>
  BY DEF ServerCommits, client
<1>2. /\ room'.version \in Nat /\ revision' \in Nat
      /\ room.version <= room'.version /\ revision <= revision'
      /\ room'.version \in Versions
  <2>1. /\ room.version \in Nat /\ room.version > 0 /\ revision \in Nat
        /\ room.version <= happened + 1 /\ happened \in Nat /\ happened < MaxHappenings
    BY Types, Bounds DEF Counted, Happens
  <2>2. /\ room'.version = room.version \/ room'.version = room.version + 1
        /\ revision' \in Nat /\ revision <= revision'
    BY Bounds DEF ServerCommits
  <2>3. QED BY <2>1, <2>2, Bounds DEF Versions
<1>3. \A x : Heard(x)' <=> Heard(x)
  BY <1>1 DEF Heard
<1>4. Idle' <=> Idle
  BY <1>1 DEF Idle
<1>5. SyncTypeOK'
  <2>1. room' \in [version: Versions, member: BOOLEAN]
    BY <1>2 DEF ServerCommits
  <2>2. outbox' \subseteq Event /\ replies' \subseteq Event
    BY DEF ServerCommits, SyncTypeOK
  <2>3. QED BY <1>1, <1>4, <2>1, <2>2 DEF SyncTypeOK, ServerCommits
<1>6. Counted'
  <2>1. /\ happened \in Nat /\ happened' = happened + 1 /\ happened' \in 0 .. MaxHappenings
        /\ room.version \in Nat /\ Len(buffer) \in Nat /\ Len(buffer') = Len(buffer)
        /\ room.version <= happened + 1
        /\ Cardinality(outbox) + Len(buffer) <= 3 * happened
    BY <1>1, Types, Bounds DEF Counted, Happens
  <2>2. /\ IsFiniteSet(outbox') /\ Cardinality(outbox') <= Cardinality(outbox) + 3
        /\ Cardinality(outbox) \in Nat /\ Cardinality(outbox') \in Nat
        /\ room'.version = room.version \/ room'.version = room.version + 1
    BY DEF ServerCommits
  <2>3. room'.version <= happened' + 1
    BY <2>1, <2>2
  <2>4. Cardinality(outbox') + Len(buffer') <= 3 * happened'
    BY <2>1, <2>2
  <2>5. QED BY <2>1, <2>2, <2>3, <2>4 DEF Counted
<1>7. NothingAhead'
  <2>1. Past(cache)' /\ Past(sync.draft)' /\ Past(sync.previous)'
    BY <1>1, <1>2, Types, StaysPast DEF NothingAhead
  <2>2. \A e \in Event : PastEvent(e) => PastEvent(e)'
    <3> SUFFICES ASSUME NEW e \in Event, PastEvent(e) PROVE PastEvent(e)'
      OBVIOUS
    <3>1. e.at \in Nat
      BY EventKinds, Bounds
    <3>2. QED BY <1>2, <3>1, Types DEF PastEvent
  <2>3. \A e \in outbox' : PastEvent(e)'
    BY <2>2, Types DEF ServerCommits, NothingAhead
  <2>4. \A e \in replies' : PastEvent(e)' /\ e.kind \in {"state", "session"}
    BY <2>2, Types DEF ServerCommits, NothingAhead
  <2>5. \A i \in DOMAIN buffer' : PastEvent(buffer[i])' /\ buffer'[i].kind # "evict"
    <3>1. \A i \in DOMAIN buffer : buffer[i] \in Event
      BY Types
    <3>2. \A i \in DOMAIN buffer : PastEvent(buffer[i]) /\ buffer[i].kind # "evict"
      BY DEF NothingAhead
    <3>3. QED BY <1>1, <2>2, <3>1, <3>2 DEF PastEvent
  <2>6. call'.seed <= room'.version
    <3>1. call.seed \in Nat
      BY CallTypes
    <3>2. QED BY <1>1, <1>2, <3>1, Types DEF NothingAhead
  <2>7. QED BY <2>1, <2>3, <2>4, <2>5, <2>6 DEF NothingAhead
<1>8. TasksAndCalls'
  BY <1>1 DEF TasksAndCalls, Listed
<1>9. RemovalShows'
  BY <1>1, <1>3, <1>4 DEF RemovalShows, ServerCommits, Undecided, Unread, Listed
<1>10. RemovedIsGone'
  BY <1>1, <1>4 DEF RemovedIsGone, HeardState, ServerCommits
<1>11. \A c : RoomIn(c) => RoomIn(c)'
  <2> SUFFICES ASSUME NEW c, RoomIn(c) PROVE RoomIn(c)'
    OBVIOUS
  <2>1. CASE room'.version = room.version
    BY <1>3, <2>1 DEF RoomIn, Coming, ServerCommits
  <2>2. CASE room'.version # room.version
    BY <2>2 DEF RoomIn, Coming, ServerCommits
  <2>3. QED BY <2>1, <2>2
<1>12. \A c : SessionIn(c) => SessionIn(c)'
  <2> SUFFICES ASSUME NEW c, SessionIn(c) PROVE SessionIn(c)'
    OBVIOUS
  <2>1. CASE revision' = revision
    BY <1>3, <2>1 DEF SessionIn, Coming, ServerCommits
  <2>2. CASE revision' # revision
    BY <2>2 DEF SessionIn, Coming, ServerCommits
  <2>3. QED BY <2>1, <2>2
<1>13. RoomFollows'
  BY <1>1, <1>4, <1>11 DEF RoomFollows, Listens, FallsBack, Calm
<1>14. SessionFollows'
  BY <1>1, <1>4, <1>12 DEF SessionFollows, Listens, FallsBack, Calm
<1>15. QED BY <1>5, <1>6, <1>7, <1>8, <1>9, <1>10, <1>13, <1>14

LEMMA EventsAre ==
  /\ \A v \in Versions : /\ State(v) \in Event /\ State(v).kind = "state" /\ State(v).at = v
                         /\ Presence(v) \in Event /\ Presence(v).kind = "presence"
                         /\ Presence(v).at = v
  /\ \A r \in Revisions : /\ Session(r) \in Event /\ Session(r).kind = "session"
                          /\ Session(r).at = r
  /\ Gone \in Event /\ Gone.kind = "gone" /\ Gone.at = 0
  /\ Evict \in Event /\ Evict.kind = "evict" /\ Evict.at = 0
  BY DEF Event, State, Presence, Session, Gone, Evict

LEMMA CommitIs ==
  ASSUME SyncInv, Happens, NEW m \in BOOLEAN, Commit(m)
  PROVE  /\ room' \in [version: Nat, member: BOOLEAN]
         /\ room'.version = room.version + 1 /\ room'.member = m
         /\ room.version + 1 \in Versions
  BY Types, Bounds DEF Commit, SyncInv, Counted, Happens, Versions

\* An action of the server publishes at most three events.
LEMMA Sends ==
  ASSUME IsFiniteSet(outbox), NEW a \in Event, NEW b \in Event, NEW c \in Event,
         PastEvent(a)', PastEvent(b)', PastEvent(c)', Send({a, b, c})
  PROVE  /\ outbox \subseteq outbox'
         /\ IsFiniteSet(outbox') /\ Cardinality(outbox') <= Cardinality(outbox) + 3
         /\ Cardinality(outbox) \in Nat /\ Cardinality(outbox') \in Nat
         /\ \A e \in outbox' : e \in outbox \/ (e \in Event /\ PastEvent(e)')
         /\ a \in outbox' /\ b \in outbox' /\ c \in outbox'
<1>1. outbox' = outbox \cup {a, b, c}
  BY DEF Send
<1>2. \A e \in outbox' : e \in outbox \/ (e \in Event /\ PastEvent(e)')
  <2> SUFFICES ASSUME NEW e \in outbox', e \notin outbox
               PROVE  e \in Event /\ PastEvent(e)'
    OBVIOUS
  <2>1. e = a \/ e = b \/ e = c
    BY <1>1
  <2>2. QED BY <2>1
<1>3. QED BY <1>1, <1>2, Publishing

\* The next version of the room and the event that brings it.
LEMMA NextState ==
  ASSUME SyncInv, Happens, NEW m \in BOOLEAN, Commit(m)
  PROVE  \E v \in Versions :
           /\ v = room.version + 1 /\ v = room'.version
           /\ State(v) \in Event /\ State(v).kind = "state" /\ PastEvent(State(v))'
<1>1. room'.version = room.version + 1 /\ room'.version \in Versions
  BY CommitIs
<1>2. PICK v \in Versions : v = room'.version
  BY <1>1
<1>3. State(v).kind = "state" /\ State(v).at = v /\ State(v) \in Event
  BY EventsAre
<1>4. v \in Nat
  BY Bounds
<1>5. PastEvent(State(v))'
  BY <1>2, <1>3, <1>4 DEF PastEvent
<1>6. QED BY <1>1, <1>2, <1>3, <1>5

LEMMA ChangeRoomKeeps ==
  ASSUME SyncInv, Happens, ChangeRoom
  PROVE  SyncInv'
<1>1. room.member \in BOOLEAN /\ Commit(room.member) /\ IsFiniteSet(outbox)
  BY Types DEF SyncInv, ChangeRoom, Counted
<1>2. PICK v \in Versions :
        /\ v = room.version + 1 /\ v = room'.version
        /\ State(v) \in Event /\ PastEvent(State(v))'
  BY <1>1, NextState
<1>3. Send({State(v), State(v), State(v)})
  BY <1>2 DEF ChangeRoom, Send
<1>4. ServerCommits
  <2>1. /\ room' \in [version: Nat, member: BOOLEAN] /\ room'.member = room.member
    BY <1>1, CommitIs
  <2>2. /\ outbox \subseteq outbox' /\ State(v) \in outbox'
        /\ IsFiniteSet(outbox') /\ Cardinality(outbox') <= Cardinality(outbox) + 3
        /\ Cardinality(outbox) \in Nat /\ Cardinality(outbox') \in Nat
        /\ \A e \in outbox' : e \in outbox \/ (e \in Event /\ PastEvent(e)')
    BY <1>1, <1>2, <1>3, Sends
  <2>3. /\ UNCHANGED <<socket, client, lossy, exposed>>
        /\ revision' = revision /\ replies' = replies
    BY DEF ChangeRoom
  <2>4. QED
    BY <1>2, <2>1, <2>2, <2>3 DEF ServerCommits, SyncInv, SyncTypeOK, StatePending
<1>5. QED BY <1>4, ServerKeeps

LEMMA RemoveUserKeeps ==
  ASSUME SyncInv, Happens, RemoveUser
  PROVE  SyncInv'
<1>1. Commit(FALSE) /\ IsFiniteSet(outbox)
  BY DEF SyncInv, RemoveUser, Counted
<1>2. PICK v \in Versions :
        /\ v = room.version + 1 /\ v = room'.version
        /\ State(v) \in Event /\ PastEvent(State(v))'
  BY <1>1, NextState
<1>3. Send({State(v), Gone, Evict})
  BY <1>2 DEF RemoveUser
<1>4. ServerCommits
  <2>1. /\ room' \in [version: Nat, member: BOOLEAN]
    BY <1>1, CommitIs
  <2>2. Gone \in Event /\ Evict \in Event /\ PastEvent(Gone)' /\ PastEvent(Evict)'
    BY <1>2, EventsAre, Bounds DEF PastEvent
  <2>3. /\ outbox \subseteq outbox' /\ State(v) \in outbox' /\ Gone \in outbox'
        /\ IsFiniteSet(outbox') /\ Cardinality(outbox') <= Cardinality(outbox) + 3
        /\ Cardinality(outbox) \in Nat /\ Cardinality(outbox') \in Nat
        /\ \A e \in outbox' : e \in outbox \/ (e \in Event /\ PastEvent(e)')
    BY <1>1, <1>2, <1>3, <2>2, Sends
  <2>4. /\ UNCHANGED <<socket, client, lossy, exposed>>
        /\ revision' = revision /\ replies' = replies
    BY DEF RemoveUser
  <2>5. QED
    BY <1>2, <2>1, <2>3, <2>4 DEF ServerCommits, SyncInv, SyncTypeOK, StatePending
<1>5. QED BY <1>4, ServerKeeps

LEMMA ReadmitUserKeeps ==
  ASSUME SyncInv, Happens, ReadmitUser
  PROVE  SyncInv'
<1>1. Commit(TRUE) /\ IsFiniteSet(outbox)
  BY DEF SyncInv, ReadmitUser, Counted
<1>2. PICK v \in Versions :
        /\ v = room.version + 1 /\ v = room'.version
        /\ State(v) \in Event /\ PastEvent(State(v))'
  BY <1>1, NextState
<1>3. Send({State(v), State(v), State(v)})
  BY <1>2 DEF ReadmitUser, Send
<1>4. ServerCommits
  <2>1. /\ room' \in [version: Nat, member: BOOLEAN] /\ room'.member = TRUE
    BY <1>1, CommitIs
  <2>2. /\ outbox \subseteq outbox' /\ State(v) \in outbox'
        /\ IsFiniteSet(outbox') /\ Cardinality(outbox') <= Cardinality(outbox) + 3
        /\ Cardinality(outbox) \in Nat /\ Cardinality(outbox') \in Nat
        /\ \A e \in outbox' : e \in outbox \/ (e \in Event /\ PastEvent(e)')
    BY <1>1, <1>2, <1>3, Sends
  <2>3. /\ UNCHANGED <<socket, client, lossy, exposed>>
        /\ revision' = revision /\ replies' = replies
    BY DEF ReadmitUser
  <2>4. QED
    BY <1>2, <2>1, <2>2, <2>3 DEF ServerCommits, SyncInv, SyncTypeOK, StatePending
<1>5. QED BY <1>4, ServerKeeps

LEMMA TransferOwnershipKeeps ==
  ASSUME SyncInv, Happens, TransferOwnership
  PROVE  SyncInv'
<1>1. Commit(TRUE) /\ IsFiniteSet(outbox)
  BY DEF SyncInv, TransferOwnership, Counted
<1>2. PICK v \in Versions :
        /\ v = room.version + 1 /\ v = room'.version
        /\ State(v) \in Event /\ State(v).kind = "state" /\ PastEvent(State(v))'
  BY <1>1, NextState
<1>3. Send({State(v), State(v), State(v)})
  BY <1>2 DEF TransferOwnership, Send
<1>4. ServerCommits
  <2>1. /\ room' \in [version: Nat, member: BOOLEAN] /\ room'.member = TRUE
    BY <1>1, CommitIs
  <2>2. /\ outbox \subseteq outbox' /\ State(v) \in outbox'
        /\ IsFiniteSet(outbox') /\ Cardinality(outbox') <= Cardinality(outbox) + 3
        /\ Cardinality(outbox) \in Nat /\ Cardinality(outbox') \in Nat
        /\ \A e \in outbox' : e \in outbox \/ (e \in Event /\ PastEvent(e)')
    BY <1>1, <1>2, <1>3, Sends
  <2>3. /\ UNCHANGED <<socket, client, lossy>> /\ exposed' = (exposed \/ ~joined)
        /\ revision' = revision /\ replies' = {State(v)}
    BY <1>2 DEF TransferOwnership
  <2>4. exposed' \in BOOLEAN /\ (exposed => exposed') /\ (joined \/ exposed')
    BY <2>3 DEF SyncInv, SyncTypeOK
  <2>5. QED
    BY <1>2, <2>1, <2>2, <2>3, <2>4 DEF ServerCommits, SyncInv, SyncTypeOK
<1>5. QED BY <1>4, ServerKeeps

LEMMA PublishPresenceKeeps ==
  ASSUME SyncInv, Happens, PublishPresence
  PROVE  SyncInv'
<1>1. SyncTypeOK /\ IsFiniteSet(outbox)
  BY DEF SyncInv, Counted
<1>2. PICK v \in Versions : v = room.version
  BY <1>1, Types
<1>3. room' = room /\ Presence(v) \in Event /\ Presence(v).kind = "presence" /\ Presence(v).at = v
  BY EventsAre DEF PublishPresence, server
<1>4. PastEvent(Presence(v))'
  BY <1>2, <1>3, Bounds DEF PastEvent
<1>5. Send({Presence(v), Presence(v), Presence(v)})
  BY <1>2 DEF PublishPresence, Send
<1>6. ServerCommits
  <2>1. /\ outbox \subseteq outbox'
        /\ IsFiniteSet(outbox') /\ Cardinality(outbox') <= Cardinality(outbox) + 3
        /\ Cardinality(outbox) \in Nat /\ Cardinality(outbox') \in Nat
        /\ \A e \in outbox' : e \in outbox \/ (e \in Event /\ PastEvent(e)')
    BY <1>1, <1>3, <1>4, <1>5, Sends
  <2>2. /\ UNCHANGED <<socket, client, lossy, exposed>>
        /\ revision' = revision /\ replies' = replies
    BY DEF PublishPresence, server
  <2>3. room' \in [version: Nat, member: BOOLEAN]
    BY <1>1, <1>3, Bounds DEF SyncTypeOK
  <2>4. QED
    BY <1>1, <1>3, <2>1, <2>2, <2>3 DEF ServerCommits, SyncTypeOK, StatePending
<1>7. QED BY <1>6, ServerKeeps

LEMMA UpdateSessionKeeps ==
  ASSUME SyncInv, Happens, NEW own \in BOOLEAN, UpdateSession(own)
  PROVE  SyncInv'
<1>1. SyncTypeOK /\ IsFiniteSet(outbox) /\ room' = room
  BY DEF SyncInv, Counted, UpdateSession
<1>2. PICK r \in Revisions : r = revision + 1 /\ r = revision'
  BY <1>1, Bounds DEF UpdateSession, SyncTypeOK, Finished, Revisions
<1>3. Session(r) \in Event /\ Session(r).kind = "session" /\ Session(r).at = r
  BY EventsAre
<1>4. PastEvent(Session(r))'
  BY <1>2, <1>3, Bounds DEF PastEvent
<1>5. Send({Session(r), Session(r), Session(r)})
  BY <1>2 DEF UpdateSession, Send
<1>6. ServerCommits
  <2>1. /\ outbox \subseteq outbox' /\ Session(r) \in outbox'
        /\ IsFiniteSet(outbox') /\ Cardinality(outbox') <= Cardinality(outbox) + 3
        /\ Cardinality(outbox) \in Nat /\ Cardinality(outbox') \in Nat
        /\ \A e \in outbox' : e \in outbox \/ (e \in Event /\ PastEvent(e)')
    BY <1>1, <1>3, <1>4, <1>5, Sends
  <2>2. UNCHANGED <<socket, client, lossy, exposed>>
    BY DEF UpdateSession
  <2>3. /\ \A e \in replies' :
             e \in replies \/ (e \in Event /\ PastEvent(e)' /\ e.kind \in {"state", "session"})
        /\ StatePending' => StatePending
        /\ exposed \in BOOLEAN
    <3>1. replies' = replies \/ replies' = {Session(r)}
      BY <1>2 DEF UpdateSession
    <3>2. QED BY <1>1, <1>3, <1>4, <3>1 DEF StatePending, SyncTypeOK
  <2>4. room' \in [version: Nat, member: BOOLEAN]
    BY <1>1, Bounds DEF SyncTypeOK
  <2>5. revision' \in 0 .. MaxRevision /\ revision <= revision'
    BY <1>1, <1>2, Types DEF Revisions
  <2>6. QED
    BY <1>1, <1>2, <2>1, <2>2, <2>3, <2>4, <2>5 DEF ServerCommits
<1>7. QED BY <1>6, ServerKeeps

-----------------------------------------------------------------------------
(***************************************************************************)
(* The network and the answers of the SDK's own calls.                     *)
(***************************************************************************)

\* Nothing gets ahead of a database that does not move.
LEMMA ClientKeepsPast ==
  ASSUME NothingAhead, UNCHANGED server, outbox' \subseteq outbox, replies' \subseteq replies,
         Past(cache'), Past(sync'.draft), Past(sync'.previous), call'.seed <= room.version,
         \A i \in DOMAIN buffer' : PastEvent(buffer'[i]) /\ buffer'[i].kind # "evict"
  PROVE  NothingAhead'
<1>1. room' = room /\ revision' = revision
  BY DEF server
<1>2. Past(cache)' /\ Past(sync.draft)' /\ Past(sync.previous)'
  BY <1>1 DEF Past, Active, Finished
<1>3. /\ \A e \in outbox' : PastEvent(e)'
      /\ \A e \in replies' : PastEvent(e)' /\ e.kind \in {"state", "session"}
      /\ \A i \in DOMAIN buffer' : PastEvent(buffer[i])'
  BY <1>1 DEF PastEvent, NothingAhead
<1>4. QED BY <1>1, <1>2, <1>3 DEF NothingAhead

LEMMA TakenIsCounted ==
  ASSUME SyncTypeOK, Counted, NEW e \in outbox, outbox' = outbox \ {e}, room' = room,
         Len(buffer') \in Nat, Len(buffer') <= Len(buffer) + 1,
         happened' \in {happened, happened + 1}, happened' \in 0 .. MaxHappenings
  PROVE  Counted'
<1>1. IsFiniteSet(outbox)
  BY DEF Counted
<1>2. /\ IsFiniteSet(outbox') /\ Cardinality(outbox') = Cardinality(outbox) - 1
      /\ Cardinality(outbox) \in Nat /\ Cardinality(outbox') \in Nat
  BY <1>1, Removing
<1>3. /\ happened \in Nat /\ happened' \in Nat /\ happened <= happened'
      /\ room.version \in Nat /\ Len(buffer) \in Nat
      /\ room.version <= happened + 1
      /\ Cardinality(outbox) + Len(buffer) <= 3 * happened
  BY Types DEF Counted
<1>4. room'.version <= happened' + 1
  BY <1>3
<1>5. Cardinality(outbox') + Len(buffer') <= 3 * happened'
  <2>1. ASSUME NEW o \in Nat, NEW p \in Nat, NEW m \in Nat, NEW n \in Nat,
               NEW h \in Nat, NEW i \in Nat,
               p = o - 1, n <= m + 1, o + m <= 3 * h, h <= i
        PROVE  p + n <= 3 * i
    BY <2>1
  <2>2. QED BY <1>2, <1>3, <2>1
<1>6. QED BY <1>2, <1>4, <1>5 DEF Counted

LEMMA LoseKeeps ==
  ASSUME SyncInv, Happens, NEW e \in outbox, Lose(e)
  PROVE  SyncInv'
<1> USE DEF SyncInv
<1>1. /\ UNCHANGED <<room, revision, replies, socket, phase, joined, call, leaving, cache,
                     sync, buffering, buffer, exposed>>
      /\ outbox' = outbox \ {e} /\ lossy' = "since"
  BY DEF Lose, server, client
<1>2. Idle' <=> Idle
  BY <1>1 DEF Idle
<1>3. SyncTypeOK'
  BY <1>1, <1>2 DEF SyncTypeOK
<1>4. Counted'
  <2>1. happened' = happened + 1 /\ happened' \in 0 .. MaxHappenings /\ Len(buffer') = Len(buffer)
    BY <1>1, Bounds DEF Counted, Happens
  <2>2. QED BY <1>1, <2>1, TakenIsCounted, Types
<1>5. NothingAhead'
  BY <1>1, ClientKeepsPast DEF NothingAhead, server
<1>6. TasksAndCalls' /\ RemovalShows'
  BY <1>1 DEF TasksAndCalls, RemovalShows, Undecided, Unread, Listed
<1>7. RemovedIsGone'
  BY <1>1, <1>2 DEF RemovedIsGone, HeardState, StatePending
<1>8. RoomFollows' /\ SessionFollows'
  BY <1>1 DEF RoomFollows, SessionFollows, Listens, Calm
<1>9. QED BY <1>3, <1>4, <1>5, <1>6, <1>7, <1>8

\* The eviction from the topic of the room.
LEMMA EvictionKeeps ==
  ASSUME SyncInv, Follows, Evict \in outbox, Deliver(Evict)
  PROVE  SyncInv'
<1> USE DEF SyncInv
<1>1. /\ UNCHANGED <<room, revision, replies, phase, joined, call, leaving, cache,
                     sync, buffering, buffer, lossy, exposed>>
      /\ outbox' = outbox \ {Evict} /\ socket' = [socket EXCEPT !.subscribed = FALSE]
  BY DEF Deliver, server
<1>2. /\ Idle' <=> Idle
      /\ socket' \in Socket /\ socket'.open = socket.open
      /\ ~socket'.subscribed /\ socket'.stray = socket.stray
  BY <1>1 DEF Idle, SyncTypeOK, Socket
<1>3. SyncTypeOK'
  BY <1>1, <1>2 DEF SyncTypeOK
<1>4. Counted'
  <2>1. happened' = happened /\ happened' \in 0 .. MaxHappenings /\ Len(buffer') = Len(buffer)
    BY <1>1 DEF Counted, Follows
  <2>2. QED BY <1>1, <2>1, TakenIsCounted, Types
<1>5. NothingAhead'
  BY <1>1, ClientKeepsPast DEF NothingAhead, server
<1>6. TasksAndCalls'
  BY <1>1, <1>2 DEF TasksAndCalls, Listed
<1>7. RemovalShows'
  <2>1. Gone \in outbox => Gone \in outbox'
    BY <1>1, EventsAre
  <2>2. QED BY <1>1, <1>2, <2>1 DEF RemovalShows, Undecided, Unread, Listed, Heard
<1>8. RemovedIsGone'
  BY <1>1, <1>2 DEF RemovedIsGone, HeardState, StatePending
<1>9. RoomFollows' /\ SessionFollows'
  BY <1>2 DEF RoomFollows, SessionFollows, Listens, Calm
<1>10. QED BY <1>3, <1>4, <1>5, <1>6, <1>7, <1>8, <1>9

\* An event that finds no connection.
LEMMA UnreachedKeeps ==
  ASSUME SyncInv, Follows, NEW e \in outbox, e # Evict, Deliver(e), ~Reaches(e)
  PROVE  SyncInv'
<1> USE DEF SyncInv
<1>1. /\ UNCHANGED <<room, revision, replies, socket, phase, joined, call, leaving, cache,
                     sync, buffering, buffer, lossy, exposed>>
      /\ outbox' = outbox \ {e}
  BY DEF Deliver, server
<1>2. Idle' <=> Idle
  BY <1>1 DEF Idle
<1>3. SyncTypeOK'
  BY <1>1, <1>2 DEF SyncTypeOK
<1>4. Counted'
  <2>1. happened' = happened /\ happened' \in 0 .. MaxHappenings /\ Len(buffer') = Len(buffer)
    BY <1>1 DEF Counted, Follows
  <2>2. QED BY <1>1, <2>1, TakenIsCounted, Types
<1>5. NothingAhead'
  BY <1>1, ClientKeepsPast DEF NothingAhead, server
<1>6. TasksAndCalls'
  BY <1>1 DEF TasksAndCalls, Listed
<1>7. RemovalShows'
  <2>1. socket.open => e # Gone
    BY EventsAre DEF Reaches
  <2>2. QED BY <1>1, <1>2, <2>1 DEF RemovalShows, Undecided, Unread, Listed, Heard
<1>8. RemovedIsGone'
  BY <1>1, <1>2 DEF RemovedIsGone, HeardState, StatePending
<1>9. RoomFollows' /\ SessionFollows'
  <2>1. ~socket.subscribed
    BY DEF SyncTypeOK, Reaches
  <2>2. QED BY <1>1, <2>1 DEF RoomFollows, SessionFollows, Listens, Calm
<1>10. QED BY <1>3, <1>4, <1>5, <1>6, <1>7, <1>8, <1>9

\* An event that is buffered.
LEMMA BufferedKeeps ==
  ASSUME SyncInv, Follows, NEW e \in outbox, e # Evict, Deliver(e), Reaches(e), buffering
  PROVE  SyncInv'
<1> USE DEF SyncInv
<1>1. /\ UNCHANGED <<room, revision, replies, socket, phase, joined, call, leaving, cache,
                     sync, buffering, lossy, exposed>>
      /\ outbox' = outbox \ {e} /\ buffer' = Append(buffer, e)
  BY DEF Deliver, server, HandleEvent
<1>2. Idle' <=> Idle
  BY <1>1 DEF Idle
<1>3. e \in Event /\ PastEvent(e)
  BY Types DEF NothingAhead
<1>4. /\ buffer' \in Seq(Event) /\ Len(buffer') = Len(buffer) + 1
      /\ \A x : Heard(x)' <=> Heard(x) \/ x = e
      /\ HeardState' <=> HeardState \/ e.kind = "state"
      /\ \A i \in DOMAIN buffer' : buffer'[i] = e \/ (i \in DOMAIN buffer /\ buffer'[i] = buffer[i])
  BY <1>1, <1>3, Buffered
<1>5. Counted'
  <2>1. happened' = happened /\ happened' \in 0 .. MaxHappenings
    BY DEF Counted, Follows
  <2>2. Len(buffer') \in Nat /\ Len(buffer') <= Len(buffer) + 1
    BY <1>4, Types
  <2>3. QED BY <1>1, <2>1, <2>2, TakenIsCounted
<1>6. SyncTypeOK'
  <2>1. Len(buffer') <= 3 * MaxHappenings
    <3>1. /\ Cardinality(outbox') \in Nat /\ Len(buffer') \in Nat
          /\ Cardinality(outbox') + Len(buffer') <= 3 * happened'
          /\ happened' \in 0 .. MaxHappenings
      BY <1>4, <1>5, Types, FS_CardinalityType DEF Counted
    <3>2. QED BY <3>1, Bounds
  <2>2. QED BY <1>1, <1>2, <1>4, <2>1 DEF SyncTypeOK
<1>7. NothingAhead'
  <2>1. e.kind # "evict"
    BY <1>3, EventKinds
  <2>2. \A i \in DOMAIN buffer' : PastEvent(buffer'[i]) /\ buffer'[i].kind # "evict"
    BY <1>3, <1>4, <2>1 DEF NothingAhead
  <2>3. QED BY <1>1, <2>2, ClientKeepsPast DEF NothingAhead, server
<1>8. TasksAndCalls'
  BY <1>1 DEF TasksAndCalls, Listed
<1>9. RemovalShows'
  BY <1>1, <1>2, <1>4 DEF RemovalShows, Undecided, Unread, Listed
<1>10. RemovedIsGone'
  <2>1. ~socket.subscribed => e.kind # "state"
    BY DEF Reaches
  <2>2. QED BY <1>1, <1>2, <1>4, <2>1 DEF RemovedIsGone, StatePending
<1>11. \A x : Coming(x) => Coming(x)'
  BY <1>1, <1>4 DEF Coming
<1>12. RoomFollows'
  <2>1. \A c : RoomIn(c) => RoomIn(c)'
    BY <1>1, <1>11 DEF RoomIn
  <2>2. QED BY <1>1, <1>2, <2>1 DEF RoomFollows, Listens, FallsBack, Calm
<1>13. SessionFollows'
  <2>1. \A c : SessionIn(c) => SessionIn(c)'
    BY <1>1, <1>11 DEF SessionIn
  <2>2. QED BY <1>1, <1>2, <2>1 DEF SessionFollows, Listens, FallsBack, Calm
<1>14. QED BY <1>5, <1>6, <1>7, <1>8, <1>9, <1>10, <1>12, <1>13

\* An event that is applied at once.
LEMMA HandledKeeps ==
  ASSUME SyncInv, Follows, NEW e \in outbox, e # Evict, Deliver(e), Reaches(e), ~buffering
  PROVE  SyncInv'
<1> USE DEF SyncInv
<1>1. /\ UNCHANGED <<room, revision, replies, socket, phase, call, leaving,
                     sync, buffering, buffer, lossy>>
      /\ outbox' = outbox \ {e} /\ cache' = ApplyEvent(cache, e)
      /\ joined' = (joined /\ e.kind # "gone")
      /\ exposed' = IF e.kind = "gone" THEN MayReturn ELSE exposed
  BY DEF Deliver, server, HandleEvent, HandleUnbuffered, Leaves
<1>2. Idle /\ Idle' /\ phase \notin {"subscribing", "admitted", "reading"}
  BY <1>1 DEF Idle, SyncTypeOK, Phases, TasksAndCalls, Reaches
<1>3. e \in Event /\ PastEvent(e) /\ e.kind # "evict" /\ (e.kind = "gone" <=> e = Gone)
  BY Types, EventKinds, EventsAre DEF NothingAhead
<1>4. Leads(cache', cache, e = Gone, e.kind = "state",
              e = State(room.version), e = Session(revision))
  BY <1>1, <1>3, Types, AppliedEvent DEF NothingAhead
<1>5. cache' \in Cache /\ Past(cache') /\ cache'.stale = cache.stale
  BY <1>4 DEF Leads
<1>6. SyncTypeOK'
  BY <1>1, <1>2, <1>5 DEF SyncTypeOK, MayReturn
<1>7. Counted'
  <2>1. happened' = happened /\ happened' \in 0 .. MaxHappenings /\ Len(buffer') = Len(buffer)
    BY <1>1 DEF Counted, Follows
  <2>2. QED BY <1>1, <2>1, TakenIsCounted, Types
<1>8. NothingAhead'
  BY <1>1, <1>5, ClientKeepsPast DEF NothingAhead, server
<1>9. TasksAndCalls'
  BY <1>1, <1>2 DEF TasksAndCalls, Listed
<1>10. RemovalShows'
  BY <1>1, <1>2, <1>3, <1>5 DEF RemovalShows, Undecided, Unread, Listed, Heard
<1>11. RemovedIsGone'
  <2>1. CASE e.kind = "gone"
    <3>1. cache' = ForgetRoom(cache)
      BY <1>1, <2>1 DEF ApplyEvent
    <3>2. cache'.version = 0
      BY <3>1, Types, ForgetRoomIs
    <3>3. QED BY <1>1, <1>2, <2>1, <3>2 DEF RemovedIsGone, MayReturn, StatePending
  <2>2. CASE e.kind # "gone"
    BY <1>1, <2>2 DEF RemovedIsGone, Reaches, StatePending
  <2>3. QED BY <2>1, <2>2
<1>12. RoomFollows'
  <2>1. joined' /\ RoomIn(cache) => RoomIn(cache)'
    BY <1>1, <1>3, <1>4 DEF Leads, RoomIn, Coming, Heard
  <2>2. QED BY <1>1, <1>2, <2>1 DEF RoomFollows, Listens, FallsBack, Calm
<1>13. SessionFollows'
  <2>1. joined' /\ SessionIn(cache) => SessionIn(cache)'
    BY <1>1, <1>3, <1>4 DEF Leads, SessionIn, Coming, Heard
  <2>2. QED BY <1>1, <1>2, <2>1 DEF SessionFollows, Listens, FallsBack, Calm
<1>14. QED BY <1>6, <1>7, <1>8, <1>9, <1>10, <1>11, <1>12, <1>13

LEMMA DeliverKeeps ==
  ASSUME SyncInv, Follows, NEW e \in outbox, Deliver(e)
  PROVE  SyncInv'
<1>1. buffering \in BOOLEAN
  BY DEF SyncInv, SyncTypeOK
<1>2. QED
  BY <1>1, EvictionKeeps, UnreachedKeeps, BufferedKeeps, HandledKeeps

\* What the answer of a call makes of the cache.
LEMMA AnswerIs ==
  ASSUME SyncInv, NEW e \in replies, PublishAnswer(e)
  PROVE  /\ cache' \in Cache /\ Past(cache') /\ cache'.stale = cache.stale
         /\ cache.content = room.version \/ cache.setBack =>
              cache'.content = room.version \/ cache'.setBack
         /\ cache.newest = revision => cache'.newest = revision
         /\ e.kind = "session" => cache'.version = cache.version
<1> USE DEF SyncInv
<1>1. /\ e \in Event /\ PastEvent(e) /\ e.kind \in {"state", "session"}
      /\ cache \in Cache /\ Past(cache)
      /\ room.version \in Nat /\ revision \in Nat
  BY Types DEF NothingAhead
<1>2. cache.version \in Nat /\ cache.content \in Nat /\ cache.newest \in Nat
      /\ cache.setBack \in BOOLEAN
  BY <1>1, CacheTypes
<1>3. CASE e.kind = "session"
  <2>1. e.at \in Revisions /\ e.at \in Nat /\ e.at <= revision
    BY <1>1, <1>3, EventKinds, Bounds DEF PastEvent
  <2>2. PICK d : d = WithSession(cache, e.at)
    OBVIOUS
  <2>3. cache' = d
    BY <1>3, <2>2 DEF PublishAnswer
  <2>4. /\ d \in Cache /\ d.session = Active(e.at) /\ d.behind = (e.at < cache.newest)
        /\ d.newest = IF e.at > cache.newest THEN e.at ELSE cache.newest
        /\ d.stale = cache.stale /\ SameRoom(d, cache)
    BY <1>1, <2>1, <2>2, WithSessionIs
  <2>5. ~d.behind => d.session = Active(d.newest)
    <3>1. ~d.behind => d.newest = e.at
      <4>1. CASE e.at < cache.newest BY <2>4, <4>1
      <4>2. CASE ~(e.at < cache.newest) BY <1>2, <2>1, <2>4, <4>2
      <4>3. QED BY <4>1, <4>2
    <3>2. QED BY <2>4, <3>1
  <2>6. d.newest <= revision /\ (cache.newest = revision => d.newest = revision)
    BY <1>1, <1>2, <2>1, <2>4 DEF Past
  <2>7. Past(d)
    BY <1>1, <2>4, <2>5, <2>6 DEF Past, SameRoom
  <2>8. QED BY <2>3, <2>4, <2>6, <2>7 DEF SameRoom
<1>4. CASE e.kind = "state"
  <2>1. e.at \in Versions /\ e.at \in Nat /\ e.at <= room.version
    BY <1>1, <1>4, EventKinds, Bounds DEF PastEvent
  <2>2. PICK d : d = WithRoom(cache, e.at)
    OBVIOUS
  <2>3. /\ d \in Cache /\ d.version = e.at /\ d.content = e.at
        /\ d.stale = cache.stale /\ d.setBack = cache.setBack /\ SameSession(d, cache)
    BY <1>1, <2>1, <2>2, WithRoomIs
  <2>4. PICK s \in BOOLEAN : s = (cache.setBack \/ e.at < cache.content)
    OBVIOUS
  <2>5. cache' = [d EXCEPT !.setBack = s]
    BY <1>4, <2>2, <2>3, <2>4 DEF PublishAnswer
  <2>6. /\ cache' \in Cache /\ cache'.version = e.at /\ cache'.content = e.at
        /\ cache'.stale = cache.stale /\ cache'.setBack = s /\ SameSession(cache', cache)
    BY <2>3, <2>5 DEF Cache, SameSession
  <2>7. Past(cache')
    BY <1>1, <1>2, <2>1, <2>6 DEF Past, SameSession
  <2>8. cache.content = room.version => cache'.content = room.version \/ cache'.setBack
    <3>1. CASE e.at < cache.content BY <2>4, <2>6, <3>1
    <3>2. CASE ~(e.at < cache.content) BY <1>1, <1>2, <2>1, <2>6, <3>2
    <3>3. QED BY <3>1, <3>2
  <2>9. QED BY <1>4, <2>4, <2>6, <2>7, <2>8 DEF SameSession
<1>5. QED BY <1>1, <1>3, <1>4

LEMMA PublishAnswerKeeps ==
  ASSUME SyncInv, Follows, NEW e \in replies, PublishAnswer(e)
  PROVE  SyncInv'
<1> USE DEF SyncInv
<1>1. /\ UNCHANGED <<room, revision, outbox, socket, phase, joined, call, leaving,
                     sync, buffering, buffer, lossy, exposed>>
      /\ replies' = replies \ {e}
  BY DEF PublishAnswer, server
<1>2. /\ cache' \in Cache /\ Past(cache') /\ cache'.stale = cache.stale
      /\ cache.content = room.version \/ cache.setBack =>
           cache'.content = room.version \/ cache'.setBack
      /\ cache.newest = revision => cache'.newest = revision
      /\ e.kind = "session" => cache'.version = cache.version
  BY AnswerIs
<1>3. /\ ~StatePending => e.kind = "session"
      /\ StatePending' => StatePending
  BY <1>1 DEF StatePending, NothingAhead
<1>4. Idle' <=> Idle
  BY <1>1 DEF Idle
<1>5. SyncTypeOK'
  BY <1>1, <1>2, <1>3, <1>4 DEF SyncTypeOK
<1>6. Counted'
  BY <1>1 DEF Counted, Follows
<1>7. NothingAhead'
  BY <1>1, <1>2, ClientKeepsPast DEF NothingAhead, server
<1>8. TasksAndCalls' /\ RemovalShows'
  <2>1. TasksAndCalls'
    BY <1>1 DEF TasksAndCalls, Listed
  <2>2. RemovalShows'
    BY <1>1, <1>2, <1>4 DEF RemovalShows, Undecided, Unread, Listed, Heard
  <2>3. QED BY <2>1, <2>2
<1>9. RemovedIsGone'
  BY <1>1, <1>2, <1>3, <1>4 DEF RemovedIsGone, HeardState
<1>10. \A x : Coming(x)' <=> Coming(x)
  BY <1>1 DEF Coming, Heard
<1>11. RoomFollows'
  <2>1. RoomIn(cache) => RoomIn(cache)'
    BY <1>1, <1>2, <1>10 DEF RoomIn
  <2>2. RoomIn(sync.draft)' <=> RoomIn(sync.draft)
    BY <1>1, <1>10 DEF RoomIn
  <2>3. RoomIn(sync.previous)' <=> RoomIn(sync.previous)
    BY <1>1, <1>10 DEF RoomIn
  <2>4. QED BY <1>1, <1>4, <2>1, <2>2, <2>3 DEF RoomFollows, Listens, FallsBack, Calm
<1>12. SessionFollows'
  <2>1. SessionIn(cache) => SessionIn(cache)'
    BY <1>1, <1>2, <1>10 DEF SessionIn
  <2>2. SessionIn(sync.draft)' <=> SessionIn(sync.draft)
    BY <1>1, <1>10 DEF SessionIn
  <2>3. SessionIn(sync.previous)' <=> SessionIn(sync.previous)
    BY <1>1, <1>10 DEF SessionIn
  <2>4. QED BY <1>1, <1>4, <2>1, <2>2, <2>3 DEF SessionFollows, Listens, FallsBack, Calm
<1>13. QED BY <1>5, <1>6, <1>7, <1>8, <1>9, <1>11, <1>12

-----------------------------------------------------------------------------
(***************************************************************************)
(* The lifecycle task.                                                     *)
(***************************************************************************)

\* The buffer takes up no more than it did.
LEMMA StaysCounted ==
  ASSUME SyncTypeOK, Counted, Happens \/ Follows, room' = room, outbox' = outbox,
         buffer' = buffer \/ buffer' = <<>>
  PROVE  Counted'
<1>1. happened' \in {happened, happened + 1} /\ happened' \in 0 .. MaxHappenings
  BY Bounds DEF Counted, Happens, Follows
<1>2. Cardinality(outbox) \in Nat /\ Len(buffer) \in Nat
  BY Types, FS_CardinalityType DEF Counted
<1>3. Len(buffer') \in Nat /\ Len(buffer') <= Len(buffer)
  BY <1>2
<1>4. /\ happened \in Nat /\ happened' \in Nat /\ happened <= happened'
      /\ room.version \in Nat /\ room.version <= happened + 1
      /\ Cardinality(outbox) + Len(buffer) <= 3 * happened
  BY <1>1, Types DEF Counted
<1>5. room'.version <= happened' + 1
  BY <1>4
<1>6. Cardinality(outbox') + Len(buffer') <= 3 * happened'
  BY <1>2, <1>3, <1>4
<1>7. QED BY <1>1, <1>5, <1>6 DEF Counted

\* A connection that is closed, and one that a socket leaves or gets into.
LEMMA SocketIs ==
  /\ Closed \in Socket /\ ~Closed.open /\ ~Closed.subscribed /\ ~Closed.stray
  /\ \A s \in Socket, b \in BOOLEAN :
       /\ [s EXCEPT !.subscribed = b] \in Socket
       /\ [s EXCEPT !.subscribed = b].open = s.open
       /\ [s EXCEPT !.subscribed = b].subscribed = b
       /\ [s EXCEPT !.subscribed = b].stray = s.stray
       /\ [s EXCEPT !.stray = b] \in Socket
       /\ [s EXCEPT !.stray = b].open = s.open
       /\ [s EXCEPT !.stray = b].subscribed = s.subscribed
       /\ [s EXCEPT !.stray = b].stray = b
  BY DEF Closed, Socket

\* The types of a connection and of the commands on their way over it.
Commands ==
  /\ socket' \in Socket /\ (socket'.subscribed \/ socket'.stray => socket'.open)
  /\ leaving' \in LeavingStages /\ (leaving' = "sent" => socket'.open)
  /\ call' \in Call /\ call'.seed <= room.version
  /\ call'.at = "none" => call'.seed = 0
  /\ call'.at \in Asking \cup {"undoing"} => socket'.open

\* Steps of the commands that bring the socket into no topic: what the SDK
\* shows stays as it is.
LEMMA CommandKeeps ==
  ASSUME SyncInv, Happens \/ Follows, Commands,
         UNCHANGED <<room, revision, outbox, replies, phase, joined, cache, sync,
                     buffering, buffer, lossy, exposed>>,
         socket'.open => socket.open, socket'.subscribed => socket.subscribed,
         call'.at \in {"none"} \cup Asking => call.at \in {"none"} \cup Asking,
         call'.at = "syncing" <=> call.at = "syncing",
         joined /\ socket'.open /\ Undecided =>
           call'.at \in {"joined", "failed", "undoing", "undone"}
  PROVE  SyncInv'
<1> USE DEF SyncInv
<1>1. Idle' <=> Idle
  BY DEF Idle
<1>2. SyncTypeOK' /\ Counted'
  <2>1. SyncTypeOK'
    BY <1>1 DEF SyncTypeOK, Commands
  <2>2. QED BY <2>1, StaysCounted
<1>3. NothingAhead'
  BY ClientKeepsPast DEF NothingAhead, server, Commands
<1>4. TasksAndCalls'
  BY DEF TasksAndCalls, Listed, Commands
<1>5. RemovalShows'
  BY <1>1 DEF RemovalShows, Undecided, Unread, Listed, Heard
<1>6. RemovedIsGone'
  BY <1>1 DEF RemovedIsGone, HeardState, StatePending
<1>7. \A x : Coming(x)' <=> Coming(x)
  BY DEF Coming, Heard
<1>8. \A c : (RoomIn(c)' <=> RoomIn(c)) /\ (SessionIn(c)' <=> SessionIn(c))
  BY <1>7 DEF RoomIn, SessionIn
<1>9. (Listens' => Listens) /\ (FallsBack' => FallsBack)
  BY DEF Listens, FallsBack, Calm
<1>10. RoomFollows' /\ SessionFollows'
  <2>1. RoomIn(cache)' /\ RoomIn(sync.draft)' /\ RoomIn(sync.previous)'
          <=> RoomIn(cache) /\ RoomIn(sync.draft) /\ RoomIn(sync.previous)
    BY <1>8 DEF RoomIn
  <2>2. QED BY <1>1, <1>8, <1>9 DEF RoomFollows, SessionFollows, RoomIn, SessionIn
<1>11. QED BY <1>2, <1>3, <1>4, <1>5, <1>6, <1>10

\* The connection closes, and the commands on their way over it fail.
LEMMA HangsUp ==
  ASSUME SyncInv, HangUp, call' = Abandoned(call)
  PROVE  /\ Commands /\ socket' = Closed
         /\ call'.at = IF call.at \in Asking THEN "none"
                      ELSE IF call.at = "undoing" THEN "undone" ELSE call.at
<1>1. /\ call \in Call /\ (call.at = "none" => call.seed = 0) /\ call.seed <= room.version
      /\ 0 <= room.version
  BY Types DEF SyncInv, SyncTypeOK, TasksAndCalls, NothingAhead
<1>2. /\ call' \in Call /\ call'.seed \in {0, call.seed}
      /\ call'.at = IF call.at \in Asking THEN "none"
                   ELSE IF call.at = "undoing" THEN "undone" ELSE call.at
      /\ call'.at = "none" => call'.seed = 0
  BY <1>1, CallIs
<1>3. leaving' \in LeavingStages /\ leaving' # "sent"
  BY DEF HangUp, SyncInv, SyncTypeOK, LeavingStages
<1>4. call'.at \notin Asking \cup {"undoing"}
  BY <1>2 DEF Asking
<1>5. QED BY <1>1, <1>2, <1>3, <1>4, SocketIs DEF HangUp, Commands

LEMMA DisconnectKeeps ==
  ASSUME SyncInv, Happens, Disconnect
  PROVE  SyncInv'
<1>1. /\ UNCHANGED <<room, revision, outbox, replies, phase, joined, cache,
                     sync, buffering, buffer, lossy, exposed>>
      /\ Commands /\ socket' = Closed
      /\ call'.at = IF call.at \in Asking THEN "none"
                   ELSE IF call.at = "undoing" THEN "undone" ELSE call.at
  BY HangsUp DEF Disconnect, server, net
<1>2. /\ call'.at \in {"none"} \cup Asking => call.at \in {"none"} \cup Asking
      /\ call'.at = "syncing" <=> call.at = "syncing"
  BY <1>1 DEF Asking
<1>3. QED BY <1>1, <1>2, SocketIs, CommandKeeps

LEMMA ReplaceKeeps ==
  ASSUME SyncInv, Happens \/ Follows, Replace
  PROVE  SyncInv'
<1> USE DEF SyncInv
<1>1. /\ UNCHANGED <<room, revision, outbox, replies, joined, cache,
                     sync, buffering, buffer, lossy, exposed>>
      /\ Commands /\ ~socket'.open /\ ~socket'.subscribed /\ phase' = "off" /\ Idle
      /\ call'.at = "syncing" => call.at = "syncing"
  BY HangsUp, SocketIs DEF Replace, server, net
<1>2. SyncTypeOK' /\ Counted'
  <2>1. SyncTypeOK'
    BY <1>1 DEF SyncTypeOK, Idle, Phases, Commands
  <2>2. QED BY <1>1, <2>1, StaysCounted
<1>3. NothingAhead'
  BY <1>1, ClientKeepsPast DEF NothingAhead, server, Commands
<1>4. TasksAndCalls'
  BY <1>1 DEF TasksAndCalls, Listed, Idle, Commands
<1>5. RemovalShows'
  BY <1>1 DEF RemovalShows
<1>6. RemovedIsGone'
  BY <1>1 DEF RemovedIsGone, Idle, StatePending
<1>7. RoomFollows' /\ SessionFollows'
  BY <1>1 DEF RoomFollows, SessionFollows, Listens
<1>8. QED BY <1>2, <1>3, <1>4, <1>5, <1>6, <1>7

\* The locals of a synchronization.
LEMMA SyncIs ==
  ASSUME NEW replacing \in BOOLEAN, NEW read \in Reads, NEW previous \in Cache, NEW draft \in Cache,
         sync' = [replacing |-> replacing, read |-> read, previous |-> previous, draft |-> draft]
  PROVE  /\ sync' \in Sync /\ sync'.replacing = replacing /\ sync'.read = read
         /\ sync'.previous = previous /\ sync'.draft = draft
  BY DEF Sync

LEMMA ConnectKeeps ==
  ASSUME SyncInv, Follows, Connect
  PROVE  SyncInv'
<1> USE DEF SyncInv
<1>1. /\ UNCHANGED <<room, revision, outbox, replies, joined, call, leaving, cache, lossy>>
      /\ phase = "off" /\ phase' = "subscribing"
      /\ buffering' = TRUE /\ buffer' = <<>> /\ exposed' = (exposed /\ (joined \/ StatePending))
  BY DEF Connect, server, net
<1>2. socket' \in Socket /\ socket'.open /\ ~socket'.subscribed /\ ~socket'.stray
  BY DEF Connect, Closed, Socket
<1>3. /\ sync' \in Sync /\ sync'.read = (IF joined THEN "room" ELSE "done")
      /\ sync'.previous = Empty /\ sync'.draft = Empty
  <2>1. PICK read \in Reads : read = IF joined THEN "room" ELSE "done"
    BY DEF Reads
  <2>2. sync' = [replacing |-> TRUE, read |-> read, previous |-> Empty, draft |-> Empty]
    BY <2>1 DEF Connect
  <2>3. QED BY <2>1, <2>2, SyncIs, EmptyIs
<1>4. buffer' \in Seq(Event) /\ Len(buffer') = 0 /\ ~HeardState' /\ \A i \in DOMAIN buffer' : FALSE
  BY <1>1, NothingBuffered
<1>5. SyncTypeOK' /\ Counted'
  <2>1. exposed' \in BOOLEAN
    BY <1>1
  <2>2. SyncTypeOK'
    BY <1>1, <1>2, <1>3, <1>4, <2>1, Bounds DEF SyncTypeOK, Idle, Phases
  <2>3. QED BY <1>1, <2>2, StaysCounted
<1>6. NothingAhead'
  BY <1>1, <1>3, <1>4, EmptyIsPast, ClientKeepsPast DEF NothingAhead, server
<1>7. TasksAndCalls'
  BY <1>1, <1>2, <1>3 DEF TasksAndCalls, Listed
<1>8. RemovalShows'
  BY <1>1, <1>3 DEF RemovalShows, Listed
<1>9. RemovedIsGone'
  BY <1>1, <1>2, <1>3, <1>4 DEF RemovedIsGone, StatePending, Idle
<1>10. RoomFollows' /\ SessionFollows'
  BY <1>1, <1>2 DEF RoomFollows, SessionFollows, Listens
<1>11. QED BY <1>5, <1>6, <1>7, <1>8, <1>9, <1>10

LEMMA AdmittedKeeps ==
  ASSUME SyncInv, Follows, Admitted
  PROVE  SyncInv'
<1> USE DEF SyncInv
<1>1. /\ UNCHANGED <<room, revision, outbox, replies, socket, joined, call, leaving, cache,
                     sync, buffering, buffer, lossy, exposed>>
      /\ phase = "subscribing" /\ phase' = "admitted" /\ Listed
  BY DEF Admitted, server, net
<1>2. SyncTypeOK' /\ Counted'
  <2>1. SyncTypeOK'
    BY <1>1 DEF SyncTypeOK, Idle, Phases
  <2>2. QED BY <1>1, <2>1, StaysCounted
<1>3. NothingAhead'
  BY <1>1, ClientKeepsPast DEF NothingAhead, server
<1>4. TasksAndCalls'
  BY <1>1 DEF TasksAndCalls, Listed
<1>5. RemovalShows'
  BY <1>1 DEF RemovalShows, Listed
<1>6. RemovedIsGone'
  BY <1>1 DEF RemovedIsGone, HeardState, StatePending, Idle, Listed
<1>7. RoomFollows' /\ SessionFollows'
  BY <1>1 DEF RoomFollows, SessionFollows, FallsBack, Idle
<1>8. QED BY <1>2, <1>3, <1>4, <1>5, <1>6, <1>7

\* The replacing synchronization begins.
LEMMA ReplacingKeeps ==
  ASSUME SyncInv, Follows, phase \in {"subscribing", "admitted"},
         UNCHANGED <<room, revision, outbox, replies, leaving, buffering, buffer>>,
         joined' \in BOOLEAN, joined' => joined, cache' \in Cache, Past(cache'),
         exposed' \in BOOLEAN, socket' \in Socket, socket'.open, socket.open,
         call' \in Call, call'.seed \in {0, call.seed}, call'.at = call.at,
         BeginSync(TRUE, joined', cache'),
         ~joined' /\ ~exposed' =>
           /\ ~joined /\ ~exposed /\ ~Listed
           /\ socket'.subscribed => socket.subscribed
  PROVE  SyncInv'
<1> USE DEF SyncInv
<1>1. phase' = "reading" /\ lossy' = (IF lossy = "since" THEN "before" ELSE lossy)
  BY DEF BeginSync
<1>2. /\ sync' \in Sync /\ sync'.read = (IF joined' THEN "room" ELSE "done")
      /\ sync'.previous = cache' /\ sync'.draft = Empty /\ sync'.replacing = TRUE
  <2>1. PICK read \in Reads : read = IF joined' THEN "room" ELSE "done"
    BY DEF Reads
  <2>2. sync' = [replacing |-> TRUE, read |-> read, previous |-> cache', draft |-> Empty]
    BY <2>1 DEF BeginSync
  <2>3. QED BY <2>1, <2>2, SyncIs, EmptyIs
<1>3. SyncTypeOK' /\ Counted'
  <2>1. SyncTypeOK'
    BY <1>1, <1>2 DEF SyncTypeOK, Idle, Phases
  <2>2. QED BY <2>1, StaysCounted
<1>4. NothingAhead'
  <2>1. call'.seed <= room.version
    BY Types DEF NothingAhead
  <2>2. QED BY <1>2, <2>1, EmptyIsPast, ClientKeepsPast DEF NothingAhead, server
<1>5. TasksAndCalls'
  BY <1>1 DEF TasksAndCalls, Listed
<1>6. RemovalShows'
  BY <1>1, <1>2 DEF RemovalShows, Unread, Listed
<1>7. RemovedIsGone'
  BY <1>1, <1>2, EmptyIs DEF RemovedIsGone, HeardState, StatePending, Idle
<1>8. RoomFollows' /\ SessionFollows'
  BY <1>1, <1>2 DEF RoomFollows, SessionFollows, Listens, FallsBack, Idle
<1>9. QED BY <1>3, <1>4, <1>5, <1>6, <1>7, <1>8

LEMMA TurnedKeeps ==
  ASSUME SyncInv, Follows, Turned
  PROVE  SyncInv'
<1> USE DEF SyncInv
<1>1. /\ UNCHANGED <<room, revision, outbox, replies, socket, leaving, buffering, buffer>>
      /\ phase = "subscribing" /\ socket.open /\ joined' = FALSE /\ cache' = Empty
      /\ call' = Unseeded(call) /\ exposed' = TRUE /\ BeginSync(TRUE, joined', cache')
  BY DEF Turned, server, net
<1>2. call \in Call /\ (call.at = "none" => call.seed = 0) /\ socket \in Socket
  BY DEF SyncTypeOK, TasksAndCalls
<1>3. call' \in Call /\ call'.seed \in {0, call.seed} /\ call'.at = call.at
  BY <1>1, <1>2, CallIs
<1>4. cache' \in Cache /\ Past(cache')
  BY <1>1, EmptyIs, EmptyIsPast
<1>5. QED BY <1>1, <1>2, <1>3, <1>4, ReplacingKeeps

LEMMA SubscribedKeeps ==
  ASSUME SyncInv, Follows, Subscribed
  PROVE  SyncInv'
<1> USE DEF SyncInv
<1>1. /\ UNCHANGED <<room, revision, outbox, replies, joined, call, leaving, cache,
                     buffering, buffer, exposed>>
      /\ socket.open /\ BeginSync(TRUE, joined', cache')
      /\ \/ phase = "admitted" /\ socket' = [socket EXCEPT !.subscribed = TRUE]
         \/ phase = "subscribing" /\ ~Listed /\ socket' = socket
  BY DEF Subscribed, server, net
<1>2. /\ call \in Call /\ cache \in Cache /\ socket \in Socket
      /\ joined \in BOOLEAN /\ exposed \in BOOLEAN
      /\ Past(cache) /\ Past(cache')
  BY <1>1 DEF SyncTypeOK, NothingAhead, Past
<1>3. socket' \in Socket /\ socket'.open
  <2>1. CASE socket' = [socket EXCEPT !.subscribed = TRUE]
    BY <1>1, <1>2, <2>1 DEF Socket
  <2>2. CASE socket' = socket
    BY <1>1, <1>2, <2>2
  <2>3. QED BY <1>1, <2>1, <2>2
<1>4. ~joined /\ ~exposed => phase = "subscribing" /\ ~Listed
  BY <1>1 DEF RemovedIsGone, TasksAndCalls, Listed
<1>5. QED BY <1>1, <1>2, <1>3, <1>4, ReplacingKeeps

\* The replacing task ends in error.
LEMMA TornDown ==
  ASSUME SyncInv, TearDown
  PROVE  /\ Commands /\ phase' = "off" /\ ~socket'.open /\ ~socket'.subscribed
         /\ call'.at # "syncing"
<1>1. /\ Abandoned(call) \in Call /\ Abandoned(call).seed \in {0, call.seed}
      /\ Abandoned(call).at \notin Asking \cup {"undoing"}
      /\ Abandoned(call).at = "none" => Abandoned(call).seed = 0
  <2>1. call \in Call /\ (call.at = "none" => call.seed = 0)
    BY DEF SyncInv, SyncTypeOK, TasksAndCalls
  <2>2. QED BY <2>1, CallIs DEF Asking
<1>2. PICK k \in Call : k = Abandoned(call)
  BY <1>1
<1>3. /\ call' \in Call /\ call'.seed = k.seed
      /\ call'.at = IF k.at \in {"joined", "syncing"} THEN "failed" ELSE k.at
  BY <1>1, <1>2, CallIs DEF TearDown
<1>4. call'.seed <= room.version
  BY <1>1, <1>2, <1>3, Types DEF SyncInv, NothingAhead
<1>5. leaving' \in LeavingStages /\ leaving' # "sent"
  BY DEF TearDown, HangUp, SyncInv, SyncTypeOK, LeavingStages
<1>6. QED BY <1>1, <1>2, <1>3, <1>4, <1>5, SocketIs DEF TearDown, HangUp, Commands, Asking

LEMMA SubscribeFailsKeeps ==
  ASSUME SyncInv, Happens \/ Follows, SubscribeFails
  PROVE  SyncInv'
<1> USE DEF SyncInv
<1>1. /\ UNCHANGED <<room, revision, outbox, replies, joined, cache,
                     sync, buffering, buffer, lossy, exposed>>
      /\ Commands /\ phase' = "off" /\ ~socket'.open /\ ~socket'.subscribed
      /\ call'.at # "syncing"
  BY TornDown DEF SubscribeFails, server, net
<1>2. SyncTypeOK' /\ Counted'
  <2>1. SyncTypeOK'
    BY <1>1 DEF SyncTypeOK, Idle, Phases, Commands
  <2>2. QED BY <1>1, <2>1, StaysCounted
<1>3. NothingAhead'
  BY <1>1, ClientKeepsPast DEF NothingAhead, server, Commands
<1>4. TasksAndCalls'
  BY <1>1 DEF TasksAndCalls, Listed, Commands
<1>5. RemovalShows'
  BY <1>1 DEF RemovalShows
<1>6. RemovedIsGone'
  BY <1>1 DEF RemovedIsGone, Idle, StatePending
<1>7. RoomFollows' /\ SessionFollows'
  BY <1>1 DEF RoomFollows, SessionFollows, Listens
<1>8. QED BY <1>2, <1>3, <1>4, <1>5, <1>6, <1>7

\* A resync, of the host or of rooms.subscribe.
LEMMA BeginResyncKeeps ==
  ASSUME SyncInv, Happens \/ Follows, BeginResync, call' \in Call, call'.seed = call.seed,
         \/ call' = call /\ call.at # "joined"
         \/ call.at = "joined" /\ call'.at = "syncing"
  PROVE  SyncInv'
<1> USE DEF SyncInv
<1>1. /\ UNCHANGED <<room, revision, outbox, replies, socket, joined, leaving, cache, exposed>>
      /\ Idle /\ phase' = "reading" /\ buffering' = TRUE /\ buffer' = <<>>
      /\ lossy' = (IF lossy = "since" THEN "before" ELSE lossy)
  BY DEF BeginResync, BeginBuffer, BeginSync, server, net
<1>2. ~buffering /\ buffer = <<>>
  BY <1>1 DEF SyncTypeOK, TasksAndCalls
<1>3. /\ sync' \in Sync /\ sync'.read = (IF joined THEN "room" ELSE "done")
      /\ sync'.previous = cache /\ sync'.draft = Empty /\ sync'.replacing = FALSE
  <2>1. PICK read \in Reads : read = IF joined THEN "room" ELSE "done"
    BY DEF Reads
  <2>2. sync' = [replacing |-> FALSE, read |-> read, previous |-> cache, draft |-> Empty]
    BY <2>1 DEF BeginResync, BeginSync
  <2>3. QED BY <2>1, <2>2, Types, SyncIs, EmptyIs
<1>4. /\ buffer' \in Seq(Event) /\ Len(buffer') = 0 /\ ~HeardState'
      /\ \A i \in DOMAIN buffer' : FALSE
  BY <1>1, NothingBuffered
<1>5. SyncTypeOK' /\ Counted'
  <2>1. SyncTypeOK'
    BY <1>1, <1>3, <1>4, Bounds DEF SyncTypeOK, Idle, Phases
  <2>2. QED BY <1>1, <2>1, StaysCounted
<1>6. NothingAhead'
  BY <1>1, <1>3, <1>4, EmptyIsPast, ClientKeepsPast DEF NothingAhead, server
<1>7. TasksAndCalls'
  BY <1>1 DEF TasksAndCalls, Listed, Asking
<1>8. RemovalShows'
  BY <1>1, <1>2, <1>3 DEF RemovalShows, Undecided, Unread, Listed, Heard, Idle
<1>9. RemovedIsGone'
  BY <1>1, <1>3, <1>4, EmptyIs DEF RemovedIsGone, Idle, StatePending
<1>10. FallsBack' /\ Listens' /\ lossy' = "no" => Listens /\ lossy = "no"
  BY <1>1 DEF FallsBack, Listens, Calm, Asking
<1>11. \A x : Coming(x) => Coming(x)'
  BY <1>1, <1>2 DEF Coming, Heard
<1>12. RoomFollows'
  <2>1. RoomIn(cache) => RoomIn(cache)' /\ RoomIn(sync.previous)'
    BY <1>1, <1>3, <1>11 DEF RoomIn
  <2>2. QED BY <1>1, <1>3, <1>10, <2>1 DEF RoomFollows, Listens, Idle
<1>13. SessionFollows'
  <2>1. SessionIn(cache) => SessionIn(cache)' /\ SessionIn(sync.previous)'
    BY <1>1, <1>3, <1>11 DEF SessionIn
  <2>2. QED BY <1>1, <1>3, <1>10, <2>1 DEF SessionFollows, Listens, Idle
<1>14. QED BY <1>5, <1>6, <1>7, <1>8, <1>9, <1>12, <1>13

LEMMA HostResyncKeeps ==
  ASSUME SyncInv, Happens \/ Follows, ~MidTurn, HostResync
  PROVE  SyncInv'
<1>1. call.at # "joined" /\ call' = call
  BY DEF HostResync, MidTurn, BeginResync
<1>2. QED BY <1>1, BeginResyncKeeps DEF HostResync, SyncInv, SyncTypeOK

LEMMA CallResyncKeeps ==
  ASSUME SyncInv, Follows, CallResync
  PROVE  SyncInv'
<1>1. /\ call' \in Call /\ call'.seed = call.seed /\ call.at = "joined" /\ call'.at = "syncing"
  BY DEF CallResync, SyncInv, SyncTypeOK, Call, CallStages
<1>2. QED BY <1>1, BeginResyncKeeps DEF CallResync

-----------------------------------------------------------------------------
(***************************************************************************)
(* What a synchronization reads, and what it leaves behind.                *)
(***************************************************************************)

LEMMA DraftIs ==
  ASSUME SyncTypeOK, NEW read \in Reads, NEW draft \in Cache, Draft(read, draft)
  PROVE  /\ sync' \in Sync /\ sync'.read = read /\ sync'.draft = draft
         /\ sync'.previous = sync.previous /\ sync'.replacing = sync.replacing
<1> DEFINE s == [sync EXCEPT !.read = read]
<1>1. /\ s \in Sync /\ s.read = read /\ s.draft = sync.draft
      /\ s.previous = sync.previous /\ s.replacing = sync.replacing
  BY DEF Sync, SyncTypeOK
<1>2. sync' = [s EXCEPT !.draft = draft]
  BY Zenon DEF Draft
<1> HIDE DEF s
<1>3. QED BY <1>1, <1>2 DEF Sync

LEMMA StaleIs ==
  ASSUME NEW c \in Cache
  PROVE  /\ [c EXCEPT !.stale = TRUE] \in Cache /\ [c EXCEPT !.stale = TRUE].stale
         /\ SameRoom([c EXCEPT !.stale = TRUE], c) /\ SameSession([c EXCEPT !.stale = TRUE], c)
  BY DEF Cache, SameRoom, SameSession

LEMMA WithSessionsOfIs ==
  ASSUME NEW d \in Cache, NEW c \in Cache
  PROVE  /\ WithSessionsOf(d, c) \in Cache
         /\ SameRoom(WithSessionsOf(d, c), d) /\ SameSession(WithSessionsOf(d, c), c)
<1> DEFINE a == [d EXCEPT !.session = c.session]
           b == [a EXCEPT !.newest = c.newest]
<1>1. a \in Cache /\ SameRoom(a, d) /\ a.session = c.session
  BY DEF Cache, SameRoom
<1> HIDE DEF a
<1>2. /\ b \in Cache /\ SameRoom(b, d)
      /\ b.session = c.session /\ b.newest = c.newest
  BY <1>1 DEF Cache, SameRoom
<1>3. WithSessionsOf(d, c) = [b EXCEPT !.behind = c.behind]
  BY Zenon DEF WithSessionsOf, a, b
<1> HIDE DEF b
<1>4. QED BY <1>2, <1>3 DEF Cache, SameRoom, SameSession

\* A cache with the room of one and the sessions of another is as true as both.
LEMMA PastOfTwo ==
  ASSUME NEW c, NEW d, NEW e, Past(d), Past(e), SameRoom(c, d), SameSession(c, e)
  PROVE  Past(c)
  BY DEF Past, SameRoom, SameSession

\* An answer to a synchronization: a removed room is not read any more.
LEMMA ReadKeeps ==
  ASSUME SyncInv, Happens \/ Follows, phase = "reading", sync.read # "done",
         NEW read \in Reads, NEW draft \in Cache, Draft(read, draft), Past(draft),
         UNCHANGED <<room, revision, outbox, replies, socket, phase, joined, call, leaving,
                     cache, buffering, buffer, lossy, exposed>>,
         draft.stale \/ (room.member /\ draft.content = room.version)
                     \/ (room.member /\ sync.read = "sessions" /\ SameRoom(draft, sync.draft)
                         /\ (sync.draft.stale => draft.stale)),
         read = "room" => FALSE,
         read = "done" => draft.stale \/ draft.newest = revision
  PROVE  SyncInv'
<1> USE DEF SyncInv
<1>1. /\ sync' \in Sync /\ sync'.read = read /\ sync'.draft = draft
      /\ sync'.previous = sync.previous /\ sync'.replacing = sync.replacing
  BY DraftIs
<1>2. Idle' <=> Idle
  BY DEF Idle
<1>3. SyncTypeOK' /\ Counted'
  BY <1>1, <1>2, StaysCounted DEF SyncTypeOK
<1>4. NothingAhead'
  BY <1>1, ClientKeepsPast DEF NothingAhead, server
<1>5. TasksAndCalls'
  BY DEF TasksAndCalls, Listed
<1>6. RemovalShows'
  BY <1>1, <1>2 DEF RemovalShows, Undecided, Unread, Listed, Heard, Idle
<1>7. RemovedIsGone'
  BY DEF RemovedIsGone, StatePending
<1>8. \A x : Coming(x)' <=> Coming(x)
  BY DEF Coming, Heard
<1>9. RoomFollows'
  <2>1. RoomIn(cache)' <=> RoomIn(cache)
    BY <1>8 DEF RoomIn
  <2>2. RoomIn(sync.previous)' <=> RoomIn(sync.previous)
    BY <1>1, <1>8 DEF RoomIn
  <2>3. Listens => RoomIn(sync.draft)'
    BY <1>1, <1>8 DEF RoomFollows, RoomIn, SameRoom
  <2>4. QED BY <1>1, <1>2, <2>1, <2>2, <2>3 DEF RoomFollows, Listens, FallsBack, Calm
<1>10. SessionFollows'
  <2>1. SessionIn(cache)' <=> SessionIn(cache)
    BY <1>8 DEF SessionIn
  <2>2. SessionIn(sync.previous)' <=> SessionIn(sync.previous)
    BY <1>1, <1>8 DEF SessionIn
  <2>3. read = "done" => SessionIn(sync.draft)'
    BY <1>1 DEF SessionIn
  <2>4. QED BY <1>1, <1>2, <2>1, <2>2, <2>3 DEF SessionFollows, Listens, FallsBack, Calm
<1>11. QED BY <1>3, <1>4, <1>5, <1>6, <1>7, <1>9, <1>10

\* The room is read.
LEMMA ReadRoomKeeps ==
  ASSUME SyncInv, Follows, ReadRoom
  PROVE  SyncInv'
<1> USE DEF SyncInv
<1>1. /\ phase = "reading" /\ sync.read = "room"
      /\ UNCHANGED <<room, revision, outbox, replies, socket, phase, leaving, cache,
                     buffering, buffer, lossy>>
  BY DEF ReadRoom, server, net
<1>2. CASE room.member
  <2>1. PICK draft : draft = WithRoom(Empty, room.version)
    OBVIOUS
  <2>2. /\ draft \in Cache /\ draft.version = room.version /\ draft.content = room.version
        /\ SameSession(draft, Empty)
    BY <2>1, EmptyIs, Types, WithRoomIs
  <2>3. Past(draft)
    BY <2>2, EmptyIsPast, Types DEF Past, SameSession
  <2>4. Draft("sessions", draft) /\ UNCHANGED <<joined, call, exposed>>
    BY <1>2, <2>1 DEF ReadRoom
  <2>5. QED BY <1>1, <1>2, <2>2, <2>3, <2>4, ReadKeeps DEF Reads
<1>3. CASE ~room.member
  <2>1. /\ sync' = [sync EXCEPT !.read = "done"] /\ joined' = FALSE
        /\ call' = Unseeded(call) /\ exposed' = TRUE
    BY <1>1, <1>3 DEF ReadRoom, RemoveRefused, MayReturn
  <2>2. /\ sync' \in Sync /\ sync'.draft = sync.draft /\ sync'.previous = sync.previous
    BY <2>1 DEF SyncTypeOK, Sync, Reads
  <2>3. call' \in Call /\ call'.at = call.at /\ call'.seed \in {0, call.seed}
    BY <2>1, CallIs DEF SyncTypeOK, TasksAndCalls
  <2>4. SyncTypeOK' /\ Counted'
    <3>1. SyncTypeOK'
      BY <1>1, <2>1, <2>2, <2>3 DEF SyncTypeOK, Idle
    <3>2. QED BY <1>1, <3>1, StaysCounted
  <2>5. NothingAhead'
    <3>1. call'.seed <= room.version
      BY <2>3, Types DEF NothingAhead
    <3>2. QED BY <1>1, <2>2, <3>1, Types, ClientKeepsPast DEF NothingAhead, server
  <2>6. TasksAndCalls'
    <3>1. call.at = "none" => call.seed = 0
      BY DEF TasksAndCalls
    <3>2. QED BY <1>1, <2>1, <2>3, <3>1 DEF TasksAndCalls, Listed
  <2>7. RemovalShows' /\ RemovedIsGone' /\ RoomFollows' /\ SessionFollows'
    BY <2>1 DEF RemovalShows, RemovedIsGone, RoomFollows, SessionFollows, Listens
  <2>8. QED BY <2>4, <2>5, <2>6, <2>7
<1>4. QED BY <1>2, <1>3, Types

LEMMA ReadRoomFailsKeeps ==
  ASSUME SyncInv, Happens, ReadRoomFails
  PROVE  SyncInv'
<1> USE DEF SyncInv
<1>1. /\ phase = "reading" /\ sync.read = "room"
      /\ UNCHANGED <<room, revision, outbox, replies, socket, phase, joined, call, leaving,
                     cache, buffering, buffer, lossy, exposed>>
  BY DEF ReadRoomFails, server, net
<1>2. PICK kept \in Cache :
        /\ Past(kept)
        /\ Draft("done", [kept EXCEPT !.stale = TRUE])
  <2>1. CASE sync.previous.version = 0 /\ call.at \notin Asking /\ call.seed # 0
    <3>1. PICK kept : kept = WithRoom(sync.previous, call.seed)
      OBVIOUS
    <3>2. call.seed \in Versions /\ call.seed \in Nat /\ call.seed <= room.version
      BY <2>1, CallTypes DEF NothingAhead
    <3>3. /\ kept \in Cache /\ kept.version = call.seed /\ kept.content = call.seed
          /\ SameSession(kept, sync.previous)
      BY <3>1, <3>2, Types, WithRoomIs
    <3>4. Past(kept)
      BY <3>2, <3>3 DEF Past, NothingAhead, SameSession
    <3>5. QED BY <2>1, <3>1, <3>3, <3>4 DEF ReadRoomFails
  <2>2. CASE ~(sync.previous.version = 0 /\ call.at \notin Asking /\ call.seed # 0)
    BY <2>2, Types DEF ReadRoomFails, NothingAhead
  <2>3. QED BY <2>1, <2>2
<1>3. PICK draft : draft = [kept EXCEPT !.stale = TRUE]
  OBVIOUS
<1>4. draft \in Cache /\ draft.stale /\ SameRoom(draft, kept) /\ SameSession(draft, kept)
  BY <1>3, StaleIs
<1>5. Past(draft)
  BY <1>2, <1>4, PastOfTwo
<1>6. Draft("done", draft)
  BY <1>2, <1>3
<1>7. QED BY <1>1, <1>4, <1>5, <1>6, ReadKeeps DEF Reads

LEMMA ReadSessionsKeeps ==
  ASSUME SyncInv, Follows, ReadSessions
  PROVE  SyncInv'
<1> USE DEF SyncInv
<1>1. /\ phase = "reading" /\ sync.read = "sessions" /\ room.member
      /\ UNCHANGED <<room, revision, outbox, replies, socket, phase, joined, call, leaving,
                     cache, buffering, buffer, lossy, exposed>>
  BY DEF ReadSessions, server, net
<1>2. PICK draft : draft = WithSession(sync.draft, revision)
  OBVIOUS
<1>3. Draft("done", draft)
  BY <1>2 DEF ReadSessions
<1>4. /\ sync.draft \in Cache /\ Past(sync.draft) /\ revision \in Nat
      /\ sync.draft.newest \in Nat /\ sync.draft.newest <= revision
  BY Types, CacheTypes DEF NothingAhead, Past
<1>5. /\ draft \in Cache /\ draft.session = Active(revision)
      /\ draft.newest = IF revision > sync.draft.newest THEN revision ELSE sync.draft.newest
      /\ draft.stale = sync.draft.stale /\ SameRoom(draft, sync.draft)
  BY <1>2, <1>4, Types, WithSessionIs
<1>6. draft.newest = revision
  BY <1>4, <1>5
<1>7. Past(draft)
  BY <1>4, <1>5, <1>6 DEF Past, SameRoom
<1>8. QED BY <1>1, <1>3, <1>5, <1>6, <1>7, ReadKeeps DEF Reads

LEMMA ReadSessionsFailsKeeps ==
  ASSUME SyncInv, Happens, ReadSessionsFails
  PROVE  SyncInv'
<1> USE DEF SyncInv
<1>1. /\ phase = "reading" /\ sync.read = "sessions"
      /\ UNCHANGED <<room, revision, outbox, replies, socket, phase, joined, call, leaving,
                     cache, buffering, buffer, lossy, exposed>>
  BY DEF ReadSessionsFails, server, net
<1>2. PICK kept : kept = WithSessionsOf(sync.draft, sync.previous)
  OBVIOUS
<1>3. kept \in Cache /\ SameRoom(kept, sync.draft) /\ SameSession(kept, sync.previous)
  BY <1>2, Types, WithSessionsOfIs
<1>4. Past(kept)
  BY <1>3, PastOfTwo DEF NothingAhead
<1>5. PICK draft : draft = [kept EXCEPT !.stale = TRUE]
  OBVIOUS
<1>6. draft \in Cache /\ draft.stale /\ SameRoom(draft, kept) /\ SameSession(draft, kept)
  BY <1>3, <1>5, StaleIs
<1>7. Past(draft)
  BY <1>4, <1>6, PastOfTwo
<1>8. Draft("done", draft)
  BY <1>2, <1>5 DEF ReadSessionsFails
<1>9. QED BY <1>1, <1>6, <1>7, <1>8, ReadKeeps DEF Reads

\* The end of a synchronization, whether it succeeds or fails: the buffer is
\* replayed over kept, unless nothing is buffered.
Ends(kept) ==
  /\ phase = "reading"
  /\ cache' = FinishBuffer(kept) \/ (buffer = <<>> /\ cache' = kept)
  /\ UNCHANGED <<room, revision, outbox, replies>>
  /\ JoinedAfterBuffer /\ EndBuffer /\ sync' = NoSync
  /\ phase' \in {"off", "idle", "failed"}
  /\ Commands
  /\ IF phase' = "off" THEN ~socket'.open ELSE socket' = socket
  /\ call'.at # "syncing" /\ (phase' # "off" /\ Undecided => Undecided')
  /\ lossy' \in {"no", "before", "since"} /\ (lossy = "since" <=> lossy' = "since")
  /\ lossy = "before" /\ lossy' = "no" => sync.read = "done" /\ ~sync.draft.stale

\* What such an end may fall back on.
KeepsWell(kept) ==
  /\ kept \in Cache /\ Past(kept)
  /\ phase' # "off" =>
       /\ ~joined /\ ~exposed => kept.version = 0
       /\ Unread => kept.stale \/ lossy' = "before" \/ lossy = "since" \/ Undecided'
       /\ Listens' => Calm \/ call.at = "syncing"
       /\ lossy' = "no" /\ Listens' /\ Listens => RoomIn(kept) /\ SessionIn(kept)

LEMMA EndKeeps ==
  ASSUME SyncInv, Happens \/ Follows, NEW kept, Ends(kept), KeepsWell(kept)
  PROVE  SyncInv'
<1> USE DEF SyncInv
<1>1. /\ joined' = (joined /\ ~Heard(Gone)) /\ joined' \in BOOLEAN
      /\ exposed' = (IF Heard(Gone) THEN TRUE ELSE exposed) /\ exposed' \in BOOLEAN
      /\ buffering' = FALSE /\ buffer' = <<>>
  BY DEF Ends, JoinedAfterBuffer, EndBuffer, MayReturn, SyncTypeOK
<1>2. Leads(cache', kept, Heard(Gone), HeardState,
              Heard(State(room.version)), Heard(Session(revision)))
  <2>1. CASE cache' = FinishBuffer(kept)
    BY <2>1, AppliedBuffer DEF KeepsWell
  <2>2. CASE buffer = <<>> /\ cache' = kept
    BY <2>2 DEF KeepsWell, Leads, Heard, HeardState
  <2>3. QED BY <2>1, <2>2 DEF Ends
<1>3. cache' \in Cache /\ Past(cache')
  BY <1>2 DEF Leads
<1>4. /\ sync' \in Sync /\ sync'.draft = Empty /\ sync'.previous = Empty
  BY EmptyIs DEF Ends, NoSync, Sync, Reads
<1>5. /\ buffer' \in Seq(Event) /\ Len(buffer') = 0 /\ ~HeardState' /\ \A x : ~Heard(x)'
      /\ \A i \in DOMAIN buffer' : FALSE
  BY <1>1, NothingBuffered
<1>6. SyncTypeOK' /\ Counted'
  <2>1. Len(buffer') <= 3 * MaxHappenings
    BY <1>5, Bounds
  <2>2. phase' \in Phases /\ phase' \notin {"subscribing", "admitted", "reading"}
    BY DEF Ends, Phases
  <2>3. SyncTypeOK'
    BY <1>1, <1>3, <1>4, <1>5, <2>1, <2>2 DEF Ends, Commands, SyncTypeOK, Idle
  <2>4. QED BY <1>1, <2>3, StaysCounted DEF Ends
<1>7. NothingAhead'
  <2>1. call'.seed <= room.version
    BY DEF Ends, Commands
  <2>2. QED BY <1>3, <1>4, <1>5, <2>1, EmptyIsPast, ClientKeepsPast DEF Ends, NothingAhead, server
<1>8. TasksAndCalls'
  BY <1>1 DEF Ends, Commands, TasksAndCalls, Listed
<1>9. Idle' <=> phase' # "off"
  BY DEF Ends, Idle
<1>10. RemovalShows'
  <2> SUFFICES ASSUME joined', socket'.open
               PROVE  \/ room.member \/ Gone \in outbox
                      \/ lossy' = "since" \/ Undecided' \/ lossy' = "before" \/ cache'.stale
    BY <1>9 DEF RemovalShows, Ends
  <2>1. joined /\ socket.open /\ ~Heard(Gone) /\ phase' # "off"
    BY <1>1 DEF Ends
  <2>2. \/ room.member \/ Gone \in outbox \/ lossy = "since" \/ Undecided \/ Unread
    BY <2>1 DEF RemovalShows, Ends, Idle
  <2>3. CASE Unread
    BY <1>2, <2>1, <2>3 DEF KeepsWell, Leads, Ends
  <2>4. QED BY <2>1, <2>2, <2>3 DEF Ends
<1>11. RemovedIsGone'
  BY <1>1, <1>2, <1>9 DEF Ends, KeepsWell, RemovedIsGone, Leads, StatePending, Commands
<1>12. Idle' /\ Listens' => Listens /\ ~Heard(Gone)
  BY <1>1, <1>9 DEF Ends, KeepsWell, Listens
<1>13. RoomFollows'
  <2>1. RoomIn(kept) /\ ~Heard(Gone) => RoomIn(cache)'
    BY <1>2 DEF Ends, Leads, RoomIn, Coming
  <2>2. QED BY <1>9, <1>12, <2>1 DEF Ends, KeepsWell, RoomFollows, FallsBack
<1>14. SessionFollows'
  <2>1. SessionIn(kept) /\ ~Heard(Gone) => SessionIn(cache)'
    BY <1>2 DEF Ends, Leads, SessionIn, Coming
  <2>2. QED BY <1>9, <1>12, <2>1 DEF Ends, KeepsWell, SessionFollows, FallsBack
<1>15. QED BY <1>6, <1>7, <1>8, <1>10, <1>11, <1>13, <1>14

LEMMA FinishSyncKeeps ==
  ASSUME SyncInv, Follows, FinishSync
  PROVE  SyncInv'
<1> USE DEF SyncInv
<1> DEFINE kept == sync.draft
<1>1. /\ phase = "reading" /\ sync.read = "done" /\ cache' = FinishBuffer(kept)
      /\ UNCHANGED <<room, revision, outbox, replies>>
      /\ JoinedAfterBuffer /\ EndBuffer /\ sync' = NoSync
      /\ lossy' = (IF lossy = "before" /\ ~kept.stale THEN "no" ELSE lossy)
  BY DEF FinishSync, server, net
<1>2. /\ phase' \in {"off", "idle"} /\ Commands
      /\ IF phase' = "off" THEN ~socket'.open ELSE socket' = socket
      /\ call'.at # "syncing"
      /\ phase' = "idle" =>
           /\ Undecided => Undecided'
           /\ call'.at \in {"none"} \cup Asking => Calm \/ call.at = "syncing"
  <2>1. CASE sync.replacing /\ ~socket.open
    <3>1. TearDown BY <2>1 DEF FinishSync
    <3>2. QED BY <3>1, TornDown
  <2>2. CASE ~(sync.replacing /\ ~socket.open)
    <3>1. /\ phase' = "idle" /\ socket' = socket /\ leaving' = leaving
          /\ call' = IF call.at = "syncing" THEN NoCall ELSE call
      BY <2>2 DEF FinishSync
    <3>2. CASE call.at = "syncing"
      <4>1. call' \in Call /\ call'.at = "none" /\ call'.seed = 0
        BY <3>1, <3>2 DEF NoCall, Call, CallStages
      <4>2. QED
        BY <3>1, <3>2, <4>1, Types DEF Commands, SyncTypeOK, TasksAndCalls, Undecided, Asking
    <3>3. CASE call.at # "syncing"
      BY <3>1, <3>3 DEF Commands, SyncTypeOK, TasksAndCalls, NothingAhead, Undecided, Calm
    <3>4. QED BY <3>2, <3>3
  <2>3. QED BY <2>1, <2>2
<1>3. Ends(kept)
  BY <1>1, <1>2 DEF Ends, SyncTypeOK
<1>4. KeepsWell(kept)
  <2>1. kept \in Cache /\ Past(kept)
    BY Types DEF NothingAhead
  <2>2. ~joined /\ ~exposed => kept.version = 0
    BY <1>1 DEF RemovedIsGone
  <2>3. Unread => kept.stale
    BY <1>1 DEF Unread, Listed
  <2>4. Listens => RoomIn(kept) /\ SessionIn(kept)
    BY <1>1 DEF RoomFollows, SessionFollows
  <2>5. phase' # "off" /\ Listens' => Calm \/ call.at = "syncing"
    BY <1>2 DEF Listens, Calm
  <2> HIDE DEF kept
  <2>6. QED BY <2>1, <2>2, <2>3, <2>4, <2>5 DEF KeepsWell
<1> HIDE DEF kept
<1>5. QED BY <1>3, <1>4, EndKeeps

LEMMA FailSyncKeeps ==
  ASSUME SyncInv, Happens \/ Follows, FailSync
  PROVE  SyncInv'
<1> USE DEF SyncInv
<1>1. /\ phase = "reading"
      /\ UNCHANGED <<room, revision, outbox, replies, lossy>>
      /\ JoinedAfterBuffer /\ EndBuffer /\ sync' = NoSync
  BY DEF FailSync, server, net
<1>2. /\ phase' \in {"off", "failed"} /\ Commands
      /\ IF phase' = "off" THEN ~socket'.open ELSE socket' = socket
      /\ call'.at # "syncing"
      /\ phase' # "off" =>
           /\ ~sync.replacing
           /\ Undecided \/ call.at = "syncing" => Undecided'
           /\ call'.at \in {"none"} \cup Asking => Calm
  <2>1. CASE sync.replacing
    <3>1. TearDown BY <2>1 DEF FailSync
    <3>2. QED BY <3>1, TornDown
  <2>2. CASE ~sync.replacing
    <3>1. /\ phase' = "failed" /\ socket' = socket /\ leaving' = leaving
          /\ call' = Failed(call)
      BY <2>2 DEF FailSync
    <3>2. /\ call' \in Call /\ call'.seed = call.seed
          /\ call'.at = IF call.at \in {"joined", "syncing"} THEN "failed" ELSE call.at
      BY <3>1, CallIs DEF SyncTypeOK, TasksAndCalls
    <3>3. QED
      BY <2>2, <3>1, <3>2 DEF Commands, SyncTypeOK, TasksAndCalls, NothingAhead, Undecided,
                              Calm, Asking
  <2>3. QED BY <2>1, <2>2
<1>3. PICK kept :
        /\ cache' = FinishBuffer(kept) \/ (buffer = <<>> /\ cache' = kept)
        /\ kept = cache \/ kept = sync.previous
  BY DEF FailSync
<1>4. Ends(kept)
  BY <1>1, <1>2, <1>3 DEF Ends, SyncTypeOK
<1>5. KeepsWell(kept)
  <2>1. kept \in Cache /\ Past(kept)
    BY <1>3, Types DEF NothingAhead
  <2>2. ~joined /\ ~exposed /\ phase' # "off" => kept.version = 0
    BY <1>1, <1>2, <1>3 DEF RemovedIsGone
  <2>3. phase' # "off" /\ Unread => kept.stale \/ lossy' = "before" \/ Undecided'
    BY <1>1, <1>2, <1>3 DEF Unread
  <2>4. phase' # "off" /\ Listens' => Calm
    BY <1>2 DEF Listens, Calm
  <2>5. phase' # "off" /\ lossy' = "no" /\ Listens' /\ Listens => RoomIn(kept) /\ SessionIn(kept)
    BY <1>1, <1>2, <1>3, <2>4 DEF RoomFollows, SessionFollows, FallsBack
  <2>6. QED BY <2>1, <2>2, <2>3, <2>4, <2>5 DEF KeepsWell
<1>6. QED BY <1>4, <1>5, EndKeeps

-----------------------------------------------------------------------------
(***************************************************************************)
(* rooms.subscribe and rooms.unsubscribe.                                  *)
(***************************************************************************)

\* The call, as the invariant has it.
LEMMA CallHas ==
  ASSUME SyncInv
  PROVE  /\ call \in Call /\ (call.at = "none" => call.seed = 0)
         /\ call.seed <= room.version /\ 0 <= room.version
         /\ call.at \in Asking \cup {"undoing"} => socket.open
         /\ socket \in Socket /\ (socket.subscribed \/ socket.stray => socket.open)
         /\ leaving \in LeavingStages /\ (leaving = "sent" => socket.open)
  BY Types DEF SyncInv, SyncTypeOK, TasksAndCalls, NothingAhead

\* A call that ends, and one that goes on.
LEMMA StageIs ==
  /\ NoCall \in Call /\ NoCall.at = "none" /\ NoCall.seed = 0
  /\ \A k \in Call, at \in CallStages :
       /\ [k EXCEPT !.at = at] \in Call
       /\ [k EXCEPT !.at = at].at = at /\ [k EXCEPT !.at = at].seed = k.seed
  BY DEF NoCall, Call, CallStages

LEMMA SubscribeKeeps ==
  ASSUME SyncInv, Happens \/ Follows, Subscribe
  PROVE  SyncInv'
<1>1. /\ UNCHANGED <<room, revision, outbox, replies, socket, phase, joined, leaving, cache,
                     sync, buffering, buffer, lossy, exposed>>
      /\ call.at = "none" /\ socket.open /\ call' = [at |-> "asked", seed |-> room.version]
  BY DEF Subscribe, NoCall, server, net
<1>2. room.version \in Versions /\ room.version \in Nat
  BY Types DEF SyncInv
<1>3. call' \in Call /\ call'.at = "asked" /\ call'.seed = room.version
  BY <1>1, <1>2 DEF Call, CallStages, Asking
<1>4. Commands
  BY <1>1, <1>2, <1>3, CallHas DEF Commands
<1>5. QED BY <1>1, <1>3, <1>4, CommandKeeps DEF Undecided

LEMMA SubscribeCheckKeeps ==
  ASSUME SyncInv, Follows, SubscribeCheck
  PROVE  SyncInv'
<1>1. /\ UNCHANGED <<room, revision, outbox, replies, socket, phase, joined, leaving, cache,
                     sync, buffering, buffer, lossy, exposed>>
      /\ call.at = "asked" /\ (call' = [call EXCEPT !.at = "checked"] \/ call' = NoCall)
  BY DEF SubscribeCheck, server, net
<1>2. call' \in Call /\ call'.at \in {"none", "checked"} /\ call'.seed \in {0, call.seed}
      /\ (call'.at = "none" => call'.seed = 0)
  <2>1. "checked" \in CallStages /\ call \in Call /\ call.seed \in {0, call.seed}
    BY CallHas DEF CallStages, Asking
  <2>2. CASE call' = [call EXCEPT !.at = "checked"]
    BY <2>1, <2>2, StageIs
  <2>3. CASE call' = NoCall
    BY <2>3, StageIs
  <2>4. QED BY <1>1, <2>2, <2>3
<1>3. Commands
  BY <1>1, <1>2, CallHas DEF Commands, Asking
<1>4. QED BY <1>1, <1>2, <1>3, CommandKeeps DEF Undecided, Asking

\* The socket gets into the topic: the room follows from now on only if it was
\* there before.
LEMMA SubscribeJoinKeeps ==
  ASSUME SyncInv, Follows, SubscribeJoin
  PROVE  SyncInv'
<1> USE DEF SyncInv
<1>1. /\ UNCHANGED <<room, revision, outbox, replies, phase, joined, leaving, cache,
                     sync, buffering, buffer>>
      /\ call.at = "checked" /\ call' = [call EXCEPT !.at = "entered"]
      /\ socket' = [socket EXCEPT !.subscribed = TRUE]
      /\ lossy' = (IF joined /\ ~socket.subscribed THEN "since" ELSE lossy)
      /\ exposed' = (exposed \/ ~joined)
  BY DEF SubscribeJoin, server, net
<1>2. /\ call' \in Call /\ call'.at = "entered" /\ call'.seed = call.seed
      /\ socket' \in Socket /\ socket'.subscribed
      /\ socket.open /\ socket'.open /\ socket'.stray = socket.stray
  <2>1. "entered" \in CallStages /\ TRUE \in BOOLEAN /\ call \in Call /\ socket \in Socket
        /\ socket.open
    BY <1>1, CallHas DEF CallStages, Asking
  <2>2. call' \in Call /\ call'.at = "entered" /\ call'.seed = call.seed
    BY <1>1, <2>1, StageIs
  <2>3. socket' \in Socket /\ socket'.subscribed /\ socket'.open /\ socket'.stray = socket.stray
    BY <1>1, <2>1 DEF Socket
  <2>4. QED BY <2>1, <2>2, <2>3
<1>3. Idle' <=> Idle
  BY <1>1 DEF Idle
<1>4. SyncTypeOK' /\ Counted'
  <2>1. exposed' \in BOOLEAN /\ lossy' \in {"no", "before", "since"}
    BY <1>1 DEF SyncTypeOK
  <2>2. SyncTypeOK'
    BY <1>1, <1>2, <1>3, <2>1 DEF SyncTypeOK
  <2>3. QED BY <1>1, <2>2, StaysCounted
<1>5. NothingAhead'
  BY <1>1, <1>2, ClientKeepsPast DEF NothingAhead, server
<1>6. TasksAndCalls'
  BY <1>1, <1>2 DEF TasksAndCalls, Listed
<1>7. RemovalShows'
  BY <1>1, <1>2, <1>3 DEF RemovalShows, Undecided, Unread, Listed, Heard
<1>8. RemovedIsGone'
  BY <1>1 DEF RemovedIsGone
<1>9. \A x : Coming(x)' <=> Coming(x)
  BY <1>1 DEF Coming, Heard
<1>10. \A c : (RoomIn(c)' <=> RoomIn(c)) /\ (SessionIn(c)' <=> SessionIn(c))
  BY <1>1, <1>9 DEF RoomIn, SessionIn
<1>11. /\ Listens' => Listens /\ lossy' = lossy
       /\ FallsBack' => FallsBack
  BY <1>1, <1>2 DEF Listens, FallsBack, Calm, Asking
<1>12. RoomFollows' /\ SessionFollows'
  BY <1>1, <1>3, <1>10, <1>11 DEF RoomFollows, SessionFollows, RoomIn, SessionIn
<1>13. QED BY <1>4, <1>5, <1>6, <1>7, <1>8, <1>12

\* The SDK has joined the room, and is to synchronize it.
LEMMA SubscribeAckKeeps ==
  ASSUME SyncInv, Follows, SubscribeAck
  PROVE  SyncInv'
<1> USE DEF SyncInv
<1>1. /\ UNCHANGED <<room, revision, outbox, replies, socket, phase, leaving, cache,
                     sync, buffering, buffer, lossy, exposed>>
      /\ call' = [call EXCEPT !.at = "joined"] /\ joined' = TRUE
  BY DEF SubscribeAck, server, net
<1>2. call' \in Call /\ call'.at = "joined" /\ call'.seed = call.seed
  BY <1>1, CallHas, StageIs DEF CallStages
<1>3. SyncTypeOK' /\ Counted'
  <2>1. SyncTypeOK'
    BY <1>1, <1>2 DEF SyncTypeOK, Idle
  <2>2. QED BY <1>1, <2>1, StaysCounted
<1>4. NothingAhead'
  BY <1>1, <1>2, ClientKeepsPast DEF NothingAhead, server
<1>5. TasksAndCalls'
  BY <1>1, <1>2 DEF TasksAndCalls, Listed, Asking
<1>6. RemovalShows'
  BY <1>2 DEF RemovalShows, Undecided
<1>7. RemovedIsGone'
  BY <1>1 DEF RemovedIsGone
<1>8. RoomFollows' /\ SessionFollows'
  BY <1>2 DEF RoomFollows, SessionFollows, Listens, Calm, Asking
<1>9. QED BY <1>3, <1>4, <1>5, <1>6, <1>7, <1>8

LEMMA SubscribeAckFailsKeeps ==
  ASSUME SyncInv, Happens, SubscribeAckFails
  PROVE  SyncInv'
<1>1. /\ UNCHANGED <<room, revision, outbox, replies, socket, phase, joined, leaving, cache,
                     sync, buffering, buffer, lossy, exposed>>
      /\ call.at \in Asking /\ call' = NoCall
  BY DEF SubscribeAckFails, Asking, server, net
<1>2. Commands
  BY <1>1, CallHas, StageIs DEF Commands, Asking
<1>3. QED BY <1>1, <1>2, StageIs, CommandKeeps DEF Undecided, Asking

\* _removeRoom forgets the room; when nothing that could bring it back is under
\* way it is gone.
LEMMA RemovalKeeps ==
  ASSUME SyncInv, Happens \/ Follows, RemoveRoom, Commands,
         UNCHANGED <<room, revision, outbox, replies, phase, sync, buffering, buffer, lossy>>,
         socket'.open = socket.open, call'.at \in {"none", call.at}
  PROVE  SyncInv'
<1> USE DEF SyncInv
<1>1. joined' = FALSE /\ cache' = Empty /\ exposed' = MayReturn
  BY DEF RemoveRoom
<1>2. Idle' <=> Idle
  BY DEF Idle
<1>3. SyncTypeOK' /\ Counted'
  <2>1. exposed' \in BOOLEAN
    BY <1>1 DEF MayReturn, StatePending, Commands, Socket
  <2>2. SyncTypeOK'
    BY <1>1, <1>2, <2>1, EmptyIs DEF SyncTypeOK, Commands
  <2>3. QED BY <2>2, StaysCounted
<1>4. NothingAhead'
  BY <1>1, EmptyIsPast, ClientKeepsPast DEF NothingAhead, server, Commands
<1>5. TasksAndCalls'
  BY <1>1 DEF TasksAndCalls, Listed, Commands
<1>6. RemovalShows' /\ RoomFollows' /\ SessionFollows'
  BY <1>1 DEF RemovalShows, RoomFollows, SessionFollows, Listens
<1>7. RemovedIsGone'
  BY <1>1, <1>2, EmptyIs DEF RemovedIsGone, MayReturn, StatePending
<1>8. QED BY <1>3, <1>4, <1>5, <1>6, <1>7

LEMMA SubscribeUndoKeeps ==
  ASSUME SyncInv, Follows, SubscribeUndo
  PROVE  SyncInv'
<1>1. /\ UNCHANGED <<room, revision, outbox, replies, socket, phase, leaving, sync, buffering,
                     buffer, lossy>>
      /\ call.at = "failed"
  BY DEF SubscribeUndo, server, net
<1>2. CASE socket.open
  <2>1. call' = [call EXCEPT !.at = "undoing"] /\ UNCHANGED <<joined, cache, exposed>>
    BY <1>2 DEF SubscribeUndo
  <2>2. call' \in Call /\ call'.at = "undoing" /\ call'.seed = call.seed
    BY <2>1, CallHas, StageIs DEF CallStages
  <2>3. Commands
    BY <1>1, <1>2, <2>2, CallHas DEF Commands
  <2>4. QED BY <1>1, <2>1, <2>2, <2>3, CommandKeeps DEF Asking
<1>3. CASE ~socket.open
  <2>1. call' = NoCall /\ RemoveRoom
    BY <1>3 DEF SubscribeUndo
  <2>2. Commands
    BY <1>1, <2>1, CallHas, StageIs DEF Commands, Asking
  <2>3. QED BY <1>1, <2>1, <2>2, StageIs, RemovalKeeps
<1>4. QED BY <1>2, <1>3

LEMMA UndoLeaveKeeps ==
  ASSUME SyncInv, Follows, UndoLeave
  PROVE  SyncInv'
<1>1. /\ UNCHANGED <<room, revision, outbox, replies, phase, joined, leaving, cache,
                     sync, buffering, buffer, lossy, exposed>>
      /\ call.at = "undoing" /\ call' = [call EXCEPT !.at = "undone"]
      /\ socket' = [socket EXCEPT !.subscribed = FALSE]
  BY DEF UndoLeave, server, net
<1>2. call' \in Call /\ call'.at = "undone" /\ call'.seed = call.seed
  BY <1>1, CallHas, StageIs DEF CallStages
<1>3. /\ socket' \in Socket /\ socket'.open = socket.open
      /\ ~socket'.subscribed /\ socket'.stray = socket.stray
  BY <1>1, CallHas, SocketIs
<1>4. Commands
  BY <1>1, <1>2, <1>3, CallHas DEF Commands, Asking
<1>5. QED BY <1>1, <1>2, <1>3, <1>4, CommandKeeps DEF Asking

LEMMA UndoEndKeeps ==
  ASSUME SyncInv, Follows, UndoEnd
  PROVE  SyncInv'
<1>1. /\ UNCHANGED <<room, revision, outbox, replies, socket, phase, leaving, sync, buffering,
                     buffer, lossy>>
      /\ call' = NoCall /\ RemoveRoom
  BY DEF UndoEnd, server, net
<1>2. Commands
  BY <1>1, CallHas, StageIs DEF Commands, Asking
<1>3. QED BY <1>1, <1>2, StageIs, RemovalKeeps

LEMMA UndoFailsKeeps ==
  ASSUME SyncInv, Happens, UndoFails
  PROVE  SyncInv'
<1>1. /\ UNCHANGED <<room, revision, outbox, replies, phase, leaving, sync, buffering,
                     buffer, lossy>>
      /\ call.at = "undoing" /\ call' = NoCall /\ RemoveRoom
      /\ socket' = [socket EXCEPT !.stray = TRUE]
  BY DEF UndoFails, GivenUp, server, net
<1>2. /\ socket.open /\ socket' \in Socket /\ socket'.open = socket.open
  BY <1>1, CallHas, SocketIs
<1>3. Commands
  BY <1>1, <1>2, CallHas, StageIs DEF Commands, Asking
<1>4. QED BY <1>1, <1>2, <1>3, StageIs, RemovalKeeps

LEMMA UnsubscribeKeeps ==
  ASSUME SyncInv, Happens, Unsubscribe
  PROVE  SyncInv'
<1>1. UNCHANGED <<room, revision, outbox, replies, socket, phase, sync, buffering, buffer, lossy>>
  BY DEF Unsubscribe, server, net
<1>2. CASE phase = "idle" /\ socket.open
  <2>1. leaving' = "sent" /\ UNCHANGED <<joined, call, cache, exposed>>
    BY <1>2 DEF Unsubscribe
  <2>2. Commands
    BY <1>1, <1>2, <2>1, CallHas DEF Commands, LeavingStages
  <2>3. QED BY <1>1, <2>1, <2>2, CommandKeeps DEF Undecided
<1>3. CASE ~(phase = "idle" /\ socket.open)
  <2>1. RemoveRoom /\ call' = Unseeded(call) /\ leaving' = leaving
    BY <1>3 DEF Unsubscribe
  <2>2. call' \in Call /\ call'.seed \in {0, call.seed} /\ call'.at = call.at
    BY <2>1, CallHas, CallIs
  <2>3. Commands
    BY <1>1, <2>1, <2>2, CallHas DEF Commands
  <2>4. QED BY <1>1, <2>1, <2>2, <2>3, RemovalKeeps
<1>4. QED BY <1>2, <1>3

LEMMA LeaveKeeps ==
  ASSUME SyncInv, Follows, Leave
  PROVE  SyncInv'
<1>1. /\ UNCHANGED <<room, revision, outbox, replies, phase, joined, call, cache,
                     sync, buffering, buffer, lossy, exposed>>
      /\ leaving' = "left" /\ socket' = [socket EXCEPT !.subscribed = FALSE]
  BY DEF Leave, server, net
<1>2. /\ socket' \in Socket /\ socket'.open = socket.open
      /\ ~socket'.subscribed /\ socket'.stray = socket.stray
  BY <1>1, CallHas, SocketIs
<1>3. Commands
  BY <1>1, <1>2, CallHas DEF Commands, LeavingStages
<1>4. QED BY <1>1, <1>2, <1>3, CommandKeeps DEF Undecided

LEMMA UnsubscribeEndKeeps ==
  ASSUME SyncInv, Follows, UnsubscribeEnd
  PROVE  SyncInv'
<1>1. /\ UNCHANGED <<room, revision, outbox, replies, socket, phase, sync, buffering, buffer, lossy>>
      /\ RemoveRoom /\ leaving' = "no" /\ call' = Unseeded(call)
  BY DEF UnsubscribeEnd, server, net
<1>2. call' \in Call /\ call'.seed \in {0, call.seed} /\ call'.at = call.at
  BY <1>1, CallHas, CallIs
<1>3. Commands
  BY <1>1, <1>2, CallHas DEF Commands, LeavingStages
<1>4. QED BY <1>1, <1>2, <1>3, RemovalKeeps

LEMMA UnsubscribeFailsKeeps ==
  ASSUME SyncInv, Happens, UnsubscribeFails
  PROVE  SyncInv'
<1>1. /\ UNCHANGED <<room, revision, outbox, replies, phase, sync, buffering, buffer, lossy>>
      /\ RemoveRoom /\ leaving = "sent" /\ leaving' = "no" /\ call' = Unseeded(call)
      /\ socket' = [socket EXCEPT !.stray = TRUE]
  BY DEF UnsubscribeFails, GivenUp, server, net
<1>2. /\ socket.open /\ socket' \in Socket /\ socket'.open = socket.open
  BY <1>1, CallHas, SocketIs
<1>3. call' \in Call /\ call'.seed \in {0, call.seed} /\ call'.at = call.at
  BY <1>1, CallHas, CallIs
<1>4. Commands
  BY <1>1, <1>2, <1>3, CallHas DEF Commands, LeavingStages
<1>5. QED BY <1>1, <1>2, <1>3, <1>4, RemovalKeeps

LEMMA StrayLeaveKeeps ==
  ASSUME SyncInv, Follows, StrayLeave
  PROVE  SyncInv'
<1>1. /\ UNCHANGED <<room, revision, outbox, replies, phase, joined, call, leaving, cache,
                     sync, buffering, buffer, lossy, exposed>>
      /\ socket' = [socket EXCEPT !.subscribed = FALSE, !.stray = FALSE]
  BY DEF StrayLeave, server, net, client
<1>2. /\ socket' \in Socket /\ socket'.open = socket.open
      /\ ~socket'.subscribed /\ ~socket'.stray
  BY <1>1, CallHas DEF Socket
<1>3. Commands
  BY <1>1, <1>2, CallHas DEF Commands
<1>4. QED BY <1>1, <1>2, <1>3, CommandKeeps DEF Undecided

-----------------------------------------------------------------------------
LEMMA InitSyncInv == SyncInit => SyncInv
<1> SUFFICES ASSUME SyncInit PROVE SyncInv
  OBVIOUS
<1>1. 1 \in Versions /\ 0 \in 0 .. MaxRevision /\ 0 \in 0 .. MaxHappenings
  BY Bounds DEF Versions
<1>2. room \in [version: Versions, member: BOOLEAN] /\ room.version = 1 /\ room.member
  BY <1>1 DEF SyncInit
<1>3. /\ sync \in Sync /\ sync.draft = Empty /\ sync.previous = Empty
  BY EmptyIs DEF SyncInit, NoSync, Sync, Reads
<1>4. /\ buffer \in Seq(Event) /\ Len(buffer) = 0 /\ DOMAIN buffer = {}
      /\ Len(buffer) <= 3 * MaxHappenings
  BY Bounds DEF SyncInit
<1>5. SyncTypeOK
  BY <1>1, <1>2, <1>3, <1>4, EmptyIs, SocketIs, StageIs
     DEF SyncInit, SyncTypeOK, Phases, LeavingStages, Idle
<1>6. Counted
  BY <1>1, <1>2, <1>4, FS_EmptySet DEF SyncInit, Counted
<1>7. NothingAhead
  BY <1>2, <1>3, <1>4, <1>5, EmptyIsPast DEF SyncInit, NothingAhead, NoCall
<1>8. TasksAndCalls /\ RemovalShows
  BY SocketIs DEF SyncInit, TasksAndCalls, RemovalShows, NoCall, Asking
<1>9. RemovedIsGone
  BY SocketIs DEF SyncInit, RemovedIsGone, StatePending, Idle
<1>10. RoomFollows /\ SessionFollows
  BY DEF SyncInit, RoomFollows, SessionFollows, Listens
<1>11. QED BY <1>5, <1>6, <1>7, <1>8, <1>9, <1>10 DEF SyncInv

LEMMA StutterKeepsSync == SyncInv /\ UNCHANGED syncVars => SyncInv'
<1> SUFFICES ASSUME SyncInv, UNCHANGED syncVars PROVE SyncInv'
  OBVIOUS
<1> USE DEF SyncInv
<1>1. UNCHANGED <<room, revision, outbox, replies, socket, phase, joined, call, leaving, cache,
                  sync, buffering, buffer, lossy, exposed, happened>>
  BY DEF syncVars, server, net, client
<1>2. (Idle' <=> Idle) /\ (HeardState' <=> HeardState) /\ \A x : Coming(x)' <=> Coming(x)
  BY <1>1 DEF Idle, HeardState, Coming, Heard
<1>3. SyncTypeOK' /\ Counted'
  BY <1>1, <1>2 DEF SyncTypeOK, Counted
<1>4. NothingAhead'
  BY <1>1, ClientKeepsPast DEF NothingAhead, server
<1>5. TasksAndCalls' /\ RemovalShows' /\ RemovedIsGone'
  BY <1>1, <1>2 DEF TasksAndCalls, RemovalShows, RemovedIsGone, Heard, Undecided, Unread, Listed,
                    StatePending
<1>6. RoomFollows' /\ SessionFollows'
  BY <1>1, <1>2 DEF RoomFollows, SessionFollows, Listens, FallsBack, Calm, RoomIn,
                    SessionIn
<1>7. QED BY <1>3, <1>4, <1>5, <1>6

LEMMA NextSyncInv == SyncInv /\ [SyncNext]_syncVars => SyncInv'
<1> SUFFICES ASSUME SyncInv, [SyncNext]_syncVars PROVE SyncInv'
  OBVIOUS
<1>1. CASE ServerNext
  <2>1. CASE Happens /\ (ChangeRoom \/ RemoveUser \/ ReadmitUser \/ PublishPresence
                         \/ TransferOwnership)
    BY <2>1, ChangeRoomKeeps, RemoveUserKeeps, ReadmitUserKeeps, PublishPresenceKeeps,
       TransferOwnershipKeeps
  <2>2. CASE Happens /\ \E own \in BOOLEAN : UpdateSession(own)
    BY <2>2, UpdateSessionKeeps
  <2>3. CASE Happens /\ \E e \in outbox : Lose(e)
    BY <2>3, LoseKeeps
  <2>4. CASE Follows /\ (SubscribeCheck \/ SubscribeJoin \/ UndoLeave \/ Leave \/ StrayLeave)
    BY <2>4, SubscribeCheckKeeps, SubscribeJoinKeeps, UndoLeaveKeeps, LeaveKeeps,
       StrayLeaveKeeps
  <2>5. QED BY <1>1, <2>1, <2>2, <2>3, <2>4, Zenon DEF ServerNext
<1>2. CASE ClientNext
  <2>1. CASE Happens /\ (Disconnect \/ SubscribeFails \/ ReadRoomFails \/ ReadSessionsFails
                         \/ FailSync \/ Unsubscribe \/ Replace)
    BY <2>1, DisconnectKeeps, SubscribeFailsKeeps, ReadRoomFailsKeeps, ReadSessionsFailsKeeps,
       FailSyncKeeps, UnsubscribeKeeps, ReplaceKeeps
  <2>2. CASE Happens /\ (SubscribeAckFails \/ UndoFails \/ UnsubscribeFails \/ Subscribe)
    BY <2>2, SubscribeAckFailsKeeps, UndoFailsKeeps, UnsubscribeFailsKeeps, SubscribeKeeps
  <2>3. CASE Follows /\ \E e \in outbox : Deliver(e)
    BY <2>3, DeliverKeeps
  <2>4. CASE Follows /\ \E e \in replies : PublishAnswer(e)
    BY <2>4, PublishAnswerKeeps
  <2>5. CASE Follows /\ (Replace \/ Connect \/ Admitted \/ Turned \/ Subscribed
                         \/ SubscribeFails \/ Subscribe)
    BY <2>5, ReplaceKeeps, ConnectKeeps, AdmittedKeeps, TurnedKeeps, SubscribedKeeps,
       SubscribeFailsKeeps, SubscribeKeeps
  <2>6. CASE \/ Happens /\ ~MidTurn /\ HostResync
             \/ Follows /\ CallResync
    BY <2>6, HostResyncKeeps, CallResyncKeeps
  <2>7. CASE Follows /\ (ReadRoom \/ ReadSessions \/ FinishSync \/ FailSync)
    BY <2>7, ReadRoomKeeps, ReadSessionsKeeps, FinishSyncKeeps, FailSyncKeeps
  <2>8. CASE Follows /\ (SubscribeAck \/ UndoEnd \/ UnsubscribeEnd \/ SubscribeUndo)
    BY <2>8, SubscribeAckKeeps, UndoEndKeeps, UnsubscribeEndKeeps, SubscribeUndoKeeps
  <2>9. QED
    BY <1>2, <2>1, <2>2, <2>3, <2>4, <2>5, <2>6, <2>7, <2>8, Zenon DEF ClientNext, Befalls, Runs
<1>3. CASE UNCHANGED syncVars
  BY <1>3, StutterKeepsSync
<1>4. QED BY <1>1, <1>2, <1>3 DEF SyncNext

LEMMA SyncInvariant == SyncSpec => []SyncInv
  BY InitSyncInv, NextSyncInv, PTL DEF SyncSpec

-----------------------------------------------------------------------------
\* What the SDK keeps of a room stays within its types.
THEOREM SyncTypeCorrect == SyncSpec => []SyncTypeOK
<1>1. SyncInv => SyncTypeOK
  BY DEF SyncInv
<1>2. QED BY <1>1, SyncInvariant, PTL

\* A settled SDK shows the room as the database has it, or will hear of it,
\* except for the version that a presence event set back: reading over REST
\* while _bufferingEvents is set misses nothing.
THEOREM RoomIsCurrent == SyncSpec => []RoomCurrent
<1>1. SyncInv => RoomCurrent
  <2> SUFFICES ASSUME SyncInv, Settled PROVE cache.content = room.version
                 \/ State(room.version) \in outbox \/ cache.setBack
    BY DEF RoomCurrent
  <2>1. Idle /\ Listens /\ ~cache.stale /\ lossy = "no" /\ buffer = <<>>
    BY DEF Settled, Listens, Calm, NoCall, SyncInv, SyncTypeOK, TasksAndCalls
  <2>2. RoomIn(cache)
    BY <2>1 DEF SyncInv, RoomFollows
  <2>3. QED BY <2>1, <2>2 DEF RoomIn, Coming, Heard
<1>2. QED BY <1>1, SyncInvariant, PTL

\* The same of the study session, whose revisions the SDK applies in the order
\* they arrive in.
THEOREM SessionIsCurrent == SyncSpec => []SessionCurrent
<1>1. SyncInv => SessionCurrent
  <2> SUFFICES ASSUME SyncInv, Settled, ~cache.behind
               PROVE  cache.session = Active(revision) \/ Session(revision) \in outbox
    BY DEF SessionCurrent, SyncInv, SyncTypeOK, Cache
  <2>1. Idle /\ Listens /\ ~cache.stale /\ lossy = "no" /\ buffer = <<>>
    BY DEF Settled, Listens, Calm, NoCall, SyncInv, SyncTypeOK, TasksAndCalls
  <2>2. SessionIn(cache)
    BY <2>1 DEF SyncInv, SessionFollows
  <2>3. cache.newest = revision => cache.session = Active(revision)
    BY DEF SyncInv, NothingAhead, Past
  <2>4. QED BY <2>1, <2>2, <2>3 DEF SessionIn, Coming, Heard
<1>2. QED BY <1>1, SyncInvariant, PTL

\* A connected SDK keeps the room of a user who is no member any more only
\* until membership.updated arrives, unless an event was lost or the room could
\* not be read and the SDK is degraded.
THEOREM JoinedAreMembers == SyncSpec => []JoinedIsMember
<1>1. SyncInv => JoinedIsMember
  <2>1. SyncInv /\ Idle => buffer = <<>>
    BY DEF SyncInv, SyncTypeOK, TasksAndCalls
  <2>2. call = NoCall => call.at = "none"
    BY DEF NoCall
  <2>3. QED
    BY <2>1, <2>2 DEF JoinedIsMember, SyncInv, SyncTypeOK, RemovalShows, Undecided, Unread,
                      Heard, Idle
<1>2. QED BY <1>1, SyncInvariant, PTL

\* A room that is not joined is shown only when something could bring it in as it
\* was removed, or its topic or its answer reached an SDK that had not joined it.
THEOREM GhostsAreExplained == SyncSpec => []GhostExplained
<1>1. SyncInv => GhostExplained
  BY DEF GhostExplained, SyncInv, SyncTypeOK, RemovedIsGone
<1>2. QED BY <1>1, SyncInvariant, PTL
=============================================================================
