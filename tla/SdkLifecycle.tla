----------------------------- MODULE SdkLifecycle -----------------------------
(***************************************************************************)
(* The lifecycle of one StudyRoomSdk: start, reconnects, token refreshes,  *)
(* resync and close, over realtime connections that are lost or whose      *)
(* token expires.                                                          *)
(*                                                                         *)
(* Dart runs one callback at a time; a step is what runs between two       *)
(* awaits.  At most one lifecycle task runs (_lifecycleTask), and whoever  *)
(* wants another waits for it.  The generation changes when a task begins  *)
(* and at close, so that a running task finds its own outdated only after  *)
(* close.  How a synchronization reads the rooms is module SdkSync; here   *)
(* it succeeds, is degraded or fails.  Delays have no length.              *)
(***************************************************************************)
EXTENDS Naturals, FiniteSets

CONSTANTS
  Connection,  \* realtime connections, used again once they are closed
  None,        \* no connection
  MaxFaults    \* bound: failures, losses, expiries and calls of resync

ASSUME SdkLifecycleAssumption == None \notin Connection /\ MaxFaults \in Nat

VARIABLES
  started,      \* _started
  closing,      \* how far close() has come; _closed unless "no"
  task,         \* _lifecycleTask
  connection,   \* _connection, to whose states the SDK listens
  open,         \* connections that are not closed
  dying,        \* connections whose close() is awaited
  lost,         \* _connectionLost
  replacement,  \* _replacementRequested
  force,        \* _forceRefreshRequested
  timer,        \* _reconnectTimer is active
  waiters,      \* reconnect callbacks awaiting the task: their forceRefresh
  refreshTimer, \* _refreshTimer is active
  state,        \* _connectionState
  owed,         \* history: a forced refresh was asked for and not begun
  absorbed,     \* history: a task that does not force served such a request
  faults        \* bound: count of faults

requests == <<lost, replacement, force>>
timers   == <<timer, waiters, refreshTimer>>
history  == <<owed, absorbed>>
vars == <<started, closing, task, connection, open, dying, requests, timers,
          state, history, faults>>

Closings == {"no", "detaching", "closed"}
States   == {"stopped", "connecting", "reconnecting", "refreshing",
             "synchronizing", "connected", "degraded"}
Stages   == {"detaching", "token", "connecting", "syncing", "failing"}

\* Who began the task decides what a failure of it does.
Task   == [kind: {"replace", "resync"}, at: Stages, by: {"start", "timer", "host"},
           force: BOOLEAN, link: Connection \cup {None}]
NoTask == [kind |-> "none", at |-> "failing", by |-> "host", force |-> FALSE, link |-> None]

closed == closing # "no"
Busy   == task # NoTask

Init ==
  /\ started = FALSE /\ closing = "no"
  /\ task = NoTask
  /\ connection = None /\ open = {} /\ dying = {}
  /\ lost = FALSE /\ replacement = FALSE /\ force = FALSE
  /\ timer = FALSE /\ waiters = {} /\ refreshTimer = FALSE
  /\ state = "stopped"
  /\ owed = FALSE /\ absorbed = FALSE /\ faults = 0

Fault == faults < MaxFaults /\ faults' = faults + 1

(***************************************************************************)
(* The task.                                                               *)
(***************************************************************************)
ClearRequests == replacement' = FALSE /\ force' = FALSE /\ lost' = FALSE

\* Fault: the closed connection stays in the field.
KeepField ==
  /\ dying' = dying \cup ({connection} \ {None})
  /\ UNCHANGED connection

\* _detachRealtime: nobody listens to the connection from here on.
Detach ==
  /\ connection' = None
  /\ dying' = dying \cup ({connection} \ {None})

\* The beginning of _replaceRealtime.
BeginReplace(by, forced, shown) ==
  /\ task' = [kind |-> "replace", at |-> "detaching", by |-> by,
              force |-> forced, link |-> connection]
  /\ ClearRequests
  /\ refreshTimer' = FALSE
  /\ Detach
  /\ state' = shown
  /\ owed' = (owed /\ ~forced /\ by = "timer")

\* start() of an SDK that is not started; another call waits for the task.
Start ==
  /\ ~closed /\ ~started /\ ~Busy
  /\ started' = TRUE
  /\ BeginReplace("start", FALSE, "connecting")
  /\ UNCHANGED <<closing, open, timer, waiters, absorbed, faults>>

\* Fault: the close of the old connection is not awaited.
DetachedAtOnce ==
  /\ task.at = "detaching"
  /\ task' = [task EXCEPT !.at = "token", !.link = None]
  /\ UNCHANGED <<started, closing, connection, open, dying, requests, timers,
                 state, history, faults>>

Detached ==
  /\ task.at = "detaching" /\ task.link \notin dying
  /\ task' = [task EXCEPT !.at = "token", !.link = None]
  /\ UNCHANGED <<started, closing, connection, open, dying, requests, timers,
                 state, history, faults>>

\* The token provider answers; a closed SDK has cancelled the operation.
GetToken ==
  /\ task.at = "token" /\ ~closed
  /\ task' = [task EXCEPT !.at = "connecting"]
  /\ UNCHANGED <<started, closing, connection, open, dying, requests, timers,
                 state, history, faults>>

\* Fault: a connection that arrives after close() is forgotten.
ForgetLate(c) == UNCHANGED dying

CloseLate(c) == dying' = dying \cup {c}

\* The connector answers; close() may have come meanwhile, and then the
\* connection that arrives is only closed.
Connected(c) ==
  /\ task.at = "connecting" /\ c \notin open
  /\ open' = open \cup {c}
  /\ IF closed
     THEN /\ task' = [task EXCEPT !.at = "failing", !.link = c]
          /\ CloseLate(c)
          /\ UNCHANGED <<connection, state>>
     ELSE /\ task' = [task EXCEPT !.at = "syncing", !.link = c]
          /\ connection' = c
          /\ state' = "synchronizing"
          /\ UNCHANGED dying
  /\ UNCHANGED <<started, closing, requests, timers, history, faults>>

\* Fault: the end of a task only clears it.
NoFollowUp == FALSE

\* whenComplete: what was asked for while the task ran is scheduled now.
FollowUp == started /\ ~closed /\ (replacement \/ lost)

\* The task ends well; the callbacks that wait for it return.
Succeed(degraded) ==
  /\ task' = NoTask
  /\ replacement' = (replacement \/ degraded)
  /\ waiters' = {}
  /\ timer' = (timer \/ FollowUp \/ (degraded /\ started /\ ~closed))
  /\ absorbed' = (absorbed \/ (TRUE \in waiters /\ ~task.force))
  /\ state' = IF degraded THEN "degraded" ELSE "connected"

FinishReplace(degraded) ==
  /\ task.kind = "replace" /\ task.at = "syncing"
  /\ ~closed /\ ~lost
  /\ Succeed(degraded)
  /\ refreshTimer' = TRUE
  /\ UNCHANGED <<started, closing, connection, open, dying, lost, force, owed>>

\* A connection lost meanwhile does not fail resync, it is replaced after it.
FinishResync(degraded) ==
  /\ task.kind = "resync"
  /\ ~closed
  /\ Succeed(degraded)
  /\ UNCHANGED <<started, closing, connection, open, dying, lost, force,
                 refreshTimer, owed>>

\* Fault: a failed reconnect is left at that.
GiveUp == UNCHANGED <<timer, force, replacement>>

\* Fault: what the callback had cleared is not put back.
RetryUnforced ==
  /\ replacement' = (replacement \/ waiters # {})
  /\ timer' = (timer \/ FollowUp \/ (waiters # {} /\ started' /\ ~closed))
  /\ UNCHANGED force

\* The callbacks that wait for a task that failed try again later.
Retry ==
  LET again == waiters # {} /\ started' /\ ~closed
  IN /\ replacement' = (replacement \/ waiters # {})
     /\ timer' = (timer \/ FollowUp \/ again)
     /\ force' = (force \/ (again /\ TRUE \in waiters))

\* The task ends in error: whenComplete, then the one that had begun it, then
\* the callbacks that wait.
Fail ==
  /\ task' = NoTask
  /\ started' = (started /\ task.by # "start")
  /\ waiters' = {}
  /\ Retry
  /\ UNCHANGED <<refreshTimer, lost, history>>

\* Fault: nobody hears of the cancellation.
ConnectFailsUncancelled == FALSE

\* The provider or the connector fails, or close() has cancelled them.
ConnectFails ==
  /\ task.at \in {"token", "connecting"}
  /\ Fail
  /\ UNCHANGED <<closing, connection, open, dying, state>>

\* Subscribing or synchronizing fails, the connection was lost meanwhile, or
\* close() has outdated the task: the connection is closed.
ReplaceFails ==
  /\ task.kind = "replace" /\ task.at = "syncing"
  /\ task' = [task EXCEPT !.at = "failing"]
  /\ IF connection = task.link THEN Detach
     ELSE dying' = dying \cup ({task.link} \cap open) /\ UNCHANGED connection
  /\ UNCHANGED <<started, closing, open, requests, timers, state, history>>

ReplaceFailed ==
  /\ task.at = "failing" /\ Busy /\ task.link \notin dying
  /\ Fail
  /\ UNCHANGED <<closing, connection, open, dying, state, faults>>

ResyncFails ==
  /\ task.kind = "resync"
  /\ Fail
  /\ UNCHANGED <<closing, connection, open, dying, state>>

\* resync() of a host; while a task runs it waits for it and begins anew.
Resync ==
  /\ started /\ ~closed /\ connection # None /\ ~Busy
  /\ task' = [kind |-> "resync", at |-> "syncing", by |-> "host",
              force |-> FALSE, link |-> connection]
  /\ state' = "synchronizing"
  /\ UNCHANGED <<started, closing, connection, open, dying, requests, timers,
                 history>>

(***************************************************************************)
(* Connections and timers.                                                 *)
(***************************************************************************)
\* A request that comes while a task runs is followed up when it ends.
Request(forced) ==
  /\ replacement' = TRUE
  /\ force' = (force \/ forced)
  /\ owed' = (owed \/ forced)
  /\ timer' = (timer \/ (~Busy /\ started /\ ~closed))

ConnectionLost ==
  /\ connection # None
  /\ lost' = TRUE
  /\ Request(FALSE)
  /\ UNCHANGED <<started, closing, task, connection, open, dying, waiters,
                 refreshTimer, state, absorbed>>

\* study-room.auth-expired
AuthExpired ==
  /\ connection # None
  /\ Request(TRUE)
  /\ UNCHANGED <<started, closing, task, connection, open, dying, lost, waiters,
                 refreshTimer, state, absorbed>>

\* The token is about to expire: _scheduleReconnect, whatever task runs.
RefreshDue ==
  /\ refreshTimer
  /\ refreshTimer' = FALSE
  /\ replacement' = TRUE /\ force' = TRUE /\ owed' = TRUE
  /\ timer' = (timer \/ (started /\ ~closed))
  /\ UNCHANGED <<started, closing, task, connection, open, dying, lost, waiters,
                 state, absorbed, faults>>

\* The callback of the reconnect timer clears the force flag, then begins a
\* task or awaits the one that runs.
ReconnectDue ==
  /\ timer
  /\ timer' = FALSE
  /\ IF closed \/ ~started
     THEN UNCHANGED <<task, connection, dying, requests, waiters, refreshTimer,
                      state, owed>>
     ELSE IF Busy
     THEN /\ waiters' = waiters \cup {force}
          /\ force' = FALSE
          /\ UNCHANGED <<task, connection, dying, lost, replacement,
                         refreshTimer, state, owed>>
     ELSE /\ BeginReplace("timer", force,
                          IF force THEN "refreshing" ELSE "reconnecting")
          /\ waiters' = {force}
  /\ UNCHANGED <<started, closing, open, absorbed, faults>>

ConnectionClosed(c) ==
  /\ c \in dying
  /\ open' = open \ {c}
  /\ dying' = dying \ {c}
  /\ UNCHANGED <<started, closing, task, connection, requests, timers, state,
                 history, faults>>

(***************************************************************************)
(* close()                                                                 *)
(***************************************************************************)
StopTimers == refreshTimer' = FALSE /\ timer' = FALSE

Close ==
  /\ closing = "no"
  /\ closing' = "detaching"
  /\ started' = FALSE
  /\ StopTimers
  /\ Detach
  /\ UNCHANGED <<task, open, requests, waiters, state, history, faults>>

\* The detached connection is closed and the task is over.
CloseEnd ==
  /\ closing = "detaching"
  /\ ~Busy /\ dying = {}
  /\ closing' = "closed"
  /\ state' = "stopped"
  /\ UNCHANGED <<started, task, connection, open, dying, requests, timers,
                 history, faults>>

Next ==
  \/ Start \/ Detached \/ GetToken
  \/ \E c \in Connection : Connected(c) \/ ConnectionClosed(c)
  \/ \E degraded \in BOOLEAN :
       /\ FinishReplace(degraded) \/ FinishResync(degraded)
       /\ IF degraded THEN Fault ELSE UNCHANGED faults
  \/ ConnectFails /\ (IF closed THEN UNCHANGED faults ELSE Fault)
  \/ ReplaceFails /\ (IF closed \/ lost THEN UNCHANGED faults ELSE Fault)
  \/ ResyncFails /\ (IF closed THEN UNCHANGED faults ELSE Fault)
  \/ ReplaceFailed
  \/ Fault /\ (Resync \/ ConnectionLost \/ AuthExpired)
  \/ RefreshDue \/ ReconnectDue
  \/ Close \/ CloseEnd

Spec == Init /\ [][Next]_vars

\* The provider, the connector and the server answer at last, with success
\* or an error; connections close and timers fire.
TaskStep ==
  \/ Detached \/ GetToken \/ ReplaceFailed
  \/ \E c \in Connection : Connected(c)
  \/ \E degraded \in BOOLEAN : FinishReplace(degraded) \/ FinishResync(degraded)
  \/ ConnectFails \/ ReplaceFails \/ ResyncFails

FairSpec ==
  /\ Spec
  /\ WF_vars(TaskStep /\ Next) /\ WF_vars(ReconnectDue) /\ WF_vars(CloseEnd)
  /\ \A c \in Connection : WF_vars(ConnectionClosed(c))

(***************************************************************************)
(* Properties.                                                             *)
(***************************************************************************)
TypeOK ==
  /\ started \in BOOLEAN /\ closing \in Closings
  /\ started => ~closed
  /\ task \in Task \cup {NoTask}
  /\ open \subseteq Connection /\ dying \subseteq open
  /\ connection \in (open \ dying) \cup {None}
  /\ {lost, replacement, force, timer, refreshTimer} \subseteq BOOLEAN
  /\ waiters \subseteq BOOLEAN
  /\ state \in States
  /\ owed \in BOOLEAN /\ absorbed \in BOOLEAN
  /\ faults \in 0 .. MaxFaults

\* The SDK never holds two connections, however reconnects, refreshes and
\* close() meet.
OneConnection == Cardinality(open) <= 1

\* What close() promises: it "permanently stops reconnects and refreshes and
\* releases owned transports", those that were being opened included.
ClosedIsQuiet ==
  closing = "closed" =>
    ~Busy /\ open = {} /\ ~timer /\ ~refreshTimer /\ waiters = {}

\* A started SDK without a running task has a timer to wake it: for a
\* reconnect, or, with its connection in place, for the next token.
NeverStranded ==
  (started /\ ~Busy) => timer \/ (connection # None /\ ~lost /\ refreshTimer)

\* A request for a fresh token waits in the flag or in a reconnect callback,
\* unless a task that did not force has served that callback.
ForceRemembered ==
  (owed /\ started) => force \/ TRUE \in waiters \/ absorbed

\* A connection that was lost is replaced, unless the host closes the SDK.
Recovers ==
  (started /\ lost) ~>
    (~started \/ (connection # None /\ ~lost /\ state \in {"connected", "degraded"}))

\* close() returns.
CloseReturns == (closing = "detaching") ~> (closing = "closed")
=============================================================================
