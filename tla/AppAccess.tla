----------------------------- MODULE AppAccess -----------------------------
(***************************************************************************)
(* One application of the platform: its row, the copies of it that the     *)
(* instances keep (ApplicationsService), the tokens that are checked       *)
(* against them (AuthService), and the connections that such a check let   *)
(* in (the handshake, the expiry timer and disconnectApp of the gateway).  *)
(*                                                                         *)
(* The code of an instance runs between two awaits without interruption;   *)
(* Socket.IO's joins stay in memory, so from the last answer of the        *)
(* database to the end of handleConnection nothing else runs.              *)
(*                                                                         *)
(* An announced change is one Redis message per instance.  Each instance   *)
(* that hears of a disabling asks the adapter to disconnect the sockets of *)
(* the application everywhere, which is again one message per instance.    *)
(* Redis may lose any of them.                                             *)
(***************************************************************************)
EXTENDS Integers, FiniteSetsExt

CONSTANTS
  Instance,    \* server processes
  Socket,      \* connections, each used once
  Home,        \* the instance a connection ends at
  Call,        \* requests and handshakes in flight at the same time
  None,        \* no socket: a REST request
  CacheTtl,    \* cacheTtlMs
  Latency,     \* the longest the database takes to answer
  MaximumDelay,\* the longest delay of setTimeout
  Expiry,      \* the times at which tokens expire
  MaxTime, MaxRevision    \* bounds of the model

ASSUME AppAccessAssumption ==
  /\ Home \in [Socket -> Instance] /\ None \notin Socket
  /\ {CacheTtl, MaximumDelay, MaxTime, MaxRevision} \subseteq Nat \ {0}
  /\ Latency \in Nat /\ Expiry \subseteq Nat

VARIABLES
  now,         \* the clock
  app,         \* the row, with the number of its last change
  replacedAt,  \* history: when each revision was replaced
  pending,     \* changes committed and not yet announced
  cache,       \* what each instance remembers of the row
  changeMail,  \* announcements on their way
  kickMail,    \* instances with a disconnectSockets on its way
  call,        \* progress of requests and handshakes
  link,        \* connections
  token,       \* when the token of a connection expires
  timer,       \* when its expiryTimer fires
  overtaken,   \* history: instances that stored a row already replaced
  missed,      \* history: instances whose invalidation did not arrive
  late,        \* history: sockets let in after the disabling had passed
  spared       \* history: sockets whose disconnection did not arrive

mail    == <<changeMail, kickMail>>
sockets == <<link, token, timer>>
history == <<overtaken, missed, late, spared>>
vars == <<now, app, replacedAt, pending, cache, mail, call, sockets, history>>

AppStatus == {"absent", "enabled", "disabled"}
AppRow    == [revision : 0 .. MaxRevision, status : AppStatus]
NoEntry   == [row |-> [revision |-> 0, status |-> "absent"], expiresAt |-> 0]
IdleCall  == [at |-> "idle", on |-> None, socket |-> None, row |-> NoEntry.row, since |-> 0]

Init ==
  /\ now = 0
  /\ app = NoEntry.row
  /\ replacedAt = [r \in 1 .. MaxRevision |-> 0]
  /\ pending = {} /\ changeMail = {} /\ kickMail = {}
  /\ cache = [i \in Instance |-> NoEntry]
  /\ call = [c \in Call |-> IdleCall]
  /\ link = [s \in Socket |-> "new"]
  /\ token = [s \in Socket |-> 0] /\ timer = [s \in Socket |-> 0]
  /\ overtaken = {} /\ missed = {} /\ late = {} /\ spared = {}

\* Fault: an entry is used as long as nobody deletes it.
FreshForEver(i) == cache[i].expiresAt > 0

\* An entry is used until its time is over.
Fresh(i) == cache[i].expiresAt > now

\* What is on its way to the copy of instance i, and to its sockets.
Invalidating(i) == pending # {} \/ \E m \in changeMail : m.to = i
Disconnecting(i) ==
  \/ i \in kickMail
  \/ \E m \in changeMail : ~m.enabled
  \/ \E p \in pending : p.status = "disabled"

Stale(i) == Fresh(i) /\ cache[i].row.revision < app.revision
Open(i)  == {s \in Socket : link[s] = "open" /\ Home[s] = i}

Forget(i) ==
  /\ cache' = [cache EXCEPT ![i] = NoEntry]
  /\ overtaken' = overtaken \ {i} /\ missed' = missed \ {i}

\* handleDisconnect clears the timer.
Close(S, end) ==
  /\ link' = [s \in Socket |-> IF s \in S THEN end ELSE link[s]]
  /\ token' = [s \in Socket |-> IF s \in S THEN 0 ELSE token[s]]
  /\ timer' = [s \in Socket |-> IF s \in S THEN 0 ELSE timer[s]]

(***************************************************************************)
(* Administration: create and update, then changed.                        *)
(***************************************************************************)
Write(i, status) ==
  /\ app.revision < MaxRevision
  /\ app' = [revision |-> app.revision + 1, status |-> status]
  /\ replacedAt' = [r \in DOMAIN replacedAt |-> IF r = app.revision THEN now ELSE replacedAt[r]]
  /\ pending' = pending \cup {[on |-> i, status |-> status]}
  /\ UNCHANGED <<now, cache, mail, call, sockets, history>>

\* Fault: the change is published to the instance that made it only.
AudienceAtHome(p) == {p.on}

\* Every instance subscribes to the channel, the one that made the change too.
Audience(p) == Instance

\* History: nothing is on its way any more to a copy that needed it, or to
\* an open socket.
Losses ==
  /\ missed' = missed \cup {i \in Instance : Stale(i) /\ Invalidating(i) /\ ~Invalidating(i)'}
  /\ spared' = spared \cup
       {s \in Socket : link[s] = "open" /\ Disconnecting(Home[s]) /\ ~Disconnecting(Home[s])'}

Announce(p) ==
  /\ pending' = pending \ {p}
  /\ Forget(p.on)
  /\ changeMail' = changeMail \cup
       {[to |-> i, enabled |-> p.status = "enabled"] : i \in Audience(p)}
  /\ UNCHANGED <<now, app, replacedAt, kickMail, call, sockets, late, spared>>

\* publish rejects while Redis cannot be reached: the administrator is told
\* of an error after the change has been made.
AnnounceFails(p) ==
  /\ pending' = pending \ {p}
  /\ cache' = [cache EXCEPT ![p.on] = NoEntry]
  /\ UNCHANGED <<now, app, replacedAt, mail, call, sockets, overtaken, late>>
  /\ Losses

\* Fault: the gateway looks into the copy, which has just been deleted.
KickIfCached(m) == IF ~m.enabled /\ Fresh(m.to) THEN Instance ELSE {}

\* The gateway's handler: disconnectApp, which reaches every instance.
KickOf(m) == IF m.enabled THEN {} ELSE Instance

\* Both handlers of the channel run, one after the other.
Hear(m) ==
  /\ changeMail' = changeMail \ {m}
  /\ Forget(m.to)
  /\ kickMail' = kickMail \cup KickOf(m)
  /\ UNCHANGED <<now, app, replacedAt, pending, call, sockets, late, spared>>

\* disconnectSockets arrives.  A socket in its handshake is not yet one of
\* the namespace's sockets and is passed over.
Kick(i) ==
  /\ i \in kickMail
  /\ kickMail' = kickMail \ {i}
  /\ Close(Open(i), "closed")
  /\ UNCHANGED <<now, app, replacedAt, pending, cache, changeMail, call, history>>

(***************************************************************************)
(* Requests and handshakes: getEnabled, then verify and the upsert.        *)
(***************************************************************************)

\* getEnabled has its row.  What else it takes to let a REST request pass
\* changes nothing here; a handshake goes on.
Decide(c, i, s, row) ==
  call' = [call EXCEPT ![c] =
    IF row.status = "enabled" /\ s # None
      THEN [at |-> "verifying", on |-> i, socket |-> s, row |-> NoEntry.row, since |-> now]
      ELSE IdleCall]

Begin(c, i, s) ==
  /\ call[c].at = "idle"
  /\ s # None => /\ link[s] = "new" /\ Home[s] = i
                 /\ \A d \in Call : call[d].socket # s
  /\ IF Fresh(i)
       THEN Decide(c, i, s, cache[i].row)
       ELSE call' = [call EXCEPT ![c] =
              [at |-> "reading", on |-> i, socket |-> s, row |-> NoEntry.row, since |-> 0]]
  /\ UNCHANGED <<now, app, replacedAt, pending, cache, mail, sockets, history>>

\* A REST request with a user token, and the handshake of a connection.
Request(c, i)      == Begin(c, i, None)
Handshake(c, i, s) == Begin(c, i, s)

\* The database looks the row up.
Read(c) ==
  /\ call[c].at = "reading"
  /\ call' = [call EXCEPT ![c].at = "answered", ![c].row = app, ![c].since = now]
  /\ UNCHANGED <<now, app, replacedAt, pending, cache, mail, sockets, history>>

\* The answer arrives; that there is no row is not remembered.
Store(c) ==
  LET i == call[c].on
      row == call[c].row
  IN  /\ call[c].at = "answered"
      /\ Decide(c, i, call[c].socket, row)
      /\ IF row.status = "absent"
           THEN UNCHANGED <<cache, overtaken, missed>>
           ELSE /\ cache' = [cache EXCEPT ![i] = [row |-> row, expiresAt |-> now + CacheTtl]]
                /\ missed' = missed \ {i}
                /\ overtaken' = IF row.revision < app.revision /\ ~Invalidating(i)
                                  THEN overtaken \cup {i} ELSE overtaken \ {i}
      /\ UNCHANGED <<now, app, replacedAt, pending, mail, sockets, late, spared>>

\* The signature or a claim is wrong, or the keys or the database cannot be
\* reached.
Reject(c) ==
  /\ call[c].at = "verifying"
  /\ call' = [call EXCEPT ![c] = IdleCall]
  /\ UNCHANGED <<now, app, replacedAt, pending, cache, mail, sockets, history>>

\* scheduleExpiry: setTimeout takes no longer delay.
NextTimer(expiresAt) == now + Min({Max({0, expiresAt - now}), MaximumDelay})

\* The upsert is done: the middleware's joins, next() and handleConnection.
\* The token expires after it was verified, perhaps before now.
Admit(c, expiresAt) ==
  LET s == call[c].socket
  IN  /\ call[c].at = "verifying" /\ s # None
      /\ expiresAt > call[c].since
      /\ call' = [call EXCEPT ![c] = IdleCall]
      /\ link' = [link EXCEPT ![s] = "open"]
      /\ token' = [token EXCEPT ![s] = expiresAt]
      /\ timer' = [timer EXCEPT ![s] = NextTimer(expiresAt)]
      /\ late' = IF app.status = "disabled" /\ ~Disconnecting(Home[s])
                   THEN late \cup {s} ELSE late
      /\ UNCHANGED <<now, app, replacedAt, pending, cache, mail, overtaken, missed, spared>>

\* Fault: the timer's callback does not look at the clock.
TimerIsLast(s) == TRUE

\* The last chunk of the wait is over.
Expired(s) == token[s] <= now

\* The callback of the expiry timer.
FireTimer(s) ==
  /\ link[s] = "open" /\ timer[s] <= now
  /\ IF Expired(s)
       THEN Close({s}, "expired")
       ELSE timer' = [timer EXCEPT ![s] = NextTimer(token[s])] /\ UNCHANGED <<link, token>>
  /\ UNCHANGED <<now, app, replacedAt, pending, cache, mail, call, history>>

Disconnect(s) ==
  /\ link[s] = "open"
  /\ Close({s}, "closed")
  /\ UNCHANGED <<now, app, replacedAt, pending, cache, mail, call, history>>

(***************************************************************************)
(* Faults and time.                                                        *)
(***************************************************************************)
LoseChange(m) ==
  /\ changeMail' = changeMail \ {m}
  /\ UNCHANGED <<now, app, replacedAt, pending, cache, kickMail, call, sockets, overtaken, late>>
  /\ Losses

LoseKick(i) ==
  /\ i \in kickMail
  /\ kickMail' = kickMail \ {i}
  /\ UNCHANGED <<now, app, replacedAt, pending, cache, changeMail, call, sockets, overtaken, late>>
  /\ Losses

\* An instance dies and starts again with nothing in memory.
Die(i) ==
  /\ pending' = {p \in pending : p.on # i}
  /\ changeMail' = {m \in changeMail : m.to # i}
  /\ kickMail' = kickMail \ {i}
  /\ cache' = [cache EXCEPT ![i] = NoEntry]
  /\ call' = [c \in Call |-> IF call[c].on = i THEN IdleCall ELSE call[c]]
  /\ Close(Open(i), "closed")
  /\ UNCHANGED <<now, app, replacedAt, overtaken, late>>
  /\ Losses

\* Timers fire on time, and the database answers within its latency.
Tick ==
  /\ now < MaxTime
  /\ \A s \in Socket : link[s] = "open" => timer[s] > now
  /\ \A c \in Call : call[c].at = "answered" => now < call[c].since + Latency
  /\ now' = now + 1
  /\ UNCHANGED <<app, replacedAt, pending, cache, mail, call, sockets, history>>

Work ==
  \/ \E i \in Instance :
       \/ Kick(i)
       \/ \E status \in {"enabled", "disabled"} : Write(i, status)
       \/ \E c \in Call : Request(c, i) \/ \E s \in Socket : Handshake(c, i, s)
  \/ \E p \in pending : Announce(p)
  \/ \E m \in changeMail : Hear(m)
  \/ \E c \in Call : Read(c) \/ Store(c) \/ Reject(c) \/ \E e \in Expiry : Admit(c, e)
  \/ \E s \in Socket : FireTimer(s) \/ Disconnect(s)
  \/ Tick

Faults ==
  \/ \E i \in Instance : LoseKick(i) \/ Die(i)
  \/ \E p \in pending : AnnounceFails(p)
  \/ \E m \in changeMail : LoseChange(m)

Next == Work \/ Faults

Spec == Init /\ [][Next]_vars

-----------------------------------------------------------------------------
(***************************************************************************)
(* Properties.                                                             *)
(***************************************************************************)

\* Every variable has its type, and setTimeout is given no longer delay than
\* it takes.
TypeOK ==
  /\ now \in 0 .. MaxTime
  /\ app \in AppRow
  /\ replacedAt \in [1 .. MaxRevision -> 0 .. MaxTime]
  /\ pending \subseteq [on : Instance, status : AppStatus]
  /\ cache \in [Instance -> [row : AppRow, expiresAt : 0 .. MaxTime + CacheTtl]]
  /\ changeMail \subseteq [to : Instance, enabled : BOOLEAN]
  /\ kickMail \subseteq Instance
  /\ call \in [Call -> [at : {"idle", "reading", "answered", "verifying"},
                        on : Instance \cup {None}, socket : Socket \cup {None},
                        row : AppRow, since : 0 .. MaxTime]]
  /\ link \in [Socket -> {"new", "open", "closed", "expired"}]
  /\ token \in [Socket -> Expiry \cup {0}]
  /\ timer \in [Socket -> 0 .. MaxTime + MaximumDelay]
  /\ \A s \in Socket : timer[s] <= now + MaximumDelay
  /\ overtaken \subseteq Instance /\ missed \subseteq Instance
  /\ late \subseteq Socket /\ spared \subseteq Socket

\* An instance remembers a replaced row only while the invalidation is on its
\* way, because it was lost, or because a get that had read the row before
\* the change stored it after the invalidation.
StaleCopyExplained ==
  \A i \in Instance : Stale(i) => Invalidating(i) \/ i \in missed \/ i \in overtaken

\* Whatever Redis loses and whichever get comes last, a replaced row is used
\* no longer than the latency of the database and one lifetime of an entry
\* after it was replaced.
StaleCopyIsShort ==
  [][\A c \in Call :
       LET used == cache[call'[c].on].row.revision
       IN  (call[c].at = "idle" /\ call'[c].at = "verifying" /\ used < app.revision)
             => now < replacedAt[used] + Latency + CacheTtl]_vars

\* A connection to a disabled application is being disconnected, its
\* disconnection was lost, or it was still in its handshake, let in by a row
\* read before, when the disconnection passed.
DisabledIsDisconnected ==
  \A s \in Socket : (link[s] = "open" /\ app.status = "disabled")
    => Disconnecting(Home[s]) \/ s \in spared \/ s \in late

\* A connection ends with its token, however many timers it took to wait for
\* that: the expiry timer ends none whose token is still valid, and one whose
\* token has expired has a timer that is due.
EndsWithToken ==
  [][\A s \in Socket : link[s] = "open" =>
       /\ link'[s] = "expired" => token[s] <= now
       /\ token[s] <= now => timer[s] <= now]_vars
=============================================================================
