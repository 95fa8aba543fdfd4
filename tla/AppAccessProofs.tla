-------------------------- MODULE AppAccessProofs --------------------------
(***************************************************************************)
(* Proofs about AppAccess, for every number of instances, connections,     *)
(* requests and changes, every lifetime of copies and tokens, every        *)
(* latency and every longest delay.                                        *)
(***************************************************************************)
EXTENDS AppAccess, TLAPS

-----------------------------------------------------------------------------
(***************************************************************************)
(* The inductive invariant.                                                *)
(***************************************************************************)

\* The row of an application that was created has a revision, and a copy of
\* it is no newer.
Rows ==
  /\ app.status # "absent" => app.revision > 0
  /\ \A i \in Instance :
       /\ cache[i].row.revision <= app.revision
       /\ Fresh(i) => cache[i].row.revision > 0
  /\ \A c \in Call :
       /\ call[c].row.revision <= app.revision
       /\ call[c].row.status # "absent" => call[c].row.revision > 0

\* What the database has answered was true when it was read, and that was no
\* longer ago than its latency.
AnswersAreRecent ==
  \A c \in Call : call[c].at = "answered" =>
    /\ call[c].since <= now /\ now <= call[c].since + Latency
    /\ call[c].row.revision \in 1 .. app.revision - 1 =>
         call[c].since <= replacedAt[call[c].row.revision]

\* A copy is used for one lifetime after it was stored, and the copy of a
\* replaced row was stored within the latency after the change.
CopiesAreRecent ==
  \A i \in Instance :
    /\ cache[i].expiresAt <= now + CacheTtl
    /\ (Fresh(i) /\ cache[i].row.revision < app.revision) =>
         cache[i].expiresAt <= replacedAt[cache[i].row.revision] + Latency + CacheTtl

\* The timer of a connection does not outlast its token.
TimerBeforeToken ==
  \A s \in Socket : link[s] = "open" => timer[s] <= token[s] \/ timer[s] <= now

IInv ==
  /\ TypeOK /\ Rows /\ AnswersAreRecent /\ CopiesAreRecent /\ TimerBeforeToken
  /\ StaleCopyExplained /\ DisabledIsDisconnected

-----------------------------------------------------------------------------
(***************************************************************************)
(* Numbers.                                                                *)
(***************************************************************************)

LEMMA Numbers ==
  /\ CacheTtl \in Nat \ {0} /\ MaximumDelay \in Nat \ {0}
  /\ MaxTime \in Nat \ {0} /\ MaxRevision \in Nat \ {0} /\ Latency \in Nat
  /\ \A e \in Expiry \cup {0} : e \in Nat
BY AppAccessAssumption

LEMMA MaxOfTwo ==
  ASSUME NEW a \in Int, NEW b \in Int
  PROVE  Max({a, b}) = IF a >= b THEN a ELSE b
<1> DEFINE m == IF a >= b THEN a ELSE b
<1>1. m \in {a, b} /\ \A y \in {a, b} : m >= y
  OBVIOUS
<1>2. \A x \in {a, b} : (\A y \in {a, b} : x >= y) => x = m
  OBVIOUS
<1> HIDE DEF m
<1>3. Max({a, b}) = m
  BY <1>1, <1>2 DEF Max
<1>4. QED BY <1>3 DEF m

LEMMA MinOfTwo ==
  ASSUME NEW a \in Int, NEW b \in Int
  PROVE  Min({a, b}) = IF a <= b THEN a ELSE b
<1> DEFINE m == IF a <= b THEN a ELSE b
<1>1. m \in {a, b} /\ \A y \in {a, b} : m <= y
  OBVIOUS
<1>2. \A x \in {a, b} : (\A y \in {a, b} : x <= y) => x = m
  OBVIOUS
<1> HIDE DEF m
<1>3. Min({a, b}) = m
  BY <1>1, <1>2 DEF Min
<1>4. QED BY <1>3 DEF m

\* A timer waits for the token or for the longest delay, whichever is less,
\* and no time for a token that has expired.
LEMMA TimerWaits ==
  ASSUME now \in Nat, NEW expiresAt \in Nat
  PROVE  /\ NextTimer(expiresAt) \in now .. now + MaximumDelay
         /\ NextTimer(expiresAt) <= expiresAt \/ NextTimer(expiresAt) <= now
<1>1. MaximumDelay \in Nat
  BY Numbers
<1> DEFINE rest == Max({0, expiresAt - now})
<1>2. rest = IF 0 >= expiresAt - now THEN 0 ELSE expiresAt - now
  BY MaxOfTwo
<1>3. rest \in Nat
  BY <1>2
<1> HIDE DEF rest
<1>4. Min({rest, MaximumDelay}) = IF rest <= MaximumDelay THEN rest ELSE MaximumDelay
  BY <1>1, <1>3, MinOfTwo
<1>5. NextTimer(expiresAt) = now + Min({rest, MaximumDelay})
  BY DEF NextTimer, rest
<1>6. QED BY <1>1, <1>2, <1>3, <1>4, <1>5

-----------------------------------------------------------------------------
(***************************************************************************)
(* Types, and what the operations of one variable do.                      *)
(***************************************************************************)

CallType == [at : {"idle", "reading", "answered", "verifying"},
             on : Instance \cup {None}, socket : Socket \cup {None},
             row : AppRow, since : 0 .. MaxTime]

LEMMA Types ==
  ASSUME TypeOK
  PROVE  /\ now \in 0 .. MaxTime /\ now \in Nat
         /\ app.revision \in 0 .. MaxRevision /\ app.status \in AppStatus
         /\ \A r \in 1 .. MaxRevision : replacedAt[r] \in Nat
         /\ \A i \in Instance : /\ cache[i].row \in AppRow
                                /\ cache[i].row.revision \in Nat
                                /\ cache[i].expiresAt \in Nat
         /\ call \in [Call -> CallType]
         /\ \A c \in Call : call[c].row.revision \in Nat /\ call[c].since \in Nat
         /\ \A s \in Socket : token[s] \in Nat /\ timer[s] \in Nat
BY Numbers DEF TypeOK, AppRow, CallType

LEMMA IdleCallType == IdleCall \in CallType /\ NoEntry.row \in AppRow
BY Numbers DEF IdleCall, NoEntry, CallType, AppRow, AppStatus

\* The row is replaced, and when is recorded.
LEMMA WriteEffect ==
  ASSUME TypeOK, NEW i \in Instance, NEW st \in {"enabled", "disabled"}, Write(i, st)
  PROVE  /\ app' \in AppRow /\ app'.revision = app.revision + 1 /\ app'.status = st
         /\ replacedAt' \in [1 .. MaxRevision -> 0 .. MaxTime]
         /\ \A r \in 1 .. MaxRevision :
              replacedAt'[r] = IF r = app.revision THEN now ELSE replacedAt[r]
<1>1. replacedAt \in [1 .. MaxRevision -> 0 .. MaxTime] /\ now \in 0 .. MaxTime
  BY DEF TypeOK
<1>2. replacedAt' = [r \in 1 .. MaxRevision |-> IF r = app.revision THEN now ELSE replacedAt[r]]
  BY <1>1 DEF Write
<1>3. app' = [revision |-> app.revision + 1, status |-> st] /\ app.revision < MaxRevision
  BY DEF Write
<1>4. app' \in AppRow
  BY <1>3, Types, Numbers DEF AppRow, AppStatus
<1>5. QED BY <1>1, <1>2, <1>3, <1>4

\* The answer is what the row is now.
LEMMA ReadEffect ==
  ASSUME TypeOK, NEW c \in Call, Read(c)
  PROVE  /\ call' \in [Call -> CallType]
         /\ \A d \in Call \ {c} : call'[d] = call[d]
         /\ call'[c].row = app /\ call'[c].since = now
<1>1. call[c] \in CallType /\ call \in [Call -> CallType] /\ app \in AppRow /\ now \in 0 .. MaxTime
  BY Types DEF TypeOK
<1> DEFINE one == [call[c] EXCEPT !.at = "answered"]
           two == [one EXCEPT !.row = app]
           three == [two EXCEPT !.since = now]
<1>2. call' = [call EXCEPT ![c] = three]
  BY <1>1 DEF Read
<1> HIDE DEF three
<1>3. /\ one \in CallType /\ one.at = "answered" /\ one.on = call[c].on
      /\ one.socket = call[c].socket /\ one.row = call[c].row
  BY <1>1 DEF CallType
<1> HIDE DEF one
<1>4. /\ two \in CallType /\ two.at = "answered" /\ two.on = call[c].on
      /\ two.socket = call[c].socket /\ two.row = app
  BY <1>1, <1>3 DEF CallType
<1> HIDE DEF two
<1>5. three \in CallType /\ three.row = app /\ three.since = now
  BY <1>1, <1>4 DEF three, CallType
<1>6. QED BY <1>1, <1>2, <1>5

\* handleDisconnect.
LEMMA CloseEffect ==
  ASSUME TypeOK, NEW S, NEW end \in {"closed", "expired"}, Close(S, end)
  PROVE  /\ link' \in [Socket -> {"new", "open", "closed", "expired"}]
         /\ token' \in [Socket -> Expiry \cup {0}]
         /\ timer' \in [Socket -> 0 .. MaxTime + MaximumDelay]
         /\ \A s \in Socket :
              /\ link'[s] = IF s \in S THEN end ELSE link[s]
              /\ token'[s] = IF s \in S THEN 0 ELSE token[s]
              /\ timer'[s] = IF s \in S THEN 0 ELSE timer[s]
              /\ timer'[s] <= now + MaximumDelay
<1>1. MaxTime + MaximumDelay \in Nat
  BY Numbers
<1>2. link' \in [Socket -> {"new", "open", "closed", "expired"}]
  BY DEF TypeOK, Close
<1>3. token' \in [Socket -> Expiry \cup {0}]
  BY DEF TypeOK, Close
<1>4. timer' \in [Socket -> 0 .. MaxTime + MaximumDelay]
  BY <1>1 DEF TypeOK, Close
<1>5. ASSUME NEW s \in Socket
      PROVE  (IF s \in S THEN 0 ELSE timer[s]) <= now + MaximumDelay
  <2>1. timer[s] <= now + MaximumDelay
    BY DEF TypeOK
  <2>2. 0 <= now + MaximumDelay
    BY Types, Numbers
  <2>3. QED BY <2>1, <2>2
<1>6. QED BY <1>2, <1>3, <1>4, <1>5 DEF Close

\* Every instance has its message.
LEMMA AnnounceEffect ==
  ASSUME TypeOK, NEW p \in pending, Announce(p)
  PROVE  /\ changeMail' \subseteq [to : Instance, enabled : BOOLEAN]
         /\ changeMail \subseteq changeMail'
         /\ \A i \in Instance : \E m \in changeMail' : m.to = i /\ m.enabled = (p.status = "enabled")
<1>1. PICK enabled \in BOOLEAN : enabled = (p.status = "enabled")
  OBVIOUS
<1> DEFINE sent == {[to |-> i, enabled |-> enabled] : i \in Instance}
<1>2. changeMail' = changeMail \cup sent
  BY <1>1, Zenon DEF Announce, Audience
<1>3. ASSUME NEW m \in sent
      PROVE  m \in [to : Instance, enabled : BOOLEAN]
  <2>1. PICK i \in Instance : m = [to |-> i, enabled |-> enabled]
    OBVIOUS
  <2>2. QED BY <2>1
<1>4. ASSUME NEW i \in Instance
      PROVE  \E m \in sent : m.to = i /\ m.enabled = enabled
  <2>1. [to |-> i, enabled |-> enabled] \in sent
    OBVIOUS
  <2>2. QED BY <2>1
<1> HIDE DEF sent
<1>5. QED BY <1>1, <1>2, <1>3, <1>4 DEF TypeOK

\* The copy of one instance is deleted.
LEMMA ForgetEffect ==
  ASSUME TypeOK, NEW i \in Instance, Forget(i)
  PROVE  /\ cache' \in [Instance -> [row : AppRow, expiresAt : 0 .. MaxTime + CacheTtl]]
         /\ \A j \in Instance : cache'[j] = IF j = i THEN NoEntry ELSE cache[j]
         /\ overtaken' = overtaken \ {i} /\ missed' = missed \ {i}
<1>1. NoEntry \in [row : AppRow, expiresAt : 0 .. MaxTime + CacheTtl]
  BY Numbers DEF NoEntry, AppRow, AppStatus
<1>2. QED BY <1>1 DEF TypeOK, Forget

\* A call ends or is verified, by the row it has.
LEMMA DecideEffect ==
  ASSUME TypeOK, NEW c \in Call, NEW i \in Instance \cup {None},
         NEW s \in Socket \cup {None}, NEW row, Decide(c, i, s, row)
  PROVE  /\ call' \in [Call -> CallType]
         /\ \A d \in Call \ {c} : call'[d] = call[d]
         /\ \/ call'[c] = IdleCall
            \/ /\ row.status = "enabled" /\ s # None
               /\ call'[c] = [at |-> "verifying", on |-> i, socket |-> s,
                              row |-> NoEntry.row, since |-> now]
<1> DEFINE verifying == [at |-> "verifying", on |-> i, socket |-> s,
                         row |-> NoEntry.row, since |-> now]
           next == IF row.status = "enabled" /\ s # None THEN verifying ELSE IdleCall
<1>1. call' = [call EXCEPT ![c] = next]
  BY DEF Decide
<1>2. verifying \in CallType /\ IdleCall \in CallType
  BY IdleCallType DEF TypeOK, CallType
<1>3. \/ next = IdleCall
      \/ row.status = "enabled" /\ s # None /\ next = verifying
  OBVIOUS
<1> HIDE DEF verifying, next
<1>4. next \in CallType
  BY <1>2, <1>3
<1>5. call \in [Call -> CallType]
  BY Types
<1>6. QED BY <1>1, <1>3, <1>4, <1>5 DEF verifying

\* A call begins with the copy, or waits for the database.
LEMMA BeginEffect ==
  ASSUME TypeOK, NEW c \in Call, NEW i \in Instance, NEW s \in Socket \cup {None},
         Begin(c, i, s)
  PROVE  /\ call' \in [Call -> CallType]
         /\ \A d \in Call \ {c} : call'[d] = call[d]
         /\ call'[c].on \in {i, None} /\ call'[c].row = NoEntry.row
         /\ call'[c].at # "answered"
         /\ call'[c].at = "verifying" =>
              call'[c].on = i /\ Fresh(i) /\ cache[i].row.status = "enabled"
<1>1. CASE Fresh(i)
  <2>1. Decide(c, i, s, cache[i].row)
    BY <1>1 DEF Begin
  <2>2. /\ call' \in [Call -> CallType]
        /\ \A d \in Call \ {c} : call'[d] = call[d]
        /\ \/ call'[c] = IdleCall
           \/ /\ cache[i].row.status = "enabled" /\ s # None
              /\ call'[c] = [at |-> "verifying", on |-> i, socket |-> s,
                             row |-> NoEntry.row, since |-> now]
    BY <2>1, DecideEffect
  <2>3. IdleCall.on = None /\ IdleCall.at = "idle" /\ IdleCall.row = NoEntry.row
    BY DEF IdleCall
  <2>4. QED BY <1>1, <2>2, <2>3
<1>2. CASE ~Fresh(i)
  <2> DEFINE reading == [at |-> "reading", on |-> i, socket |-> s, row |-> NoEntry.row,
                         since |-> 0]
  <2>1. call' = [call EXCEPT ![c] = reading]
    BY <1>2 DEF Begin
  <2>2. reading \in CallType
    BY IdleCallType, Numbers DEF CallType
  <2>3. call \in [Call -> CallType]
    BY Types
  <2>4. QED BY <2>1, <2>2, <2>3
<1>3. QED BY <1>1, <1>2

-----------------------------------------------------------------------------
(***************************************************************************)
(* Every action keeps the invariant.                                       *)
(***************************************************************************)

LEMMA WriteKeeps ==
  ASSUME IInv, NEW i \in Instance, NEW st \in {"enabled", "disabled"}, Write(i, st)
  PROVE  IInv'
<1>1. /\ app' \in AppRow /\ app'.revision = app.revision + 1 /\ app'.status = st
      /\ \A r \in 1 .. MaxRevision :
           replacedAt'[r] = IF r = app.revision THEN now ELSE replacedAt[r]
      /\ app.revision < MaxRevision
  BY WriteEffect DEF IInv, Write
<1>2. UNCHANGED <<now, cache, changeMail, kickMail, call, link, token, timer,
                  overtaken, missed, late, spared>>
  BY DEF Write, mail, sockets, history
<1>3. TypeOK'
  <2>1. pending' \subseteq [on : Instance, status : AppStatus]
    <3>1. [on |-> i, status |-> st] \in [on : Instance, status : AppStatus]
      BY DEF AppStatus
    <3>2. QED BY <3>1 DEF IInv, TypeOK, Write
  <2>2. replacedAt' \in [1 .. MaxRevision -> 0 .. MaxTime]
    BY WriteEffect DEF IInv
  <2>3. QED BY <1>1, <1>2, <2>1, <2>2 DEF IInv, TypeOK
<1>4. Rows'
  BY <1>1, <1>2, Types DEF IInv, Rows, Fresh
<1>5. AnswersAreRecent'
  <2>1. ASSUME NEW c \in Call, call[c].at = "answered",
               call[c].row.revision \in 1 .. app.revision
        PROVE  call[c].since <= replacedAt'[call[c].row.revision]
    <3>1. call[c].row.revision \in 1 .. MaxRevision
      BY <1>1, <2>1, Types, Numbers DEF IInv
    <3>2. CASE call[c].row.revision = app.revision
      BY <1>1, <2>1, <3>1, <3>2 DEF IInv, AnswersAreRecent
    <3>3. CASE call[c].row.revision # app.revision
      <4>1. call[c].row.revision \in 1 .. app.revision - 1
        BY <2>1, <3>3, Types DEF IInv
      <4>2. QED BY <1>1, <2>1, <3>1, <3>3, <4>1 DEF IInv, AnswersAreRecent
    <3>4. QED BY <3>2, <3>3
  <2>2. app'.revision - 1 = app.revision
    BY <1>1, Types DEF IInv
  <2>3. QED BY <1>2, <2>1, <2>2 DEF IInv, AnswersAreRecent
<1>6. CopiesAreRecent'
  <2>1. ASSUME NEW j \in Instance, Fresh(j)
        PROVE  cache[j].expiresAt <= replacedAt'[cache[j].row.revision] + Latency + CacheTtl
    <3>1. /\ cache[j].row.revision \in 1 .. MaxRevision
          /\ cache[j].row.revision <= app.revision
      BY <1>1, <2>1, Types, Numbers DEF IInv, Rows
    <3>2. CASE cache[j].row.revision = app.revision
      BY <1>1, <3>1, <3>2, Types, Numbers DEF IInv, CopiesAreRecent
    <3>3. CASE cache[j].row.revision # app.revision
      <4>1. cache[j].row.revision < app.revision
        BY <3>1, <3>3, Types DEF IInv
      <4>2. QED BY <1>1, <2>1, <3>1, <3>3, <4>1 DEF IInv, CopiesAreRecent
    <3>4. QED BY <3>2, <3>3
  <2>2. QED BY <1>2, <2>1 DEF IInv, CopiesAreRecent, Fresh
<1>7. TimerBeforeToken'
  BY <1>2 DEF IInv, TimerBeforeToken
<1>8. pending' = pending \cup {[on |-> i, status |-> st]}
  BY DEF Write
<1>9. StaleCopyExplained'
  BY <1>8 DEF StaleCopyExplained, Invalidating
<1>10. DisabledIsDisconnected'
  <2>1. CASE st = "disabled"
    <3>1. [on |-> i, status |-> st] \in pending' /\ [on |-> i, status |-> st].status = "disabled"
      BY <1>8, <2>1
    <3>2. QED BY <3>1 DEF DisabledIsDisconnected, Disconnecting
  <2>2. CASE st # "disabled"
    BY <1>1, <2>2 DEF DisabledIsDisconnected
  <2>3. QED BY <2>1, <2>2
<1>11. QED BY <1>3, <1>4, <1>5, <1>6, <1>7, <1>9, <1>10 DEF IInv

LEMMA AnnounceKeeps ==
  ASSUME IInv, NEW p \in pending, Announce(p)
  PROVE  IInv'
<1>1. /\ p.on \in Instance
      /\ changeMail' \subseteq [to : Instance, enabled : BOOLEAN]
      /\ changeMail \subseteq changeMail'
      /\ \A i \in Instance :
           \E m \in changeMail' : m.to = i /\ m.enabled = (p.status = "enabled")
  BY AnnounceEffect DEF IInv, TypeOK
<1>2. /\ cache' \in [Instance -> [row : AppRow, expiresAt : 0 .. MaxTime + CacheTtl]]
      /\ \A j \in Instance : cache'[j] = IF j = p.on THEN NoEntry ELSE cache[j]
      /\ overtaken' = overtaken \ {p.on} /\ missed' = missed \ {p.on}
  BY <1>1, ForgetEffect DEF IInv, Announce
<1>3. /\ pending' = pending \ {p}
      /\ UNCHANGED <<now, app, replacedAt, kickMail, call, link, token, timer, late, spared>>
  BY DEF Announce, sockets
<1>4. TypeOK'
  BY <1>1, <1>2, <1>3 DEF IInv, TypeOK
<1>5. Rows'
  BY <1>2, <1>3, Types DEF IInv, Rows, Fresh, NoEntry
<1>6. AnswersAreRecent'
  BY <1>3 DEF IInv, AnswersAreRecent
<1>7. CopiesAreRecent'
  BY <1>2, <1>3, Types, Numbers DEF IInv, CopiesAreRecent, Fresh, NoEntry
<1>8. TimerBeforeToken'
  BY <1>3 DEF IInv, TimerBeforeToken
<1>9. StaleCopyExplained'
  BY <1>1 DEF StaleCopyExplained, Invalidating
<1>10. DisabledIsDisconnected'
  <2>1. SUFFICES ASSUME NEW s \in Socket, link[s] = "open", app.status = "disabled"
                 PROVE  Disconnecting(Home[s])' \/ s \in spared \/ s \in late
    BY <1>3 DEF DisabledIsDisconnected
  <2>2. CASE p.status = "disabled"
    <3>1. PICK m \in changeMail' : m.enabled = FALSE
      BY <1>1, <2>2, AppAccessAssumption
    <3>2. QED BY <3>1 DEF Disconnecting
  <2>3. CASE p.status # "disabled"
    BY <1>1, <1>3, <2>1, <2>3 DEF IInv, DisabledIsDisconnected, Disconnecting
  <2>4. QED BY <2>2, <2>3
<1>11. QED BY <1>4, <1>5, <1>6, <1>7, <1>8, <1>9, <1>10 DEF IInv

\* What a loss records.
LEMMA LossesExplain ==
  ASSUME IInv, Losses, NEW gone \in SUBSET Instance, UNCHANGED <<now, app, overtaken, late>>,
         \A i \in Instance \ gone : UNCHANGED cache[i],
         \A i \in gone : ~Fresh(i)',
         \A s \in Socket : link'[s] = "open" => link[s] = "open"
  PROVE  /\ missed' \subseteq Instance /\ spared' \subseteq Socket
         /\ StaleCopyExplained' /\ DisabledIsDisconnected'
<1>1. /\ missed' = missed \cup {i \in Instance : Stale(i) /\ Invalidating(i) /\ ~Invalidating(i)'}
      /\ spared' = spared \cup {s \in Socket : link[s] = "open" /\ Disconnecting(Home[s])
                                                                /\ ~Disconnecting(Home[s])'}
  BY DEF Losses
<1>2. missed' \subseteq Instance /\ spared' \subseteq Socket
  BY <1>1 DEF IInv, TypeOK
<1>3. StaleCopyExplained'
  <2>1. SUFFICES ASSUME NEW i \in Instance, Stale(i)'
                 PROVE  Invalidating(i)' \/ i \in missed' \/ i \in overtaken'
    BY DEF StaleCopyExplained
  <2>2. Stale(i)
    BY <2>1 DEF Stale, Fresh
  <2>3. Invalidating(i) \/ i \in missed \/ i \in overtaken
    BY <2>2 DEF IInv, StaleCopyExplained
  <2>4. QED BY <1>1, <2>2, <2>3
<1>4. DisabledIsDisconnected'
  <2>1. SUFFICES ASSUME NEW s \in Socket, link'[s] = "open", app.status = "disabled"
                 PROVE  Disconnecting(Home[s])' \/ s \in spared' \/ s \in late
    BY DEF DisabledIsDisconnected
  <2>2. Disconnecting(Home[s]) \/ s \in spared \/ s \in late
    BY <2>1 DEF IInv, DisabledIsDisconnected
  <2>3. QED BY <1>1, <2>1, <2>2
<1>5. QED BY <1>2, <1>3, <1>4

\* A copy that is deleted is no copy.
LEMMA Deleted ==
  ASSUME IInv, NEW i \in Instance, cache' = [cache EXCEPT ![i] = NoEntry], UNCHANGED now
  PROVE  /\ cache' \in [Instance -> [row : AppRow, expiresAt : 0 .. MaxTime + CacheTtl]]
         /\ \A j \in Instance : cache'[j] = IF j = i THEN NoEntry ELSE cache[j]
         /\ ~Fresh(i)' /\ \A j \in Instance : Fresh(j)' => Fresh(j) /\ j # i
<1>1. NoEntry \in [row : AppRow, expiresAt : 0 .. MaxTime + CacheTtl] /\ NoEntry.expiresAt = 0
  BY Numbers DEF NoEntry, AppRow, AppStatus
<1>2. now \in Nat
  BY Types DEF IInv
<1>3. QED BY <1>1, <1>2 DEF IInv, TypeOK, Fresh

\* What deletes copies and changes neither the row nor the calls keeps what
\* is known of the copies.
LEMMA DeletingKeeps ==
  ASSUME IInv, UNCHANGED <<now, app, replacedAt>>,
         \A c \in Call : call'[c] \in {call[c], IdleCall},
         \A i \in Instance : cache'[i] \in {cache[i], NoEntry}
  PROVE  Rows' /\ AnswersAreRecent' /\ CopiesAreRecent'
<1>1. /\ NoEntry.expiresAt = 0 /\ NoEntry.row.revision = 0
      /\ IdleCall.at = "idle" /\ IdleCall.row.revision = 0 /\ IdleCall.row.status = "absent"
  BY DEF NoEntry, IdleCall
<1>2. Rows'
  BY <1>1, Types DEF IInv, Rows, Fresh
<1>3. AnswersAreRecent'
  BY <1>1 DEF IInv, AnswersAreRecent
<1>4. CopiesAreRecent'
  BY <1>1, Types, Numbers DEF IInv, CopiesAreRecent, Fresh
<1>5. QED BY <1>2, <1>3, <1>4

LEMMA AnnounceFailsKeeps ==
  ASSUME IInv, NEW p \in pending, AnnounceFails(p)
  PROVE  IInv'
<1>1. /\ p.on \in Instance /\ pending' = pending \ {p}
      /\ cache' = [cache EXCEPT ![p.on] = NoEntry]
      /\ UNCHANGED <<now, app, replacedAt, changeMail, kickMail, call, link, token, timer,
                     overtaken, late>>
      /\ Losses
  BY DEF AnnounceFails, mail, sockets, IInv, TypeOK
<1>2. /\ cache' \in [Instance -> [row : AppRow, expiresAt : 0 .. MaxTime + CacheTtl]]
      /\ \A j \in Instance : cache'[j] = IF j = p.on THEN NoEntry ELSE cache[j]
      /\ ~Fresh(p.on)'
  BY <1>1, Deleted
<1>3. /\ missed' \subseteq Instance /\ spared' \subseteq Socket
      /\ StaleCopyExplained' /\ DisabledIsDisconnected'
  <2>1. /\ {p.on} \in SUBSET Instance
        /\ \A i \in Instance \ {p.on} : UNCHANGED cache[i]
        /\ \A i \in {p.on} : ~Fresh(i)'
        /\ \A s \in Socket : link'[s] = "open" => link[s] = "open"
        /\ Losses
        /\ UNCHANGED <<now, app, overtaken, late>>
    BY <1>1, <1>2
  <2>2. QED BY <2>1, LossesExplain
<1>4. TypeOK'
  BY <1>1, <1>2, <1>3 DEF IInv, TypeOK
<1>5. Rows' /\ AnswersAreRecent' /\ CopiesAreRecent'
  BY <1>1, <1>2, DeletingKeeps
<1>6. TimerBeforeToken'
  BY <1>1 DEF IInv, TimerBeforeToken
<1>7. QED BY <1>3, <1>4, <1>5, <1>6 DEF IInv

LEMMA HearKeeps ==
  ASSUME IInv, NEW m \in changeMail, Hear(m)
  PROVE  IInv'
<1>1. /\ m.to \in Instance /\ changeMail' = changeMail \ {m}
      /\ kickMail' = kickMail \cup (IF m.enabled THEN {} ELSE Instance)
      /\ UNCHANGED <<now, app, replacedAt, pending, call, link, token, timer, late, spared>>
  BY DEF Hear, KickOf, sockets, IInv, TypeOK
<1>2. /\ cache' \in [Instance -> [row : AppRow, expiresAt : 0 .. MaxTime + CacheTtl]]
      /\ \A j \in Instance : cache'[j] = IF j = m.to THEN NoEntry ELSE cache[j]
      /\ overtaken' = overtaken \ {m.to} /\ missed' = missed \ {m.to}
  BY <1>1, ForgetEffect DEF IInv, Hear
<1>3. TypeOK'
  BY <1>1, <1>2 DEF IInv, TypeOK
<1>4. Rows' /\ AnswersAreRecent' /\ CopiesAreRecent'
  BY <1>1, <1>2, DeletingKeeps
<1>5. TimerBeforeToken'
  BY <1>1 DEF IInv, TimerBeforeToken
<1>6. StaleCopyExplained'
  <2>1. SUFFICES ASSUME NEW i \in Instance, Stale(i)'
                 PROVE  Invalidating(i)' \/ i \in missed' \/ i \in overtaken'
    BY DEF StaleCopyExplained
  <2>2. i # m.to
    BY <1>1, <1>2, <2>1, Types DEF IInv, Stale, Fresh, NoEntry
  <2>3. Stale(i)
    BY <1>1, <1>2, <2>1, <2>2 DEF Stale, Fresh
  <2>4. Invalidating(i) \/ i \in missed \/ i \in overtaken
    BY <2>3 DEF IInv, StaleCopyExplained
  <2>5. QED BY <1>1, <1>2, <2>2, <2>4 DEF Invalidating
<1>7. DisabledIsDisconnected'
  <2>1. SUFFICES ASSUME NEW s \in Socket, link[s] = "open", app.status = "disabled"
                 PROVE  Disconnecting(Home[s])' \/ s \in spared \/ s \in late
    BY <1>1 DEF DisabledIsDisconnected
  <2>2. Disconnecting(Home[s]) \/ s \in spared \/ s \in late
    BY <2>1 DEF IInv, DisabledIsDisconnected
  <2>3. Home[s] \in Instance
    BY AppAccessAssumption
  <2>4. QED BY <1>1, <2>2, <2>3 DEF Disconnecting
<1>8. QED BY <1>3, <1>4, <1>5, <1>6, <1>7 DEF IInv

LEMMA KickKeeps ==
  ASSUME IInv, NEW i \in Instance, Kick(i)
  PROVE  IInv'
<1>1. /\ i \in kickMail /\ kickMail' = kickMail \ {i}
      /\ UNCHANGED <<now, app, replacedAt, pending, cache, changeMail, call,
                     overtaken, missed, late, spared>>
  BY DEF Kick, history
<1>2. /\ link' \in [Socket -> {"new", "open", "closed", "expired"}]
      /\ token' \in [Socket -> Expiry \cup {0}]
      /\ timer' \in [Socket -> 0 .. MaxTime + MaximumDelay]
      /\ \A s \in Socket :
           /\ link'[s] = IF s \in Open(i) THEN "closed" ELSE link[s]
           /\ token'[s] = IF s \in Open(i) THEN 0 ELSE token[s]
           /\ timer'[s] = IF s \in Open(i) THEN 0 ELSE timer[s]
  BY CloseEffect DEF IInv, Kick
<1>3. TypeOK'
  <2>1. \A s \in Socket : timer'[s] <= now + MaximumDelay
    BY CloseEffect DEF IInv, Kick
  <2>2. QED BY <1>1, <1>2, <2>1 DEF IInv, TypeOK
<1>4. Rows' /\ AnswersAreRecent' /\ CopiesAreRecent'
  BY <1>1, DeletingKeeps
<1>5. TimerBeforeToken'
  BY <1>1, <1>2 DEF IInv, TimerBeforeToken
<1>6. StaleCopyExplained'
  BY <1>1 DEF IInv, StaleCopyExplained, Stale, Fresh, Invalidating
<1>7. DisabledIsDisconnected'
  BY <1>1, <1>2 DEF IInv, DisabledIsDisconnected, Disconnecting, Open
<1>8. QED BY <1>3, <1>4, <1>5, <1>6, <1>7 DEF IInv

\* The calls change, and with them neither copies nor connections.
LEMMA CallsKeep ==
  ASSUME IInv, call' \in [Call -> CallType],
         UNCHANGED <<now, app, replacedAt, pending, cache, changeMail, kickMail, link, token,
                     timer, overtaken, missed, late, spared>>
  PROVE  /\ TypeOK' /\ CopiesAreRecent' /\ TimerBeforeToken'
         /\ StaleCopyExplained' /\ DisabledIsDisconnected'
<1>1. TypeOK'
  BY DEF IInv, TypeOK, CallType
<1>2. CopiesAreRecent' /\ TimerBeforeToken'
  BY DEF IInv, CopiesAreRecent, TimerBeforeToken, Fresh
<1>3. StaleCopyExplained' /\ DisabledIsDisconnected'
  BY DEF IInv, StaleCopyExplained, DisabledIsDisconnected, Stale, Fresh, Invalidating,
         Disconnecting
<1>4. QED BY <1>1, <1>2, <1>3

LEMMA BeginKeeps ==
  ASSUME IInv, NEW c \in Call, NEW i \in Instance, NEW s \in Socket \cup {None},
         Begin(c, i, s)
  PROVE  IInv'
<1>1. UNCHANGED <<now, app, replacedAt, pending, cache, changeMail, kickMail, link, token,
                  timer, overtaken, missed, late, spared>>
  BY DEF Begin, mail, sockets, history
<1>2. /\ call' \in [Call -> CallType]
      /\ \A d \in Call \ {c} : call'[d] = call[d]
      /\ call'[c].row = NoEntry.row /\ call'[c].at # "answered"
  BY BeginEffect DEF IInv
<1>3. TypeOK' /\ CopiesAreRecent' /\ TimerBeforeToken' /\ StaleCopyExplained'
      /\ DisabledIsDisconnected'
  BY <1>1, <1>2, CallsKeep
<1>4. NoEntry.row.revision = 0 /\ NoEntry.row.status = "absent"
  BY DEF NoEntry
<1>5. Rows'
  BY <1>1, <1>2, <1>4, Types DEF IInv, Rows, Fresh
<1>6. AnswersAreRecent'
  BY <1>1, <1>2 DEF IInv, AnswersAreRecent
<1>7. QED BY <1>3, <1>5, <1>6 DEF IInv

LEMMA ReadKeeps ==
  ASSUME IInv, NEW c \in Call, Read(c)
  PROVE  IInv'
<1>1. UNCHANGED <<now, app, replacedAt, pending, cache, changeMail, kickMail, link, token,
                  timer, overtaken, missed, late, spared>>
  BY DEF Read, mail, sockets, history
<1>2. /\ call' \in [Call -> CallType]
      /\ \A d \in Call \ {c} : call'[d] = call[d]
      /\ call'[c].row = app /\ call'[c].since = now
  BY ReadEffect DEF IInv
<1>3. TypeOK' /\ CopiesAreRecent' /\ TimerBeforeToken' /\ StaleCopyExplained'
      /\ DisabledIsDisconnected'
  BY <1>1, <1>2, CallsKeep
<1>4. Rows'
  BY <1>1, <1>2, Types DEF IInv, Rows, Fresh
<1>5. AnswersAreRecent'
  BY <1>1, <1>2, Types, Numbers DEF IInv, AnswersAreRecent
<1>6. QED BY <1>3, <1>4, <1>5 DEF IInv

LEMMA RejectKeeps ==
  ASSUME IInv, NEW c \in Call, Reject(c)
  PROVE  IInv'
<1>1. UNCHANGED <<now, app, replacedAt, pending, cache, changeMail, kickMail, link, token,
                  timer, overtaken, missed, late, spared>>
  BY DEF Reject, mail, sockets, history
<1>2. /\ call' \in [Call -> CallType]
      /\ \A d \in Call : call'[d] \in {call[d], IdleCall}
  BY IdleCallType, Types DEF IInv, Reject
<1>3. TypeOK' /\ TimerBeforeToken' /\ StaleCopyExplained' /\ DisabledIsDisconnected'
  BY <1>1, <1>2, CallsKeep
<1>4. Rows' /\ AnswersAreRecent' /\ CopiesAreRecent'
  BY <1>1, <1>2, DeletingKeeps
<1>5. QED BY <1>3, <1>4 DEF IInv

\* The answer of the database becomes the copy, or is only used.
LEMMA StoreEffect ==
  ASSUME IInv, NEW c \in Call, Store(c)
  PROVE  \E i \in Instance \cup {None}, row \in AppRow :
           /\ i = call[c].on /\ row = call[c].row /\ call[c].at = "answered"
           /\ call' \in [Call -> CallType]
           /\ \A d \in Call \ {c} : call'[d] = call[d]
           /\ call'[c].row = NoEntry.row /\ call'[c].at # "answered"
           /\ \/ UNCHANGED <<cache, overtaken, missed>>
              \/ /\ row.status # "absent"
                 /\ cache' = [cache EXCEPT ![i] = [row |-> row, expiresAt |-> now + CacheTtl]]
                 /\ missed' = missed \ {i}
                 /\ overtaken' = IF row.revision < app.revision /\ ~Invalidating(i)
                                   THEN overtaken \cup {i} ELSE overtaken \ {i}
           /\ UNCHANGED <<now, app, replacedAt, pending, changeMail, kickMail, link, token,
                          timer, late, spared>>
<1> DEFINE i == call[c].on
           row == call[c].row
           s == call[c].socket
<1>1. call[c] \in CallType
  BY Types DEF IInv
<1>2. i \in Instance \cup {None} /\ row \in AppRow /\ s \in Socket \cup {None}
  BY <1>1 DEF CallType
<1>3. Decide(c, i, s, row) /\ call[c].at = "answered"
  BY Zenon DEF Store
<1>4. /\ \/ UNCHANGED <<cache, overtaken, missed>>
         \/ /\ row.status # "absent"
            /\ cache' = [cache EXCEPT ![i] = [row |-> row, expiresAt |-> now + CacheTtl]]
            /\ missed' = missed \ {i}
            /\ overtaken' = IF row.revision < app.revision /\ ~Invalidating(i)
                              THEN overtaken \cup {i} ELSE overtaken \ {i}
  BY Zenon DEF Store
<1>5. UNCHANGED <<now, app, replacedAt, pending, changeMail, kickMail, link, token, timer,
                  late, spared>>
  BY DEF Store, mail, sockets
<1> HIDE DEF i, row, s
<1>6. /\ call' \in [Call -> CallType]
      /\ \A d \in Call \ {c} : call'[d] = call[d]
      /\ \/ call'[c] = IdleCall
         \/ call'[c] = [at |-> "verifying", on |-> i, socket |-> s,
                        row |-> NoEntry.row, since |-> now]
  BY <1>2, <1>3, DecideEffect DEF IInv
<1>7. IdleCall.row = NoEntry.row /\ IdleCall.at = "idle"
  BY DEF IdleCall
<1>8. call'[c].row = NoEntry.row /\ call'[c].at # "answered"
  BY <1>6, <1>7
<1>9. i = call[c].on /\ row = call[c].row
  BY DEF i, row
<1>10. QED BY <1>2, <1>3, <1>4, <1>5, <1>6, <1>8, <1>9

\* A copy that is stored expires one lifetime later.
LEMMA StoreKeeps ==
  ASSUME IInv, NEW c \in Call, Store(c)
  PROVE  IInv'
<1>1. PICK i \in Instance \cup {None}, row \in AppRow :
        /\ i = call[c].on /\ row = call[c].row /\ call[c].at = "answered"
        /\ call' \in [Call -> CallType]
        /\ \A d \in Call \ {c} : call'[d] = call[d]
        /\ call'[c].row = NoEntry.row /\ call'[c].at # "answered"
        /\ \/ UNCHANGED <<cache, overtaken, missed>>
           \/ /\ row.status # "absent"
              /\ cache' = [cache EXCEPT ![i] = [row |-> row, expiresAt |-> now + CacheTtl]]
              /\ missed' = missed \ {i}
              /\ overtaken' = IF row.revision < app.revision /\ ~Invalidating(i)
                                THEN overtaken \cup {i} ELSE overtaken \ {i}
        /\ UNCHANGED <<now, app, replacedAt, pending, changeMail, kickMail, link, token,
                       timer, late, spared>>
  BY StoreEffect
<1>2. NoEntry.row.revision = 0 /\ NoEntry.row.status = "absent"
  BY DEF NoEntry
<1>3. AnswersAreRecent'
  BY <1>1 DEF IInv, AnswersAreRecent
<1>4. \A d \in Call : /\ call'[d].row.revision <= app.revision
                      /\ call'[d].row.status # "absent" => call'[d].row.revision > 0
  BY <1>1, <1>2, Types DEF IInv, Rows
<1>5. TimerBeforeToken' /\ DisabledIsDisconnected'
  BY <1>1 DEF IInv, TimerBeforeToken, DisabledIsDisconnected, Disconnecting
<1>6. CASE UNCHANGED <<cache, overtaken, missed>>
  <2>1. TypeOK' /\ CopiesAreRecent' /\ StaleCopyExplained'
    BY <1>1, <1>6, CallsKeep DEF IInv, TypeOK
  <2>2. Rows'
    BY <1>1, <1>4, <1>6 DEF IInv, Rows, Fresh
  <2>3. QED BY <1>3, <1>5, <2>1, <2>2 DEF IInv
<1>7. CASE /\ row.status # "absent"
           /\ cache' = [cache EXCEPT ![i] = [row |-> row, expiresAt |-> now + CacheTtl]]
           /\ missed' = missed \ {i}
           /\ overtaken' = IF row.revision < app.revision /\ ~Invalidating(i)
                             THEN overtaken \cup {i} ELSE overtaken \ {i}
  <2> DEFINE entry == [row |-> row, expiresAt |-> now + CacheTtl]
  <2>1. entry \in [row : AppRow, expiresAt : 0 .. MaxTime + CacheTtl]
    BY Types, Numbers DEF IInv
  <2>2. /\ cache' \in [Instance -> [row : AppRow, expiresAt : 0 .. MaxTime + CacheTtl]]
        /\ \A j \in Instance : cache'[j] = IF j = i THEN entry ELSE cache[j]
    BY <1>7, <2>1 DEF IInv, TypeOK
  <2>3. entry.row = row /\ entry.expiresAt = now + CacheTtl
    OBVIOUS
  <2> HIDE DEF entry
  <2>4. TypeOK'
    BY <1>1, <1>7, <2>2 DEF IInv, TypeOK, CallType
  <2>5. row.revision \in Nat /\ row.revision <= app.revision /\ row.revision > 0
    BY <1>1, <1>7, Types DEF IInv, Rows, AppRow
  <2>6. Rows'
    BY <1>1, <1>4, <2>2, <2>3, <2>5 DEF IInv, Rows, Fresh
  <2>7. CopiesAreRecent'
    <3>1. row.revision < app.revision =>
            now + CacheTtl <= replacedAt[row.revision] + Latency + CacheTtl
      <4>1. SUFFICES ASSUME row.revision < app.revision
                     PROVE  now <= replacedAt[row.revision] + Latency
        <5>1. row.revision \in 1 .. MaxRevision
          BY <2>5, Types, Numbers DEF IInv
        <5>2. QED BY <5>1, Types, Numbers DEF IInv
      <4>2. /\ now <= call[c].since + Latency /\ call[c].since <= replacedAt[row.revision]
            /\ row.revision \in 1 .. MaxRevision
        BY <1>1, <2>5, <4>1, Types, Numbers DEF IInv, AnswersAreRecent
      <4>3. QED BY <4>2, Types, Numbers DEF IInv
    <3>2. QED BY <1>1, <2>2, <2>3, <3>1, Types, Numbers DEF IInv, CopiesAreRecent, Fresh
  <2>8. StaleCopyExplained'
    <3>1. SUFFICES ASSUME NEW j \in Instance, Stale(j)'
                   PROVE  Invalidating(j)' \/ j \in missed' \/ j \in overtaken'
      BY DEF StaleCopyExplained
    <3>2. Invalidating(j)' <=> Invalidating(j)
      BY <1>1 DEF Invalidating
    <3>3. CASE j = i
      <4>1. row.revision < app.revision
        BY <1>1, <2>2, <2>3, <3>1, <3>3 DEF Stale
      <4>2. QED BY <1>7, <3>2, <3>3, <4>1
    <3>4. CASE j # i
      <4>1. Stale(j)
        BY <1>1, <2>2, <3>1, <3>4 DEF Stale, Fresh
      <4>2. Invalidating(j) \/ j \in missed \/ j \in overtaken
        BY <4>1 DEF IInv, StaleCopyExplained
      <4>3. QED BY <1>7, <3>2, <3>4, <4>2
    <3>5. QED BY <3>3, <3>4
  <2>9. QED BY <1>3, <1>5, <2>4, <2>6, <2>7, <2>8 DEF IInv
<1>8. QED BY <1>1, <1>6, <1>7

\* The connections change, and with them neither rows nor copies.
LEMMA LinksKeep ==
  ASSUME IInv, UNCHANGED <<now, app, replacedAt, pending, cache, changeMail, kickMail,
                           overtaken, missed>>,
         \A c \in Call : call'[c] \in {call[c], IdleCall}
  PROVE  Rows' /\ AnswersAreRecent' /\ CopiesAreRecent' /\ StaleCopyExplained'
<1>1. Rows' /\ AnswersAreRecent' /\ CopiesAreRecent'
  BY DeletingKeeps
<1>2. StaleCopyExplained'
  BY DEF IInv, StaleCopyExplained, Stale, Fresh, Invalidating
<1>3. QED BY <1>1, <1>2

LEMMA AdmitKeeps ==
  ASSUME IInv, NEW c \in Call, NEW e \in Expiry, Admit(c, e)
  PROVE  IInv'
<1> DEFINE s == call[c].socket
<1>1. /\ call[c].at = "verifying" /\ s # None
      /\ call' = [call EXCEPT ![c] = IdleCall]
      /\ link' = [link EXCEPT ![s] = "open"]
      /\ token' = [token EXCEPT ![s] = e]
      /\ timer' = [timer EXCEPT ![s] = NextTimer(e)]
      /\ late' = IF app.status = "disabled" /\ ~Disconnecting(Home[s])
                   THEN late \cup {s} ELSE late
      /\ UNCHANGED <<now, app, replacedAt, pending, cache, changeMail, kickMail,
                     overtaken, missed, spared>>
  BY Zenon DEF Admit, mail
<1>2. s \in Socket
  BY <1>1, Types DEF IInv, CallType
<1> HIDE DEF s
<1>3. /\ NextTimer(e) \in 0 .. MaxTime + MaximumDelay /\ NextTimer(e) <= now + MaximumDelay
      /\ NextTimer(e) <= e \/ NextTimer(e) <= now
  BY TimerWaits, Types, Numbers DEF IInv
<1>4. /\ call' \in [Call -> CallType]
      /\ \A d \in Call : call'[d] \in {call[d], IdleCall}
  BY <1>1, IdleCallType, Types DEF IInv
<1>5. Rows' /\ AnswersAreRecent' /\ CopiesAreRecent' /\ StaleCopyExplained'
  BY <1>1, <1>4, LinksKeep
<1>6. TypeOK'
  <2>1. timer' \in [Socket -> 0 .. MaxTime + MaximumDelay]
    BY <1>1, <1>3 DEF IInv, TypeOK
  <2>2. \A t \in Socket : timer'[t] <= now + MaximumDelay
    BY <1>1, <1>2, <1>3 DEF IInv, TypeOK
  <2>3. QED BY <1>1, <1>2, <1>4, <2>1, <2>2 DEF IInv, TypeOK, CallType
<1>7. TimerBeforeToken'
  BY <1>1, <1>2, <1>3 DEF IInv, TypeOK, TimerBeforeToken
<1>8. DisabledIsDisconnected'
  BY <1>1, <1>2 DEF IInv, TypeOK, DisabledIsDisconnected, Disconnecting
<1>9. QED BY <1>5, <1>6, <1>7, <1>8 DEF IInv

\* Connections that are closed.
LEMMA ClosingKeeps ==
  ASSUME IInv, NEW S, NEW end \in {"closed", "expired"}, Close(S, end), UNCHANGED now
  PROVE  /\ link' \in [Socket -> {"new", "open", "closed", "expired"}]
         /\ token' \in [Socket -> Expiry \cup {0}]
         /\ timer' \in [Socket -> 0 .. MaxTime + MaximumDelay]
         /\ \A s \in Socket : timer'[s] <= now + MaximumDelay
         /\ \A s \in Socket : link'[s] = "open" => link[s] = "open" /\ s \notin S
         /\ TimerBeforeToken'
<1>1. /\ link' \in [Socket -> {"new", "open", "closed", "expired"}]
      /\ token' \in [Socket -> Expiry \cup {0}]
      /\ timer' \in [Socket -> 0 .. MaxTime + MaximumDelay]
      /\ \A s \in Socket :
           /\ link'[s] = IF s \in S THEN end ELSE link[s]
           /\ token'[s] = IF s \in S THEN 0 ELSE token[s]
           /\ timer'[s] = IF s \in S THEN 0 ELSE timer[s]
           /\ timer'[s] <= now + MaximumDelay
  BY CloseEffect DEF IInv
<1>2. \A s \in Socket : link'[s] = "open" => link[s] = "open" /\ s \notin S
  BY <1>1
<1>3. TimerBeforeToken'
  BY <1>1, <1>2 DEF IInv, TimerBeforeToken
<1>4. QED BY <1>1, <1>2, <1>3

LEMMA FireTimerKeeps ==
  ASSUME IInv, NEW s \in Socket, FireTimer(s)
  PROVE  IInv'
<1>1. /\ link[s] = "open"
      /\ \/ Close({s}, "expired")
         \/ timer' = [timer EXCEPT ![s] = NextTimer(token[s])] /\ UNCHANGED <<link, token>>
      /\ UNCHANGED <<now, app, replacedAt, pending, cache, changeMail, kickMail, call,
                     overtaken, missed, late, spared>>
  BY DEF FireTimer, mail, history
<1>2. Rows' /\ AnswersAreRecent' /\ CopiesAreRecent' /\ StaleCopyExplained'
  BY <1>1, LinksKeep
<1>3. CASE Close({s}, "expired")
  <2>1. /\ link' \in [Socket -> {"new", "open", "closed", "expired"}]
        /\ token' \in [Socket -> Expiry \cup {0}]
        /\ timer' \in [Socket -> 0 .. MaxTime + MaximumDelay]
        /\ \A t \in Socket : timer'[t] <= now + MaximumDelay
        /\ \A t \in Socket : link'[t] = "open" => link[t] = "open"
        /\ TimerBeforeToken'
    BY <1>1, <1>3, ClosingKeeps
  <2>2. TypeOK'
    BY <1>1, <2>1 DEF IInv, TypeOK
  <2>3. DisabledIsDisconnected'
    BY <1>1, <2>1 DEF IInv, DisabledIsDisconnected, Disconnecting
  <2>4. QED BY <1>2, <2>1, <2>2, <2>3 DEF IInv
<1>4. CASE timer' = [timer EXCEPT ![s] = NextTimer(token[s])] /\ UNCHANGED <<link, token>>
  <2>1. /\ NextTimer(token[s]) \in 0 .. MaxTime + MaximumDelay
        /\ NextTimer(token[s]) <= now + MaximumDelay
        /\ NextTimer(token[s]) <= token[s] \/ NextTimer(token[s]) <= now
    BY TimerWaits, Types, Numbers DEF IInv
  <2>2. TypeOK'
    <3>1. timer' \in [Socket -> 0 .. MaxTime + MaximumDelay]
      BY <1>4, <2>1 DEF IInv, TypeOK
    <3>2. \A t \in Socket : timer'[t] <= now + MaximumDelay
      BY <1>4, <2>1 DEF IInv, TypeOK
    <3>3. QED BY <1>1, <1>4, <3>1, <3>2 DEF IInv, TypeOK
  <2>3. TimerBeforeToken'
    BY <1>1, <1>4, <2>1 DEF IInv, TypeOK, TimerBeforeToken
  <2>4. DisabledIsDisconnected'
    BY <1>1, <1>4 DEF IInv, DisabledIsDisconnected, Disconnecting
  <2>5. QED BY <1>2, <2>2, <2>3, <2>4 DEF IInv
<1>5. QED BY <1>1, <1>3, <1>4

LEMMA DisconnectKeeps ==
  ASSUME IInv, NEW s \in Socket, Disconnect(s)
  PROVE  IInv'
<1>1. /\ Close({s}, "closed")
      /\ UNCHANGED <<now, app, replacedAt, pending, cache, changeMail, kickMail, call,
                     overtaken, missed, late, spared>>
  BY DEF Disconnect, mail, history
<1>2. Rows' /\ AnswersAreRecent' /\ CopiesAreRecent' /\ StaleCopyExplained'
  BY <1>1, LinksKeep
<1>3. /\ link' \in [Socket -> {"new", "open", "closed", "expired"}]
      /\ token' \in [Socket -> Expiry \cup {0}]
      /\ timer' \in [Socket -> 0 .. MaxTime + MaximumDelay]
      /\ \A t \in Socket : timer'[t] <= now + MaximumDelay
      /\ \A t \in Socket : link'[t] = "open" => link[t] = "open"
      /\ TimerBeforeToken'
  BY <1>1, ClosingKeeps
<1>4. TypeOK'
  BY <1>1, <1>3 DEF IInv, TypeOK
<1>5. DisabledIsDisconnected'
  BY <1>1, <1>3 DEF IInv, DisabledIsDisconnected, Disconnecting
<1>6. QED BY <1>2, <1>3, <1>4, <1>5 DEF IInv

\* Messages that are lost.
LEMMA LosingKeeps ==
  ASSUME IInv, Losses, changeMail' \subseteq changeMail, kickMail' \subseteq kickMail,
         UNCHANGED <<now, app, replacedAt, pending, cache, call, link, token, timer,
                     overtaken, late>>
  PROVE  IInv'
<1>1. /\ missed' \subseteq Instance /\ spared' \subseteq Socket
      /\ StaleCopyExplained' /\ DisabledIsDisconnected'
  <2>1. {} \in SUBSET Instance
    OBVIOUS
  <2>2. QED BY <2>1, LossesExplain
<1>2. TypeOK'
  BY <1>1 DEF IInv, TypeOK
<1>3. Rows' /\ AnswersAreRecent' /\ CopiesAreRecent'
  BY DeletingKeeps
<1>4. TimerBeforeToken'
  BY DEF IInv, TimerBeforeToken
<1>5. QED BY <1>1, <1>2, <1>3, <1>4 DEF IInv

LEMMA LoseChangeKeeps ==
  ASSUME IInv, NEW m \in changeMail, LoseChange(m)
  PROVE  IInv'
BY LosingKeeps DEF LoseChange, sockets

LEMMA LoseKickKeeps ==
  ASSUME IInv, NEW i \in Instance, LoseKick(i)
  PROVE  IInv'
BY LosingKeeps DEF LoseKick, sockets

LEMMA DieKeeps ==
  ASSUME IInv, NEW i \in Instance, Die(i)
  PROVE  IInv'
<1>1. /\ pending' \subseteq pending /\ changeMail' \subseteq changeMail
      /\ kickMail' \subseteq kickMail
      /\ cache' = [cache EXCEPT ![i] = NoEntry]
      /\ call' = [c \in Call |-> IF call[c].on = i THEN IdleCall ELSE call[c]]
      /\ Close(Open(i), "closed")
      /\ UNCHANGED <<now, app, replacedAt, overtaken, late>>
      /\ Losses
  BY DEF Die
<1>2. /\ cache' \in [Instance -> [row : AppRow, expiresAt : 0 .. MaxTime + CacheTtl]]
      /\ \A j \in Instance : cache'[j] = IF j = i THEN NoEntry ELSE cache[j]
      /\ ~Fresh(i)'
  BY <1>1, Deleted
<1>3. /\ link' \in [Socket -> {"new", "open", "closed", "expired"}]
      /\ token' \in [Socket -> Expiry \cup {0}]
      /\ timer' \in [Socket -> 0 .. MaxTime + MaximumDelay]
      /\ \A s \in Socket : timer'[s] <= now + MaximumDelay
      /\ \A s \in Socket : link'[s] = "open" => link[s] = "open"
      /\ TimerBeforeToken'
  BY <1>1, ClosingKeeps
<1>4. /\ missed' \subseteq Instance /\ spared' \subseteq Socket
      /\ StaleCopyExplained' /\ DisabledIsDisconnected'
  <2>1. /\ {i} \in SUBSET Instance
        /\ \A j \in Instance \ {i} : UNCHANGED cache[j]
        /\ \A j \in {i} : ~Fresh(j)'
        /\ \A s \in Socket : link'[s] = "open" => link[s] = "open"
        /\ Losses
        /\ UNCHANGED <<now, app, overtaken, late>>
    BY <1>1, <1>2, <1>3
  <2>2. QED BY <2>1, LossesExplain
<1>5. /\ call' \in [Call -> CallType]
      /\ \A c \in Call : call'[c] \in {call[c], IdleCall}
  BY <1>1, IdleCallType, Types DEF IInv
<1>6. TypeOK'
  BY <1>1, <1>2, <1>3, <1>4, <1>5 DEF IInv, TypeOK, CallType
<1>7. Rows' /\ AnswersAreRecent' /\ CopiesAreRecent'
  BY <1>1, <1>2, <1>5, DeletingKeeps
<1>8. QED BY <1>3, <1>4, <1>6, <1>7 DEF IInv

LEMMA TickKeeps ==
  ASSUME IInv, Tick
  PROVE  IInv'
<1>1. /\ now' = now + 1 /\ now < MaxTime
      /\ \A c \in Call : call[c].at = "answered" => now < call[c].since + Latency
      /\ UNCHANGED <<app, replacedAt, pending, cache, changeMail, kickMail, call, link, token,
                     timer, overtaken, missed, late, spared>>
  BY DEF Tick, mail, sockets, history
<1>2. now \in Nat /\ now' \in 0 .. MaxTime
  BY <1>1, Types, Numbers DEF IInv
<1>3. \A i \in Instance : Fresh(i)' => Fresh(i)
  BY <1>1, <1>2, Types DEF IInv, Fresh
<1>4. TypeOK'
  <2>1. \A s \in Socket : timer[s] <= now' + MaximumDelay
    BY <1>1, <1>2, Types, Numbers DEF IInv, TypeOK
  <2>2. QED BY <1>1, <1>2, <2>1 DEF IInv, TypeOK
<1>5. Rows'
  BY <1>1, <1>3 DEF IInv, Rows
<1>6. AnswersAreRecent'
  <2>1. ASSUME NEW c \in Call, call[c].at = "answered"
        PROVE  call[c].since <= now' /\ now' <= call[c].since + Latency
    BY <1>1, <1>2, <2>1, Types, Numbers DEF IInv, AnswersAreRecent
  <2>2. QED BY <1>1, <2>1 DEF IInv, AnswersAreRecent
<1>7. CopiesAreRecent'
  <2>1. \A i \in Instance : cache[i].expiresAt <= now' + CacheTtl
    BY <1>1, <1>2, Types, Numbers DEF IInv, CopiesAreRecent
  <2>2. QED BY <1>1, <1>3, <2>1 DEF IInv, CopiesAreRecent
<1>8. TimerBeforeToken'
  BY <1>1, <1>2, Types DEF IInv, TimerBeforeToken
<1>9. StaleCopyExplained'
  BY <1>1, <1>3 DEF IInv, StaleCopyExplained, Stale, Invalidating
<1>10. DisabledIsDisconnected'
  BY <1>1 DEF IInv, DisabledIsDisconnected, Disconnecting
<1>11. QED BY <1>4, <1>5, <1>6, <1>7, <1>8, <1>9, <1>10 DEF IInv

LEMMA InitIInv == Init => IInv
<1> SUFFICES ASSUME Init PROVE IInv
  OBVIOUS
<1>1. now = 0 /\ MaxTime \in Nat /\ MaxTime + CacheTtl \in Nat /\ MaxTime + MaximumDelay \in Nat
  BY Numbers DEF Init
<1>2. /\ NoEntry.expiresAt = 0 /\ NoEntry.row.revision = 0 /\ NoEntry.row.status = "absent"
      /\ NoEntry \in [row : AppRow, expiresAt : 0 .. MaxTime + CacheTtl]
      /\ IdleCall.at = "idle" /\ IdleCall.row = NoEntry.row
  BY <1>1, Numbers DEF NoEntry, IdleCall, AppRow, AppStatus
<1>3. \A i \in Instance : cache[i] = NoEntry /\ ~Fresh(i)
  BY <1>1, <1>2 DEF Init, Fresh
<1>4. TypeOK
  BY <1>1, <1>2, IdleCallType, Numbers DEF Init, TypeOK, CallType
<1>5. Rows /\ AnswersAreRecent
  BY <1>2, <1>3 DEF Init, Rows, AnswersAreRecent
<1>6. CopiesAreRecent
  BY <1>1, <1>2, <1>3, Numbers DEF CopiesAreRecent
<1>7. TimerBeforeToken /\ StaleCopyExplained /\ DisabledIsDisconnected
  BY <1>3 DEF Init, TimerBeforeToken, StaleCopyExplained, Stale, DisabledIsDisconnected
<1>8. QED BY <1>4, <1>5, <1>6, <1>7 DEF IInv

LEMMA NextIInv == IInv /\ [Next]_vars => IInv'
<1> SUFFICES ASSUME IInv, [Next]_vars PROVE IInv'
  OBVIOUS
<1>1. ASSUME NEW i \in Instance, Kick(i) PROVE IInv'
  BY <1>1, KickKeeps
<1>2. ASSUME NEW i \in Instance, NEW status \in {"enabled", "disabled"}, Write(i, status)
      PROVE  IInv'
  BY <1>2, WriteKeeps
<1>3. ASSUME NEW c \in Call, NEW i \in Instance, Request(c, i) PROVE IInv'
  BY <1>3, BeginKeeps DEF Request
<1>4. ASSUME NEW c \in Call, NEW i \in Instance, NEW s \in Socket, Handshake(c, i, s)
      PROVE  IInv'
  BY <1>4, BeginKeeps DEF Handshake
<1>5. ASSUME NEW p \in pending, Announce(p) \/ AnnounceFails(p) PROVE IInv'
  BY <1>5, AnnounceKeeps, AnnounceFailsKeeps
<1>6. ASSUME NEW m \in changeMail, Hear(m) \/ LoseChange(m) PROVE IInv'
  BY <1>6, HearKeeps, LoseChangeKeeps
<1>7. ASSUME NEW c \in Call, Read(c) \/ Store(c) \/ Reject(c) PROVE IInv'
  BY <1>7, ReadKeeps, StoreKeeps, RejectKeeps
<1>8. ASSUME NEW c \in Call, NEW e \in Expiry, Admit(c, e) PROVE IInv'
  BY <1>8, AdmitKeeps
<1>9. ASSUME NEW s \in Socket, FireTimer(s) \/ Disconnect(s) PROVE IInv'
  BY <1>9, FireTimerKeeps, DisconnectKeeps
<1>10. ASSUME NEW i \in Instance, LoseKick(i) \/ Die(i) PROVE IInv'
  BY <1>10, LoseKickKeeps, DieKeeps
<1>11. CASE Tick
  BY <1>11, TickKeeps
<1>12. CASE UNCHANGED vars
  <2>1. UNCHANGED <<now, app, replacedAt, pending, cache, changeMail, kickMail, call, link,
                    token, timer, overtaken, missed, late, spared>>
    BY <1>12 DEF vars, mail, sockets, history
  <2>2. call' \in [Call -> CallType]
    BY <2>1, Types DEF IInv
  <2>3. TypeOK' /\ DisabledIsDisconnected' /\ TimerBeforeToken'
    BY <2>1, <2>2, CallsKeep
  <2>4. Rows' /\ AnswersAreRecent' /\ CopiesAreRecent' /\ StaleCopyExplained'
    BY <2>1, LinksKeep
  <2>5. QED BY <2>3, <2>4 DEF IInv
<1>13. QED
  BY <1>1, <1>2, <1>3, <1>4, <1>5, <1>6, <1>7, <1>8, <1>9, <1>10, <1>11, <1>12
     DEF Next, Work, Faults

-----------------------------------------------------------------------------
(***************************************************************************)
(* The theorems.                                                           *)
(***************************************************************************)

LEMMA Invariant == Spec => []IInv
<1>1. Init => IInv
  BY InitIInv
<1>2. IInv /\ [Next]_vars => IInv'
  BY NextIInv
<1>3. QED BY <1>1, <1>2, PTL DEF Spec

\* Every variable has its type, and no timer exceeds the longest delay.
THEOREM TypeCorrect == Spec => []TypeOK
<1>1. IInv => TypeOK
  BY DEF IInv
<1>2. QED BY <1>1, Invariant, PTL

\* A copy of a replaced row is about to be deleted, or its message was lost, or
\* an earlier read was stored after it.
THEOREM CopiesExplained == Spec => []StaleCopyExplained
<1>1. IInv => StaleCopyExplained
  BY DEF IInv
<1>2. QED BY <1>1, Invariant, PTL

\* A connection of a disabled application is about to be closed, or its message
\* was lost, or it was let in after the message had passed.
THEOREM DisabledAreDisconnected == Spec => []DisabledIsDisconnected
<1>1. IInv => DisabledIsDisconnected
  BY DEF IInv
<1>2. QED BY <1>1, Invariant, PTL

\* Only a call that begins with a copy verifies without asking the database.
LEMMA VerifiesWithCopy ==
  ASSUME IInv, [Next]_vars, NEW c \in Call,
         call[c].at = "idle", call'[c].at = "verifying"
  PROVE  /\ call'[c].on \in Instance
         /\ Fresh(call'[c].on) /\ cache[call'[c].on].row.status = "enabled"
<1> DEFINE Copied == /\ call'[c].on \in Instance
                     /\ Fresh(call'[c].on) /\ cache[call'[c].on].row.status = "enabled"
<1>1. call \in [Call -> CallType] /\ IdleCall.at = "idle"
  BY Types DEF IInv, IdleCall
<1>2. ASSUME NEW d \in Call, NEW i \in Instance, NEW s \in Socket \cup {None}, Begin(d, i, s)
      PROVE  Copied
  <2>1. /\ \A e \in Call \ {d} : call'[e] = call[e]
        /\ call'[d].at = "verifying" =>
             call'[d].on = i /\ Fresh(i) /\ cache[i].row.status = "enabled"
    BY <1>2, BeginEffect DEF IInv
  <2>2. c = d
    BY <2>1
  <2>3. QED BY <2>1, <2>2
<1>3. ASSUME NEW d \in Call, call[d].at # "idle", \A e \in Call \ {d} : call'[e] = call[e]
      PROVE  FALSE
  BY <1>3
<1>4. ASSUME NEW d \in Call, Read(d) \/ Store(d) PROVE FALSE
  <2>1. call[d].at # "idle"
    BY <1>4 DEF Read, Store
  <2>2. \A e \in Call \ {d} : call'[e] = call[e]
    BY <1>4, ReadEffect, StoreEffect DEF IInv
  <2>3. QED BY <1>3, <2>1, <2>2
<1>5. ASSUME \A e \in Call : call'[e] \in {call[e], IdleCall} PROVE FALSE
  BY <1>1, <1>5
<1>6. ASSUME NEW d \in Call, Reject(d) \/ \E e \in Expiry : Admit(d, e) PROVE FALSE
  <2>1. call' = [call EXCEPT ![d] = IdleCall]
    BY <1>6 DEF Reject, Admit
  <2>2. QED BY <1>1, <1>5, <2>1
<1>7. ASSUME NEW i \in Instance, Die(i) PROVE FALSE
  <2>1. call' = [d \in Call |-> IF call[d].on = i THEN IdleCall ELSE call[d]]
    BY <1>7 DEF Die
  <2>2. QED BY <1>5, <2>1
<1>8. ASSUME UNCHANGED call PROVE FALSE
  BY <1>8
<1>9. CASE Work
  <2>1. ASSUME NEW i \in Instance, Kick(i) PROVE FALSE
    BY <1>8, <2>1 DEF Kick
  <2>2. ASSUME NEW i \in Instance, NEW status \in {"enabled", "disabled"}, Write(i, status)
        PROVE  FALSE
    BY <1>8, <2>2 DEF Write
  <2>3. ASSUME NEW d \in Call, NEW i \in Instance, Request(d, i) PROVE Copied
    BY <1>2, <2>3 DEF Request
  <2>4. ASSUME NEW d \in Call, NEW i \in Instance, NEW s \in Socket, Handshake(d, i, s)
        PROVE  Copied
    BY <1>2, <2>4 DEF Handshake
  <2>5. ASSUME NEW p \in pending, Announce(p) PROVE FALSE
    BY <1>8, <2>5 DEF Announce
  <2>6. ASSUME NEW m \in changeMail, Hear(m) PROVE FALSE
    BY <1>8, <2>6 DEF Hear
  <2>7. ASSUME NEW s \in Socket, FireTimer(s) \/ Disconnect(s) PROVE FALSE
    BY <1>8, <2>7 DEF FireTimer, Disconnect
  <2>8. CASE Tick
    BY <1>8, <2>8 DEF Tick
  <2>9. QED
    BY <1>4, <1>6, <1>9, <2>1, <2>2, <2>3, <2>4, <2>5, <2>6, <2>7, <2>8 DEF Work
<1>10. CASE Faults
  <2>1. ASSUME NEW i \in Instance, LoseKick(i) PROVE FALSE
    BY <1>8, <2>1 DEF LoseKick
  <2>2. ASSUME NEW p \in pending, AnnounceFails(p) PROVE FALSE
    BY <1>8, <2>2 DEF AnnounceFails
  <2>3. ASSUME NEW m \in changeMail, LoseChange(m) PROVE FALSE
    BY <1>8, <2>3 DEF LoseChange
  <2>4. QED BY <1>7, <1>10, <2>1, <2>2, <2>3 DEF Faults
<1>11. CASE UNCHANGED vars
  BY <1>8, <1>11 DEF vars
<1>12. QED BY <1>9, <1>10, <1>11 DEF Next

\* Whatever Redis loses, a replaced row lets nobody in once the latency of the
\* database and the lifetime of a copy have passed since it was replaced.
THEOREM StaleCopiesAreShort == Spec => StaleCopyIsShort
<1> DEFINE Short ==
      \A c \in Call :
        LET used == cache[call'[c].on].row.revision
        IN  (call[c].at = "idle" /\ call'[c].at = "verifying" /\ used < app.revision)
              => now < replacedAt[used] + Latency + CacheTtl
<1>1. ASSUME IInv, [Next]_vars PROVE Short
  <2>1. SUFFICES ASSUME NEW c \in Call, call[c].at = "idle", call'[c].at = "verifying",
                        cache[call'[c].on].row.revision < app.revision
                 PROVE  now < replacedAt[cache[call'[c].on].row.revision] + Latency + CacheTtl
    OBVIOUS
  <2>2. PICK i \in Instance : i = call'[c].on /\ Fresh(i)
    BY <1>1, <2>1, VerifiesWithCopy
  <2>3. cache[i].expiresAt > now
    BY <2>2 DEF Fresh
  <2>4. /\ cache[i].expiresAt <= replacedAt[cache[i].row.revision] + Latency + CacheTtl
        /\ cache[i].row.revision > 0
    BY <1>1, <2>1, <2>2 DEF IInv, CopiesAreRecent, Rows
  <2>5. cache[i].row.revision \in 1 .. MaxRevision
    BY <1>1, <2>1, <2>2, <2>4, Types, Numbers DEF IInv
  <2>6. QED BY <1>1, <2>2, <2>3, <2>4, <2>5, Types, Numbers DEF IInv
<1>2. IInv /\ [Next]_vars => [Short]_vars
  BY <1>1
<1>3. QED BY <1>2, Invariant, PTL DEF Spec, StaleCopyIsShort

\* A connection ends with its token, not before and not after.
THEOREM ConnectionsEndWithToken == Spec => EndsWithToken
<1> DEFINE Ends ==
      \A s \in Socket : link[s] = "open" =>
        /\ link'[s] = "expired" => token[s] <= now
        /\ token[s] <= now => timer[s] <= now
<1>1. ASSUME IInv, [Next]_vars, NEW s \in Socket, link[s] = "open", link'[s] = "expired"
      PROVE  token[s] <= now
  <2>1. ASSUME UNCHANGED link PROVE FALSE
    BY <1>1, <2>1
  <2>2. ASSUME NEW S, Close(S, "closed") PROVE FALSE
    BY <1>1, <2>2 DEF Close
  <2>3. ASSUME NEW t \in Socket, FireTimer(t) PROVE token[s] <= now
    <3>1. CASE Expired(t)
      <4>1. Close({t}, "expired")
        BY <2>3, <3>1 DEF FireTimer
      <4>2. s = t
        BY <1>1, <4>1 DEF Close
      <4>3. QED BY <3>1, <4>2 DEF Expired
    <3>2. CASE ~Expired(t)
      BY <2>1, <2>3, <3>2 DEF FireTimer
    <3>3. QED BY <3>1, <3>2
  <2>4. ASSUME NEW c \in Call, NEW e \in Expiry, Admit(c, e) PROVE FALSE
    <3>1. link' = [link EXCEPT ![call[c].socket] = "open"]
      BY <2>4 DEF Admit
    <3>2. QED BY <1>1, <3>1 DEF IInv, TypeOK
  <2>5. CASE Work
    <3>1. ASSUME NEW i \in Instance, Kick(i) PROVE FALSE
      BY <2>2, <3>1 DEF Kick
    <3>2. ASSUME NEW i \in Instance, NEW status \in {"enabled", "disabled"}, Write(i, status)
          PROVE  FALSE
      BY <2>1, <3>2 DEF Write, sockets
    <3>3. ASSUME NEW c \in Call, NEW i \in Instance, NEW t \in Socket \cup {None}, Begin(c, i, t)
          PROVE  FALSE
      BY <2>1, <3>3 DEF Begin, sockets
    <3>4. ASSUME NEW p \in pending, Announce(p) PROVE FALSE
      BY <2>1, <3>4 DEF Announce, sockets
    <3>5. ASSUME NEW m \in changeMail, Hear(m) PROVE FALSE
      BY <2>1, <3>5 DEF Hear, sockets
    <3>6. ASSUME NEW c \in Call, Read(c) \/ Store(c) \/ Reject(c) PROVE FALSE
      BY <2>1, <3>6 DEF Read, Store, Reject, sockets
    <3>7. ASSUME NEW t \in Socket, Disconnect(t) PROVE FALSE
      BY <2>2, <3>7 DEF Disconnect
    <3>8. CASE Tick
      BY <2>1, <3>8 DEF Tick, sockets
    <3>9. QED
      BY <2>3, <2>4, <2>5, <3>1, <3>2, <3>3, <3>4, <3>5, <3>6, <3>7, <3>8
         DEF Work, Request, Handshake
  <2>6. CASE Faults
    <3>1. ASSUME NEW i \in Instance, LoseKick(i) PROVE FALSE
      BY <2>1, <3>1 DEF LoseKick, sockets
    <3>2. ASSUME NEW i \in Instance, Die(i) PROVE FALSE
      BY <2>2, <3>2 DEF Die
    <3>3. ASSUME NEW p \in pending, AnnounceFails(p) PROVE FALSE
      BY <2>1, <3>3 DEF AnnounceFails, sockets
    <3>4. ASSUME NEW m \in changeMail, LoseChange(m) PROVE FALSE
      BY <2>1, <3>4 DEF LoseChange, sockets
    <3>5. QED BY <2>6, <3>1, <3>2, <3>3, <3>4 DEF Faults
  <2>7. CASE UNCHANGED vars
    BY <2>1, <2>7 DEF vars, sockets
  <2>8. QED BY <1>1, <2>5, <2>6, <2>7 DEF Next
<1>2. ASSUME IInv, NEW s \in Socket, link[s] = "open", token[s] <= now
      PROVE  timer[s] <= now
  BY <1>2, Types DEF IInv, TimerBeforeToken
<1>3. IInv /\ [Next]_vars => [Ends]_vars
  BY <1>1, <1>2
<1>4. QED BY <1>3, Invariant, PTL DEF Spec, EndsWithToken
=============================================================================
