-------------------------- MODULE FocusTimerProofs --------------------------
(***************************************************************************)
(* The study store and the timer of FocusTimer that records into it, for   *)
(* any number of store operations, days, keys, backups and faults.  First  *)
(* the coordinator of StudyStore by itself: a queue is known by its tail   *)
(* only, so what is ahead of an operation is what its barriers reach.      *)
(* Then the timer and the save it awaits: every step of the timer is a     *)
(* step of the store or leaves it alone.                                   *)
(***************************************************************************)
EXTENDS FocusTimer, TLAPS

(***************************************************************************)
(* The coordinator excludes.                                               *)
(***************************************************************************)

Pending(c) == ~At(c, "idle")

\* S contains the barriers of all its members.
Closed(S) == \A e \in S : call[e].barrier \subseteq S

\* Operation c is reached from the barriers of d.
Ahead(c, d) ==
  \A S \in SUBSET Call : Closed(S) /\ call[d].barrier \subseteq S => c \in S

\* The coordinator must not let both run at once.
Conflict(c, d) ==
  \/ IsScopeOp(call[c].op) \/ IsScopeOp(call[d].op)
  \/ DayOf(call[c].key) = DayOf(call[d].key)

\* The operations are records of the fields of NoCall.
Shape ==
  /\ call = [c \in Call |-> call[c]]
  /\ \A c \in Call :
       /\ call[c] = [op |-> call[c].op, key |-> call[c].key, arg |-> call[c].arg,
                     at |-> call[c].at, barrier |-> call[c].barrier,
                     plan |-> call[c].plan, before |-> call[c].before,
                     todo |-> call[c].todo, writing |-> call[c].writing]
       /\ call[c].barrier \subseteq Call
  /\ scopeTail \in Call \cup {None}
  /\ dateTail \in [Day -> Call \cup {None}]

\* Who is past the barriers, or has none, waits for nobody.
FreeOfBarriers ==
  \A c \in Call : ~At(c, "waiting") => call[c].barrier = {}

\* The last of a queue, t, has all of the queue ahead of it.
Behind(c, t) == t \in Call /\ Pending(t) /\ (c = t \/ Ahead(c, t))

QueuesAreReached ==
  \A c \in Call : Pending(c) =>
    IF IsScopeOp(call[c].op)
      THEN Behind(c, scopeTail)
      ELSE DayOf(call[c].key) \in Day /\ Behind(c, dateTail[DayOf(call[c].key)])

ConflictsAreOrdered ==
  \A c, d \in Call :
    (c # d /\ Pending(c) /\ Pending(d) /\ Conflict(c, d)) => Ahead(c, d) \/ Ahead(d, c)

Excludes == Shape /\ FreeOfBarriers /\ QueuesAreReached /\ ConflictsAreOrdered

-----------------------------------------------------------------------------
\* Nothing is ahead of an operation that has no barriers.
LEMMA NobodyAhead ==
  ASSUME NEW c \in Call, NEW d \in Call, call[d].barrier = {}
  PROVE  ~Ahead(c, d)
<1>1. Closed({}) BY DEF Closed
<1>2. {} \in SUBSET Call OBVIOUS
<1>3. QED BY <1>1, <1>2 DEF Ahead

\* The invariant gives the exclusion.
LEMMA ExclusionFollows == Excludes => RunsAlone
<1>1. SUFFICES ASSUME Excludes,
                      NEW c \in Call, NEW d \in Call, c # d,
                      Running(c), Running(d) \/ Released(d)
               PROVE  /\ ~IsScopeOp(call[c].op) /\ ~IsScopeOp(call[d].op)
                      /\ DayOf(call[c].key) # DayOf(call[d].key)
  BY DEF RunsAlone
<1>2. call[c].barrier = {} /\ call[d].barrier = {}
  BY <1>1 DEF Excludes, FreeOfBarriers, Running, Released, At
<1>3. ~Ahead(c, d) /\ ~Ahead(d, c)
  BY <1>2, NobodyAhead
<1>4. Pending(c) /\ Pending(d)
  BY <1>1 DEF Pending, Running, Released, At
<1>5. ~Conflict(c, d)
  BY <1>1, <1>3, <1>4 DEF Excludes, ConflictsAreOrdered
<1>6. QED BY <1>5 DEF Conflict

-----------------------------------------------------------------------------
(***************************************************************************)
(* The four kinds of steps: an operation enters, goes on, ends, or all are *)
(* lost.                                                                   *)
(***************************************************************************)
GoesOn(c) ==
  /\ Pending(c) /\ call[c].barrier = {}
  /\ Pending(c)'
  /\ \A e \in Call : /\ e # c => call'[e] = call[e]
                     /\ call'[e].op = call[e].op /\ call'[e].key = call[e].key
                     /\ call'[e].barrier = call[e].barrier
  /\ Shape'
  /\ UNCHANGED <<scopeTail, dateTail>>

Ends(c) ==
  /\ Pending(c) /\ call[c].barrier = {}
  /\ Finish(c)

\* An operation that goes on keeps what is ahead of whom.
LEMMA GoesOnKeeps ==
  ASSUME Excludes, NEW c \in Call, GoesOn(c)
  PROVE  Excludes'
<1>1. \A a, b \in Call : Ahead(a, b)' <=> Ahead(a, b)
  BY DEF GoesOn, Ahead, Closed
<1>2. \A e \in Call : Pending(e)' <=> Pending(e)
  BY DEF GoesOn, Pending, At
<1>3. FreeOfBarriers'
  BY DEF GoesOn, Excludes, FreeOfBarriers, At
<1>4. \A a, t \in Call : Behind(a, t)' <=> Behind(a, t)
  BY <1>1, <1>2 DEF Behind
<1>5. \A a \in Call : \A t : Behind(a, t) => t \in Call
  BY DEF Behind
<1>6. QueuesAreReached'
  BY <1>2, <1>4, <1>5 DEF GoesOn, Excludes, QueuesAreReached
<1>7. ConflictsAreOrdered'
  BY <1>1, <1>2 DEF GoesOn, Excludes, ConflictsAreOrdered, Conflict
<1>8. QED BY <1>3, <1>6, <1>7 DEF Excludes, GoesOn

\* An operation that ends was ahead of others and none was ahead of it, so
\* the others stay ahead of each other.
LEMMA EndsKeeps ==
  ASSUME Excludes, NEW c \in Call, Ends(c)
  PROVE  Excludes'
<1>1. Shape'
  <2>1. Finish(c) /\ Shape BY DEF Ends, Excludes
  <2>2. call' = [e \in Call |-> call'[e]]
    BY <2>1 DEF Finish
  <2>3. scopeTail' \in Call \cup {None} /\ dateTail' \in [Day -> Call \cup {None}]
    BY <2>1 DEF Finish, Cleared, Shape
  <2>4. ASSUME NEW e \in Call
        PROVE  /\ call'[e] = [op |-> call'[e].op, key |-> call'[e].key, arg |-> call'[e].arg,
                              at |-> call'[e].at, barrier |-> call'[e].barrier,
                              plan |-> call'[e].plan, before |-> call'[e].before,
                              todo |-> call'[e].todo, writing |-> call'[e].writing]
               /\ call'[e].barrier \subseteq Call
    <3>1. CASE e = c
      <4>1. call'[e] = NoCall BY <2>1, <3>1 DEF Finish
      <4>2. QED BY <4>1 DEF NoCall
    <3>2. CASE e # c
      <4>1. call'[e] = [call[e] EXCEPT !.barrier = @ \ {c}]
        BY <2>1, <3>2 DEF Finish
      <4>2. QED BY <2>1, <4>1 DEF Shape
    <3>3. QED BY <3>1, <3>2
  <2>5. QED BY <2>2, <2>3, <2>4 DEF Shape
<1>2. \A e \in Call \ {c} :
        /\ call'[e].op = call[e].op /\ call'[e].key = call[e].key /\ call'[e].at = call[e].at
        /\ call'[e].barrier = call[e].barrier \ {c}
  BY DEF Ends, Finish, Excludes, Shape
<1>3. call'[c] = NoCall
  BY DEF Ends, Finish
<1>4. ~Pending(c)' /\ \A e \in Call \ {c} : Pending(e)' <=> Pending(e)
  BY <1>2, <1>3 DEF Pending, At, NoCall
<1>5. FreeOfBarriers'
  BY <1>2, <1>3 DEF Excludes, FreeOfBarriers, At, NoCall
<1>6. ASSUME NEW a \in Call \ {c}, NEW b \in Call \ {c}, Ahead(a, b)
      PROVE  Ahead(a, b)'
  <2>1. SUFFICES ASSUME NEW S \in SUBSET Call, Closed(S)', call'[b].barrier \subseteq S
                 PROVE  a \in S
    BY DEF Ahead
  <2> DEFINE T == S \cup {c}
  <2>2. \A e \in S : call[e].barrier \subseteq T
    <3>1. SUFFICES ASSUME NEW e \in S PROVE call[e].barrier \subseteq T
      OBVIOUS
    <3>2. CASE e = c BY <3>2 DEF Ends
    <3>3. CASE e # c BY <3>3, <2>1, <1>2 DEF Closed
    <3>4. QED BY <3>2, <3>3
  <2>3. Closed(T)
    BY <2>2 DEF Closed, Ends
  <2>4. call[b].barrier \subseteq T
    BY <2>1, <1>2
  <2>5. a \in T
    BY <1>6, <2>3, <2>4 DEF Ahead
  <2>6. QED BY <2>5
<1>7. \A a \in Call \ {c} : \A t : Behind(a, t) => Behind(a, t)' /\ t # c
  BY <1>4, <1>6, NobodyAhead DEF Behind, Ends
<1>8. QueuesAreReached'
  <2>1. SUFFICES ASSUME NEW a \in Call, Pending(a)'
                 PROVE  IF IsScopeOp(call'[a].op)
                          THEN Behind(a, scopeTail)'
                          ELSE /\ DayOf(call'[a].key) \in Day
                               /\ Behind(a, dateTail[DayOf(call[a].key)])'
    BY DEF QueuesAreReached
  <2>2. a # c /\ Pending(a)
    BY <2>1, <1>4
  <2>3. CASE IsScopeOp(call[a].op)
    <3>1. Behind(a, scopeTail)
      BY <2>2, <2>3 DEF Excludes, QueuesAreReached
    <3>2. scopeTail' = scopeTail
      BY <3>1, <1>7, <2>2 DEF Ends, Finish, Cleared
    <3>3. QED BY <3>1, <3>2, <1>7, <1>2, <2>2, <2>3 DEF Behind
  <2>4. CASE ~IsScopeOp(call[a].op)
    <3> DEFINE d == DayOf(call[a].key)
    <3>1. d \in Day /\ Behind(a, dateTail[d])
      BY <2>2, <2>4 DEF Excludes, QueuesAreReached
    <3>2. dateTail'[d] = dateTail[d]
      BY <3>1, <1>7, <2>2 DEF Ends, Finish, Cleared
    <3>3. call'[a].key = call[a].key /\ call'[a].op = call[a].op
      BY <1>2, <2>2
    <3>4. QED BY <3>1, <3>2, <3>3, <1>7, <2>2, <2>4 DEF Behind
  <2>5. QED BY <2>3, <2>4
<1>9. ConflictsAreOrdered'
  BY <1>2, <1>4, <1>6 DEF Excludes, ConflictsAreOrdered, Conflict
<1>10. QED BY <1>1, <1>5, <1>8, <1>9 DEF Excludes

(***************************************************************************)
(* An operation that enters: what was ahead stays, and behind the tails it *)
(* waits for it has all they have ahead.                                   *)
(***************************************************************************)
Enters(n, barriers) ==
  /\ At(n, "idle")
  /\ Pending(n)' /\ call'[n].at = "waiting"
  /\ call'[n].barrier = barriers \ {None}
  /\ \A e \in Call \ {n} : call'[e] = call[e]

LEMMA EntersKeepsOrder ==
  ASSUME Excludes, NEW n \in Call, NEW B, Enters(n, B)
  PROVE  /\ \A a, b \in Call : b # n /\ Ahead(a, b) => Ahead(a, b)'
         /\ \A a \in Call, t \in B : Behind(a, t) => Ahead(a, n)'
         /\ \A a \in Call \ {n} : \A t : t # n /\ Behind(a, t) => Behind(a, t)'
         /\ \A a \in Call : \A t : Behind(a, t) => t # n
<1>1. call[n].barrier = {}
  BY DEF Excludes, FreeOfBarriers, Enters, At
<1>2. ASSUME NEW S \in SUBSET Call, Closed(S)'
      PROVE  Closed(S)
  BY <1>1, <1>2 DEF Closed, Enters
<1>3. ASSUME NEW a \in Call, NEW b \in Call, b # n, Ahead(a, b)
      PROVE  Ahead(a, b)'
  BY <1>2, <1>3 DEF Ahead, Enters
<1>4. ASSUME NEW a \in Call, NEW t \in B, Behind(a, t)
      PROVE  Ahead(a, n)'
  <2>1. SUFFICES ASSUME NEW S \in SUBSET Call, Closed(S)', call'[n].barrier \subseteq S
                 PROVE  a \in S
    BY DEF Ahead
  <2>2. t \in S
    BY <1>4, <2>1, StoreAssumption DEF Enters, Behind
  <2>3. Closed(S) /\ call[t].barrier \subseteq S
    BY <1>2, <2>1, <2>2 DEF Closed
  <2>4. QED BY <1>4, <2>2, <2>3 DEF Behind, Ahead
<1>5. \A a \in Call : \A t : Behind(a, t) => t # n
  BY DEF Behind, Pending, Enters
<1>6. ASSUME NEW a \in Call \ {n}, NEW t, t # n, Behind(a, t)
      PROVE  Behind(a, t)'
  BY <1>3, <1>6 DEF Behind, Pending, At, Enters
<1>7. QED BY <1>3, <1>4, <1>5, <1>6

LEMMA RunDateKeeps ==
  ASSUME Excludes, NEW n \in Call, NEW op, NEW key, NEW arg,
         ~IsScopeOp(op), DayOf(key) \in Day, RunDate(n, op, key, arg)
  PROVE  Excludes'
<1> DEFINE d == DayOf(key)
           B == {scopeTail, dateTail[d]}
<1>1. /\ call'[n].op = op /\ call'[n].key = key
      /\ call'[n].barrier = B \ {None} /\ call'[n].at = "waiting"
      /\ \A e \in Call \ {n} : call'[e] = call[e]
      /\ At(n, "idle")
  BY DEF RunDate, Enter, Excludes, Shape, NoCall
<1>2. Enters(n, B)
  BY <1>1 DEF Enters, Pending, At
<1>3. /\ scopeTail' = scopeTail /\ dateTail'[d] = n
      /\ \A x \in Day \ {d} : dateTail'[x] = dateTail[x]
      /\ dateTail' \in [Day -> Call \cup {None}]
  BY DEF RunDate, Excludes, Shape
<1>4. \A e \in Call \ {n} : Pending(e)' <=> Pending(e)
  BY <1>1 DEF Pending, At
<1>5. \A a, b \in Call : b # n /\ Ahead(a, b) => Ahead(a, b)'
  BY <1>2, EntersKeepsOrder
<1>6. \A a \in Call : Behind(a, scopeTail) \/ Behind(a, dateTail[d]) => Ahead(a, n)'
  BY <1>2, EntersKeepsOrder
<1>7. \A a \in Call \ {n} : \A t : Behind(a, t) => Behind(a, t)'
  BY <1>2, EntersKeepsOrder
<1>8. FreeOfBarriers'
  BY <1>1 DEF Excludes, FreeOfBarriers, At
<1>9. Shape'
  <2>1. call' = [c \in Call |-> call'[c]]
    BY DEF RunDate, Enter, Excludes, Shape
  <2>2. call'[n].barrier \subseteq Call
    BY <1>1 DEF Excludes, Shape
  <2>3. call'[n] = [op |-> op, key |-> key, arg |-> arg, at |-> "waiting",
                    barrier |-> B \ {None}, plan |-> <<>>, before |-> <<>>,
                    todo |-> {}, writing |-> None]
    BY DEF RunDate, Enter, Excludes, Shape
  <2>4. QED BY <1>1, <1>3, <2>1, <2>2, <2>3 DEF Excludes, Shape
<1>10. Behind(n, n)'
  BY <1>2 DEF Behind, Enters
<1>11. QueuesAreReached'
  BY <1>1, <1>3, <1>4, <1>6, <1>7, <1>10 DEF Excludes, QueuesAreReached, Behind
<1>12. ConflictsAreOrdered'
  BY <1>1, <1>4, <1>5, <1>6 DEF Excludes, QueuesAreReached, ConflictsAreOrdered, Conflict
<1>13. QED BY <1>8, <1>9, <1>11, <1>12 DEF Excludes

LEMMA RunScopeKeeps ==
  ASSUME Excludes, NEW n \in Call, NEW op, NEW key, NEW arg,
         IsScopeOp(op), RunScope(n, op, key, arg)
  PROVE  Excludes'
<1> DEFINE B == {scopeTail} \cup {dateTail[d] : d \in Day}
<1>1. /\ call'[n].op = op /\ call'[n].key = key
      /\ call'[n].barrier = B \ {None} /\ call'[n].at = "waiting"
      /\ \A e \in Call \ {n} : call'[e] = call[e]
      /\ At(n, "idle")
  BY DEF RunScope, Enter, Excludes, Shape, NoCall
<1>2. Enters(n, B)
  BY <1>1 DEF Enters, Pending, At
<1>3. scopeTail' = n /\ dateTail' = dateTail
  BY DEF RunScope
<1>4. \A e \in Call \ {n} : Pending(e)' <=> Pending(e)
  BY <1>1 DEF Pending, At
<1>5. \A a, b \in Call : b # n /\ Ahead(a, b) => Ahead(a, b)'
  BY <1>2, EntersKeepsOrder
<1>6. \A a \in Call, t \in B : Behind(a, t) => Ahead(a, n)'
  BY <1>2, EntersKeepsOrder
<1>7. \A a \in Call \ {n} : \A t : Behind(a, t) => Behind(a, t)'
  BY <1>2, EntersKeepsOrder
<1>8. FreeOfBarriers'
  BY <1>1 DEF Excludes, FreeOfBarriers, At
<1>9. Shape'
  <2>1. call' = [c \in Call |-> call'[c]]
    BY DEF RunScope, Enter, Excludes, Shape
  <2>2. call'[n].barrier \subseteq Call
    BY <1>1 DEF Excludes, Shape
  <2>3. call'[n] = [op |-> op, key |-> key, arg |-> arg, at |-> "waiting",
                    barrier |-> B \ {None}, plan |-> <<>>, before |-> <<>>,
                    todo |-> {}, writing |-> None]
    BY DEF RunScope, Enter, Excludes, Shape
  <2>4. QED BY <1>1, <1>3, <2>1, <2>2, <2>3 DEF Excludes, Shape
<1>10. Behind(n, n)'
  BY <1>2 DEF Behind, Enters
<1>11. \A a \in Call \ {n} : Pending(a) => Ahead(a, n)'
  BY <1>6 DEF Excludes, QueuesAreReached
<1>12. QueuesAreReached'
  BY <1>1, <1>3, <1>4, <1>7, <1>10, <1>11 DEF Excludes, QueuesAreReached, Behind
<1>13. ConflictsAreOrdered'
  BY <1>1, <1>4, <1>5, <1>11 DEF Excludes, ConflictsAreOrdered, Conflict
<1>14. QED BY <1>8, <1>9, <1>12, <1>13 DEF Excludes

-----------------------------------------------------------------------------
(***************************************************************************)
(* The steps of the store are of these kinds.                              *)
(***************************************************************************)
LEMMA GoOnGoesOn ==
  ASSUME Excludes, NEW c \in Call, Pending(c), call[c].barrier = {},
         NEW stage, stage # "idle", NEW plan, NEW before, NEW todo, NEW writing,
         GoOn(c, stage, plan, before, todo, writing)
  PROVE  GoesOn(c)
<1>1. /\ call' = [e \in Call |-> call'[e]]
      /\ \A e \in Call \ {c} : call'[e] = call[e]
      /\ call'[c] = [op |-> call[c].op, key |-> call[c].key, arg |-> call[c].arg,
                     at |-> stage, barrier |-> call[c].barrier, plan |-> plan,
                     before |-> before, todo |-> todo, writing |-> writing]
  BY DEF GoOn, Excludes, Shape
<1>2. Pending(c)'
  BY <1>1 DEF Pending, At
<1>3. Shape'
  BY <1>1 DEF Excludes, Shape, GoOn
<1>4. QED BY <1>1, <1>2, <1>3 DEF GoesOn, GoOn

LEMMA DoneWithKinds ==
  ASSUME Excludes, NEW c \in Call, NEW k, NEW stage, stage # "idle",
         Pending(c), call[c].barrier = {}, DoneWith(c, k, stage)
  PROVE  GoesOn(c) \/ Ends(c)
  BY GoOnGoesOn DEF DoneWith, Ends

\* An operation at any stage but "idle" and "waiting" is pending and free.
LEMMA RunningIsFree ==
  ASSUME Excludes, NEW c \in Call, Running(c) \/ Released(c)
  PROVE  Pending(c) /\ call[c].barrier = {}
  BY DEF Excludes, FreeOfBarriers, Running, Released, Pending, At

\* The steps that do not end an operation keep it in its queues; the last
\* step of an operation ends it.
LEMMA ProceedKinds ==
  ASSUME Excludes, NEW c \in Call, Proceed(c)
  PROVE  GoesOn(c) \/ Ends(c)
<1>1. CASE LoadKey(c)
  <2>1. Pending(c) /\ call[c].barrier = {}
    BY <1>1, RunningIsFree DEF LoadKey
  <2>2. PICK plan, before, todo : GoOn(c, "ready", plan, before, todo, None)
    BY <1>1 DEF LoadKey
  <2>3. QED BY <2>1, <2>2, GoOnGoesOn
<1>2. CASE LoadTasks(c)
  <2>1. Pending(c) /\ call[c].barrier = {}
    BY <1>2, RunningIsFree DEF LoadTasks
  <2>2. PICK plan, before, todo : GoOn(c, "loaded", plan, before, todo, None)
    BY <1>2 DEF LoadTasks
  <2>3. QED BY <2>1, <2>2, GoOnGoesOn
<1>3. CASE Snapshot(c)
  <2>1. Pending(c) /\ call[c].barrier = {}
    BY <1>3, RunningIsFree DEF Snapshot, Running, At
  <2>2. PICK plan, before, todo : GoOn(c, "ready", plan, before, todo, None)
    BY <1>3 DEF Snapshot
  <2>3. QED BY <2>1, <2>2, GoOnGoesOn
<1>4. CASE Write(c)
  <2>1. Pending(c) /\ call[c].barrier = {}
    BY <1>4, RunningIsFree DEF Write, Running, At
  <2>2. PICK k : GoOn(c, "writing", call[c].plan, call[c].before, call[c].todo, k)
    BY <1>4 DEF Write
  <2>3. QED BY <2>1, <2>2, GoOnGoesOn
<1>5. CASE ImportFails(c)
  <2>1. Pending(c) /\ call[c].barrier = {}
    BY <1>5, RunningIsFree DEF ImportFails, Running, At
  <2>2. GoOn(c, "undoing", call[c].plan, call[c].before, DOMAIN call[c].before, None)
    BY <1>5 DEF ImportFails
  <2>3. QED BY <2>1, <2>2, GoOnGoesOn
<1>6. CASE Restore(c)
  <2>1. Pending(c) /\ call[c].barrier = {}
    BY <1>6, RunningIsFree DEF Restore, Running, At
  <2>2. PICK k : \/ DoneWith(c, k, "undoing")
                 \/ GoOn(c, "restoring", call[c].plan, call[c].before, call[c].todo, k)
    BY <1>6 DEF Restore
  <2>3. QED BY <2>1, <2>2, GoOnGoesOn, DoneWithKinds
<1>7. CASE Restored(c)
  <2>1. Pending(c) /\ call[c].barrier = {}
    BY <1>7, RunningIsFree DEF Restored, Running, At
  <2>2. PICK k : DoneWith(c, k, "undoing")
    BY <1>7 DEF Restored
  <2>3. QED BY <2>1, <2>2, DoneWithKinds
<1>8. CASE RollbackFails(c)
  BY <1>8, RunningIsFree DEF RollbackFails, Running, At, Ends
<1>9. CASE Export(c)
  BY <1>9, RunningIsFree DEF Export, Ends
<1>10. QED
  BY <1>1, <1>2, <1>3, <1>4, <1>5, <1>6, <1>7, <1>8, <1>9 DEF Proceed

LEMMA AnswerKinds ==
  ASSUME Excludes, NEW c \in Call, Answer(c)
  PROVE  GoesOn(c) \/ Ends(c)
<1>1. Pending(c) /\ call[c].barrier = {}
  BY RunningIsFree DEF Answer, Saved, MutationFails, Running, At
<1>2. CASE Saved(c)
  <2>1. PICK k : DoneWith(c, k, "ready")
    BY <1>2 DEF Saved
  <2>2. QED BY <1>1, <2>1, DoneWithKinds
<1>3. CASE MutationFails(c)
  BY <1>1, <1>3 DEF MutationFails, Ends
<1>4. QED BY <1>2, <1>3 DEF Answer

\* What a mutation changes has a day, or the mutation is exclusive.
LEMMA MutationKeys ==
  ASSUME NEW m \in Mutations, ~IsScopeOp(m.op)
  PROVE  DayOf(m.key) \in Day
  BY DEF Mutations, IsScopeOp, DayOf, RecordKey, TaskKey

LEMMA SubmitKeeps ==
  ASSUME Excludes, NEW c \in Call, Submit(c)
  PROVE  Excludes'
<1>1. CASE SubmitMutation(c)
  <2>1. PICK m \in Mutations : IF IsScopeOp(m.op) THEN RunScope(c, m.op, m.key, m.arg)
                                                 ELSE RunDate(c, m.op, m.key, m.arg)
    BY <1>1 DEF SubmitMutation
  <2>2. QED BY <2>1, MutationKeys, RunScopeKeeps, RunDateKeeps
<1>2. CASE ExportBackup(c)
  BY <1>2, RunScopeKeeps DEF ExportBackup, IsScopeOp
<1>3. ASSUME NEW b \in Backups, NEW mode \in Modes, ImportBackup(c, b, mode)
      PROVE  Excludes'
  BY <1>3, RunScopeKeeps DEF ImportBackup, IsScopeOp
<1>4. QED BY <1>1, <1>2, <1>3 DEF Submit

LEMMA AddFocusSessionKeeps ==
  ASSUME Excludes, NEW c \in Call, NEW d \in Day, AddFocusSession(c, d)
  PROVE  Excludes'
<1>1. ~IsScopeOp("addFocusSession") /\ DayOf(RecordKey(d)) \in Day
  BY DEF IsScopeOp, Modes, DayOf, RecordKey
<1>2. QED BY <1>1, RunDateKeeps DEF AddFocusSession

\* With no operation under way nothing is to exclude.
LEMMA NobodyExcludes ==
  ASSUME call = [c \in Call |-> NoCall], scopeTail = None,
         dateTail = [d \in Day |-> None]
  PROVE  Excludes
<1>1. Shape BY DEF Shape, NoCall
<1>2. \A c \in Call : ~Pending(c) /\ call[c].barrier = {}
  BY DEF Pending, At, NoCall
<1>3. QED BY <1>1, <1>2 DEF Excludes, FreeOfBarriers, QueuesAreReached, ConflictsAreOrdered

LEMMA CrashKeeps == ASSUME Crash PROVE Excludes'
<1>1. Shape' BY DEF Crash, Shape, NoCall
<1>2. \A c \in Call : ~Pending(c)' /\ call'[c].barrier = {}
  BY DEF Crash, Pending, At, NoCall
<1>3. QED BY <1>1, <1>2 DEF Excludes, FreeOfBarriers, QueuesAreReached, ConflictsAreOrdered

LEMMA StutterKeeps == ASSUME Excludes, UNCHANGED storeVars PROVE Excludes'
<1>1. call' = call /\ scopeTail' = scopeTail /\ dateTail' = dateTail
  BY DEF storeVars
<1>2. \A c, d \in Call : Ahead(c, d)' <=> Ahead(c, d)
  BY <1>1 DEF Ahead, Closed
<1>3. \A c \in Call : Pending(c)' <=> Pending(c)
  BY <1>1 DEF Pending, At
<1>4. \A c \in Call : \A t : Behind(c, t)' <=> Behind(c, t)
  BY <1>2, <1>3 DEF Behind
<1>5. Shape' /\ FreeOfBarriers'
  BY <1>1 DEF Excludes, Shape, FreeOfBarriers, At
<1>6. QueuesAreReached'
  BY <1>1, <1>3, <1>4 DEF Excludes, QueuesAreReached
<1>7. ConflictsAreOrdered'
  BY <1>1, <1>2, <1>3 DEF Excludes, ConflictsAreOrdered, Conflict
<1>8. QED BY <1>5, <1>6, <1>7 DEF Excludes

LEMMA StepKeeps == ASSUME Excludes, [StoreNext]_storeVars PROVE Excludes'
<1>1. ASSUME NEW c \in Call, Submit(c) PROVE Excludes'
  BY <1>1, SubmitKeeps
<1>2. ASSUME NEW c \in Call, Proceed(c) PROVE Excludes'
  BY <1>2, ProceedKinds, GoesOnKeeps, EndsKeeps
<1>3. ASSUME NEW c \in Call, Answer(c) PROVE Excludes'
  BY <1>3, AnswerKinds, GoesOnKeeps, EndsKeeps
<1>4. ASSUME NEW c \in Call, NEW d \in Day, AddFocusSession(c, d) PROVE Excludes'
  BY <1>4, AddFocusSessionKeeps
<1>5. CASE Crash BY <1>5, CrashKeeps
<1>6. CASE UNCHANGED storeVars BY <1>6, StutterKeeps
<1>7. QED BY <1>1, <1>2, <1>3, <1>4, <1>5, <1>6 DEF StoreNext

-----------------------------------------------------------------------------
\* However many operations are queued by however many store instances, an
\* import, an export and a save of the settings run alone, and other
\* mutations alone in their day (_StudyStoreMutationCoordinator).
THEOREM Exclusion == StoreSpec => []RunsAlone
<1>1. StoreInit => Excludes
  BY NobodyExcludes DEF StoreInit
<1>2. Excludes /\ [StoreNext]_storeVars => Excludes'
  BY StepKeeps
<1>3. Excludes => RunsAlone
  BY ExclusionFollows
<1>4. QED BY <1>1, <1>2, <1>3, PTL DEF StoreSpec

-----------------------------------------------------------------------------
(***************************************************************************)
(* The timer and its save.                                                 *)
(***************************************************************************)

\* Only an import comes past these stages, so only an import ends there.
StagesOfImports ==
  \A c \in Call : call[c].at \in {"loaded", "undoing", "restoring"} => IsImport(c)

\* Which stage the timer is in, or was when it was paused.
Stage == IF status = "paused" THEN previous ELSE status

TimerShape ==
  /\ status \in Statuses
  /\ status = "paused" => previous \in Active
  /\ status # "paused" => previous = None
  /\ expired \in BOOLEAN /\ armed \in BOOLEAN
  /\ armed => status \in Active
  /\ saver \in Call \cup {None}

\* The timers of a stage stop only for the save that ends it.
SaverOrTimers ==
  /\ status \in Active => armed \/ saver # None
  /\ saver # None =>
       /\ status = "focusing" /\ expired /\ ~armed
       /\ Pending(saver) /\ call[saver].op = "addFocusSession"

\* A focus stage that has been recorded has no time left, and no timers.
RecordedStageIsOver ==
  \/ saves = 0
  \/ saves = 1 /\ (Stage = "focusing" => expired /\ ~armed)

TimerInv ==
  Excludes /\ StagesOfImports /\ TimerShape /\ SaverOrTimers /\ RecordedStageIsOver

-----------------------------------------------------------------------------
\* The timer uses the store as any host does.
LEMMA StepOfStore == ASSUME [Next]_vars PROVE [StoreNext]_storeVars
  BY DEF Next, vars, Command, Elapse, CompleteBreak, CompleteFocus, Answered,
         SaveFailed, Store, Kill, StoreNext, Answer

LEMMA TimerExcludes == ASSUME Excludes, [Next]_vars PROVE Excludes'
  BY StepOfStore, StepKeeps

-----------------------------------------------------------------------------
(***************************************************************************)
(* What a step of the store does to operation c and to the others.         *)
(***************************************************************************)
LEMMA EnterStages ==
  ASSUME Excludes, StagesOfImports, NEW c \in Call, NEW op, NEW key, NEW arg, NEW B,
         Enter(c, op, key, arg, B)
  PROVE  /\ StagesOfImports'
         /\ At(c, "idle") /\ Pending(c)' /\ call'[c].op = op
         /\ \A e \in Call \ {c} : call'[e] = call[e]
<1>1. /\ At(c, "idle") /\ call'[c].at = "waiting" /\ call'[c].op = op
      /\ \A e \in Call \ {c} : call'[e] = call[e]
  BY DEF Enter, Excludes, Shape
<1>2. QED BY <1>1 DEF StagesOfImports, IsImport, Pending, At

LEMMA SubmitStages ==
  ASSUME Excludes, StagesOfImports, NEW c \in Call, Submit(c)
  PROVE  /\ StagesOfImports'
         /\ At(c, "idle")
         /\ \A e \in Call \ {c} : call'[e] = call[e]
<1>1. PICK op, key, arg, B : Enter(c, op, key, arg, B)
  BY DEF Submit, SubmitMutation, ExportBackup, ImportBackup, RunScope, RunDate
<1>2. QED BY <1>1, EnterStages

LEMMA FinishStages ==
  ASSUME Excludes, StagesOfImports, NEW c \in Call, Finish(c)
  PROVE  /\ StagesOfImports'
         /\ \A e \in Call \ {c} : call'[e].at = call[e].at /\ call'[e].op = call[e].op
<1>1. \A e \in Call \ {c} : call'[e].at = call[e].at /\ call'[e].op = call[e].op
  BY DEF Finish, Excludes, Shape
<1>2. call'[c].at = "idle"
  BY DEF Finish, NoCall
<1>3. QED BY <1>1, <1>2 DEF StagesOfImports, IsImport

LEMMA GoOnStages ==
  ASSUME Excludes, StagesOfImports, NEW c \in Call, NEW stage,
         stage \in {"loaded", "undoing", "restoring"} => IsImport(c),
         NEW plan, NEW before, NEW todo, NEW writing,
         GoOn(c, stage, plan, before, todo, writing)
  PROVE  /\ StagesOfImports'
         /\ call'[c].op = call[c].op /\ call'[c].at = stage
         /\ \A e \in Call \ {c} : call'[e] = call[e]
<1>1. /\ call'[c].op = call[c].op /\ call'[c].at = stage
      /\ \A e \in Call \ {c} : call'[e] = call[e]
  BY DEF GoOn, Excludes, Shape
<1>2. QED BY <1>1 DEF StagesOfImports, IsImport

\* A save goes on to the write; it is ended by its answer only.
LEMMA ProceedStages ==
  ASSUME Excludes, StagesOfImports, NEW c \in Call, Proceed(c)
  PROVE  /\ StagesOfImports'
         /\ \A e \in Call : call[e].op = "addFocusSession" /\ Pending(e)
                              => call'[e].op = "addFocusSession" /\ Pending(e)'
<1> DEFINE Kept == \A e \in Call : call[e].op = "addFocusSession" /\ Pending(e)
                              => call'[e].op = "addFocusSession" /\ Pending(e)'
<1> HIDE DEF Kept
<1>1. ASSUME NEW stage, stage # "idle", NEW plan, NEW before, NEW todo, NEW writing,
             stage \in {"loaded", "undoing", "restoring"} => IsImport(c),
             GoOn(c, stage, plan, before, todo, writing)
      PROVE  StagesOfImports' /\ Kept
  <2>1. /\ StagesOfImports'
        /\ call'[c].op = call[c].op /\ call'[c].at = stage
        /\ \A e \in Call \ {c} : call'[e] = call[e]
    BY <1>1, GoOnStages
  <2>2. QED BY <1>1, <2>1 DEF Kept, Pending, At
<1>2. ASSUME call[c].op # "addFocusSession", Finish(c)
      PROVE  StagesOfImports' /\ Kept
  BY <1>2, FinishStages DEF Kept, Pending, At
<1>3. IsImport(c) => call[c].op # "addFocusSession"
  BY DEF IsImport, Modes
<1>4. ASSUME NEW k, IsImport(c), DoneWith(c, k, "undoing")
      PROVE  StagesOfImports' /\ Kept
  BY <1>1, <1>2, <1>3, <1>4 DEF DoneWith
<1>5. At(c, "undoing") \/ At(c, "restoring") => IsImport(c)
  BY DEF StagesOfImports, At
<1>6. CASE LoadKey(c)
  <2>1. PICK plan, before, todo : GoOn(c, "ready", plan, before, todo, None)
    BY <1>6 DEF LoadKey
  <2>2. QED BY <1>1, <2>1 DEF Kept
<1>7. CASE LoadTasks(c)
  <2>1. PICK plan, before, todo : GoOn(c, "loaded", plan, before, todo, None)
    BY <1>7 DEF LoadTasks
  <2>2. QED BY <1>1, <1>7, <2>1 DEF LoadTasks, Kept
<1>8. CASE Snapshot(c)
  <2>1. PICK plan, before, todo : GoOn(c, "ready", plan, before, todo, None)
    BY <1>8 DEF Snapshot
  <2>2. QED BY <1>1, <2>1 DEF Kept
<1>9. CASE Write(c)
  <2>1. PICK k : GoOn(c, "writing", call[c].plan, call[c].before, call[c].todo, k)
    BY <1>9 DEF Write
  <2>2. QED BY <1>1, <2>1 DEF Kept
<1>10. CASE ImportFails(c)
  <2>1. GoOn(c, "undoing", call[c].plan, call[c].before, DOMAIN call[c].before, None)
    BY <1>10 DEF ImportFails
  <2>2. QED BY <1>1, <1>10, <2>1 DEF ImportFails, Kept
<1>11. CASE Restore(c)
  <2>1. PICK k : \/ DoneWith(c, k, "undoing")
                 \/ GoOn(c, "restoring", call[c].plan, call[c].before, call[c].todo, k)
    BY <1>11 DEF Restore
  <2>2. IsImport(c)
    BY <1>5, <1>11 DEF Restore
  <2>3. QED BY <1>1, <1>4, <2>1, <2>2 DEF Kept
<1>12. CASE Restored(c)
  <2>1. PICK k : DoneWith(c, k, "undoing")
    BY <1>12 DEF Restored
  <2>2. QED BY <1>4, <1>5, <1>12, <2>1 DEF Restored, Kept
<1>13. CASE RollbackFails(c)
  BY <1>2, <1>3, <1>5, <1>13 DEF RollbackFails, Kept
<1>14. CASE Export(c)
  BY <1>2, <1>14 DEF Export, Kept
<1>15. QED
  BY <1>6, <1>7, <1>8, <1>9, <1>10, <1>11, <1>12, <1>13, <1>14 DEF Proceed, Kept

\* The answer to another operation leaves the save as it is.
LEMMA AnswerStages ==
  ASSUME Excludes, StagesOfImports, NEW c \in Call, Answer(c)
  PROVE  /\ StagesOfImports'
         /\ \A e \in Call \ {c} : call'[e].op = call[e].op /\ (Pending(e)' <=> Pending(e))
<1>1. CASE Finish(c)
  BY <1>1, FinishStages DEF Pending, At
<1>2. ASSUME NEW plan, NEW before, NEW todo, GoOn(c, "ready", plan, before, todo, None)
      PROVE  /\ StagesOfImports'
             /\ \A e \in Call \ {c} : call'[e].op = call[e].op /\ (Pending(e)' <=> Pending(e))
  <2>1. StagesOfImports' /\ \A e \in Call \ {c} : call'[e] = call[e]
    BY <1>2, GoOnStages
  <2>2. QED BY <2>1 DEF Pending, At
<1>3. QED BY <1>1, <1>2 DEF Answer, Saved, MutationFails, DoneWith

-----------------------------------------------------------------------------
(***************************************************************************)
(* The steps of the timer.                                                 *)
(***************************************************************************)
LEMMA ActiveStatuses ==
  /\ Active \subseteq Statuses
  /\ {"idle", "paused", "finished"} \subseteq Statuses
  /\ "idle" \notin Active /\ "paused" \notin Active /\ "finished" \notin Active
  /\ "focusing" \in Active /\ "breaking" \in Active
  BY DEF Active, Statuses

LEMMA InitHolds == Init => TimerInv
<1>1. Init => Excludes /\ StagesOfImports
  BY NobodyExcludes DEF Init, StoreInit, StagesOfImports, NoCall
<1>2. Init => TimerShape /\ SaverOrTimers /\ RecordedStageIsOver
  BY DEF Init, TimerShape, SaverOrTimers, RecordedStageIsOver, Stage, Active, Statuses
<1>3. QED BY <1>1, <1>2 DEF TimerInv

\* Leaving a focus stage for what comes after it.
LEMMA AfterFocusKeeps ==
  ASSUME saves \in {0, 1}, UNCHANGED saves, AfterFocus
  PROVE  TimerShape' /\ SaverOrTimers' /\ RecordedStageIsOver'
  BY DEF AfterFocus, BeginStage, ResetToIdle, CancelStage, TimerShape, SaverOrTimers,
         RecordedStageIsOver, Stage, Active, Statuses

LEMMA ResetKeeps ==
  ASSUME saves \in {0, 1}, UNCHANGED saves, ResetToIdle
  PROVE  TimerShape' /\ SaverOrTimers' /\ RecordedStageIsOver'
  BY DEF ResetToIdle, CancelStage, TimerShape, SaverOrTimers,
         RecordedStageIsOver, Stage, Active, Statuses

LEMMA CommandKeeps ==
  ASSUME TimerInv, Command
  PROVE  TimerShape' /\ SaverOrTimers' /\ RecordedStageIsOver'
<1>1. saves \in {0, 1}
  BY DEF TimerInv, RecordedStageIsOver
<1>2. CASE Start
  BY <1>2 DEF Start, BeginStage, TimerShape, SaverOrTimers,
              RecordedStageIsOver, Stage, Active, Statuses
<1>3. CASE Pause
  <2>1. TimerShape' /\ SaverOrTimers'
    BY <1>3 DEF Pause, CancelStage, TimerInv, TimerShape, SaverOrTimers, Active, Statuses
  <2>2. Stage' = Stage /\ expired' = expired /\ ~armed' /\ saves' = saves
    BY <1>3 DEF Pause, CancelStage, Stage, Active
  <2>3. QED BY <2>1, <2>2 DEF TimerInv, RecordedStageIsOver
<1>4. CASE Resume
  <2>1. CASE expired
    BY <1>1, <1>4, <2>1, AfterFocusKeeps, ResetKeeps DEF Resume, SkipStage
  <2>2. CASE ~expired
    <3>1. previous \in Active /\ BeginStage(previous) /\ saves' = saves
      BY <1>4, <2>2 DEF Resume, TimerInv, TimerShape
    <3>2. saves = 0 \/ previous # "focusing"
      BY <1>4, <2>2 DEF Resume, TimerInv, RecordedStageIsOver, Stage
    <3>3. TimerShape' /\ SaverOrTimers'
      BY <3>1 DEF BeginStage, TimerShape, SaverOrTimers, Active, Statuses
    <3>4. Stage' = previous
      BY <3>1 DEF BeginStage, Stage, Active
    <3>5. QED BY <1>1, <3>1, <3>2, <3>3, <3>4 DEF RecordedStageIsOver
  <2>3. QED BY <2>1, <2>2
<1>5. CASE Skip
  BY <1>1, <1>5, AfterFocusKeeps, ResetKeeps DEF Skip, SkipStage
<1>6. CASE EndStages
  BY <1>1, <1>6 DEF EndStages, CancelStage, TimerShape, SaverOrTimers,
                    RecordedStageIsOver, Stage, Active, Statuses
<1>7. CASE SetConfig
  BY <1>1, <1>7, ResetKeeps DEF SetConfig
<1>8. CASE Reopen
  BY <1>8 DEF Reopen, CancelStage, TimerShape, SaverOrTimers,
              RecordedStageIsOver, Stage, Active, Statuses
<1>9. QED BY <1>2, <1>3, <1>4, <1>5, <1>6, <1>7, <1>8 DEF Command

\* A stage is completed while its timers run, so it has not been recorded.
LEMMA CompleteFocusKeeps ==
  ASSUME TimerInv, NEW c \in Call, NEW d \in Day, CompleteFocus(c, d)
  PROVE  StagesOfImports' /\ TimerShape' /\ SaverOrTimers' /\ RecordedStageIsOver'
<1>1. PICK B : Enter(c, "addFocusSession", RecordKey(d), None, B)
  BY DEF CompleteFocus, AddFocusSession, RunDate
<1>2. StagesOfImports' /\ Pending(c)' /\ call'[c].op = "addFocusSession"
  BY <1>1, EnterStages DEF TimerInv
<1>3. saves = 0
  BY DEF CompleteFocus, TimerInv, RecordedStageIsOver, Stage
<1>4. TimerShape'
  BY DEF CompleteFocus, TimerInv, TimerShape, Active
<1>5. SaverOrTimers'
  BY <1>2, StoreAssumption DEF CompleteFocus, SaverOrTimers, Pending
<1>6. RecordedStageIsOver'
  BY <1>3 DEF CompleteFocus, RecordedStageIsOver, Stage
<1>7. QED BY <1>2, <1>4, <1>5, <1>6

\* The timer's part is untouched, and so is the save.
LEMMA OthersKeep ==
  ASSUME TimerInv, UNCHANGED timerVars,
         \A e \in Call : e = saver =>
           call'[e].op = call[e].op /\ (Pending(e)' <=> Pending(e))
  PROVE  TimerShape' /\ SaverOrTimers' /\ RecordedStageIsOver'
<1>1. TimerShape' /\ RecordedStageIsOver'
  BY DEF timerVars, TimerInv, TimerShape, RecordedStageIsOver, Stage
<1>2. /\ status' = status /\ expired' = expired /\ armed' = armed /\ saver' = saver
  BY DEF timerVars
<1>3. SaverOrTimers'
  <2>1. CASE saver = None
    BY <1>2, <2>1 DEF TimerInv, SaverOrTimers
  <2>2. CASE saver # None
    <3>1. saver \in Call
      BY <2>2 DEF TimerInv, TimerShape
    <3>2. \A e \in Call : e = saver => call'[e].op = "addFocusSession" /\ call'[e].at # "idle"
      BY <2>2 DEF TimerInv, SaverOrTimers, Pending, At
    <3>3. call'[saver'].op = "addFocusSession" /\ (Pending(saver))'
      BY <1>2, <3>1, <3>2 DEF Pending, At
    <3>4. QED BY <1>2, <2>2, <3>3 DEF TimerInv, SaverOrTimers
  <2>3. QED BY <2>1, <2>2
<1>4. QED BY <1>1, <1>3

\* An answer that is not the awaited one changes nothing; the awaited one
\* ends the stage.
LEMMA AnswersKeep ==
  ASSUME TimerInv, NEW c \in Call, Answered(c) \/ SaveFailed(c)
  PROVE  StagesOfImports' /\ TimerShape' /\ SaverOrTimers' /\ RecordedStageIsOver'
<1>1. saves \in {0, 1} /\ saves' = saves
  BY DEF TimerInv, RecordedStageIsOver, Answered, SaveFailed
<1>2. /\ StagesOfImports'
      /\ \A e \in Call \ {c} : call'[e].op = call[e].op /\ (Pending(e)' <=> Pending(e))
  BY AnswerStages DEF TimerInv, Answer, Answered, SaveFailed
<1>3. CASE c # saver
  <2>1. UNCHANGED timerVars
    BY <1>1, <1>3 DEF Answered, SaveFailed, timerVars
  <2>2. \A e \in Call : e = saver =>
           call'[e].op = call[e].op /\ (Pending(e)' <=> Pending(e))
    BY <1>2, <1>3
  <2>3. QED BY <1>2, <2>1, <2>2, OthersKeep
<1>4. CASE c = saver /\ Answered(c)
  BY <1>1, <1>2, <1>4, AfterFocusKeeps DEF Answered
<1>5. CASE c = saver /\ SaveFailed(c)
  <2>1. saver # None /\ ~armed
    BY <1>5, StoreAssumption DEF TimerInv, SaverOrTimers
  <2>2. /\ status' = "finished" /\ previous' = None /\ expired' = TRUE
        /\ saver' = None /\ armed' = armed
    BY <1>5 DEF SaveFailed
  <2>3. QED BY <1>1, <1>2, <2>1, <2>2 DEF TimerInv, TimerShape, SaverOrTimers,
              RecordedStageIsOver, Stage, Active, Statuses
<1>6. QED BY <1>3, <1>4, <1>5

LEMMA StoreKeeps ==
  ASSUME TimerInv, NEW c \in Call, Store(c)
  PROVE  StagesOfImports' /\ TimerShape' /\ SaverOrTimers' /\ RecordedStageIsOver'
<1>1. UNCHANGED timerVars
  BY DEF Store
<1>2. \A e \in Call : e = saver => Pending(e) /\ call[e].op = "addFocusSession"
  BY StoreAssumption DEF TimerInv, SaverOrTimers
<1>3. CASE Submit(c)
  <2>1. /\ StagesOfImports'
        /\ At(c, "idle")
        /\ \A e \in Call \ {c} : call'[e] = call[e]
    BY <1>3, SubmitStages DEF TimerInv
  <2>2. \A e \in Call : e = saver =>
           call'[e].op = call[e].op /\ (Pending(e)' <=> Pending(e))
    BY <1>2, <2>1 DEF Pending, At
  <2>3. QED BY <1>1, <2>1, <2>2, OthersKeep
<1>4. CASE Proceed(c)
  <2>1. /\ StagesOfImports'
        /\ \A e \in Call : call[e].op = "addFocusSession" /\ Pending(e)
                             => call'[e].op = "addFocusSession" /\ Pending(e)'
    BY <1>4, ProceedStages DEF TimerInv
  <2>2. \A e \in Call : e = saver =>
           call'[e].op = call[e].op /\ (Pending(e)' <=> Pending(e))
    BY <1>2, <2>1
  <2>3. QED BY <1>1, <2>1, <2>2, OthersKeep
<1>5. QED BY <1>3, <1>4 DEF Store

LEMMA KillKeeps ==
  ASSUME Kill
  PROVE  StagesOfImports' /\ TimerShape' /\ SaverOrTimers' /\ RecordedStageIsOver'
<1>1. StagesOfImports'
  BY DEF Kill, Crash, StagesOfImports, NoCall
<1>2. TimerShape' /\ SaverOrTimers' /\ RecordedStageIsOver'
  BY DEF Kill, CancelStage, TimerShape, SaverOrTimers, RecordedStageIsOver,
         Stage, Active, Statuses
<1>3. QED BY <1>1, <1>2

LEMMA TimerStep == ASSUME TimerInv, [Next]_vars PROVE TimerInv'
<1>1. Excludes'
  BY TimerExcludes DEF TimerInv
<1>2. UNCHANGED storeVars => StagesOfImports'
  BY DEF storeVars, TimerInv, StagesOfImports, IsImport
<1>3. CASE Command
  BY <1>1, <1>2, <1>3, CommandKeeps DEF Command, TimerInv
<1>4. CASE Elapse
  <2>1. saves = 0 \/ Stage # "focusing"
    BY <1>4 DEF Elapse, TimerInv, RecordedStageIsOver
  <2>2. /\ status' = status /\ previous' = previous /\ armed' = armed /\ armed
        /\ saver' = saver /\ saves' = saves /\ expired' = TRUE
    BY <1>4 DEF Elapse
  <2>3. Stage' = Stage BY <2>2 DEF Stage
  <2>4. saver = None
    BY <2>2 DEF TimerInv, SaverOrTimers
  <2>5. TimerShape' /\ SaverOrTimers'
    BY <2>2, <2>4 DEF TimerInv, TimerShape, SaverOrTimers
  <2>6. RecordedStageIsOver'
    BY <2>1, <2>2, <2>3 DEF TimerInv, RecordedStageIsOver
  <2>7. QED BY <1>1, <1>2, <1>4, <2>5, <2>6 DEF Elapse, TimerInv
<1>5. CASE CompleteBreak
  <2>1. saves \in {0, 1}
    BY DEF TimerInv, RecordedStageIsOver
  <2>2. QED BY <1>1, <1>2, <1>5, <2>1, ResetKeeps DEF CompleteBreak, TimerInv
<1>6. ASSUME NEW c \in Call, NEW d \in Day, CompleteFocus(c, d) PROVE TimerInv'
  BY <1>1, <1>6, CompleteFocusKeeps DEF TimerInv
<1>7. ASSUME NEW c \in Call, Answered(c) \/ SaveFailed(c) PROVE TimerInv'
  BY <1>1, <1>7, AnswersKeep DEF TimerInv
<1>8. ASSUME NEW c \in Call, Store(c) PROVE TimerInv'
  BY <1>1, <1>8, StoreKeeps DEF TimerInv
<1>9. CASE Kill
  BY <1>1, <1>9, KillKeeps DEF TimerInv
<1>10. CASE UNCHANGED vars
  <2>1. UNCHANGED storeVars /\ UNCHANGED timerVars
    BY <1>10 DEF vars
  <2>2. \A e \in Call : call'[e].op = call[e].op /\ (Pending(e)' <=> Pending(e))
    BY <2>1 DEF storeVars, Pending, At
  <2>3. QED BY <1>1, <1>2, <2>1, <2>2, OthersKeep DEF TimerInv
<1>11. QED BY <1>3, <1>4, <1>5, <1>6, <1>7, <1>8, <1>9, <1>10 DEF Next

LEMMA TimerInvariant == Spec => []TimerInv
  BY InitHolds, TimerStep, PTL DEF Spec

-----------------------------------------------------------------------------
\* A focus stage is counted at most once, although it can be paused, resumed
\* and skipped while the store is still saving it (_completeStage, resume).
THEOREM RecordedOnce == Spec => []FocusSavedOnce
<1>1. TimerInv => FocusSavedOnce
  BY DEF TimerInv, RecordedStageIsOver, FocusSavedOnce
<1>2. QED BY <1>1, TimerInvariant, PTL

\* The timer never stands in a stage that nothing will end: its timers run,
\* or the save it waits for is under way (_completeStage's failure path).
THEOREM StagesEnd == Spec => []StageHasAnEnd
<1>1. TimerInv => StageHasAnEnd
  BY DEF TimerInv, TimerShape, SaverOrTimers, StageHasAnEnd
<1>2. QED BY <1>1, TimerInvariant, PTL

\* No late answer of a save begins a break (the generation of _completeStage).
THEOREM BreaksFollowFocus == Spec => BreakFollowsFocus
<1>1. ASSUME TimerInv, [Next]_vars, status # "breaking", status' = "breaking"
      PROVE  status \in {"focusing", "paused"} /\ (status = "focusing" => expired \/ saver = None)
  <2>1. status = "focusing" => expired \/ saver = None
    BY <1>1 DEF TimerInv, SaverOrTimers
  <2>2. CASE Command
    BY <1>1, <2>1, <2>2 DEF Command, Start, Pause, Resume, Skip, EndStages, SetConfig, Reopen,
         BeginStage, ResetToIdle, SkipStage, Active
  <2>3. ASSUME NEW c \in Call, Answered(c) PROVE status = "focusing"
    BY <1>1, <2>3, StoreAssumption DEF Answered, TimerInv, SaverOrTimers
  <2>4. status \in {"focusing", "paused"}
    BY <1>1, <2>2, <2>3 DEF Next, Elapse, CompleteBreak, ResetToIdle, CompleteFocus,
         SaveFailed, Store, Kill, timerVars, vars
  <2>5. QED BY <2>1, <2>4
<1>2. TimerInv /\ [Next]_vars =>
        [status # "breaking" /\ status' = "breaking"
          => status \in {"focusing", "paused"}
             /\ (status = "focusing" => expired \/ saver = None)]_vars
  BY <1>1
<1>3. QED BY <1>2, TimerInvariant, PTL DEF Spec, BreakFollowsFocus

\* The exclusion of the store holds while the timer uses it.
THEOREM TimerRunsAlone == Spec => []RunsAlone
<1>1. TimerInv => RunsAlone
  BY ExclusionFollows DEF TimerInv
<1>2. QED BY <1>1, TimerInvariant, PTL

-----------------------------------------------------------------------------
(***************************************************************************)
(* The refinement: what a store makes of its data between the steps of its *)
(* operations.                                                             *)
(***************************************************************************)

Busy(c) == call[c].at \in {"ready", "writing", "undoing", "restoring"}

\* The mutation that c carries out.
Mutation(c) == [op |-> call[c].op, key |-> call[c].key, arg |-> call[c].arg]

Mutating(c)  == Mutation(c) \in Mutations
Importing(c) == IsImport(c) /\ call[c].key = None /\ call[c].arg \in Backups
Exporting(c) == call[c].op = "exportBackup" /\ call[c].key = None

\* What c writes follows from what it found.
MutationPlanned(c) ==
  /\ Mutating(c) /\ call[c].at \in {"ready", "writing"}
  /\ DOMAIN call[c].before = {call[c].key}
  /\ call[c].plan[call[c].key] = Outcome(call[c], call[c].before[call[c].key])

ImportPlanned(c) ==
  LET b == call[c].arg
      snapshot == DOMAIN call[c].before
  IN  /\ Importing(c)
      /\ ListedIn(b) \subseteq snapshot /\ snapshot \subseteq Key
      /\ \A k \in snapshot :
           /\ k \in ListedIn(b) =>
                call[c].plan[k] = ImportedValue(b, call[c].op, k, call[c].before[k])
           /\ k \notin ListedIn(b) => call[c].plan[k] = None /\ call[c].op = "replace"
      /\ call[c].op = "replace" => \A k \in Key \ snapshot : cache[k] = None

\* Key k has the old value of c, the new one, or an import that failed has not
\* come back to it yet.
HasOld(c, k) ==
  cache[k] = call[c].before[k] /\ (k \in unsaved \/ disk[k] = call[c].before[k])
HasNew(c, k) ==
  cache[k] = call[c].plan[k] /\ (k \in unsaved \/ disk[k] = call[c].plan[k])
InDoubt(c, k) ==
  /\ cache[k] = call[c].before[k] \/ cache[k] = call[c].plan[k]
  /\ \/ k \in unsaved \/ disk[k] = call[c].before[k]
     \/ disk[k] = call[c].plan[k] /\ cache[k] = call[c].plan[k]

BeingWritten(c, k) ==
  cache[k] = call[c].plan[k] /\ (k \in unsaved \/ disk[k] = call[c].before[k])
BeingRestored(c, k) ==
  /\ cache[k] = call[c].before[k]
  /\ k \in unsaved \/ disk[k] = call[c].before[k] \/ disk[k] = call[c].plan[k]

\* How far c has come with the keys of its snapshot.
Forward(c) ==
  \A k \in DOMAIN call[c].before :
    /\ k \notin call[c].todo => HasNew(c, k)
    /\ k \in call[c].todo =>
         IF At(c, "writing") /\ k = call[c].writing THEN BeingWritten(c, k)
                                                    ELSE HasOld(c, k)

Backward(c) ==
  \A k \in DOMAIN call[c].before :
    /\ k \notin call[c].todo => HasOld(c, k)
    /\ k \in call[c].todo =>
         IF At(c, "restoring") /\ k = call[c].writing THEN BeingRestored(c, k)
                                                      ELSE InDoubt(c, k)

Working(c) ==
  /\ MutationPlanned(c) \/ ImportPlanned(c)
  /\ call[c].todo # {} /\ call[c].todo \subseteq DOMAIN call[c].before
  /\ At(c, "writing") \/ At(c, "restoring") => call[c].writing \in call[c].todo
  /\ At(c, "ready") \/ At(c, "writing") => Forward(c)
  /\ At(c, "undoing") \/ At(c, "restoring") => Backward(c)

CallData(c) ==
  /\ call[c].at \in Stages
  /\ Pending(c) => Mutating(c) \/ Importing(c) \/ Exporting(c)
  /\ ~Busy(c) => call[c].before = <<>>
  /\ At(c, "loaded") =>
       /\ Importing(c)
       /\ call[c].plan = [k \in ListedIn(call[c].arg) |->
                            ImportedValue(call[c].arg, call[c].op, k, cache[k])]
  /\ Busy(c) => Working(c)

\* Nobody is at work on key k.
Free(k) == \A c \in Call : k \notin DOMAIN call[c].before

FreeKeysSaved == \A k \in Key : Free(k) => k \in unsaved \/ disk[k] = cache[k]

DataShape ==
  /\ cache = [k \in Key |-> cache[k]] /\ disk = [k \in Key |-> disk[k]]
  /\ torn \in BOOLEAN

StoreInv ==
  Excludes /\ DataShape /\ FreeKeysSaved /\ \A c \in Call : CallData(c)
\* What a step leaves of operation e, whose barriers may shrink.
SameCall(e) ==
  /\ call'[e].op = call[e].op /\ call'[e].key = call[e].key /\ call'[e].arg = call[e].arg
  /\ call'[e].at = call[e].at /\ call'[e].plan = call[e].plan
  /\ call'[e].before = call[e].before /\ call'[e].todo = call[e].todo
  /\ call'[e].writing = call[e].writing

LEMMA MutationFacts ==
  ASSUME NEW m \in Mutations
  PROVE  m.op \notin Modes /\ m.op # "exportBackup" /\ m.key \in Key
BY DEF Mutations, Modes, Key

LEMMA Kinds ==
  ASSUME NEW c
  PROVE  /\ Mutating(c) => ~IsImport(c) /\ ~Exporting(c) /\ call[c].key \in Key
         /\ Exporting(c) => ~IsImport(c) /\ IsScopeOp(call[c].op)
         /\ IsImport(c) => IsScopeOp(call[c].op)
<1>1. Mutating(c) => Mutation(c).op = call[c].op /\ Mutation(c).key = call[c].key
  BY DEF Mutation
<1>2. Mutating(c) => ~IsImport(c) /\ ~Exporting(c) /\ call[c].key \in Key
  BY <1>1, MutationFacts DEF Mutating, IsImport, Exporting
<1>3. Exporting(c) => ~IsImport(c) /\ IsScopeOp(call[c].op)
  BY DEF Exporting, IsImport, IsScopeOp, Modes
<1>4. QED BY <1>2, <1>3 DEF IsImport, IsScopeOp

LEMMA EmptyDomain == DOMAIN <<>> = {}
OBVIOUS

\* A snapshot belongs to an operation at work, and names keys of the scope.
LEMMA SnapshotFacts ==
  ASSUME NEW c, CallData(c)
  PROVE  /\ DOMAIN call[c].before \subseteq Key
         /\ \A k \in DOMAIN call[c].before : Busy(c) /\ Running(c)
         /\ ~Running(c) => call[c].before = <<>>
         /\ Mutating(c) => DOMAIN call[c].before \subseteq {call[c].key}
<1>1. CASE Busy(c)
  <2>1. MutationPlanned(c) \/ ImportPlanned(c) BY <1>1 DEF CallData, Working
  <2>2. Running(c) BY <1>1 DEF Busy, Running
  <2>3. CASE MutationPlanned(c)
    <3>1. call[c].key \in Key /\ DOMAIN call[c].before = {call[c].key}
      BY <2>3, Kinds DEF MutationPlanned
    <3>2. QED BY <1>1, <2>2, <3>1
  <2>4. CASE ImportPlanned(c)
    <3>1. ~Mutating(c) /\ DOMAIN call[c].before \subseteq Key
      BY <2>4, Kinds DEF ImportPlanned, Importing
    <3>2. QED BY <1>1, <2>2, <3>1
  <2>5. QED BY <2>1, <2>3, <2>4
<1>2. CASE ~Busy(c)
  BY <1>2, EmptyDomain DEF CallData
<1>3. QED BY <1>1, <1>2

\* An import at work is alone at work.
LEMMA ImportsAlone ==
  ASSUME StoreInv, NEW c \in Call, Running(c), IsImport(c), NEW e \in Call, e # c
  PROVE  ~Running(e) /\ ~Released(e) /\ call[e].before = <<>>
<1>1. RunsAlone BY ExclusionFollows DEF StoreInv
<1>2. IsScopeOp(call[c].op) BY Kinds
<1>3. ~Running(e) /\ ~Released(e) BY <1>1, <1>2 DEF RunsAlone
<1>4. QED BY <1>3, SnapshotFacts DEF StoreInv

\* No key is in two snapshots.
LEMMA SnapshotsApart ==
  ASSUME StoreInv, NEW c \in Call, NEW d \in Call, NEW k,
         k \in DOMAIN call[c].before, k \in DOMAIN call[d].before
  PROVE  c = d
<1>1. SUFFICES ASSUME c # d PROVE FALSE OBVIOUS
<1>2. CallData(c) /\ CallData(d) BY DEF StoreInv
<1>3. Busy(c) /\ Busy(d) /\ Running(c) /\ Running(d) BY <1>2, SnapshotFacts
<1>4. RunsAlone BY ExclusionFollows DEF StoreInv
<1>5. /\ ~IsScopeOp(call[c].op) /\ ~IsScopeOp(call[d].op)
      /\ DayOf(call[c].key) # DayOf(call[d].key)
  BY <1>1, <1>3, <1>4 DEF RunsAlone
<1>6. Mutating(c) /\ Mutating(d)
  BY <1>2, <1>3, <1>5, Kinds DEF CallData, Working, MutationPlanned, ImportPlanned, Importing
<1>7. k = call[c].key /\ k = call[d].key
  BY <1>2, <1>6, SnapshotFacts
<1>8. QED BY <1>5, <1>7

\* A key that a released mutation, or an import, is about to read is free.
LEMMA ReleasedIsFree ==
  ASSUME StoreInv, NEW c \in Call, Released(c), Mutating(c)
  PROVE  Free(call[c].key)
<1>1. SUFFICES ASSUME NEW e \in Call, call[c].key \in DOMAIN call[e].before PROVE FALSE
  BY DEF Free
<1>2. CallData(e) /\ CallData(c) BY DEF StoreInv
<1>3. Busy(e) /\ Running(e) BY <1>1, <1>2, SnapshotFacts
<1>4. e # c BY <1>3 DEF Busy, Released, At
<1>5. RunsAlone BY ExclusionFollows DEF StoreInv
<1>6. ~IsScopeOp(call[e].op) /\ DayOf(call[e].key) # DayOf(call[c].key)
  BY <1>3, <1>4, <1>5 DEF RunsAlone
<1>7. Mutating(e)
  BY <1>2, <1>3, <1>6, Kinds DEF CallData, Working, MutationPlanned, ImportPlanned, Importing
<1>8. call[c].key = call[e].key BY <1>1, <1>2, <1>7, SnapshotFacts
<1>9. QED BY <1>6, <1>8

\* The data between operations.
LEMMA DataIs ==
  StoreInv => \A k \in Key :
                /\ Free(k) => Data[k] = cache[k]
                /\ \A c \in Call : k \in DOMAIN call[c].before => Data[k] = call[c].before[k]
<1> SUFFICES ASSUME StoreInv, NEW k \in Key
             PROVE  /\ Free(k) => Data[k] = cache[k]
                    /\ \A c \in Call : k \in DOMAIN call[c].before => Data[k] = call[c].before[k]
  OBVIOUS
<1>1. Data[k] = IF \E c \in Call : k \in DOMAIN call[c].before
                  THEN call[CHOOSE c \in Call : k \in DOMAIN call[c].before].before[k]
                  ELSE cache[k]
  BY DEF Data
<1>2. ASSUME Free(k) PROVE Data[k] = cache[k]
  BY <1>1, <1>2 DEF Free
<1>3. ASSUME NEW c \in Call, k \in DOMAIN call[c].before
      PROVE  Data[k] = call[c].before[k]
  <2>1. \A d \in Call : k \in DOMAIN call[d].before => d = c
    BY <1>3, SnapshotsApart
  <2>2. (CHOOSE d \in Call : k \in DOMAIN call[d].before) = c
    BY <1>3, <2>1
  <2>3. QED BY <1>1, <1>3, <2>2
<1>4. QED BY <1>2, <1>3

LEMMA DataIsFunction == Data = [k \in Key |-> Data[k]]
BY DEF Data

-----------------------------------------------------------------------------
\* What is true of an operation stays true while it and its keys are left
\* alone.
LEMMA KeepsCall ==
  ASSUME NEW e, CallData(e), SameCall(e),
         \A k \in DOMAIN call[e].before :
           cache'[k] = cache[k] /\ disk'[k] = disk[k] /\ (k \in unsaved' <=> k \in unsaved),
         IsImport(e) /\ Running(e) => \A k \in Key : cache'[k] = cache[k]
  PROVE  CallData(e)'
<1>1. /\ \A stage : At(e, stage)' <=> At(e, stage)
      /\ Busy(e)' <=> Busy(e)
      /\ Pending(e)' <=> Pending(e)
      /\ Mutating(e)' <=> Mutating(e)
      /\ Importing(e)' <=> Importing(e)
      /\ Exporting(e)' <=> Exporting(e)
      /\ DOMAIN call'[e].before = DOMAIN call[e].before
  BY DEF SameCall, At, Busy, Pending, Mutating, Mutation, Importing, IsImport, Exporting
<1>2. \A k \in DOMAIN call[e].before :
        /\ HasOld(e, k)' <=> HasOld(e, k)
        /\ HasNew(e, k)' <=> HasNew(e, k)
        /\ InDoubt(e, k)' <=> InDoubt(e, k)
        /\ BeingWritten(e, k)' <=> BeingWritten(e, k)
        /\ BeingRestored(e, k)' <=> BeingRestored(e, k)
  BY DEF SameCall, HasOld, HasNew, InDoubt, BeingWritten, BeingRestored
<1>3. Forward(e)' <=> Forward(e)
  BY <1>1, <1>2 DEF Forward, SameCall
<1>4. Backward(e)' <=> Backward(e)
  BY <1>1, <1>2 DEF Backward, SameCall
<1>5. ASSUME Busy(e), MutationPlanned(e) PROVE MutationPlanned(e)'
  <2>1. Outcome(call'[e], call'[e].before[call[e].key])
          = Outcome(call[e], call[e].before[call[e].key])
    BY DEF Outcome, SameCall
  <2>2. QED BY <1>1, <1>5, <2>1 DEF MutationPlanned, SameCall
<1>6. ASSUME Busy(e), ImportPlanned(e) PROVE ImportPlanned(e)'
  <2>1. \A k \in Key : cache'[k] = cache[k]
    BY <1>6 DEF ImportPlanned, Importing, Busy, Running
  <2>2. QED BY <1>1, <1>6, <2>1 DEF ImportPlanned, SameCall
<1>7. ASSUME Busy(e) PROVE Working(e)'
  <2>1. Working(e) BY <1>7 DEF CallData
  <2>2. MutationPlanned(e)' \/ ImportPlanned(e)' BY <1>5, <1>6, <1>7, <2>1 DEF Working
  <2>3. QED BY <1>1, <1>3, <1>4, <2>1, <2>2 DEF Working, SameCall
<1>8. ASSUME At(e, "loaded")
      PROVE  /\ Importing(e)'
             /\ call'[e].plan = [k \in ListedIn(call'[e].arg) |->
                  ImportedValue(call'[e].arg, call'[e].op, k, cache'[k])]
  <2>1. /\ Importing(e)
        /\ call[e].plan = [k \in ListedIn(call[e].arg) |->
                             ImportedValue(call[e].arg, call[e].op, k, cache[k])]
    BY <1>8 DEF CallData
  <2>2. \A k \in ListedIn(call[e].arg) : cache'[k] = cache[k]
    BY <1>8, <2>1 DEF Importing, At, Running, ListedIn
  <2>3. QED BY <1>1, <2>1, <2>2 DEF SameCall
<1>9. QED BY <1>1, <1>7, <1>8 DEF CallData, SameCall

\* A step of operation c touches only keys of its snapshot.
Local(c) ==
  \A k \in Key : k \notin DOMAIN call[c].before =>
    cache'[k] = cache[k] /\ disk'[k] = disk[k] /\ (k \in unsaved' <=> k \in unsaved)

LEMMA Combine ==
  ASSUME StoreInv, Excludes', NEW c \in Call, \A e \in Call \ {c} : SameCall(e),
         DataShape', CallData(c)', Running(c) \/ UNCHANGED <<cache, disk, unsaved>>,
         Local(c),
         \A k \in DOMAIN call[c].before : k \notin DOMAIN call'[c].before =>
           k \in unsaved' \/ disk'[k] = cache'[k]
  PROVE  StoreInv'
<1>1. ASSUME NEW e \in Call \ {c} PROVE CallData(e)'
  <2>1. CallData(e) /\ CallData(c) BY DEF StoreInv
  <2>2. ASSUME NEW k \in DOMAIN call[e].before
        PROVE  cache'[k] = cache[k] /\ disk'[k] = disk[k] /\ (k \in unsaved' <=> k \in unsaved)
    <3>1. k \in Key BY <2>1, SnapshotFacts
    <3>2. k \notin DOMAIN call[c].before BY SnapshotsApart
    <3>3. QED BY <3>1, <3>2 DEF Local
  <2>3. ASSUME IsImport(e), Running(e), NEW k \in Key PROVE cache'[k] = cache[k]
    <3>1. ~Running(c) BY <2>3, ImportsAlone
    <3>2. QED BY <3>1
  <2>4. QED BY <2>1, <2>2, <2>3, KeepsCall
<1>2. FreeKeysSaved'
  <2>1. SUFFICES ASSUME NEW k \in Key, Free(k)'
                 PROVE  k \in unsaved' \/ disk'[k] = cache'[k]
    BY DEF FreeKeysSaved
  <2>2. CASE k \in DOMAIN call[c].before BY <2>1, <2>2 DEF Free
  <2>3. CASE k \notin DOMAIN call[c].before
    <3>1. Free(k) BY <2>1, <2>3 DEF Free, SameCall
    <3>2. QED BY <2>3, <3>1 DEF Local, StoreInv, FreeKeysSaved
  <2>4. QED BY <2>2, <2>3
<1>3. QED BY <1>1, <1>2 DEF StoreInv


-----------------------------------------------------------------------------
(***************************************************************************)
(* What the pieces of a step make of the operations.                       *)
(***************************************************************************)
LEMMA GoOnIs ==
  ASSUME Excludes, NEW c \in Call, NEW stage, NEW plan, NEW before, NEW todo, NEW writing,
         GoOn(c, stage, plan, before, todo, writing)
  PROVE  /\ call'[c].op = call[c].op /\ call'[c].key = call[c].key
         /\ call'[c].arg = call[c].arg /\ call'[c].at = stage
         /\ call'[c].plan = plan /\ call'[c].before = before
         /\ call'[c].todo = todo /\ call'[c].writing = writing
         /\ \A e \in Call \ {c} : SameCall(e)
BY DEF GoOn, Excludes, Shape, SameCall

LEMMA FinishIs ==
  ASSUME Excludes, NEW c \in Call, Finish(c)
  PROVE  /\ call'[c].at = "idle" /\ call'[c].before = <<>>
         /\ \A e \in Call \ {c} : SameCall(e)
<1>1. call'[c] = NoCall
  BY DEF Finish
<1>2. ASSUME NEW e \in Call \ {c} PROVE SameCall(e)
  <2>1. call'[e] = [call[e] EXCEPT !.barrier = @ \ {c}]
    BY DEF Finish
  <2>2. call[e] = [op |-> call[e].op, key |-> call[e].key, arg |-> call[e].arg,
                   at |-> call[e].at, barrier |-> call[e].barrier,
                   plan |-> call[e].plan, before |-> call[e].before,
                   todo |-> call[e].todo, writing |-> call[e].writing]
    BY DEF Excludes, Shape
  <2>3. QED BY <2>1, <2>2 DEF SameCall
<1>3. QED BY <1>1, <1>2 DEF NoCall

LEMMA IdleData ==
  ASSUME NEW c, call'[c].at = "idle", call'[c].before = <<>>
  PROVE  CallData(c)'
BY DEF CallData, Pending, Busy, At, Stages

LEMMA ShapeOfWrite ==
  ASSUME DataShape, NEW k,
         cache' = cache \/ \E v : cache' = [cache EXCEPT ![k] = v],
         disk' = disk \/ \E v : disk' = [disk EXCEPT ![k] = v],
         torn' \in BOOLEAN
  PROVE  DataShape'
<1>1. cache' = [j \in Key |-> cache'[j]] BY DEF DataShape
<1>2. disk' = [j \in Key |-> disk'[j]] BY DEF DataShape
<1>3. QED BY <1>1, <1>2 DEF DataShape

\* An operation is submitted.
LEMMA EntersData ==
  ASSUME StoreInv, Excludes', NEW c \in Call, NEW op, NEW key, NEW arg, NEW B,
         Enter(c, op, key, arg, B),
         \/ [op |-> op, key |-> key, arg |-> arg] \in Mutations
         \/ op \in Modes /\ key = None /\ arg \in Backups
         \/ op = "exportBackup" /\ key = None
  PROVE  /\ StoreInv'
         /\ UNCHANGED <<cache, disk, unsaved, torn>>
         /\ call[c].before = <<>> /\ call'[c].before = <<>>
         /\ \A e \in Call \ {c} : SameCall(e)
<1>1. /\ call'[c].op = op /\ call'[c].key = key /\ call'[c].arg = arg
      /\ call'[c].at = "waiting" /\ call'[c].before = <<>>
      /\ \A e \in Call \ {c} : SameCall(e)
  BY DEF Enter, StoreInv, Excludes, Shape, SameCall
<1>2. cache' = cache /\ disk' = disk /\ unsaved' = unsaved /\ torn' = torn
  BY DEF Enter
<1>3. call[c].before = <<>>
  BY DEF Enter, At, Busy, StoreInv, CallData
<1>4. Mutating(c)' \/ Importing(c)' \/ Exporting(c)'
  BY <1>1 DEF Mutating, Mutation, Importing, IsImport, Exporting
<1>5. CallData(c)'
  BY <1>1, <1>4 DEF CallData, Busy, At, Stages
<1>6. DataShape' /\ Local(c)
  BY <1>2 DEF StoreInv, DataShape, Local
<1>7. \A k \in DOMAIN call[c].before : k \notin DOMAIN call'[c].before =>
           k \in unsaved' \/ disk'[k] = cache'[k]
  BY <1>1, <1>3
<1>8. StoreInv'
  BY <1>1, <1>2, <1>5, <1>6, <1>7, Combine
<1>9. QED BY <1>1, <1>2, <1>3, <1>8

LEMMA MutationFields ==
  ASSUME NEW m \in Mutations
  PROVE  [op |-> m.op, key |-> m.key, arg |-> m.arg] \in Mutations
BY DEF Mutations

LEMMA SubmitsData ==
  ASSUME StoreInv, Excludes', NEW c \in Call,
         Submit(c) \/ \E d \in Day : AddFocusSession(c, d)
  PROVE  /\ StoreInv'
         /\ UNCHANGED <<cache, disk, unsaved, torn>>
         /\ call[c].before = <<>> /\ call'[c].before = <<>>
         /\ \A e \in Call \ {c} : SameCall(e)
<1>1. PICK op, key, arg, B :
        /\ Enter(c, op, key, arg, B)
        /\ \/ [op |-> op, key |-> key, arg |-> arg] \in Mutations
           \/ op \in Modes /\ key = None /\ arg \in Backups
           \/ op = "exportBackup" /\ key = None
  <2>1. CASE SubmitMutation(c)
    <3>1. PICK m \in Mutations : \E B : Enter(c, m.op, m.key, m.arg, B)
      BY <2>1 DEF SubmitMutation, RunScope, RunDate
    <3>2. QED BY <3>1, MutationFields
  <2>2. CASE ExportBackup(c)
    <3>1. \E B : Enter(c, "exportBackup", None, None, B)
      BY <2>2 DEF ExportBackup, RunScope
    <3>2. QED BY <3>1
  <2>3. ASSUME NEW b \in Backups, NEW mode \in Modes, ImportBackup(c, b, mode)
        PROVE  \E B : Enter(c, mode, None, b, B)
    BY <2>3 DEF ImportBackup, RunScope
  <2>4. ASSUME NEW d \in Day, AddFocusSession(c, d)
        PROVE  /\ \E B : Enter(c, "addFocusSession", RecordKey(d), None, B)
               /\ [op |-> "addFocusSession", key |-> RecordKey(d), arg |-> None] \in Mutations
    BY <2>4 DEF AddFocusSession, RunDate, Mutations
  <2>5. QED BY <2>1, <2>2, <2>3, <2>4 DEF Submit
<1>2. QED BY <1>1, EntersData

\* An export reads, and is done.
LEMMA ExportsData ==
  ASSUME StoreInv, Excludes', NEW c \in Call, Export(c)
  PROVE  /\ StoreInv'
         /\ UNCHANGED <<cache, disk, unsaved, torn>>
         /\ call[c].before = <<>> /\ call'[c].before = <<>>
         /\ \A e \in Call \ {c} : SameCall(e)
<1>1. /\ call'[c].at = "idle" /\ call'[c].before = <<>>
      /\ \A e \in Call \ {c} : SameCall(e)
  BY FinishIs DEF Export, StoreInv
<1>2. cache' = cache /\ disk' = disk /\ unsaved' = unsaved /\ torn' = torn
  BY DEF Export
<1>3. call[c].before = <<>>
  BY DEF Export, Released, At, Busy, StoreInv, CallData
<1>4. CallData(c)' BY <1>1, IdleData
<1>5. DataShape' /\ Local(c)
  BY <1>2 DEF StoreInv, DataShape, Local
<1>6. StoreInv' BY <1>1, <1>2, <1>3, <1>4, <1>5, Combine
<1>7. QED BY <1>1, <1>2, <1>3, <1>6

\* An import has read the tasks it merges with.
LEMMA LoadsTasks ==
  ASSUME StoreInv, Excludes', NEW c \in Call, LoadTasks(c)
  PROVE  /\ StoreInv'
         /\ UNCHANGED <<cache, disk, unsaved, torn>>
         /\ call[c].before = <<>> /\ call'[c].before = <<>>
         /\ \A e \in Call \ {c} : SameCall(e)
<1>1. /\ call'[c].op = call[c].op /\ call'[c].key = call[c].key
      /\ call'[c].arg = call[c].arg /\ call'[c].at = "loaded"
      /\ call'[c].plan = [k \in ListedIn(call[c].arg) |->
                            ImportedValue(call[c].arg, call[c].op, k, cache[k])]
      /\ call'[c].before = <<>>
      /\ \A e \in Call \ {c} : SameCall(e)
  BY GoOnIs DEF LoadTasks, StoreInv
<1>2. cache' = cache /\ disk' = disk /\ unsaved' = unsaved /\ torn' = torn
  BY DEF LoadTasks
<1>3. call[c].before = <<>> /\ Importing(c)
  BY Kinds DEF LoadTasks, Released, At, Busy, StoreInv, CallData, Pending
<1>4. Importing(c)'
  BY <1>1, <1>3 DEF Importing, IsImport
<1>5. CallData(c)'
  BY <1>1, <1>2, <1>4 DEF CallData, Busy, At, Stages
<1>6. DataShape' /\ Local(c)
  BY <1>2 DEF StoreInv, DataShape, Local
<1>7. StoreInv' BY <1>1, <1>2, <1>3, <1>5, <1>6, Combine
<1>8. QED BY <1>1, <1>2, <1>3, <1>7

\* A mutation has read its key.
LEMMA LoadsKey ==
  ASSUME StoreInv, Excludes', NEW c \in Call, LoadKey(c)
  PROVE  /\ StoreInv'
         /\ UNCHANGED <<cache, disk, unsaved, torn>>
         /\ call[c].before = <<>>
         /\ \A k \in DOMAIN call'[c].before :
              k \in Key /\ Free(k) /\ call'[c].before[k] = cache[k]
         /\ \A e \in Call \ {c} : SameCall(e)
<1> DEFINE k == call[c].key
           plan == [j \in {k} |-> Outcome(call[c], cache[k])]
           before == [j \in {k} |-> cache[k]]
<1>1. /\ call'[c].op = call[c].op /\ call'[c].key = k
      /\ call'[c].arg = call[c].arg /\ call'[c].at = "ready"
      /\ call'[c].plan = plan /\ call'[c].before = before /\ call'[c].todo = {k}
      /\ \A e \in Call \ {c} : SameCall(e)
  BY GoOnIs DEF LoadKey, StoreInv
<1>2. cache' = cache /\ disk' = disk /\ unsaved' = unsaved /\ torn' = torn
  BY DEF LoadKey
<1>3. call[c].before = <<>> /\ Released(c) /\ k # None
  BY DEF LoadKey, Released, At, Busy, StoreInv, CallData
<1>4. Mutating(c)
  BY <1>3 DEF Released, At, StoreInv, CallData, Pending, Importing, Exporting
<1>5. k \in Key /\ Free(k)
  BY <1>3, <1>4, Kinds, ReleasedIsFree
<1>6. DOMAIN before = {k} /\ before[k] = cache[k] /\ plan[k] = Outcome(call[c], cache[k])
  OBVIOUS
<1>7. k \in unsaved \/ disk[k] = cache[k]
  BY <1>5 DEF StoreInv, FreeKeysSaved
<1>8. Mutating(c)'
  BY <1>1, <1>4 DEF Mutating, Mutation
<1>9. Outcome(call'[c], cache[k]) = Outcome(call[c], cache[k])
  BY <1>1 DEF Outcome
<1> HIDE DEF plan, before
<1>10. MutationPlanned(c)'
  BY <1>1, <1>6, <1>8, <1>9 DEF MutationPlanned
<1>11. Forward(c)'
  BY <1>1, <1>2, <1>6, <1>7 DEF Forward, At, HasOld
<1>12. Working(c)'
  BY <1>1, <1>6, <1>10, <1>11 DEF Working, At
<1>13. CallData(c)'
  BY <1>1, <1>8, <1>12 DEF CallData, Busy, At, Stages
<1>14. DataShape' /\ Local(c)
  BY <1>2 DEF StoreInv, DataShape, Local
<1>15. StoreInv' BY <1>1, <1>2, <1>3, <1>13, <1>14, Combine
<1>16. QED BY <1>1, <1>2, <1>3, <1>5, <1>6, <1>15

\* An import has taken its snapshot.
LEMMA TakesSnapshot ==
  ASSUME StoreInv, Excludes', NEW c \in Call, Snapshot(c)
  PROVE  /\ StoreInv'
         /\ UNCHANGED <<cache, disk, unsaved, torn>>
         /\ call[c].before = <<>>
         /\ \A k \in DOMAIN call'[c].before :
              k \in Key /\ Free(k) /\ call'[c].before[k] = cache[k]
         /\ \A e \in Call \ {c} : SameCall(e)
<1> DEFINE b == call[c].arg
           values == call[c].plan
           touched == Touched(b, call[c].op, cache)
           plan == [k \in touched |-> IF k \in DOMAIN values THEN values[k] ELSE None]
           before == [k \in touched |-> cache[k]]
<1>1. /\ call'[c].op = call[c].op /\ call'[c].key = call[c].key
      /\ call'[c].arg = b /\ call'[c].at = "ready"
      /\ call'[c].plan = plan /\ call'[c].before = before /\ call'[c].todo = touched
      /\ \A e \in Call \ {c} : SameCall(e)
  BY GoOnIs DEF Snapshot, StoreInv
<1>2. cache' = cache /\ disk' = disk /\ unsaved' = unsaved /\ torn' = torn
  BY DEF Snapshot
<1>3. /\ call[c].before = <<>> /\ Importing(c) /\ Running(c)
      /\ values = [k \in ListedIn(b) |-> ImportedValue(b, call[c].op, k, cache[k])]
  BY DEF Snapshot, At, Busy, Running, StoreInv, CallData
<1>4. /\ ListedIn(b) \subseteq touched /\ touched \subseteq Key
      /\ \A k \in touched : k \notin ListedIn(b) => call[c].op = "replace"
      /\ call[c].op = "replace" => \A k \in Key \ touched : cache[k] = None
  BY DEF Touched, ListedIn
<1>5. SettingsKey \in touched
  BY <1>3, <1>4, RecordsAssumption DEF Importing, IsBackup, ListedIn, Key
<1>6. ASSUME NEW k \in touched
      PROVE  /\ before[k] = cache[k]
             /\ k \in ListedIn(b) => plan[k] = ImportedValue(b, call[c].op, k, cache[k])
             /\ k \notin ListedIn(b) => plan[k] = None
  BY <1>3
<1>7. DOMAIN before = touched OBVIOUS
<1>8. ASSUME NEW k \in touched PROVE k \in Key /\ Free(k)
  <2>1. \A e \in Call : call[e].before = <<>>
    BY <1>3, ImportsAlone DEF Importing
  <2>2. QED BY <1>4, <2>1, EmptyDomain DEF Free
<1> HIDE DEF plan, before, touched, values
<1>9. \A k \in touched : k \in unsaved \/ disk[k] = cache[k]
  BY <1>8 DEF StoreInv, FreeKeysSaved
<1>10. Importing(c)'
  BY <1>1, <1>3 DEF Importing, IsImport
<1>11. ImportPlanned(c)'
  BY <1>1, <1>2, <1>4, <1>6, <1>7, <1>10 DEF ImportPlanned
<1>12. Forward(c)'
  BY <1>1, <1>2, <1>6, <1>7, <1>9 DEF Forward, At, HasOld
<1>13. Working(c)'
  BY <1>1, <1>5, <1>7, <1>11, <1>12 DEF Working, At
<1>14. CallData(c)'
  BY <1>1, <1>10, <1>13 DEF CallData, Busy, At, Stages
<1>15. DataShape' /\ Local(c)
  BY <1>2 DEF StoreInv, DataShape, Local
<1>16. StoreInv' BY <1>1, <1>2, <1>3, <1>14, <1>15, Combine
<1>17. QED BY <1>1, <1>2, <1>3, <1>6, <1>7, <1>8, <1>16

-----------------------------------------------------------------------------
(***************************************************************************)
(* The steps of an operation at work, and those that end it.               *)
(***************************************************************************)
\* Operation c keeps its work.
SameWork(c) ==
  /\ call'[c].op = call[c].op /\ call'[c].key = call[c].key /\ call'[c].arg = call[c].arg
  /\ call'[c].plan = call[c].plan /\ call'[c].before = call[c].before

LEMMA WorksOn ==
  ASSUME NEW c, Busy(c), CallData(c), SameWork(c), Local(c),
         call'[c].at \in {"ready", "writing", "undoing", "restoring"},
         IsImport(c) \/ call'[c].at \in {"ready", "writing"},
         call'[c].todo # {}, call'[c].todo \subseteq DOMAIN call[c].before,
         call'[c].at \in {"writing", "restoring"} => call'[c].writing \in call'[c].todo,
         call'[c].at \in {"ready", "writing"} => Forward(c)',
         call'[c].at \in {"undoing", "restoring"} => Backward(c)'
  PROVE  CallData(c)'
<1>1. Working(c) BY DEF CallData
<1>2. /\ Mutating(c)' <=> Mutating(c)
      /\ Importing(c)' <=> Importing(c)
  BY DEF SameWork, Mutating, Mutation, Importing, IsImport
<1>3. MutationPlanned(c)' \/ ImportPlanned(c)'
  <2>1. CASE MutationPlanned(c)
    <3>1. call'[c].at \in {"ready", "writing"}
      BY <2>1, Kinds DEF MutationPlanned
    <3>2. Outcome(call'[c], call'[c].before[call[c].key])
            = Outcome(call[c], call[c].before[call[c].key])
      BY DEF Outcome, SameWork
    <3>3. QED BY <1>2, <2>1, <3>1, <3>2 DEF MutationPlanned, SameWork
  <2>2. CASE ImportPlanned(c)
    <3>1. \A k \in Key \ DOMAIN call[c].before : cache'[k] = cache[k]
      BY DEF Local
    <3>2. QED BY <1>2, <2>2, <3>1 DEF ImportPlanned, SameWork
  <2>3. QED BY <1>1, <2>1, <2>2 DEF Working
<1>4. Mutating(c)' \/ Importing(c)'
  BY <1>3 DEF MutationPlanned, ImportPlanned
<1>5. Working(c)'
  BY <1>3 DEF Working, At, SameWork
<1>6. QED BY <1>4, <1>5 DEF CallData, Busy, At, Stages

LEMMA FirstOfIn ==
  ASSUME NEW keys, keys \subseteq Key, keys # {}
  PROVE  FirstOf(keys) \in keys
<1>1. \A k \in Key : Rank(k) \in {1, 2, 3}
  BY DEF Key, Rank, RecordKey, TaskKey, SettingsKey
<1>2. \E k \in keys : \A j \in keys : Rank(k) <= Rank(j)
  <2>1. CASE \E k \in keys : Rank(k) = 1
    <3>1. PICK k \in keys : Rank(k) = 1 BY <2>1
    <3>2. \A j \in keys : Rank(k) <= Rank(j) BY <1>1, <3>1
    <3>3. QED BY <3>2
  <2>2. CASE (\A k \in keys : Rank(k) # 1) /\ \E k \in keys : Rank(k) = 2
    <3>1. PICK k \in keys : Rank(k) = 2 BY <2>2
    <3>2. \A j \in keys : Rank(k) <= Rank(j) BY <1>1, <2>2, <3>1
    <3>3. QED BY <3>2
  <2>3. CASE \A k \in keys : Rank(k) # 1 /\ Rank(k) # 2
    <3>1. \A k \in keys : Rank(k) = 3 BY <1>1, <2>3
    <3>2. QED BY <3>1
  <2>4. QED BY <2>1, <2>2, <2>3
<1>3. QED BY <1>2 DEF FirstOf

\* One key of the scope is written.
LEMMA OneKey ==
  ASSUME NEW f, NEW g, f = [j \in Key |-> f[j]], NEW k \in Key, NEW v,
         g = [f EXCEPT ![k] = v]
  PROVE  g[k] = v /\ \A j \in Key : j # k => g[j] = f[j]
<1>1. DOMAIN f = Key OBVIOUS
<1>2. QED BY <1>1

\* A step keeps the snapshot of c, or ends c; it touches no other key.
Continues(c) ==
  /\ call'[c].before = call[c].before
  /\ \A e \in Call \ {c} : SameCall(e)
  /\ Local(c)

Settles(c) ==
  /\ call'[c].at = "idle" /\ call'[c].before = <<>>
  /\ \A e \in Call \ {c} : SameCall(e)
  /\ Local(c)

\* An operation at work, its snapshot, and what it may do.
LEMMA AtWork ==
  ASSUME StoreInv, NEW c \in Call, Busy(c)
  PROVE  /\ Working(c) /\ CallData(c) /\ Running(c)
         /\ call[c].todo \subseteq DOMAIN call[c].before /\ DOMAIN call[c].before \subseteq Key
         /\ call[c].todo # {}
         /\ MutationPlanned(c) \/ ImportPlanned(c)
<1>1. CallData(c) BY DEF StoreInv
<1>2. QED BY <1>1, SnapshotFacts DEF CallData, Working, Busy, Running

LEMMA ContinuesKeeps ==
  ASSUME StoreInv, Excludes', NEW c \in Call, Busy(c), Continues(c), DataShape', CallData(c)'
  PROVE  StoreInv'
BY AtWork, Combine DEF Continues

LEMMA SettlesKeeps ==
  ASSUME StoreInv, Excludes', NEW c \in Call, Busy(c), Settles(c), DataShape',
         \A k \in DOMAIN call[c].before : k \in unsaved' \/ disk'[k] = cache'[k]
  PROVE  StoreInv'
BY AtWork, IdleData, Combine DEF Settles

\* The next key of an operation is written to the cache.
LEMMA WritesKey ==
  ASSUME StoreInv, Excludes', NEW c \in Call, Write(c)
  PROVE  /\ StoreInv' /\ Continues(c)
         /\ UNCHANGED <<disk, unsaved, torn>>
<1>1. PICK k : /\ cache' = [cache EXCEPT ![k] = call[c].plan[k]]
               /\ GoOn(c, "writing", call[c].plan, call[c].before, call[c].todo, k)
               /\ k \in call[c].todo
  <2>1. PICK removals, keys :
          /\ removals = {j \in call[c].todo : call[c].plan[j] = None}
          /\ keys = IF removals # {} THEN removals ELSE call[c].todo
    OBVIOUS
  <2>2. call[c].todo \subseteq Key /\ call[c].todo # {}
    BY AtWork DEF Write, At, Busy
  <2>3. keys \subseteq call[c].todo /\ keys # {} /\ keys \subseteq Key
    BY <2>1, <2>2
  <2>4. FirstOf(keys) \in keys BY <2>3, FirstOfIn
  <2>5. QED BY <2>1, <2>3, <2>4 DEF Write
<1>2. /\ At(c, "ready") /\ Busy(c)
      /\ disk' = disk /\ unsaved' = unsaved /\ torn' = torn
  BY DEF Write, Busy, At
<1>3. /\ call[c].todo \subseteq DOMAIN call[c].before /\ DOMAIN call[c].before \subseteq Key
      /\ Working(c) /\ CallData(c)
  BY <1>2, AtWork
<1>4. /\ SameWork(c) /\ call'[c].at = "writing" /\ call'[c].todo = call[c].todo
      /\ call'[c].writing = k
      /\ \A e \in Call \ {c} : SameCall(e)
  BY <1>1, GoOnIs DEF StoreInv, SameWork
<1>5. k \in Key BY <1>1, <1>3
<1>6. cache'[k] = call[c].plan[k] /\ \A j \in Key : j # k => cache'[j] = cache[j]
  BY <1>1, <1>5, OneKey DEF StoreInv, DataShape
<1>7. Local(c)
  BY <1>1, <1>2, <1>3, <1>6 DEF Local
<1>8. Forward(c) BY <1>2, <1>3 DEF Working
<1>9. Forward(c)'
  BY <1>1, <1>2, <1>3, <1>4, <1>6, <1>8 DEF Forward, At, HasOld, HasNew, BeingWritten, SameWork
<1>10. CallData(c)'
  BY <1>1, <1>2, <1>3, <1>4, <1>7, <1>9, WorksOn
<1>11. Continues(c) BY <1>4, <1>7 DEF Continues, SameWork
<1>12. DataShape'
  BY <1>1, <1>2, ShapeOfWrite DEF StoreInv, DataShape
<1>13. QED BY <1>2, <1>10, <1>11, <1>12, ContinuesKeeps

\* The platform has saved the key.
LEMMA SavesKey ==
  ASSUME StoreInv, Excludes', NEW c \in Call, Saved(c)
  PROVE  /\ StoreInv' /\ Busy(c) /\ At(c, "writing")
         /\ UNCHANGED <<cache, torn>>
         /\ call[c].writing \in DOMAIN call[c].before
         /\ unsaved' = unsaved \ {call[c].writing}
         /\ \/ Continues(c)
            \/ /\ Settles(c)
               /\ \A k \in DOMAIN call[c].before : cache'[k] = call[c].plan[k]
<1> DEFINE w == call[c].writing
<1>1. /\ At(c, "writing") /\ Busy(c)
      /\ cache' = cache /\ torn' = torn
      /\ disk' = [disk EXCEPT ![w] = call[c].plan[w]] /\ unsaved' = unsaved \ {w}
      /\ DoneWith(c, w, "ready")
  BY DEF Saved, Busy, At
<1>2. /\ call[c].todo \subseteq DOMAIN call[c].before /\ DOMAIN call[c].before \subseteq Key
      /\ Working(c) /\ CallData(c)
  BY <1>1, AtWork
<1>3. w \in call[c].todo /\ w \in Key
  BY <1>1, <1>2 DEF Working
<1>4. disk'[w] = call[c].plan[w] /\ \A j \in Key : j # w => disk'[j] = disk[j]
  BY <1>1, <1>3, OneKey DEF StoreInv, DataShape
<1>5. Local(c)
  BY <1>1, <1>2, <1>3, <1>4 DEF Local
<1>6. Forward(c) BY <1>1, <1>2 DEF Working
<1>7. cache[w] = call[c].plan[w] /\ disk'[w] = call[c].plan[w]
  BY <1>1, <1>2, <1>3, <1>4, <1>6 DEF Forward, BeingWritten
<1>8. DataShape'
  BY <1>1, ShapeOfWrite DEF StoreInv, DataShape
<1>9. CASE call[c].todo = {w}
  <2>1. Settles(c)
    BY <1>1, <1>5, <1>9, FinishIs DEF DoneWith, StoreInv, Settles
  <2>2. \A k \in DOMAIN call[c].before : k # w => HasNew(c, k)
    BY <1>6, <1>9 DEF Forward
  <2>3. \A k \in DOMAIN call[c].before :
          cache'[k] = call[c].plan[k] /\ (k \in unsaved' \/ disk'[k] = call[c].plan[k])
    BY <1>1, <1>2, <1>4, <1>7, <2>2 DEF HasNew
  <2>4. StoreInv'
    BY <1>1, <1>8, <2>1, <2>3, SettlesKeeps
  <2>5. QED BY <1>1, <1>2, <1>3, <2>1, <2>3, <2>4
<1>10. CASE call[c].todo # {w}
  <2>1. GoOn(c, "ready", call[c].plan, call[c].before, call[c].todo \ {w}, None)
    BY <1>1, <1>10 DEF DoneWith
  <2>2. /\ SameWork(c) /\ call'[c].at = "ready" /\ call'[c].todo = call[c].todo \ {w}
        /\ \A e \in Call \ {c} : SameCall(e)
    BY <2>1, GoOnIs DEF StoreInv, SameWork
  <2>3. ASSUME NEW k \in DOMAIN call[c].before
        PROVE  /\ k \notin call'[c].todo => HasNew(c, k)'
               /\ k \in call'[c].todo => HasOld(c, k)'
    <3>1. CASE k = w
      BY <1>1, <1>7, <2>2, <3>1 DEF HasNew, SameWork
    <3>2. CASE k # w
      <4>1. /\ k \notin call[c].todo => HasNew(c, k)
            /\ k \in call[c].todo => HasOld(c, k)
        BY <1>6, <3>2 DEF Forward
      <4>2. cache'[k] = cache[k] /\ disk'[k] = disk[k] /\ (k \in unsaved' <=> k \in unsaved)
        BY <1>1, <1>2, <1>4, <3>2
      <4>3. QED BY <2>2, <3>2, <4>1, <4>2 DEF HasNew, HasOld, SameWork
    <3>3. QED BY <3>1, <3>2
  <2>4. Forward(c)'
    BY <2>2, <2>3 DEF Forward, At, SameWork
  <2>5. CallData(c)'
    BY <1>1, <1>2, <1>3, <1>5, <1>10, <2>2, <2>4, WorksOn
  <2>6. Continues(c) BY <1>5, <2>2 DEF Continues, SameWork
  <2>7. QED BY <1>1, <1>2, <1>3, <1>8, <2>5, <2>6, ContinuesKeeps
<1>11. QED BY <1>9, <1>10

\* What a write that failed leaves in the cache.
LEMMA FailedWrite ==
  ASSUME StoreInv, NEW c \in Call, Busy(c), call[c].writing \in DOMAIN call[c].before,
         CacheAfterFailure(c)
  PROVE  /\ cache'[call[c].writing]
              \in {call[c].before[call[c].writing], call[c].plan[call[c].writing]}
         /\ \A j \in Key : j # call[c].writing => cache'[j] = cache[j]
         /\ \E v : cache' = [cache EXCEPT ![call[c].writing] = v]
<1>1. DOMAIN call[c].before \subseteq Key BY AtWork
<1>2. PICK v \in {call[c].plan[call[c].writing], call[c].before[call[c].writing]} :
        cache' = [cache EXCEPT ![call[c].writing] = v]
  BY DEF CacheAfterFailure
<1>3. QED BY <1>1, <1>2, OneKey DEF StoreInv, DataShape

\* The write of a mutation has failed.
LEMMA MutationFailsData ==
  ASSUME StoreInv, Excludes', NEW c \in Call, MutationFails(c)
  PROVE  /\ StoreInv' /\ Busy(c) /\ MutationPlanned(c) /\ Settles(c)
         /\ UNCHANGED torn
         /\ unsaved' = unsaved \cup {call[c].key}
         /\ cache'[call[c].key] \in {call[c].before[call[c].key], call[c].plan[call[c].key]}
<1> DEFINE w == call[c].writing
<1>1. /\ At(c, "writing") /\ Busy(c) /\ ~IsImport(c)
      /\ disk' = disk /\ torn' = torn /\ unsaved' = unsaved \cup {w}
      /\ CacheAfterFailure(c) /\ Finish(c)
  BY DEF MutationFails, Busy, At
<1>2. /\ call[c].todo \subseteq DOMAIN call[c].before /\ DOMAIN call[c].before \subseteq Key
      /\ Working(c) /\ CallData(c)
  BY <1>1, AtWork
<1>3. MutationPlanned(c)
  BY <1>1, <1>2 DEF Working, ImportPlanned, Importing
<1>4. w \in call[c].todo BY <1>1, <1>2 DEF Working
<1>5. w = call[c].key /\ DOMAIN call[c].before = {w}
  BY <1>2, <1>3, <1>4 DEF MutationPlanned
<1>6. /\ cache'[w] \in {call[c].before[w], call[c].plan[w]}
      /\ \A j \in Key : j # w => cache'[j] = cache[j]
      /\ \E v : cache' = [cache EXCEPT ![w] = v]
  BY <1>1, <1>2, <1>4, FailedWrite
<1>7. Local(c) BY <1>1, <1>5, <1>6 DEF Local
<1>8. Settles(c) BY <1>1, <1>7, FinishIs DEF Settles, StoreInv
<1>9. DataShape' BY <1>1, <1>6, ShapeOfWrite DEF StoreInv, DataShape
<1>10. StoreInv' BY <1>1, <1>5, <1>8, <1>9, SettlesKeeps
<1>11. QED BY <1>1, <1>3, <1>5, <1>6, <1>8, <1>10

\* The write of an import has failed: the rollback begins.
LEMMA ImportFailsData ==
  ASSUME StoreInv, Excludes', NEW c \in Call, ImportFails(c)
  PROVE  /\ StoreInv' /\ Continues(c)
         /\ UNCHANGED <<disk, unsaved, torn>>
<1> DEFINE w == call[c].writing
<1>1. /\ At(c, "writing") /\ Busy(c) /\ IsImport(c)
      /\ disk' = disk /\ torn' = torn /\ unsaved' = unsaved
      /\ CacheAfterFailure(c)
      /\ GoOn(c, "undoing", call[c].plan, call[c].before, DOMAIN call[c].before, None)
  BY DEF ImportFails, Busy, At
<1>2. /\ call[c].todo \subseteq DOMAIN call[c].before /\ DOMAIN call[c].before \subseteq Key
      /\ call[c].todo # {} /\ Working(c) /\ CallData(c)
  BY <1>1, AtWork
<1>3. w \in call[c].todo BY <1>1, <1>2 DEF Working
<1>4. /\ cache'[w] \in {call[c].before[w], call[c].plan[w]}
      /\ \A j \in Key : j # w => cache'[j] = cache[j]
      /\ \E v : cache' = [cache EXCEPT ![w] = v]
  BY <1>1, <1>2, <1>3, FailedWrite
<1>5. /\ SameWork(c) /\ call'[c].at = "undoing" /\ call'[c].todo = DOMAIN call[c].before
      /\ \A e \in Call \ {c} : SameCall(e)
  BY <1>1, GoOnIs DEF StoreInv, SameWork
<1>6. Local(c) BY <1>1, <1>2, <1>3, <1>4 DEF Local
<1>7. Forward(c) BY <1>1, <1>2 DEF Working
<1>8. ASSUME NEW k \in DOMAIN call[c].before PROVE InDoubt(c, k)'
  <2>1. CASE k = w
    <3>1. BeingWritten(c, k) BY <1>1, <1>3, <1>7, <2>1 DEF Forward
    <3>2. QED BY <1>1, <1>4, <1>5, <2>1, <3>1 DEF BeingWritten, InDoubt, SameWork
  <2>2. CASE k # w
    <3>1. HasNew(c, k) \/ HasOld(c, k) BY <1>7, <2>2 DEF Forward
    <3>2. QED BY <1>1, <1>2, <1>4, <1>5, <2>2, <3>1 DEF HasNew, HasOld, InDoubt, SameWork
  <2>3. QED BY <2>1, <2>2
<1>9. Backward(c)'
  BY <1>5, <1>8 DEF Backward, At, SameWork
<1>10. CallData(c)'
  BY <1>1, <1>2, <1>5, <1>6, <1>9, WorksOn
<1>11. Continues(c) BY <1>5, <1>6 DEF Continues, SameWork
<1>12. DataShape' BY <1>1, <1>4, ShapeOfWrite DEF StoreInv, DataShape
<1>13. QED BY <1>1, <1>10, <1>11, <1>12, ContinuesKeeps

\* One more key has its old value again: the rollback goes on, or is done.
LEMMA RollsBack ==
  ASSUME StoreInv, Excludes', NEW c \in Call, NEW w, w \in call[c].todo,
         At(c, "undoing") \/ (At(c, "restoring") /\ w = call[c].writing),
         cache' = cache,
         disk' = disk \/ \E v : disk' = [disk EXCEPT ![w] = v],
         unsaved' \subseteq unsaved, unsaved \ {w} \subseteq unsaved', torn' = torn,
         cache[w] = call[c].before[w],
         w \in unsaved' \/ disk'[w] = call[c].before[w],
         DoneWith(c, w, "undoing")
  PROVE  /\ StoreInv'
         /\ \/ Continues(c)
            \/ Settles(c) /\ \A k \in DOMAIN call[c].before : cache'[k] = call[c].before[k]
<1>1. Busy(c) /\ (At(c, "undoing") \/ At(c, "restoring")) /\ ~At(c, "ready") /\ ~At(c, "writing")
  BY DEF Busy, At
<1>2. /\ call[c].todo \subseteq DOMAIN call[c].before /\ DOMAIN call[c].before \subseteq Key
      /\ Working(c) /\ CallData(c)
  BY <1>1, AtWork
<1>3. w \in Key BY <1>2
<1>4. \A j \in Key : j # w => disk'[j] = disk[j] /\ (j \in unsaved' <=> j \in unsaved)
  BY <1>3, OneKey DEF StoreInv, DataShape
<1>5. Local(c) BY <1>2, <1>4 DEF Local
<1>6. Backward(c) BY <1>1, <1>2 DEF Working
<1>7. IsImport(c)
  BY <1>1, <1>2 DEF Working, MutationPlanned, ImportPlanned, Importing, At
<1>8. DataShape'
  BY ShapeOfWrite DEF StoreInv, DataShape
<1>9. CASE call[c].todo = {w}
  <2>1. Settles(c)
    BY <1>5, <1>9, FinishIs DEF DoneWith, StoreInv, Settles
  <2>2. \A k \in DOMAIN call[c].before : k # w => HasOld(c, k)
    BY <1>6, <1>9 DEF Backward
  <2>3. \A k \in DOMAIN call[c].before :
          cache'[k] = call[c].before[k] /\ (k \in unsaved' \/ disk'[k] = call[c].before[k])
    BY <1>2, <1>4, <2>2 DEF HasOld
  <2>4. StoreInv' BY <1>1, <1>8, <2>1, <2>3, SettlesKeeps
  <2>5. QED BY <2>1, <2>3, <2>4
<1>10. CASE call[c].todo # {w}
  <2>1. GoOn(c, "undoing", call[c].plan, call[c].before, call[c].todo \ {w}, None)
    BY <1>10 DEF DoneWith
  <2>2. /\ SameWork(c) /\ call'[c].at = "undoing" /\ call'[c].todo = call[c].todo \ {w}
        /\ \A e \in Call \ {c} : SameCall(e)
    BY <2>1, GoOnIs DEF StoreInv, SameWork
  <2>3. ASSUME NEW k \in DOMAIN call[c].before
        PROVE  /\ k \notin call'[c].todo => HasOld(c, k)'
               /\ k \in call'[c].todo => InDoubt(c, k)'
    <3>1. CASE k = w
      BY <2>2, <3>1 DEF HasOld, SameWork
    <3>2. CASE k # w
      <4>1. /\ k \notin call[c].todo => HasOld(c, k)
            /\ k \in call[c].todo => InDoubt(c, k)
        BY <1>1, <1>6, <3>2 DEF Backward, At
      <4>2. cache'[k] = cache[k] /\ disk'[k] = disk[k] /\ (k \in unsaved' <=> k \in unsaved)
        BY <1>2, <1>4, <3>2
      <4>3. QED BY <2>2, <3>2, <4>1, <4>2 DEF HasOld, InDoubt, SameWork
    <3>3. QED BY <3>1, <3>2
  <2>4. Backward(c)'
    BY <2>2, <2>3 DEF Backward, At, SameWork
  <2>5. call'[c].todo # {} /\ call'[c].todo \subseteq DOMAIN call[c].before
    BY <1>2, <1>10, <2>2
  <2>6. CallData(c)'
    BY <1>1, <1>2, <1>5, <1>7, <2>2, <2>4, <2>5, WorksOn
  <2>7. Continues(c) BY <1>5, <2>2 DEF Continues, SameWork
  <2>8. QED BY <1>1, <1>8, <2>6, <2>7, ContinuesKeeps
<1>11. QED BY <1>9, <1>10

\* The rollback turns to a key, which needs no write, or is written.
LEMMA RestoresKey ==
  ASSUME StoreInv, Excludes', NEW c \in Call, Restore(c)
  PROVE  /\ StoreInv' /\ UNCHANGED <<unsaved, torn>>
         /\ \/ Continues(c)
            \/ Settles(c) /\ \A k \in DOMAIN call[c].before : cache'[k] = call[c].before[k]
<1>1. /\ At(c, "undoing") /\ Busy(c) /\ ~At(c, "writing") /\ ~At(c, "restoring")
      /\ disk' = disk /\ unsaved' = unsaved /\ torn' = torn
  BY DEF Restore, Busy, At
<1>2. /\ call[c].todo \subseteq DOMAIN call[c].before /\ DOMAIN call[c].before \subseteq Key
      /\ call[c].todo # {} /\ call[c].todo \subseteq Key /\ Working(c) /\ CallData(c)
  BY <1>1, AtWork
<1>3. PICK k : k = FirstOf(call[c].todo) OBVIOUS
<1>4. k \in call[c].todo /\ k \in Key /\ k \in DOMAIN call[c].before
  BY <1>2, <1>3, FirstOfIn
<1>5. Backward(c) BY <1>1, <1>2 DEF Working
<1>6. InDoubt(c, k) BY <1>1, <1>4, <1>5 DEF Backward
<1>7. CASE call[c].before[k] = None /\ cache[k] = None
  <2>1. DoneWith(c, k, "undoing") /\ cache' = cache
    BY <1>3, <1>7 DEF Restore
  <2>2. k \in unsaved' \/ disk'[k] = call[c].before[k]
    BY <1>1, <1>6, <1>7 DEF InDoubt
  <2>3. QED BY <1>1, <1>4, <1>7, <2>1, <2>2, RollsBack
<1>8. CASE ~(call[c].before[k] = None /\ cache[k] = None)
  <2>1. /\ cache' = [cache EXCEPT ![k] = call[c].before[k]]
        /\ GoOn(c, "restoring", call[c].plan, call[c].before, call[c].todo, k)
    BY <1>3, <1>8 DEF Restore
  <2>2. /\ SameWork(c) /\ call'[c].at = "restoring" /\ call'[c].todo = call[c].todo
        /\ call'[c].writing = k
        /\ \A e \in Call \ {c} : SameCall(e)
    BY <2>1, GoOnIs DEF StoreInv, SameWork
  <2>3. cache'[k] = call[c].before[k] /\ \A j \in Key : j # k => cache'[j] = cache[j]
    BY <1>4, <2>1, OneKey DEF StoreInv, DataShape
  <2>4. Local(c) BY <1>1, <1>4, <2>3 DEF Local
  <2>5. BeingRestored(c, k)'
    BY <1>1, <1>6, <2>2, <2>3 DEF BeingRestored, InDoubt, SameWork
  <2>6. ASSUME NEW j \in DOMAIN call[c].before, j # k
        PROVE  /\ j \notin call[c].todo => HasOld(c, j)'
               /\ j \in call[c].todo => InDoubt(c, j)'
    <3>1. /\ j \notin call[c].todo => HasOld(c, j)
          /\ j \in call[c].todo => InDoubt(c, j)
      BY <1>1, <1>5 DEF Backward
    <3>2. cache'[j] = cache[j] BY <1>2, <2>3, <2>6
    <3>3. QED BY <1>1, <2>2, <3>1, <3>2 DEF HasOld, InDoubt, SameWork
  <2>7. Backward(c)'
    BY <1>4, <2>2, <2>5, <2>6 DEF Backward, At, SameWork
  <2>8. IsImport(c)
    BY <1>1, <1>2 DEF Working, MutationPlanned, ImportPlanned, Importing, At
  <2>9. CallData(c)'
    BY <1>1, <1>2, <1>4, <2>2, <2>4, <2>7, <2>8, WorksOn
  <2>10. Continues(c) BY <2>2, <2>4 DEF Continues, SameWork
  <2>11. DataShape' BY <1>1, <2>1, ShapeOfWrite DEF StoreInv, DataShape
  <2>12. QED BY <1>1, <2>9, <2>10, <2>11, ContinuesKeeps
<1>9. QED BY <1>7, <1>8

\* The platform has saved an old value.
LEMMA RestoredKey ==
  ASSUME StoreInv, Excludes', NEW c \in Call, Restored(c)
  PROVE  /\ StoreInv' /\ unsaved' \subseteq unsaved /\ UNCHANGED torn
         /\ \/ Continues(c)
            \/ Settles(c) /\ \A k \in DOMAIN call[c].before : cache'[k] = call[c].before[k]
<1> DEFINE w == call[c].writing
<1>1. /\ At(c, "restoring") /\ Busy(c)
      /\ disk' = [disk EXCEPT ![w] = call[c].before[w]] /\ unsaved' = unsaved \ {w}
      /\ DoneWith(c, w, "undoing") /\ cache' = cache /\ torn' = torn
  BY DEF Restored, Busy, At
<1>2. /\ call[c].todo \subseteq DOMAIN call[c].before /\ DOMAIN call[c].before \subseteq Key
      /\ Working(c)
  BY <1>1, AtWork
<1>3. w \in call[c].todo /\ w \in Key BY <1>1, <1>2 DEF Working
<1>4. disk'[w] = call[c].before[w]
  BY <1>1, <1>3, OneKey DEF StoreInv, DataShape
<1>5. cache[w] = call[c].before[w]
  BY <1>1, <1>2, <1>3 DEF Working, Backward, BeingRestored
<1>6. QED BY <1>1, <1>3, <1>4, <1>5, RollsBack

\* The rollback has failed: each key has its old value or its new one.
LEMMA RollbackFailsData ==
  ASSUME StoreInv, Excludes', NEW c \in Call, RollbackFails(c)
  PROVE  /\ StoreInv' /\ Busy(c) /\ ImportPlanned(c) /\ Settles(c)
         /\ torn' = TRUE /\ unsaved \subseteq unsaved'
         /\ \A k \in DOMAIN call[c].before :
              cache'[k] \in {call[c].before[k], call[c].plan[k]}
<1> DEFINE w == call[c].writing
<1>1. /\ At(c, "restoring") /\ Busy(c) /\ ~At(c, "ready") /\ ~At(c, "writing")
      /\ disk' = disk /\ torn' = TRUE /\ unsaved' = unsaved \cup DOMAIN call[c].before
      /\ CacheAfterFailure(c) /\ Finish(c)
  BY DEF RollbackFails, Busy, At
<1>2. /\ call[c].todo \subseteq DOMAIN call[c].before /\ DOMAIN call[c].before \subseteq Key
      /\ Working(c) /\ CallData(c)
  BY <1>1, AtWork
<1>3. ImportPlanned(c)
  BY <1>1, <1>2 DEF Working, MutationPlanned, At
<1>4. w \in call[c].todo BY <1>1, <1>2 DEF Working
<1>5. /\ cache'[w] \in {call[c].before[w], call[c].plan[w]}
      /\ \A j \in Key : j # w => cache'[j] = cache[j]
      /\ \E v : cache' = [cache EXCEPT ![w] = v]
  BY <1>1, <1>2, <1>4, FailedWrite
<1>6. Backward(c) BY <1>1, <1>2 DEF Working
<1>7. ASSUME NEW k \in DOMAIN call[c].before
      PROVE  cache'[k] \in {call[c].before[k], call[c].plan[k]}
  <2>1. CASE k = w BY <1>5, <2>1
  <2>2. CASE k # w
    <3>1. HasOld(c, k) \/ InDoubt(c, k) BY <1>6, <2>2 DEF Backward
    <3>2. QED BY <1>2, <1>5, <2>2, <3>1 DEF HasOld, InDoubt
  <2>3. QED BY <2>1, <2>2
<1>8. Local(c) BY <1>1, <1>2, <1>4, <1>5 DEF Local
<1>9. Settles(c) BY <1>1, <1>8, FinishIs DEF Settles, StoreInv
<1>10. DataShape' BY <1>1, <1>5, ShapeOfWrite DEF StoreInv, DataShape
<1>11. StoreInv' BY <1>1, <1>9, <1>10, SettlesKeeps
<1>12. QED BY <1>1, <1>3, <1>7, <1>9, <1>11

LEMMA CrashData == ASSUME StoreInv, Excludes', Crash PROVE StoreInv'
<1>1. cache' = disk /\ disk' = disk /\ unsaved' = {}
  BY DEF Crash
<1>2. torn' \in BOOLEAN
  BY Zenon DEF Crash
<1>3. DataShape' BY <1>1, <1>2 DEF StoreInv, DataShape
<1>4. ASSUME NEW c \in Call PROVE CallData(c)'
  <2>1. call'[c].at = "idle" /\ call'[c].before = <<>>
    BY DEF Crash, NoCall
  <2>2. QED BY <2>1, IdleData
<1>5. FreeKeysSaved' BY <1>1 DEF FreeKeysSaved
<1>6. QED BY <1>3, <1>4, <1>5 DEF StoreInv

LEMMA NothingStored == StoreInit => StoreInv
<1> SUFFICES ASSUME StoreInit PROVE StoreInv OBVIOUS
<1>1. Excludes BY NobodyExcludes DEF StoreInit
<1>2. DataShape BY DEF StoreInit, DataShape, Empty
<1>3. FreeKeysSaved BY DEF StoreInit, FreeKeysSaved
<1>4. ASSUME NEW c \in Call PROVE CallData(c)
  <2>1. call[c].at = "idle" /\ call[c].before = <<>>
    BY DEF StoreInit, NoCall
  <2>2. QED BY <2>1 DEF CallData, Pending, Busy, At, Stages
<1>5. QED BY <1>1, <1>2, <1>3, <1>4 DEF StoreInv

LEMMA StutterData == ASSUME StoreInv, Excludes', UNCHANGED storeVars PROVE StoreInv'
<1>1. cache' = cache /\ disk' = disk /\ unsaved' = unsaved /\ torn' = torn /\ call' = call
  BY DEF storeVars
<1>2. DataShape' BY <1>1 DEF StoreInv, DataShape
<1>3. FreeKeysSaved' BY <1>1 DEF StoreInv, FreeKeysSaved, Free
<1>4. ASSUME NEW c \in Call PROVE CallData(c)'
  <2>1. CallData(c) BY DEF StoreInv
  <2>2. QED BY <1>1, <2>1, KeepsCall DEF SameCall
<1>5. QED BY <1>2, <1>3, <1>4 DEF StoreInv

LEMMA StoreKeepsData ==
  ASSUME StoreInv, [StoreNext]_storeVars
  PROVE  StoreInv'
<1>1. Excludes' BY StepKeeps DEF StoreInv
<1>2. ASSUME NEW c \in Call, Submit(c) \/ \E d \in Day : AddFocusSession(c, d)
      PROVE  StoreInv'
  BY <1>1, <1>2, SubmitsData
<1>3. ASSUME NEW c \in Call, Proceed(c) PROVE StoreInv'
  BY <1>1, <1>3, LoadsKey, LoadsTasks, TakesSnapshot, WritesKey, ImportFailsData,
     RestoresKey, RestoredKey, RollbackFailsData, ExportsData DEF Proceed
<1>4. ASSUME NEW c \in Call, Answer(c) PROVE StoreInv'
  BY <1>1, <1>4, SavesKey, MutationFailsData DEF Answer
<1>5. CASE Crash BY <1>1, <1>5, CrashData
<1>6. CASE UNCHANGED storeVars BY <1>1, <1>6, StutterData
<1>7. QED BY <1>2, <1>3, <1>4, <1>5, <1>6 DEF StoreNext

-----------------------------------------------------------------------------
(***************************************************************************)
(* What the steps make of the data between operations.                     *)
(***************************************************************************)
LEMMA DataIsAfter ==
  StoreInv' => /\ Data' = [k \in Key |-> Data'[k]]
               /\ \A k \in Key :
                    /\ Free(k)' => Data'[k] = cache'[k]
                    /\ \A c \in Call :
                         k \in DOMAIN call'[c].before => Data'[k] = call'[c].before[k]
<1>1. (StoreInv => \A k \in Key :
                     /\ Free(k) => Data[k] = cache[k]
                     /\ \A c \in Call : k \in DOMAIN call[c].before
                                          => Data[k] = call[c].before[k])'
  BY DataIs, PTL
<1>2. (Data = [k \in Key |-> Data[k]])'
  BY DataIsFunction, PTL
<1>3. QED BY <1>1, <1>2

LEMMA SameData ==
  ASSUME \A k \in Key : Data'[k] = Data[k], StoreInv'
  PROVE  Data' = Data
BY DataIsAfter, DataIsFunction

LEMMA ContinuesData ==
  ASSUME StoreInv, StoreInv', NEW c \in Call, Continues(c)
  PROVE  Data' = Data
<1>1. ASSUME NEW k \in Key PROVE Data'[k] = Data[k]
  <2>1. \A e \in Call : call'[e].before = call[e].before
    BY DEF Continues, SameCall
  <2>2. CASE Free(k)
    <3>1. Free(k)' /\ cache'[k] = cache[k]
      BY <2>1, <2>2 DEF Free, Continues, Local
    <3>2. QED BY <2>2, <3>1, DataIs, DataIsAfter
  <2>3. CASE ~Free(k)
    <3>1. PICK e \in Call : k \in DOMAIN call[e].before BY <2>3 DEF Free
    <3>2. QED BY <2>1, <3>1, DataIs, DataIsAfter
  <2>4. QED BY <2>2, <2>3
<1>2. QED BY <1>1, SameData

LEMMA SettlesData ==
  ASSUME StoreInv, StoreInv', NEW c \in Call, Settles(c)
  PROVE  \A k \in Key :
           /\ k \in DOMAIN call[c].before => Data'[k] = cache'[k] /\ Data[k] = call[c].before[k]
           /\ k \notin DOMAIN call[c].before => Data'[k] = Data[k]
<1>1. SUFFICES ASSUME NEW k \in Key
               PROVE  /\ k \in DOMAIN call[c].before
                           => Data'[k] = cache'[k] /\ Data[k] = call[c].before[k]
                      /\ k \notin DOMAIN call[c].before => Data'[k] = Data[k]
  OBVIOUS
<1>2. /\ DOMAIN call'[c].before = {}
      /\ \A e \in Call \ {c} : call'[e].before = call[e].before
  BY EmptyDomain DEF Settles, SameCall
<1>3. CASE k \in DOMAIN call[c].before
  <2>1. \A e \in Call \ {c} : k \notin DOMAIN call[e].before
    BY <1>3, SnapshotsApart
  <2>2. Free(k)' BY <1>2, <2>1 DEF Free
  <2>3. QED BY <1>3, <2>2, DataIs, DataIsAfter
<1>4. CASE k \notin DOMAIN call[c].before /\ Free(k)
  <2>1. Free(k)' /\ cache'[k] = cache[k]
    BY <1>2, <1>4 DEF Free, Settles, Local
  <2>2. QED BY <1>4, <2>1, DataIs, DataIsAfter
<1>5. CASE k \notin DOMAIN call[c].before /\ ~Free(k)
  <2>1. PICK e \in Call \ {c} : k \in DOMAIN call[e].before BY <1>5 DEF Free
  <2>2. QED BY <1>2, <1>5, <2>1, DataIs, DataIsAfter
<1>6. QED BY <1>3, <1>4, <1>5

LEMMA TakesData ==
  ASSUME StoreInv, StoreInv', NEW c \in Call, cache' = cache, call[c].before = <<>>,
         \A k \in DOMAIN call'[c].before :
           k \in Key /\ Free(k) /\ call'[c].before[k] = cache[k],
         \A e \in Call \ {c} : SameCall(e)
  PROVE  Data' = Data
<1>1. ASSUME NEW k \in Key PROVE Data'[k] = Data[k]
  <2>1. \A e \in Call \ {c} : call'[e].before = call[e].before
    BY DEF SameCall
  <2>2. CASE k \in DOMAIN call'[c].before
    BY <2>2, DataIs, DataIsAfter
  <2>3. CASE k \notin DOMAIN call'[c].before /\ Free(k)
    <3>1. Free(k)' BY <2>1, <2>3 DEF Free
    <3>2. QED BY <2>3, <3>1, DataIs, DataIsAfter
  <2>4. CASE ~Free(k)
    <3>1. PICK e \in Call : k \in DOMAIN call[e].before BY <2>4 DEF Free
    <3>2. e # c BY <3>1, EmptyDomain
    <3>3. QED BY <2>1, <3>1, <3>2, DataIs, DataIsAfter
  <2>5. QED BY <2>2, <2>3, <2>4
<1>2. QED BY <1>1, SameData

-----------------------------------------------------------------------------
(***************************************************************************)
(* The steps are those of the promise.                                     *)
(***************************************************************************)
LEMMA SameRecords ==
  /\ Promise!Key = Key /\ Promise!Modes = Modes /\ Promise!Mutations = Mutations
  /\ Promise!Empty = Empty
  /\ \A m, v : Promise!Outcome(m, v) = Outcome(m, v)
  /\ \A b, mode, s : Promise!Imported(b, mode, s) = Imported(b, mode, s)
<1>1. /\ Promise!Key = Key /\ Promise!Modes = Modes /\ Promise!Mutations = Mutations
      /\ Promise!Empty = Empty
  BY DEF Promise!Key, Key, Promise!RecordKey, RecordKey, Promise!TaskKey, TaskKey,
         Promise!SettingsKey, SettingsKey, Promise!Modes, Modes, Promise!Mutations,
         Mutations, Promise!Empty, Empty
<1>2. \A m, v : Promise!Outcome(m, v) = Outcome(m, v)
  BY DEF Promise!Outcome, Outcome, Promise!Counted, Counted, Promise!Listed, Listed
<1>3. \A b, mode, s : Promise!Imported(b, mode, s) = Imported(b, mode, s)
  BY <1>1 DEF Promise!Imported, Imported, Promise!ListedIn, ListedIn,
         Promise!ImportedValue, ImportedValue, Promise!MergedTasks, MergedTasks,
         Promise!Listed, Listed
<1>4. QED BY <1>1, <1>2, <1>3

\* What an import plans is what the promise says of it.
LEMMA PlannedImport ==
  ASSUME StoreInv, NEW c \in Call, Busy(c), ImportPlanned(c), NEW k \in Key
  PROVE  /\ call[c].arg \in Backups /\ call[c].op \in Modes
         /\ Imported(call[c].arg, call[c].op, Data)[k]
              = IF k \in DOMAIN call[c].before THEN call[c].plan[k] ELSE Data[k]
<1> DEFINE b == call[c].arg
           mode == call[c].op
<1>1. b \in Backups /\ mode \in {"merge", "replace"}
  BY DEF ImportPlanned, Importing, IsImport, Modes
<1>2. Imported(b, mode, Data)[k] =
        CASE k \in ListedIn(b)                        -> ImportedValue(b, mode, k, Data[k])
          [] k \notin ListedIn(b) /\ mode = "replace" -> None
          [] OTHER                                    -> Data[k]
  BY DEF Imported
<1>3. ListedIn(b) \subseteq DOMAIN call[c].before
  BY DEF ImportPlanned
<1>4. CASE k \in ListedIn(b)
  <2>1. k \in DOMAIN call[c].before BY <1>3, <1>4
  <2>2. Data[k] = call[c].before[k] BY <2>1, DataIs
  <2>3. call[c].plan[k] = ImportedValue(b, mode, k, call[c].before[k])
    BY <1>4, <2>1 DEF ImportPlanned
  <2>4. Imported(b, mode, Data)[k] = ImportedValue(b, mode, k, Data[k])
    BY <1>2, <1>4
  <2>5. QED BY <1>1, <2>1, <2>2, <2>3, <2>4 DEF Modes
<1>5. CASE k \notin ListedIn(b) /\ k \in DOMAIN call[c].before
  <2>1. call[c].plan[k] = None /\ mode = "replace"
    BY <1>5 DEF ImportPlanned
  <2>2. QED BY <1>1, <1>2, <1>5, <2>1 DEF Modes
<1>6. CASE k \notin ListedIn(b) /\ k \notin DOMAIN call[c].before
  <2>1. IsImport(c) /\ Running(c)
    BY DEF ImportPlanned, Importing, Busy, Running
  <2>2. \A e \in Call \ {c} : call[e].before = <<>>
    BY <2>1, ImportsAlone
  <2>3. Free(k) BY <1>6, <2>2, EmptyDomain DEF Free
  <2>4. mode = "replace" => Data[k] = None
    BY <1>6, <2>3, DataIs DEF ImportPlanned
  <2>5. QED BY <1>1, <1>2, <1>6, <2>4 DEF Modes
<1>7. QED BY <1>4, <1>5, <1>6

\* What a mutation plans is what the promise says of it.
LEMMA PlannedMutation ==
  ASSUME StoreInv, NEW c \in Call, MutationPlanned(c)
  PROVE  /\ Mutation(c) \in Mutations /\ Mutation(c).key = call[c].key
         /\ call[c].key \in Key /\ DOMAIN call[c].before = {call[c].key}
         /\ Promise!After(Mutation(c))
              = [k \in Key |-> IF k = call[c].key THEN call[c].plan[k] ELSE Data[k]]
<1>1. /\ Mutation(c) \in Mutations /\ Mutation(c).key = call[c].key
      /\ Mutation(c).op = call[c].op /\ Mutation(c).arg = call[c].arg
      /\ call[c].key \in Key /\ DOMAIN call[c].before = {call[c].key}
  BY Kinds DEF MutationPlanned, Mutating, Mutation
<1>2. Outcome(Mutation(c), call[c].before[call[c].key]) = call[c].plan[call[c].key]
  BY <1>1 DEF Outcome, MutationPlanned
<1>3. Data[call[c].key] = call[c].before[call[c].key]
  BY <1>1, DataIs
<1>4. Promise!After(Mutation(c))
        = [Data EXCEPT ![call[c].key] = Outcome(Mutation(c), Data[call[c].key])]
  BY <1>1, SameRecords DEF Promise!After
<1>5. QED BY <1>1, <1>2, <1>3, <1>4, DataIsFunction

\* Nothing the promise speaks of has changed, but for keys saved at last.
LEMMA SavedAgain ==
  ASSUME Data' = Data, unsaved' \subseteq unsaved, torn' = torn
  PROVE  [Promise!Next]_(Promise!vars)
BY DEF Promise!Next, Promise!SaveAgain

LEMMA SavesImplements ==
  ASSUME StoreInv, StoreInv', Excludes', NEW c \in Call, Saved(c)
  PROVE  [Promise!Next]_(Promise!vars)
<1>1. /\ Busy(c) /\ At(c, "writing") /\ cache' = cache /\ torn' = torn
      /\ call[c].writing \in DOMAIN call[c].before
      /\ unsaved' = unsaved \ {call[c].writing}
      /\ Continues(c) \/ (Settles(c) /\ \A k \in DOMAIN call[c].before : cache'[k] = call[c].plan[k])
  BY SavesKey
<1>2. CASE Continues(c)
  BY <1>1, <1>2, ContinuesData, SavedAgain
<1>3. CASE Settles(c) /\ \A k \in DOMAIN call[c].before : cache'[k] = call[c].plan[k]
  <2>1. \A k \in Key : Data'[k] = IF k \in DOMAIN call[c].before THEN call[c].plan[k]
                                                                ELSE Data[k]
    BY <1>3, SettlesData
  <2>2. Data' = [k \in Key |-> Data'[k]] BY DataIsAfter
  <2>3. CASE MutationPlanned(c)
    <3>1. /\ Mutation(c) \in Mutations /\ Mutation(c).key = call[c].key
          /\ DOMAIN call[c].before = {call[c].key}
          /\ Promise!After(Mutation(c))
               = [k \in Key |-> IF k = call[c].key THEN call[c].plan[k] ELSE Data[k]]
      BY <2>3, PlannedMutation
    <3>2. Data' = Promise!After(Mutation(c))
      BY <2>1, <2>2, <3>1
    <3>3. Promise!Mutate(Mutation(c))
      BY <1>1, <3>1, <3>2 DEF Promise!Mutate
    <3>4. QED BY <3>1, <3>3, SameRecords DEF Promise!Next
  <2>4. CASE ImportPlanned(c)
    <3>1. \A k \in Key : Imported(call[c].arg, call[c].op, Data)[k] = Data'[k]
      BY <1>1, <2>1, <2>4, PlannedImport
    <3>2. Imported(call[c].arg, call[c].op, Data)
            = [k \in Key |-> Imported(call[c].arg, call[c].op, Data)[k]]
      BY DEF Imported
    <3>3. Data' = Imported(call[c].arg, call[c].op, Data)
      BY <2>2, <3>1, <3>2
    <3>4. call[c].arg \in Backups /\ call[c].op \in Modes
      BY <2>4 DEF ImportPlanned, Importing, IsImport
    <3>5. Promise!Import(call[c].arg, call[c].op)
      BY <1>1, <3>3, SameRecords DEF Promise!Import
    <3>6. QED BY <3>4, <3>5, SameRecords DEF Promise!Next
  <2>5. QED BY <1>1, <2>3, <2>4, AtWork
<1>4. QED BY <1>1, <1>2, <1>3

LEMMA MutationFailsImplements ==
  ASSUME StoreInv, StoreInv', Excludes', NEW c \in Call, MutationFails(c)
  PROVE  [Promise!Next]_(Promise!vars)
<1>1. /\ MutationPlanned(c) /\ Settles(c) /\ torn' = torn
      /\ unsaved' = unsaved \cup {call[c].key}
      /\ cache'[call[c].key] \in {call[c].before[call[c].key], call[c].plan[call[c].key]}
  BY MutationFailsData
<1>2. /\ Mutation(c) \in Mutations /\ Mutation(c).key = call[c].key
      /\ call[c].key \in Key /\ DOMAIN call[c].before = {call[c].key}
      /\ Promise!After(Mutation(c))
           = [k \in Key |-> IF k = call[c].key THEN call[c].plan[k] ELSE Data[k]]
  BY <1>1, PlannedMutation
<1>3. /\ \A k \in Key : k # call[c].key => Data'[k] = Data[k]
      /\ Data'[call[c].key] \in {Data[call[c].key], call[c].plan[call[c].key]}
  BY <1>1, <1>2, SettlesData
<1>4. Data' = [k \in Key |-> Data'[k]] /\ Data = [k \in Key |-> Data[k]]
  BY DataIsAfter, DataIsFunction
<1>5. CASE Data'[call[c].key] = Data[call[c].key]
  <2>1. Data' = Data BY <1>3, <1>4, <1>5
  <2>2. Promise!FailMutation(Mutation(c)) BY <1>1, <1>2, <2>1 DEF Promise!FailMutation
  <2>3. QED BY <1>2, <2>2, SameRecords DEF Promise!Next
<1>6. CASE Data'[call[c].key] = call[c].plan[call[c].key]
  <2>1. Data' = Promise!After(Mutation(c)) BY <1>2, <1>3, <1>4, <1>6
  <2>2. Promise!FailMutation(Mutation(c)) BY <1>1, <1>2, <2>1 DEF Promise!FailMutation
  <2>3. QED BY <1>2, <2>2, SameRecords DEF Promise!Next
<1>7. QED BY <1>3, <1>5, <1>6

LEMMA RollbackFailsImplements ==
  ASSUME StoreInv, StoreInv', Excludes', NEW c \in Call, RollbackFails(c)
  PROVE  [Promise!Next]_(Promise!vars)
<1>1. /\ Busy(c) /\ ImportPlanned(c) /\ Settles(c) /\ torn' = TRUE /\ unsaved \subseteq unsaved'
      /\ \A k \in DOMAIN call[c].before :
           cache'[k] \in {call[c].before[k], call[c].plan[k]}
  BY RollbackFailsData
<1>2. call[c].arg \in Backups /\ call[c].op \in Modes
  BY <1>1 DEF ImportPlanned, Importing, IsImport
<1>3. ASSUME NEW k \in Key
      PROVE  Data'[k] \in {Data[k], Imported(call[c].arg, call[c].op, Data)[k]}
  <2>1. CASE k \in DOMAIN call[c].before
    BY <1>1, <2>1, SettlesData, PlannedImport
  <2>2. CASE k \notin DOMAIN call[c].before
    BY <1>1, <2>2, SettlesData
  <2>3. QED BY <2>1, <2>2
<1>4. Promise!FailRollback(call[c].arg, call[c].op)
  BY <1>1, <1>3, SameRecords DEF Promise!FailRollback, Promise!Tear
<1>5. QED BY <1>2, <1>4, SameRecords DEF Promise!Next

\* What is on the disk when the program is killed.
LEMMA OnTheDisk ==
  ASSUME StoreInv, NEW k \in Key \ unsaved
  PROVE  /\ Free(k) => disk[k] = Data[k]
         /\ \A c \in Call : k \in DOMAIN call[c].before =>
              /\ disk[k] \in {call[c].before[k], call[c].plan[k]}
              /\ MutationPlanned(c) => disk[k] = call[c].before[k]
<1>1. Free(k) => disk[k] = Data[k]
  BY DataIs DEF StoreInv, FreeKeysSaved
<1>2. ASSUME NEW c \in Call, k \in DOMAIN call[c].before
      PROVE  /\ disk[k] \in {call[c].before[k], call[c].plan[k]}
             /\ MutationPlanned(c) => disk[k] = call[c].before[k]
  <2>1. Busy(c) BY <1>2, SnapshotFacts DEF StoreInv
  <2>2. Working(c) /\ call[c].todo # {} /\ call[c].todo \subseteq DOMAIN call[c].before
    BY <2>1, AtWork
  <2>3. CASE At(c, "ready") \/ At(c, "writing")
    <3>1. HasNew(c, k) \/ HasOld(c, k) \/ BeingWritten(c, k)
      BY <1>2, <2>2, <2>3 DEF Working, Forward
    <3>2. MutationPlanned(c) => k \in call[c].todo
      BY <1>2, <2>2 DEF MutationPlanned
    <3>3. k \in call[c].todo => HasOld(c, k) \/ BeingWritten(c, k)
      BY <1>2, <2>2, <2>3 DEF Working, Forward
    <3>4. QED BY <3>1, <3>2, <3>3 DEF HasNew, HasOld, BeingWritten
  <2>4. CASE At(c, "undoing") \/ At(c, "restoring")
    <3>1. HasOld(c, k) \/ InDoubt(c, k) \/ BeingRestored(c, k)
      BY <1>2, <2>2, <2>4 DEF Working, Backward
    <3>2. ~MutationPlanned(c) BY <2>4 DEF MutationPlanned, At
    <3>3. QED BY <3>1, <3>2 DEF HasOld, InDoubt, BeingRestored
  <2>5. QED BY <2>1, <2>3, <2>4 DEF Busy, At
<1>3. QED BY <1>1, <1>2

LEMMA CrashImplements ==
  ASSUME StoreInv, StoreInv', Crash
  PROVE  [Promise!Next]_(Promise!vars)
<1>1. cache' = disk /\ unsaved' = {}
  BY DEF Crash
<1>2. ASSUME NEW k \in Key PROVE Data'[k] = disk[k]
  <2>1. \A c \in Call : call'[c].before = <<>> BY DEF Crash, NoCall
  <2>2. Free(k)' BY <2>1, EmptyDomain DEF Free
  <2>3. QED BY <1>1, <2>2, DataIsAfter
<1>3. ASSUME NEW c \in Call, HalfWay(c)
      PROVE  [Promise!Next]_(Promise!vars)
  <2>1. Busy(c) /\ IsImport(c) BY <1>3 DEF HalfWay, StoreInv, CallData
  <2>2. ImportPlanned(c)
    <3>1. ~MutationPlanned(c) BY <2>1, Kinds DEF MutationPlanned
    <3>2. QED BY <2>1, <3>1, AtWork
  <2>3. call[c].arg \in Backups /\ call[c].op \in Modes
    BY <2>2 DEF ImportPlanned, Importing, IsImport
  <2>4. torn' = TRUE
    <3>1. torn' = (torn \/ \E e \in Call : HalfWay(e)) BY DEF Crash
    <3>2. QED BY <1>3, <3>1, Zenon
  <2>5. \A e \in Call \ {c} : call[e].before = <<>>
    BY <2>1, ImportsAlone DEF Busy, Running
  <2>6. ASSUME NEW k \in Key \ unsaved
        PROVE  Data'[k] \in {Data[k], Imported(call[c].arg, call[c].op, Data)[k]}
    <3>1. CASE k \in DOMAIN call[c].before
      <4>1. disk[k] \in {call[c].before[k], call[c].plan[k]} BY <3>1, OnTheDisk
      <4>2. Data[k] = call[c].before[k] BY <3>1, DataIs
      <4>3. Imported(call[c].arg, call[c].op, Data)[k] = call[c].plan[k]
        BY <2>1, <2>2, <3>1, PlannedImport
      <4>4. QED BY <1>2, <4>1, <4>2, <4>3
    <3>2. CASE k \notin DOMAIN call[c].before
      <4>1. Free(k) BY <2>5, <3>2, EmptyDomain DEF Free
      <4>2. QED BY <1>2, <4>1, OnTheDisk
    <3>3. QED BY <3>1, <3>2
  <2>7. Promise!TearAndRestart(call[c].arg, call[c].op)
    BY <1>1, <2>4, <2>6, SameRecords DEF Promise!TearAndRestart
  <2>8. QED BY <2>3, <2>7, SameRecords DEF Promise!Next
<1>4. CASE \A c \in Call : ~HalfWay(c)
  <2>1. torn' = torn
    <3>1. torn' = (torn \/ \E e \in Call : HalfWay(e)) BY DEF Crash
    <3>2. torn' \in BOOLEAN /\ torn \in BOOLEAN BY DEF StoreInv, DataShape
    <3>3. torn' <=> torn BY <1>4, <3>1, Zenon
    <3>4. QED BY <3>2, <3>3
  <2>2. ASSUME NEW k \in Key \ unsaved PROVE Data'[k] = Data[k]
    <3>1. CASE Free(k) BY <1>2, <3>1, OnTheDisk
    <3>2. CASE ~Free(k)
      <4>1. PICK c \in Call : k \in DOMAIN call[c].before BY <3>2 DEF Free
      <4>2. Busy(c) BY <4>1, SnapshotFacts DEF StoreInv
      <4>3. call[c].before # <<>> BY <4>1, EmptyDomain
      <4>4. MutationPlanned(c)
        BY <1>4, <4>2, <4>3, AtWork DEF HalfWay, ImportPlanned, Importing
      <4>5. QED BY <1>2, <4>1, <4>4, OnTheDisk, DataIs
    <3>3. QED BY <3>1, <3>2
  <2>3. Promise!Restart
    BY <1>1, <2>1, <2>2, SameRecords DEF Promise!Restart
  <2>4. QED BY <2>3 DEF Promise!Next
<1>5. QED BY <1>3, <1>4

LEMMA UnchangedImplements ==
  ASSUME Data' = Data, UNCHANGED <<unsaved, torn>>
  PROVE  [Promise!Next]_(Promise!vars)
BY SavedAgain

LEMMA ProceedImplements ==
  ASSUME StoreInv, StoreInv', Excludes', NEW c \in Call, Proceed(c)
  PROVE  [Promise!Next]_(Promise!vars)
<1>1. CASE LoadKey(c)
  BY <1>1, LoadsKey, TakesData, UnchangedImplements
<1>2. CASE Snapshot(c)
  BY <1>2, TakesSnapshot, TakesData, UnchangedImplements
<1>3. CASE LoadTasks(c)
  BY <1>3, LoadsTasks, TakesData, EmptyDomain, UnchangedImplements
<1>4. CASE Export(c)
  BY <1>4, ExportsData, TakesData, EmptyDomain, UnchangedImplements
<1>5. CASE Write(c)
  BY <1>5, WritesKey, ContinuesData, UnchangedImplements
<1>6. CASE ImportFails(c)
  BY <1>6, ImportFailsData, ContinuesData, UnchangedImplements
<1>7. CASE Restore(c) \/ Restored(c)
  <2>1. /\ unsaved' \subseteq unsaved /\ torn' = torn
        /\ \/ Continues(c)
           \/ Settles(c) /\ \A k \in DOMAIN call[c].before : cache'[k] = call[c].before[k]
    BY <1>7, RestoresKey, RestoredKey
  <2>2. CASE Continues(c) BY <2>1, <2>2, ContinuesData, SavedAgain
  <2>3. CASE Settles(c) /\ \A k \in DOMAIN call[c].before : cache'[k] = call[c].before[k]
    <3>1. \A k \in Key : Data'[k] = Data[k] BY <2>3, SettlesData
    <3>2. Data' = Data BY <3>1, SameData
    <3>3. QED BY <2>1, <3>2, SavedAgain
  <2>4. QED BY <2>1, <2>2, <2>3
<1>8. CASE RollbackFails(c)
  BY <1>8, RollbackFailsImplements
<1>9. QED
  BY <1>1, <1>2, <1>3, <1>4, <1>5, <1>6, <1>7, <1>8 DEF Proceed

LEMMA StoreImplements ==
  ASSUME StoreInv, StoreInv', [StoreNext]_storeVars
  PROVE  [Promise!Next]_(Promise!vars)
<1>1. Excludes' BY DEF StoreInv
<1>2. ASSUME NEW c \in Call, Submit(c) \/ \E d \in Day : AddFocusSession(c, d)
      PROVE  [Promise!Next]_(Promise!vars)
  BY <1>1, <1>2, SubmitsData, TakesData, EmptyDomain, UnchangedImplements
<1>3. ASSUME NEW c \in Call, Proceed(c) PROVE [Promise!Next]_(Promise!vars)
  BY <1>1, <1>3, ProceedImplements
<1>4. ASSUME NEW c \in Call, Answer(c) PROVE [Promise!Next]_(Promise!vars)
  BY <1>1, <1>4, SavesImplements, MutationFailsImplements DEF Answer
<1>5. CASE Crash BY <1>5, CrashImplements
<1>6. CASE UNCHANGED storeVars
  <2>1. Data' = Data BY <1>6 DEF Data, storeVars
  <2>2. QED BY <1>6, <2>1, UnchangedImplements DEF storeVars
<1>7. QED BY <1>2, <1>3, <1>4, <1>5, <1>6 DEF StoreNext

LEMMA StartsImplement == StoreInit => Promise!Init
<1> SUFFICES ASSUME StoreInit PROVE Promise!Init OBVIOUS
<1>1. \A c \in Call : call[c].before = <<>> BY DEF StoreInit, NoCall
<1>2. \A k \in Key : Free(k) BY <1>1, EmptyDomain DEF Free
<1>3. StoreInv BY NothingStored
<1>4. \A k \in Key : Data[k] = None
  BY <1>2, <1>3, DataIs DEF StoreInit, Empty
<1>5. Data = Empty BY <1>4, DataIsFunction DEF Empty
<1>6. QED BY <1>5, SameRecords DEF Promise!Init, StoreInit

LEMMA StoreInvariant == StoreSpec => []StoreInv
<1>1. StoreInv /\ [StoreNext]_storeVars => StoreInv'
  BY StoreKeepsData
<1>2. QED BY NothingStored, <1>1, PTL DEF StoreSpec

-----------------------------------------------------------------------------
\* The store keeps its promise, whatever runs at once and whatever fails: no
\* update is lost, a mutation that fails happened or did not, an import is
\* whole or undone, and a killed program finds at the next start what was
\* saved (SharedPreferencesStudyStore).
THEOREM StoreKeepsItsPromise == StoreSpec => ImplementsStudyData
<1>1. StoreInv /\ StoreInv' /\ [StoreNext]_storeVars => [Promise!Next]_(Promise!vars)
  BY StoreImplements
<1>2. QED BY <1>1, StoreInvariant, StartsImplement, PTL
       DEF StoreSpec, ImplementsStudyData, Promise!Spec

\* So does the store that the timer records into.
THEOREM TimerKeepsThePromise == Spec => ImplementsStudyData
<1>1. Init => StoreInit BY DEF Init
<1>2. [Next]_vars => [StoreNext]_storeVars BY StepOfStore
<1>3. Spec => StoreSpec BY <1>1, <1>2, PTL DEF Spec, StoreSpec
<1>4. QED BY <1>3, StoreKeepsItsPromise

-----------------------------------------------------------------------------
(***************************************************************************)
(* Types: what is stored under a key is a value of that key.               *)
(***************************************************************************)
Held(k, v) == v = None \/ v \in ValuesOf(k)

TodoShape(c) ==
  call[c].todo \subseteq DOMAIN call[c].before /\ call[c].writing \in call[c].todo \cup {None}

TypesInv ==
  /\ StoreInv
  /\ unsaved \subseteq Key
  /\ \A k \in Key : Held(k, cache[k]) /\ Held(k, disk[k])
  /\ \A c \in Call : /\ TodoShape(c)
                     /\ \A k \in DOMAIN call[c].before : Held(k, call[c].before[k])

LEMMA TypesFollow == TypesInv => StoreTypeOK
<1> SUFFICES ASSUME TypesInv PROVE StoreTypeOK OBVIOUS
<1>1. /\ cache = [k \in Key |-> cache[k]] /\ disk = [k \in Key |-> disk[k]]
      /\ torn \in BOOLEAN
  BY DEF TypesInv, StoreInv, DataShape
<1>2. IsScope(cache) /\ IsScope(disk)
  BY <1>1 DEF TypesInv, IsScope, Held
<1>3. /\ scopeTail \in Call \cup {None} /\ dateTail \in [Day -> Call \cup {None}]
      /\ \A c \in Call : call[c].barrier \subseteq Call
  BY DEF TypesInv, StoreInv, Excludes, Shape
<1>4. \A c \in Call : call[c].at \in Stages /\ DOMAIN call[c].before \subseteq Key
  BY SnapshotFacts DEF TypesInv, StoreInv, CallData
<1>5. QED BY <1>1, <1>2, <1>3, <1>4 DEF TypesInv, TodoShape, StoreTypeOK

LEMMA KindsOfKeys ==
  /\ \A d : /\ ValuesOf(RecordKey(d)) = Nat
            /\ ValuesOf(TaskKey(d)) = TaskList
  /\ ValuesOf(SettingsKey) = Setting
  /\ \A k \in Key : k[1] = "task" => ValuesOf(k) = TaskList
BY DEF ValuesOf, RecordKey, TaskKey, SettingsKey

LEMMA ListedTypes ==
  ASSUME NEW v, v = None \/ v \in TaskList
  PROVE  Listed(v) \in TaskList
BY DEF Listed, TaskList

\* What a mutation writes is a value of its key.
LEMMA OutcomeTypes ==
  ASSUME NEW m \in Mutations, NEW v, Held(m.key, v)
  PROVE  Outcome(m, v) \in ValuesOf(m.key)
<1>1. CASE m \in [op: {"addFocusSession"}, key: {RecordKey(d) : d \in Day}, arg: {None}]
  <2>1. m.op = "addFocusSession" /\ ValuesOf(m.key) = Nat
    BY <1>1, KindsOfKeys
  <2>2. Counted(v) \in Nat BY <2>1 DEF Held, Counted
  <2>3. Outcome(m, v) = Counted(v) + 1 BY <2>1 DEF Outcome
  <2>4. QED BY <2>1, <2>2, <2>3
<1>2. CASE m \in [op: {"saveDayRecord"}, key: {RecordKey(d) : d \in Day}, arg: Count]
  <2>1. m.op = "saveDayRecord" /\ ValuesOf(m.key) = Nat /\ m.arg \in Nat
    BY <1>2, KindsOfKeys, RecordsAssumption
  <2>2. Outcome(m, v) = m.arg BY <2>1 DEF Outcome
  <2>3. QED BY <2>1, <2>2
<1>3. CASE m \in [op: {"saveTaskRecord"}, key: {TaskKey(d) : d \in Day}, arg: Task \X Content]
  <2>1. m.op = "saveTaskRecord" /\ ValuesOf(m.key) = TaskList /\ m.arg[2] \in Content
    BY <1>3, KindsOfKeys
  <2>2. Listed(v) \in TaskList BY <2>1, ListedTypes DEF Held
  <2>3. Outcome(m, v) = [Listed(v) EXCEPT ![m.arg[1]] = m.arg[2]] BY <2>1 DEF Outcome
  <2>4. QED BY <2>1, <2>2, <2>3 DEF TaskList
<1>4. CASE m \in [op: {"deleteTaskRecord"}, key: {TaskKey(d) : d \in Day}, arg: Task]
  <2>1. m.op = "deleteTaskRecord" /\ ValuesOf(m.key) = TaskList
    BY <1>4, KindsOfKeys
  <2>2. Listed(v) \in TaskList BY <2>1, ListedTypes DEF Held
  <2>3. Outcome(m, v) = [Listed(v) EXCEPT ![m.arg] = None] BY <2>1 DEF Outcome
  <2>4. QED BY <2>1, <2>2, <2>3 DEF TaskList
<1>5. CASE m \in [op: {"saveSettings"}, key: {SettingsKey}, arg: Setting]
  <2>1. m.op = "saveSettings" /\ ValuesOf(m.key) = Setting /\ m.arg \in Setting
    BY <1>5, KindsOfKeys
  <2>2. Outcome(m, v) = m.arg BY <2>1 DEF Outcome
  <2>3. QED BY <2>1, <2>2
<1>6. QED BY <1>1, <1>2, <1>3, <1>4, <1>5 DEF Mutations

\* What an import writes is a value of its key.
LEMMA ImportedTypes ==
  ASSUME NEW b \in Backups, NEW mode, NEW k \in ListedIn(b), NEW v, Held(k, v)
  PROVE  Held(k, ImportedValue(b, mode, k, v))
<1>1. k \in Key /\ b[k] \in ValuesOf(k)
  BY RecordsAssumption DEF ListedIn, IsBackup, IsScope
<1>2. CASE k[1] = "task" /\ mode = "merge"
  <2>1. b[k] \in TaskList /\ Listed(v) \in TaskList /\ ValuesOf(k) = TaskList
    BY <1>1, <1>2, KindsOfKeys, ListedTypes DEF Held
  <2>2. MergedTasks(v, b[k]) \in TaskList
    BY <2>1 DEF MergedTasks, TaskList
  <2>3. QED BY <1>2, <2>1, <2>2 DEF ImportedValue, Held
<1>3. CASE ~(k[1] = "task" /\ mode = "merge")
  BY <1>1, <1>3 DEF ImportedValue, Held
<1>4. QED BY <1>2, <1>3

LEMMA PlansTypes ==
  ASSUME TypesInv, NEW c \in Call, Busy(c), NEW k \in DOMAIN call[c].before
  PROVE  Held(k, call[c].before[k]) /\ Held(k, call[c].plan[k])
<1>1. Held(k, call[c].before[k]) BY DEF TypesInv
<1>2. MutationPlanned(c) \/ ImportPlanned(c)
  BY AtWork DEF TypesInv
<1>3. CASE MutationPlanned(c)
  <2>1. /\ Mutation(c) \in Mutations /\ Mutation(c).key = call[c].key /\ k = call[c].key
        /\ Outcome(Mutation(c), call[c].before[k]) = call[c].plan[k]
    <3>1. /\ Mutation(c) \in Mutations /\ Mutation(c).key = call[c].key /\ k = call[c].key
          /\ Mutation(c).op = call[c].op /\ Mutation(c).arg = call[c].arg
      BY <1>3 DEF MutationPlanned, Mutating, Mutation
    <3>2. QED BY <1>3, <3>1 DEF MutationPlanned, Outcome
  <2>2. Outcome(Mutation(c), call[c].before[k]) \in ValuesOf(k)
    BY <1>1, <2>1, OutcomeTypes
  <2>3. QED BY <1>1, <2>1, <2>2 DEF Held
<1>4. CASE ImportPlanned(c)
  <2>1. CASE k \in ListedIn(call[c].arg)
    <3>1. /\ call[c].arg \in Backups
          /\ call[c].plan[k] = ImportedValue(call[c].arg, call[c].op, k, call[c].before[k])
      BY <1>4, <2>1 DEF ImportPlanned, Importing
    <3>2. QED BY <1>1, <2>1, <3>1, ImportedTypes
  <2>2. CASE k \notin ListedIn(call[c].arg)
    BY <1>1, <1>4, <2>2 DEF ImportPlanned, Held
  <2>3. QED BY <2>1, <2>2
<1>5. QED BY <1>2, <1>3, <1>4

\* A step stores old and new values of the snapshot of c, and takes its
\* snapshot from the cache.
LEMMA TypesStep ==
  ASSUME TypesInv, StoreInv', NEW c \in Call,
         \A e \in Call \ {c} : SameCall(e),
         TodoShape(c)', unsaved' \subseteq unsaved \cup Key,
         \A k \in Key :
           \/ cache'[k] = cache[k]
           \/ /\ Busy(c) /\ k \in DOMAIN call[c].before
              /\ cache'[k] \in {call[c].before[k], call[c].plan[k]},
         \A k \in Key :
           \/ disk'[k] = disk[k]
           \/ /\ Busy(c) /\ k \in DOMAIN call[c].before
              /\ disk'[k] \in {call[c].before[k], call[c].plan[k]},
         \/ call'[c].before = call[c].before
         \/ \A k \in DOMAIN call'[c].before : k \in Key /\ call'[c].before[k] = cache[k]
  PROVE  TypesInv'
<1>1. \A k \in Key : Held(k, cache[k]) /\ Held(k, disk[k])
  BY DEF TypesInv
<1>2. ASSUME NEW k \in Key PROVE Held(k, cache'[k]) /\ Held(k, disk'[k])
  <2>1. Busy(c) /\ k \in DOMAIN call[c].before
          => Held(k, call[c].before[k]) /\ Held(k, call[c].plan[k])
    BY PlansTypes
  <2>2. QED BY <1>1, <2>1
<1>3. ASSUME NEW e \in Call
      PROVE  TodoShape(e)' /\ \A k \in DOMAIN call'[e].before : Held(k, call'[e].before[k])
  <2>1. CASE e = c BY <1>1, <2>1 DEF TypesInv
  <2>2. CASE e # c BY <2>2 DEF TypesInv, SameCall, TodoShape
  <2>3. QED BY <2>1, <2>2
<1>4. unsaved' \subseteq Key BY DEF TypesInv
<1>5. (\A k \in Key : Held(k, cache[k]) /\ Held(k, disk[k]))'
  BY <1>2 DEF Held
<1>6. (\A e \in Call : TodoShape(e) /\ \A k \in DOMAIN call[e].before : Held(k, call[e].before[k]))'
  BY <1>3 DEF Held
<1>7. QED BY <1>4, <1>5, <1>6 DEF TypesInv

LEMMA DoneWithTodo ==
  ASSUME Excludes, NEW c \in Call, NEW k, NEW stage, DoneWith(c, k, stage),
         TodoShape(c)
  PROVE  /\ TodoShape(c)'
         /\ \A e \in Call \ {c} : SameCall(e)
         /\ \/ call'[c].before = call[c].before
            \/ \A j \in DOMAIN call'[c].before : j \in Key /\ call'[c].before[j] = cache[j]
<1>1. CASE call[c].todo = {k}
  <2>1. Finish(c) BY <1>1 DEF DoneWith
  <2>2. call'[c] = NoCall BY <2>1 DEF Finish
  <2>3. QED BY <2>1, <2>2, FinishIs, EmptyDomain DEF NoCall, TodoShape
<1>2. CASE call[c].todo # {k}
  <2>1. GoOn(c, stage, call[c].plan, call[c].before, call[c].todo \ {k}, None)
    BY <1>2 DEF DoneWith
  <2>2. /\ call'[c].before = call[c].before /\ call'[c].todo = call[c].todo \ {k}
        /\ call'[c].writing = None
        /\ \A e \in Call \ {c} : SameCall(e)
    BY <2>1, GoOnIs
  <2>3. QED BY <2>2 DEF TodoShape
<1>3. QED BY <1>1, <1>2

LEMMA FinishTodo ==
  ASSUME Excludes, NEW c \in Call, Finish(c)
  PROVE  /\ TodoShape(c)' /\ DOMAIN call'[c].before = {}
         /\ \A e \in Call \ {c} : SameCall(e)
<1>1. call'[c] = NoCall BY DEF Finish
<1>2. QED BY <1>1, FinishIs, EmptyDomain DEF NoCall, TodoShape

LEMMA SubmitsTypes ==
  ASSUME TypesInv, StoreInv', NEW c \in Call,
         Submit(c) \/ \E d \in Day : AddFocusSession(c, d)
  PROVE  TypesInv'
<1>1. PICK op, key, arg, B : Enter(c, op, key, arg, B)
  BY DEF Submit, SubmitMutation, ExportBackup, ImportBackup, AddFocusSession, RunScope, RunDate
<1>2. /\ call'[c].before = <<>> /\ call'[c].todo = {} /\ call'[c].writing = None
      /\ \A e \in Call \ {c} : SameCall(e)
      /\ cache' = cache /\ disk' = disk /\ unsaved' = unsaved
  BY <1>1 DEF Enter, TypesInv, StoreInv, Excludes, Shape, SameCall
<1>3. TodoShape(c)' BY <1>2, EmptyDomain DEF TodoShape
<1>4. QED BY <1>2, <1>3, EmptyDomain, TypesStep

LEMMA ReadsTypes ==
  ASSUME TypesInv, StoreInv', NEW c \in Call,
         LoadKey(c) \/ LoadTasks(c) \/ Snapshot(c) \/ Export(c)
  PROVE  TypesInv'
<1>1. cache' = cache /\ disk' = disk /\ unsaved' = unsaved /\ Excludes /\ Excludes'
  BY DEF LoadKey, LoadTasks, Snapshot, Export, TypesInv, StoreInv
<1>2. CASE LoadTasks(c) \/ Export(c)
  <2>1. /\ TodoShape(c)' /\ DOMAIN call'[c].before = {}
        /\ \A e \in Call \ {c} : SameCall(e)
    <3>1. CASE Export(c) BY <1>1, <3>1, FinishTodo DEF Export
    <3>2. CASE LoadTasks(c)
      <4>1. PICK plan : GoOn(c, "loaded", plan, <<>>, {}, None)
        BY <3>2 DEF LoadTasks
      <4>2. QED BY <1>1, <4>1, GoOnIs, EmptyDomain DEF TodoShape
    <3>3. QED BY <1>2, <3>1, <3>2
  <2>2. QED BY <1>1, <2>1, TypesStep
<1>3. CASE LoadKey(c) \/ Snapshot(c)
  <2>1. PICK keys, plan, before :
          /\ GoOn(c, "ready", plan, before, keys, None)
          /\ before = [k \in keys |-> cache[k]]
    BY <1>3 DEF LoadKey, Snapshot
  <2>2. /\ call'[c].before = before /\ call'[c].todo = keys /\ call'[c].writing = None
        /\ \A e \in Call \ {c} : SameCall(e)
    BY <1>1, <2>1, GoOnIs
  <2>3. TodoShape(c)' BY <2>1, <2>2 DEF TodoShape
  <2>4. \A k \in DOMAIN call'[c].before : k \in Key
    <3>1. CallData(c)' BY DEF StoreInv
    <3>2. (CallData(c) => DOMAIN call[c].before \subseteq Key)'
      <4>1. CallData(c) => DOMAIN call[c].before \subseteq Key BY SnapshotFacts
      <4>2. QED BY <1>3, LoadsKey, TakesSnapshot, <1>1 DEF TypesInv
    <3>3. QED BY <3>1, <3>2
  <2>5. \A k \in DOMAIN call'[c].before : call'[c].before[k] = cache[k]
    BY <2>1, <2>2
  <2>6. QED BY <1>1, <2>2, <2>3, <2>4, <2>5, TypesStep
<1>4. QED BY <1>2, <1>3

LEMMA WritesTypes ==
  ASSUME TypesInv, StoreInv', NEW c \in Call,
         Write(c) \/ Saved(c) \/ MutationFails(c) \/ ImportFails(c)
  PROVE  TypesInv'
<1> DEFINE w == call[c].writing
<1>1. Excludes /\ Excludes' /\ StoreInv /\ TodoShape(c)
  BY DEF TypesInv, StoreInv
<1>2. /\ Busy(c) /\ call[c].todo \subseteq DOMAIN call[c].before
      /\ DOMAIN call[c].before \subseteq Key
  BY <1>1, AtWork DEF Write, Saved, MutationFails, ImportFails, At, Busy
<1>3. At(c, "writing") => w \in DOMAIN call[c].before
  BY <1>1, <1>2, AtWork DEF Working
<1>4. CASE Write(c)
  <2>1. PICK k : /\ cache' = [cache EXCEPT ![k] = call[c].plan[k]]
                 /\ GoOn(c, "writing", call[c].plan, call[c].before, call[c].todo, k)
    BY <1>4 DEF Write
  <2>2. /\ call'[c].before = call[c].before /\ call'[c].todo = call[c].todo
        /\ call'[c].writing = k /\ call'[c].at = "writing"
        /\ \A e \in Call \ {c} : SameCall(e)
    BY <1>1, <2>1, GoOnIs
  <2>3. k \in call[c].todo
    <3>1. CallData(c)' BY DEF StoreInv
    <3>2. Working(c)' BY <2>2, <3>1 DEF CallData, Busy
    <3>3. QED BY <2>2, <3>2 DEF Working, At
  <2>4. TodoShape(c)' BY <1>2, <2>2, <2>3 DEF TodoShape
  <2>5. \A j \in Key : cache'[j] = cache[j] \/ (j = k /\ cache'[j] = call[c].plan[k])
    BY <1>1, <1>2, <2>1, <2>3, OneKey DEF StoreInv, DataShape
  <2>6. disk' = disk /\ unsaved' = unsaved BY <1>4 DEF Write
  <2>7. QED BY <1>2, <2>2, <2>3, <2>4, <2>5, <2>6, TypesStep
<1>5. CASE Saved(c)
  <2>1. /\ disk' = [disk EXCEPT ![w] = call[c].plan[w]] /\ unsaved' = unsaved \ {w}
        /\ cache' = cache /\ DoneWith(c, w, "ready") /\ At(c, "writing")
    BY <1>5 DEF Saved
  <2>2. \A j \in Key : disk'[j] = disk[j] \/ (j = w /\ disk'[j] = call[c].plan[w])
    BY <1>1, <1>2, <1>3, <2>1, OneKey DEF StoreInv, DataShape
  <2>3. QED BY <1>1, <1>2, <1>3, <2>1, <2>2, DoneWithTodo, TypesStep
<1>6. CASE MutationFails(c) \/ ImportFails(c)
  <2>1. At(c, "writing") /\ CacheAfterFailure(c) /\ disk' = disk
    BY <1>6 DEF MutationFails, ImportFails
  <2>2. \A j \in Key : cache'[j] = cache[j]
                        \/ (j = w /\ cache'[j] \in {call[c].before[w], call[c].plan[w]})
    BY <1>1, <1>2, <1>3, <2>1, FailedWrite
  <2>3. unsaved' \subseteq unsaved \cup Key
    BY <1>2, <1>3, <1>6, <2>1 DEF MutationFails, ImportFails
  <2>4. CASE MutationFails(c)
    <3>1. Finish(c) BY <2>4 DEF MutationFails
    <3>2. QED BY <1>1, <1>2, <1>3, <2>1, <2>2, <2>3, <3>1, FinishTodo, TypesStep
  <2>5. CASE ImportFails(c)
    <3>1. GoOn(c, "undoing", call[c].plan, call[c].before, DOMAIN call[c].before, None)
      BY <2>5 DEF ImportFails
    <3>2. /\ call'[c].before = call[c].before /\ TodoShape(c)'
          /\ \A e \in Call \ {c} : SameCall(e)
      BY <1>1, <3>1, GoOnIs DEF TodoShape
    <3>3. QED BY <1>2, <1>3, <2>1, <2>2, <2>3, <3>2, TypesStep
  <2>6. QED BY <1>6, <2>4, <2>5
<1>7. QED BY <1>4, <1>5, <1>6

LEMMA RestoresTypes ==
  ASSUME TypesInv, StoreInv', NEW c \in Call, Restore(c) \/ Restored(c) \/ RollbackFails(c)
  PROVE  TypesInv'
<1> DEFINE w == call[c].writing
<1>1. Excludes /\ Excludes' /\ StoreInv /\ TodoShape(c)
  BY DEF TypesInv, StoreInv
<1>2. /\ Busy(c) /\ call[c].todo \subseteq DOMAIN call[c].before /\ call[c].todo # {}
      /\ DOMAIN call[c].before \subseteq Key
  BY <1>1, AtWork DEF Restore, Restored, RollbackFails, At, Busy
<1>3. At(c, "restoring") => w \in DOMAIN call[c].before
  BY <1>1, <1>2, AtWork DEF Working
<1>4. CASE Restore(c)
  <2>1. PICK k : /\ k = FirstOf(call[c].todo)
                 /\ \/ DoneWith(c, k, "undoing") /\ cache' = cache
                    \/ /\ cache' = [cache EXCEPT ![k] = call[c].before[k]]
                       /\ GoOn(c, "restoring", call[c].plan, call[c].before, call[c].todo, k)
    BY <1>4 DEF Restore
  <2>2. k \in call[c].todo BY <1>2, <2>1, FirstOfIn
  <2>3. disk' = disk /\ unsaved' = unsaved BY <1>4 DEF Restore
  <2>4. CASE DoneWith(c, k, "undoing") /\ cache' = cache
    BY <1>1, <2>3, <2>4, DoneWithTodo, TypesStep
  <2>5. CASE /\ cache' = [cache EXCEPT ![k] = call[c].before[k]]
             /\ GoOn(c, "restoring", call[c].plan, call[c].before, call[c].todo, k)
    <3>1. /\ call'[c].before = call[c].before /\ TodoShape(c)'
          /\ \A e \in Call \ {c} : SameCall(e)
      BY <1>1, <2>2, <2>5, GoOnIs DEF TodoShape
    <3>2. \A j \in Key : cache'[j] = cache[j] \/ (j = k /\ cache'[j] = call[c].before[k])
      BY <1>1, <1>2, <2>2, <2>5, OneKey DEF StoreInv, DataShape
    <3>3. QED BY <1>2, <2>2, <2>3, <3>1, <3>2, TypesStep
  <2>6. QED BY <2>1, <2>4, <2>5
<1>5. CASE Restored(c)
  <2>1. /\ disk' = [disk EXCEPT ![w] = call[c].before[w]] /\ unsaved' = unsaved \ {w}
        /\ cache' = cache /\ DoneWith(c, w, "undoing") /\ At(c, "restoring")
    BY <1>5 DEF Restored
  <2>2. \A j \in Key : disk'[j] = disk[j] \/ (j = w /\ disk'[j] = call[c].before[w])
    BY <1>1, <1>2, <1>3, <2>1, OneKey DEF StoreInv, DataShape
  <2>3. QED BY <1>1, <1>2, <1>3, <2>1, <2>2, DoneWithTodo, TypesStep
<1>6. CASE RollbackFails(c)
  <2>1. /\ At(c, "restoring") /\ CacheAfterFailure(c) /\ disk' = disk /\ Finish(c)
        /\ unsaved' = unsaved \cup DOMAIN call[c].before
    BY <1>6 DEF RollbackFails
  <2>2. \A j \in Key : cache'[j] = cache[j]
                        \/ (j = w /\ cache'[j] \in {call[c].before[w], call[c].plan[w]})
    BY <1>1, <1>2, <1>3, <2>1, FailedWrite
  <2>3. QED BY <1>1, <1>2, <1>3, <2>1, <2>2, FinishTodo, TypesStep
<1>7. QED BY <1>4, <1>5, <1>6

LEMMA StoreKeepsTypes ==
  ASSUME TypesInv, [StoreNext]_storeVars
  PROVE  TypesInv'
<1>1. StoreInv' BY StoreKeepsData DEF TypesInv
<1>2. ASSUME NEW c \in Call, Submit(c) \/ \E d \in Day : AddFocusSession(c, d)
      PROVE  TypesInv'
  BY <1>1, <1>2, SubmitsTypes
<1>3. ASSUME NEW c \in Call, Proceed(c) PROVE TypesInv'
  BY <1>1, <1>3, ReadsTypes, WritesTypes, RestoresTypes DEF Proceed
<1>4. ASSUME NEW c \in Call, Answer(c) PROVE TypesInv'
  BY <1>1, <1>4, WritesTypes DEF Answer
<1>5. CASE Crash
  <2>1. /\ cache' = disk /\ disk' = disk /\ unsaved' = {}
        /\ \A c \in Call : call'[c] = NoCall
    BY <1>5 DEF Crash
  <2>2. (\A k \in Key : Held(k, cache[k]) /\ Held(k, disk[k]))'
    BY <2>1 DEF TypesInv, Held
  <2>3. (\A c \in Call : /\ TodoShape(c)
                         /\ \A k \in DOMAIN call[c].before : Held(k, call[c].before[k]))'
    BY <2>1, EmptyDomain DEF TodoShape, NoCall
  <2>4. QED BY <1>1, <2>1, <2>2, <2>3 DEF TypesInv
<1>6. CASE UNCHANGED storeVars
  <2>1. cache' = cache /\ disk' = disk /\ unsaved' = unsaved /\ call' = call
    BY <1>6 DEF storeVars
  <2>2. QED BY <1>1, <2>1 DEF TypesInv, Held, TodoShape
<1>7. QED BY <1>2, <1>3, <1>4, <1>5, <1>6 DEF StoreNext

LEMMA StartsTyped == StoreInit => TypesInv
<1> SUFFICES ASSUME StoreInit PROVE TypesInv OBVIOUS
<1>1. StoreInv BY NothingStored
<1>2. \A k \in Key : Held(k, cache[k]) /\ Held(k, disk[k])
  BY DEF StoreInit, Empty, Held
<1>3. \A c \in Call : /\ TodoShape(c)
                      /\ \A k \in DOMAIN call[c].before : Held(k, call[c].before[k])
  BY EmptyDomain DEF StoreInit, NoCall, TodoShape
<1>4. QED BY <1>1, <1>2, <1>3 DEF StoreInit, TypesInv

\* The type invariant: under a key of the scope there is nothing, or a value
\* of that key, in the plugin's cache, on the disk and in every snapshot; and
\* the timer's stages are those of PomodoroState.
THEOREM TypeCorrect == Spec => []TypeOK
<1>1. Init => StoreInit BY DEF Init
<1>2. [Next]_vars => [StoreNext]_storeVars BY StepOfStore
<1>3. TypesInv /\ [StoreNext]_storeVars => TypesInv'
  BY StoreKeepsTypes
<1>4. TypesInv /\ TimerInv => TypeOK
  <2>1. TypesInv => StoreTypeOK BY TypesFollow
  <2>2. TimerInv => /\ status \in Statuses /\ previous \in Active \cup {None}
                    /\ (previous # None) <=> (status = "paused")
                    /\ expired \in BOOLEAN /\ armed \in BOOLEAN
                    /\ saver \in Call \cup {None} /\ saves \in Nat
    BY TimerAssumption DEF TimerInv, TimerShape, RecordedStageIsOver
  <2>3. QED BY <2>1, <2>2 DEF TypeOK
<1>5. QED BY <1>1, <1>2, <1>3, <1>4, StartsTyped, TimerInvariant, PTL DEF Spec
=============================================================================
