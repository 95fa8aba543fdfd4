----------------------------- MODULE RateLimit -----------------------------
(***************************************************************************)
(* RateLimitService and the guards that consume its quotas: one per        *)
(* address, then, once the caller is known, one per application and one    *)
(* per user, or one per administrator.                                     *)
(*                                                                         *)
(* A quota counts the requests of a fixed window in Redis.  The instance   *)
(* reads its clock, names the counter after the window and sends a script; *)
(* the script runs later, maybe when the window is over, and sets the time *)
(* to live the instance had computed when it starts a counter.  Clocks of  *)
(* instances may be ahead of the slowest by up to Skew.                    *)
(***************************************************************************)
EXTENDS Naturals, Sequences

CONSTANTS
  Caller,    \* who sends requests
  Key,       \* addresses, applications, users and administrators
  GuardsOf,  \* the keys a caller's request is counted under, in order
  Limit,     \* configured limits
  Call,      \* requests in flight at the same time
  Window,    \* the length of a window
  Second,    \* the length of a second
  Skew,      \* how far clocks are apart
  MaxTime,   \* bound: the time
  MaxCalls   \* bound: requests

ASSUME RateLimitAssumption ==
  /\ GuardsOf \in [Caller -> Seq(Key) \ {<<>>}]
  /\ Limit \in [Key -> Nat \ {0}]
  /\ Window \in Nat \ {0} /\ Second \in Nat \ {0}
  /\ Skew \in Nat /\ MaxTime \in Nat /\ MaxCalls \in Nat

VARIABLES
  now,      \* the time, by the slowest clock
  counter,  \* the counters in Redis
  call,     \* the requests in flight
  calls,    \* bound: requests so far
  passed,   \* history: runs of the script within the limit, by key and window,
            \* while no clock had left the window
  ran       \* history: all runs within the limit

vars == <<now, counter, call, calls, passed, ran>>

Windows == 0 .. (MaxTime + Skew) \div Window
Stages  == {"idle", "guard", "sent", "rejected"}

\* count 0: no such key.
NoCounter == [count |-> 0, until |-> 0]

Idle == [at |-> "idle", guards |-> <<>>, window |-> 0, expiry |-> 0, hint |-> 0]

None == [k \in Key |-> [w \in Windows |-> 0]]

Init ==
  /\ now = 0
  /\ counter = [k \in Key |-> [w \in Windows |-> NoCounter]]
  /\ call = [c \in Call |-> Idle]
  /\ calls = 0
  /\ passed = None /\ ran = None

WindowEnd(w) == (w + 1) * Window

(***************************************************************************)
(* A request.                                                              *)
(***************************************************************************)
Arrive(c, caller) ==
  /\ call[c].at \in {"idle", "rejected"}
  /\ calls < MaxCalls
  /\ calls' = calls + 1
  /\ call' = [call EXCEPT ![c] = [Idle EXCEPT !.at = "guard", !.guards = GuardsOf[caller]]]
  /\ UNCHANGED <<now, counter, passed, ran>>

\* Fault: the time since the window began.
Elapsed(clock) == clock % Window

Expiry(clock) == Window - (clock % Window)

\* consume, up to the script.
Send(c) ==
  /\ call[c].at = "guard"
  /\ \E ahead \in 0 .. Skew :
       LET clock == now + ahead
       IN  call' = [call EXCEPT ![c].at = "sent",
                                ![c].window = clock \div Window,
                                ![c].expiry = Expiry(clock)]
  /\ UNCHANGED <<now, counter, calls, passed, ran>>

\* CONSUME_SCRIPT: INCR, and PEXPIRE when the counter is new.
Counted(old, expiry) ==
  IF old.count = 0 THEN [count |-> 1, until |-> now + expiry]
  ELSE [old EXCEPT !.count = @ + 1]

Over(count, k) == count > Limit[k]

\* Fault: seconds are rounded down.
RoundedDown(ttl) == IF ttl < Second THEN 1 ELSE ttl \div Second

\* Retry-After: at least one second.
RetryAfter(ttl) == IF ttl = 0 THEN 1 ELSE (ttl + Second - 1) \div Second

Bump(f, k, w) == [f EXCEPT ![k][w] = @ + 1]

\* The script runs.
Run(c, k, w, new) ==
  /\ counter' = [counter EXCEPT ![k][w] = new]
  /\ IF Over(new.count, k)
     THEN UNCHANGED <<passed, ran>>
     ELSE /\ ran' = Bump(ran, k, w)
          /\ passed' = IF now + Skew < WindowEnd(w) THEN Bump(passed, k, w) ELSE passed

\* The next guard, or the handler, or 429; 503 when the answer is lost.
Consume(c) ==
  LET k   == Head(call[c].guards)
      w   == call[c].window
      new == Counted(counter[k][w], call[c].expiry)
      more == Tail(call[c].guards)
      answered ==
        CASE Over(new.count, k) ->
               [Idle EXCEPT !.at = "rejected", !.window = w,
                            !.hint = RetryAfter(new.until - now)]
          [] more = <<>> -> Idle
          [] OTHER -> [Idle EXCEPT !.at = "guard", !.guards = more]
  IN  /\ call[c].at = "sent"
      /\ Run(c, k, w, new)
      /\ \E answer \in {answered, Idle} : call' = [call EXCEPT ![c] = answer]
      /\ UNCHANGED <<now, calls>>

\* The script is not run, the token is refused, or the instance dies.
Fail(c) ==
  /\ call[c].at \in {"guard", "sent"}
  /\ call' = [call EXCEPT ![c] = Idle]
  /\ UNCHANGED <<now, counter, calls, passed, ran>>

\* Redis removes a counter when its time is over.
Tick ==
  /\ now < MaxTime
  /\ now' = now + 1
  /\ counter' = [k \in Key |-> [w \in Windows |->
       IF counter[k][w].until <= now' THEN NoCounter ELSE counter[k][w]]]
  /\ UNCHANGED <<call, calls, passed, ran>>

Next ==
  \/ \E c \in Call :
       \/ \E caller \in Caller : Arrive(c, caller)
       \/ Send(c) \/ Consume(c) \/ Fail(c)
  \/ Tick

Spec == Init /\ [][Next]_vars

(***************************************************************************)
(* Properties.                                                             *)
(***************************************************************************)
TypeOK ==
  /\ now \in 0 .. MaxTime /\ calls \in 0 .. MaxCalls
  /\ counter \in [Key -> [Windows -> [count : Nat, until : Nat]]]
  /\ \A k \in Key, w \in Windows :
       counter[k][w].count > 0 => counter[k][w].until \in now + 1 .. now + Window
  /\ call \in [Call -> [at : Stages, guards : Seq(Key), window : Windows,
                        expiry : 0 .. Window, hint : Nat]]
  /\ \A c \in Call : call[c].at \in {"guard", "sent"} => call[c].guards # <<>>
  /\ passed \in [Key -> [Windows -> Nat]] /\ ran \in [Key -> [Windows -> Nat]]

\* However requests are delayed between clock and script, no quota lets more
\* than its limit through while its window lasts on every clock.
WindowQuota == \A k \in Key, w \in Windows : passed[k][w] <= Limit[k]

Rejects(c) == call[c].at = "sent" /\ call'[c].at = "rejected"

\* Nobody is refused who is within the limit of the window.
RejectedIsOverQuota ==
  [][\A c \in Call : Rejects(c) =>
       ran[Head(call[c].guards)][call[c].window] >= Limit[Head(call[c].guards)]]_vars

\* A refused caller who waits as Retry-After says, and for the clocks, is in
\* another window.
HintSuffices ==
  [][\A c \in Call : Rejects(c) =>
       now + call'[c].hint * Second + Skew >= WindowEnd(call[c].window)]_vars
=============================================================================
