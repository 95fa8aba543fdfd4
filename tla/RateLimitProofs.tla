-------------------------- MODULE RateLimitProofs --------------------------
(***************************************************************************)
(* Proofs about RateLimit, for every number of callers, keys and requests, *)
(* every limit and every length of window and second.                      *)
(***************************************************************************)
EXTENDS RateLimit, TLAPS

-----------------------------------------------------------------------------
(***************************************************************************)
(* The inductive invariant.                                                *)
(***************************************************************************)

\* What a script on its way will set lasts to the end of its window, by the
\* fastest clock.
SentFits ==
  \A c \in Call : call[c].at = "sent" =>
    /\ call[c].expiry \in 1 .. Window
    /\ now + Skew + call[c].expiry >= WindowEnd(call[c].window)

\* So does every counter.
CounterLasts ==
  \A k \in Key, w \in Windows :
    counter[k][w].count > 0 => counter[k][w].until + Skew >= WindowEnd(w)

\* While the window lasts its counter has counted what passed.
CounterCounts ==
  \A k \in Key, w \in Windows :
    now + Skew < WindowEnd(w) => passed[k][w] <= counter[k][w].count

\* A counter counts runs within the limit before it exceeds it.
RanIsCounted ==
  \A k \in Key, w \in Windows :
    counter[k][w].count <= ran[k][w] \/ Limit[k] <= ran[k][w]

IInv == TypeOK /\ SentFits /\ CounterLasts /\ CounterCounts /\ RanIsCounted /\ WindowQuota

\* The type of a call.
CallType == [at : Stages, guards : Seq(Key), window : Windows,
             expiry : 0 .. Window, hint : Nat]

-----------------------------------------------------------------------------
(***************************************************************************)
(* Arithmetic.                                                             *)
(***************************************************************************)

LEMMA Numbers ==
  /\ Window \in Nat \ {0} /\ Second \in Nat \ {0}
  /\ Skew \in Nat /\ MaxTime \in Nat /\ MaxTime + Skew \in Nat
  /\ MaxCalls \in Nat
<1>1. /\ Window \in Nat \ {0} /\ Second \in Nat \ {0}
      /\ Skew \in Nat /\ MaxTime \in Nat /\ MaxCalls \in Nat
  BY RateLimitAssumption
<1>2. QED BY <1>1

\* What is left of a window ends it.
LEMMA ExpiryEndsWindow ==
  ASSUME NEW clock \in Nat
  PROVE  /\ clock + Expiry(clock) = WindowEnd(clock \div Window)
         /\ Expiry(clock) \in 1 .. Window
<1>1. Window \in Nat \ {0}
  BY Numbers
<1> DEFINE q == clock \div Window
           r == clock % Window
<1>2. clock = Window * q + r /\ q \in Nat /\ r \in 0 .. Window - 1
  BY <1>1
<1> HIDE DEF q, r
<1>3. clock + (Window - r) = (q + 1) * Window /\ Window - r \in 1 .. Window
  BY <1>1, <1>2
<1>4. QED BY <1>3 DEF q, r, Expiry, WindowEnd

\* The window of a clock is one of those that have counters.
LEMMA ClockHasWindow ==
  ASSUME NEW clock \in Nat, clock <= MaxTime + Skew
  PROVE  clock \div Window \in Windows
<1>1. Window \in Nat \ {0} /\ MaxTime + Skew \in Nat
  BY Numbers
<1> DEFINE m == MaxTime + Skew
<1>2. m \in Nat /\ clock <= m
  BY <1>1
<1> HIDE DEF m
<1>3. clock \div Window \in 0 .. m \div Window
  BY <1>1, <1>2
<1>4. QED BY <1>3 DEF Windows, m

\* Retry-After is no shorter than what it rounds.
LEMMA RetryAfterCovers ==
  ASSUME NEW ttl \in Nat
  PROVE  RetryAfter(ttl) \in Nat /\ RetryAfter(ttl) * Second >= ttl
<1>1. Second \in Nat \ {0}
  BY Numbers
<1>2. (ttl + Second - 1) \div Second \in Nat /\ ((ttl + Second - 1) \div Second) * Second >= ttl
  BY <1>1
<1>3. QED BY <1>1, <1>2 DEF RetryAfter

\* The end of a window is a number.
LEMMA WindowEndIsNat ==
  ASSUME NEW w \in Windows
  PROVE  w \in Nat /\ WindowEnd(w) \in Nat
<1>1. Window \in Nat \ {0} /\ MaxTime + Skew \in Nat
  BY Numbers
<1>2. w \in Nat
  BY <1>1 DEF Windows
<1>3. QED BY <1>1, <1>2 DEF WindowEnd

-----------------------------------------------------------------------------
(***************************************************************************)
(* One request.                                                            *)
(***************************************************************************)

\* The calls that steps put in place of a call are calls.
LEMMA CallTypes ==
  /\ 0 \in Windows
  /\ Idle \in CallType
<1>1. Window \in Nat \ {0} /\ MaxTime + Skew \in Nat
  BY Numbers
<1>2. 0 \in Windows
  BY ClockHasWindow, <1>1, 0 \div Window = 0
<1>3. QED BY <1>1, <1>2 DEF Idle, Stages, CallType

\* Counters and calls, one by one.
LEMMA Pieces ==
  ASSUME TypeOK
  PROVE  /\ now \in Nat /\ now <= MaxTime
         /\ \A k \in Key, w \in Windows :
              /\ counter[k][w] \in [count : Nat, until : Nat]
              /\ passed[k][w] \in Nat /\ ran[k][w] \in Nat
              /\ counter[k][w].count > 0 => counter[k][w].until \in now + 1 .. now + Window
         /\ \A c \in Call : call[c] \in CallType
<1>1. now \in Nat /\ now <= MaxTime
  BY Numbers DEF TypeOK
<1>2. \A k \in Key : /\ counter[k] \in [Windows -> [count : Nat, until : Nat]]
                     /\ passed[k] \in [Windows -> Nat] /\ ran[k] \in [Windows -> Nat]
  BY DEF TypeOK
<1>3. \A c \in Call : call[c] \in CallType
  BY DEF TypeOK, CallType
<1>4. QED BY <1>1, <1>2, <1>3 DEF TypeOK

\* A script that runs counts once more, from one when the counter is new, and
\* the time the counter has left is positive and reaches the end of its window.
LEMMA CountedFacts ==
  ASSUME TypeOK, SentFits, CounterLasts, NEW c \in Call, call[c].at = "sent",
         NEW k \in Key, NEW w \in Windows, w = call[c].window
  PROVE  LET new == Counted(counter[k][w], call[c].expiry)
         IN  /\ new \in [count : Nat, until : Nat]
             /\ new.count = counter[k][w].count + 1
             /\ new.until \in now + 1 .. now + Window
             /\ new.until + Skew >= WindowEnd(w)
<1> DEFINE old == counter[k][w]
           expiry == call[c].expiry
<1>1. /\ old \in [count : Nat, until : Nat]
      /\ old.count > 0 => old.until \in now + 1 .. now + Window
      /\ now \in Nat /\ Window \in Nat /\ Skew \in Nat
  BY Pieces, Numbers
<1>2. old.count > 0 => old.until + Skew >= WindowEnd(w)
  BY DEF CounterLasts
<1>3. /\ WindowEnd(w) \in Nat /\ expiry \in 1 .. Window
      /\ now + Skew + expiry >= WindowEnd(w)
  BY WindowEndIsNat DEF SentFits
<1> HIDE DEF old, expiry
<1>4. CASE old.count = 0
  <2>1. Counted(old, expiry) = [count |-> 1, until |-> now + expiry]
    BY <1>4 DEF Counted
  <2>2. QED BY <1>1, <1>3, <1>4, <2>1 DEF old, expiry
<1>5. CASE old.count # 0
  <2>1. Counted(old, expiry) = [old EXCEPT !.count = @ + 1]
    BY <1>5 DEF Counted
  <2>2. QED BY <1>1, <1>2, <1>5, <2>1 DEF old, expiry
<1>6. QED BY <1>4, <1>5

\* What Consume does to a call, and where it counts.
LEMMA ConsumeSteps ==
  ASSUME TypeOK, SentFits, CounterLasts, NEW c \in Call, Consume(c)
  PROVE  /\ call[c].at = "sent"
         /\ Head(call[c].guards) \in Key /\ call[c].window \in Windows
         /\ \E answer \in CallType :
              /\ call' = [call EXCEPT ![c] = answer]
              /\ answer.at \in {"idle", "guard", "rejected"}
              /\ answer.at = "guard" => answer.guards # <<>>
              /\ answer.at = "rejected" =>
                   LET k   == Head(call[c].guards)
                       new == Counted(counter[k][call[c].window], call[c].expiry)
                   IN  Over(new.count, k) /\ answer.hint = RetryAfter(new.until - now)
<1> DEFINE k == Head(call[c].guards)
           w == call[c].window
           new == Counted(counter[k][w], call[c].expiry)
           more == Tail(call[c].guards)
           hint == RetryAfter(new.until - now)
           rejection == [Idle EXCEPT !.at = "rejected", !.window = w, !.hint = hint]
           onward == [Idle EXCEPT !.at = "guard", !.guards = more]
<1>1. call[c].at = "sent" /\ call[c] \in CallType /\ call[c].guards # <<>>
  BY Pieces DEF Consume, TypeOK
<1>2. k \in Key /\ w \in Windows /\ more \in Seq(Key)
  BY <1>1 DEF CallType
<1>3. new.until \in now + 1 .. now + Window /\ now \in Nat
  BY <1>1, <1>2, CountedFacts, Pieces
<1>4. hint \in Nat
  <2>1. new.until - now \in Nat
    BY <1>3, Numbers
  <2>2. QED BY <2>1, RetryAfterCovers
<1>5. Idle \in CallType /\ Idle.at = "idle"
  BY CallTypes DEF CallType, Idle
<1>6. rejection \in CallType /\ rejection.at = "rejected" /\ rejection.hint = hint
  BY <1>2, <1>4, <1>5 DEF CallType, Idle, Stages
<1>7. onward \in CallType /\ onward.at = "guard" /\ onward.guards = more
  BY <1>2, <1>5 DEF CallType, Idle, Stages
<1>8. \/ call' = [call EXCEPT ![c] = Idle]
      \/ Over(new.count, k) /\ call' = [call EXCEPT ![c] = rejection]
      \/ more # <<>> /\ call' = [call EXCEPT ![c] = onward]
  BY DEF Consume
<1> HIDE DEF rejection, onward, hint, more
<1>9. QED BY <1>1, <1>2, <1>5, <1>6, <1>7, <1>8 DEF hint

\* Replacing one call by a call keeps them typed, and fit to be sent when the
\* new one is not.
LEMMA CallSteps ==
  ASSUME TypeOK, SentFits, NEW c \in Call, NEW answer \in CallType,
         call' = [call EXCEPT ![c] = answer], now' = now,
         answer.at \in {"guard", "sent"} => answer.guards # <<>>,
         answer.at = "sent" => /\ answer.expiry \in 1 .. Window
                               /\ now + Skew + answer.expiry >= WindowEnd(answer.window)
  PROVE  /\ call' \in [Call -> CallType]
         /\ \A d \in Call : call'[d].at \in {"guard", "sent"} => call'[d].guards # <<>>
         /\ SentFits'
<1>1. call \in [Call -> CallType]
  BY DEF TypeOK, CallType
<1>2. \A d \in Call : call'[d] = IF d = c THEN answer ELSE call[d]
  BY <1>1
<1>3. call' \in [Call -> CallType]
  BY <1>1
<1>4. \A d \in Call : call'[d].at \in {"guard", "sent"} => call'[d].guards # <<>>
  BY <1>2 DEF TypeOK
<1>5. SentFits'
  BY <1>2 DEF SentFits, WindowEnd
<1>6. QED BY <1>3, <1>4, <1>5

\* A step that runs no script and lets no time pass.
Quiet == UNCHANGED <<now, counter, passed, ran>>

LEMMA QuietSteps ==
  ASSUME IInv, Quiet, calls' \in 0 .. MaxCalls, call' \in [Call -> CallType],
         \A d \in Call : call'[d].at \in {"guard", "sent"} => call'[d].guards # <<>>,
         SentFits'
  PROVE  IInv'
<1>1. TypeOK'
  BY DEF IInv, TypeOK, Quiet, CallType
<1>2. CounterLasts' /\ CounterCounts' /\ RanIsCounted' /\ WindowQuota'
  BY DEF IInv, Quiet, CounterLasts, CounterCounts, RanIsCounted, WindowQuota, WindowEnd
<1>3. QED BY <1>1, <1>2 DEF IInv

LEMMA ArriveStep ==
  ASSUME IInv, NEW c \in Call, NEW caller \in Caller, Arrive(c, caller)
  PROVE  IInv'
<1> DEFINE answer == [Idle EXCEPT !.at = "guard", !.guards = GuardsOf[caller]]
<1>1. GuardsOf[caller] \in Seq(Key) /\ GuardsOf[caller] # <<>>
  BY RateLimitAssumption
<1>2. Idle \in CallType
  BY CallTypes
<1>3. answer \in CallType /\ answer.at = "guard" /\ answer.guards = GuardsOf[caller]
  BY <1>1, <1>2 DEF CallType, Idle, Stages
<1>4. call' = [call EXCEPT ![c] = answer] /\ Quiet
  BY DEF Arrive, Quiet
<1>5. calls' \in 0 .. MaxCalls
  <2>1. MaxCalls \in Nat /\ calls \in 0 .. MaxCalls
    BY Numbers DEF IInv, TypeOK
  <2>2. calls < MaxCalls /\ calls' = calls + 1
    BY DEF Arrive
  <2>3. QED BY <2>1, <2>2
<1> HIDE DEF answer
<1>6. QED BY <1>1, <1>3, <1>4, <1>5, CallSteps, QuietSteps DEF IInv, Quiet

LEMMA SendStep ==
  ASSUME IInv, NEW c \in Call, Send(c)
  PROVE  IInv'
<1>1. PICK ahead \in 0 .. Skew :
        LET clock == now + ahead
        IN  call' = [call EXCEPT ![c].at = "sent",
                                 ![c].window = clock \div Window,
                                 ![c].expiry = Expiry(clock)]
  BY DEF Send
<1> DEFINE clock == now + ahead
           w == clock \div Window
           answer == [call[c] EXCEPT !.at = "sent", !.window = w, !.expiry = Expiry(clock)]
<1>2. clock \in Nat /\ clock <= MaxTime + Skew /\ clock <= now + Skew /\ now \in Nat
  BY Pieces, Numbers DEF IInv
<1>3. w \in Windows /\ clock + Expiry(clock) = WindowEnd(w) /\ Expiry(clock) \in 1 .. Window
  BY <1>2, ClockHasWindow, ExpiryEndsWindow
<1>4. call[c] \in CallType /\ call[c].guards # <<>> /\ call \in [Call -> CallType]
  BY Pieces DEF IInv, TypeOK, Send, CallType
<1>5. call' = [call EXCEPT ![c] = answer]
  BY <1>1, <1>4
<1>6. /\ answer \in CallType /\ answer.guards # <<>>
      /\ answer.expiry = Expiry(clock) /\ answer.window = w
  <2>1. Expiry(clock) \in 0 .. Window
    BY <1>3, Numbers
  <2> DEFINE e == Expiry(clock)
  <2>2. e \in 0 .. Window /\ "sent" \in Stages /\ w \in Windows
    BY <1>3, <2>1 DEF Stages
  <2> HIDE DEF e, w
  <2>3. /\ [call[c] EXCEPT !.at = "sent", !.window = w, !.expiry = e] \in CallType
        /\ [call[c] EXCEPT !.at = "sent", !.window = w, !.expiry = e].guards # <<>>
        /\ [call[c] EXCEPT !.at = "sent", !.window = w, !.expiry = e].expiry = e
        /\ [call[c] EXCEPT !.at = "sent", !.window = w, !.expiry = e].window = w
    BY <1>4, <2>2 DEF CallType
  <2>4. QED BY <2>3 DEF e
<1>7. WindowEnd(w) \in Nat
  BY <1>3, WindowEndIsNat
<1>8. now + Skew + Expiry(clock) >= WindowEnd(w)
  BY <1>2, <1>3, <1>7, Numbers
<1>9. Quiet /\ calls' \in 0 .. MaxCalls
  BY DEF Send, Quiet, IInv, TypeOK
<1> HIDE DEF answer, w, clock
<1>10. QED BY <1>3, <1>5, <1>6, <1>8, <1>9, CallSteps, QuietSteps DEF IInv, Quiet

LEMMA FailStep ==
  ASSUME IInv, NEW c \in Call, Fail(c)
  PROVE  IInv'
<1>1. Idle \in CallType /\ Idle.at = "idle"
  BY CallTypes DEF Idle
<1>2. call' = [call EXCEPT ![c] = Idle] /\ Quiet /\ calls' \in 0 .. MaxCalls
  BY DEF Fail, Quiet, IInv, TypeOK
<1>3. QED BY <1>1, <1>2, CallSteps, QuietSteps DEF IInv, Quiet

\* One history counts one more.
LEMMA BumpFacts ==
  ASSUME NEW f \in [Key -> [Windows -> Nat]], NEW k \in Key, NEW w \in Windows
  PROVE  /\ Bump(f, k, w) \in [Key -> [Windows -> Nat]]
         /\ \A i \in Key, v \in Windows :
              Bump(f, k, w)[i][v] = IF i = k /\ v = w THEN f[i][v] + 1 ELSE f[i][v]
<1>1. f[k] \in [Windows -> Nat] /\ f[k][w] + 1 \in Nat
  OBVIOUS
<1>2. QED BY <1>1 DEF Bump

\* The script counts a request that is within the limit as one that ran, and
\* as one that passed while the window lasts.
LEMMA ConsumeStep ==
  ASSUME IInv, NEW c \in Call, Consume(c)
  PROVE  IInv'
<1> DEFINE k == Head(call[c].guards)
           w == call[c].window
           new == Counted(counter[k][w], call[c].expiry)
<1>1. TypeOK /\ SentFits /\ CounterLasts /\ CounterCounts /\ RanIsCounted /\ WindowQuota
  BY DEF IInv
<1>2. call[c].at = "sent" /\ k \in Key /\ w \in Windows
  BY <1>1, ConsumeSteps
<1>3. /\ new \in [count : Nat, until : Nat]
      /\ new.count = counter[k][w].count + 1
      /\ new.until \in now + 1 .. now + Window
      /\ new.until + Skew >= WindowEnd(w)
  BY <1>1, <1>2, CountedFacts
<1>4. Run(c, k, w, new) /\ now' = now /\ calls' = calls
  BY DEF Consume
<1>5. /\ call' \in [Call -> CallType]
      /\ \A d \in Call : call'[d].at \in {"guard", "sent"} => call'[d].guards # <<>>
      /\ SentFits'
  BY <1>1, <1>4, ConsumeSteps, CallSteps
<1> HIDE DEF new, k, w
<1>6. /\ counter' \in [Key -> [Windows -> [count : Nat, until : Nat]]]
      /\ \A i \in Key, v \in Windows :
           counter'[i][v] = IF i = k /\ v = w THEN new ELSE counter[i][v]
  BY <1>1, <1>2, <1>3, <1>4 DEF Run, TypeOK
<1>7. /\ ran \in [Key -> [Windows -> Nat]] /\ passed \in [Key -> [Windows -> Nat]]
      /\ \/ new.count > Limit[k] /\ ran' = ran /\ passed' = passed
         \/ /\ ~(new.count > Limit[k]) /\ ran' = Bump(ran, k, w)
            /\ \/ now + Skew < WindowEnd(w) /\ passed' = Bump(passed, k, w)
               \/ ~(now + Skew < WindowEnd(w)) /\ passed' = passed
  <2>1. ran \in [Key -> [Windows -> Nat]] /\ passed \in [Key -> [Windows -> Nat]]
    BY <1>1 DEF TypeOK
  <2>2. QED BY <1>4, <2>1 DEF Run, Over
<1>8. /\ ran' \in [Key -> [Windows -> Nat]]
      /\ \A i \in Key, v \in Windows :
           IF i = k /\ v = w /\ ~(new.count > Limit[k])
           THEN ran'[i][v] = ran[i][v] + 1 ELSE ran'[i][v] = ran[i][v]
  <2>1. CASE new.count > Limit[k] /\ ran' = ran
    BY <1>7, <2>1
  <2>2. CASE ~(new.count > Limit[k]) /\ ran' = Bump(ran, k, w)
    <3>1. /\ Bump(ran, k, w) \in [Key -> [Windows -> Nat]]
          /\ \A i \in Key, v \in Windows :
               Bump(ran, k, w)[i][v] = IF i = k /\ v = w THEN ran[i][v] + 1 ELSE ran[i][v]
      <4>1. ran \in [Key -> [Windows -> Nat]]
        BY <1>7
      <4>2. QED BY ONLY <1>2, <4>1, BumpFacts
    <3>2. QED BY <2>2, <3>1
  <2>3. QED BY <1>7, <2>1, <2>2
<1>9. /\ passed' \in [Key -> [Windows -> Nat]]
      /\ \A i \in Key, v \in Windows :
           IF i = k /\ v = w /\ ~(new.count > Limit[k]) /\ now + Skew < WindowEnd(w)
           THEN passed'[i][v] = passed[i][v] + 1 ELSE passed'[i][v] = passed[i][v]
  <2>1. CASE /\ ~(new.count > Limit[k]) /\ now + Skew < WindowEnd(w)
             /\ passed' = Bump(passed, k, w)
    BY <1>2, <1>7, <2>1, BumpFacts
  <2>2. CASE /\ new.count > Limit[k] \/ ~(now + Skew < WindowEnd(w))
             /\ passed' = passed
    BY <1>7, <2>2
  <2>3. QED BY <1>7, <2>1, <2>2
<1>10. TypeOK'
  <2>1. \A i \in Key, v \in Windows :
          counter'[i][v].count > 0 => counter'[i][v].until \in now' + 1 .. now' + Window
    BY <1>1, <1>3, <1>4, <1>6, Pieces
  <2>2. now' \in 0 .. MaxTime /\ calls' \in 0 .. MaxCalls
    BY <1>1, <1>4 DEF TypeOK
  <2>3. QED BY <1>5, <1>6, <1>8, <1>9, <2>1, <2>2 DEF TypeOK, CallType
<1>11. CounterLasts'
  <2>1. SUFFICES ASSUME NEW i \in Key, NEW v \in Windows, counter'[i][v].count > 0
                 PROVE  counter'[i][v].until + Skew >= WindowEnd(v)
    BY DEF CounterLasts, WindowEnd
  <2>2. CASE i = k /\ v = w
    BY <1>3, <1>6, <2>2
  <2>3. CASE ~(i = k /\ v = w)
    BY <1>1, <1>6, <2>1, <2>3 DEF CounterLasts
  <2>4. QED BY <2>2, <2>3
<1>12. CounterCounts'
  <2> SUFFICES ASSUME NEW i \in Key, NEW v \in Windows, now + Skew < WindowEnd(v)
               PROVE  passed'[i][v] <= counter'[i][v].count
    BY <1>4 DEF CounterCounts, WindowEnd
  <2>1. passed[i][v] <= counter[i][v].count /\ passed[i][v] \in Nat /\ counter[i][v].count \in Nat
    BY <1>1, Pieces DEF CounterCounts
  <2>2. CASE i = k /\ v = w
    <3>1. counter'[i][v].count = counter[i][v].count + 1
      BY <1>3, <1>6, <2>2
    <3>2. passed'[i][v] \in {passed[i][v], passed[i][v] + 1}
      BY <1>9
    <3>3. QED BY <2>1, <3>1, <3>2
  <2>3. CASE ~(i = k /\ v = w)
    BY <1>6, <1>9, <2>1, <2>3
  <2>4. QED BY <2>2, <2>3
<1>13. RanIsCounted'
  <2> SUFFICES ASSUME NEW i \in Key, NEW v \in Windows
               PROVE  counter'[i][v].count <= ran'[i][v] \/ Limit[i] <= ran'[i][v]
    BY DEF RanIsCounted
  <2>1. /\ counter[i][v].count <= ran[i][v] \/ Limit[i] <= ran[i][v]
        /\ ran[i][v] \in Nat /\ counter[i][v].count \in Nat /\ Limit[i] \in Nat
    BY <1>1, Pieces, RateLimitAssumption DEF RanIsCounted
  <2>2. CASE i = k /\ v = w /\ new.count > Limit[k]
    BY <1>3, <1>6, <1>8, <2>1, <2>2
  <2>3. CASE ~(i = k /\ v = w /\ new.count > Limit[k])
    BY <1>3, <1>6, <1>8, <2>1, <2>3
  <2>4. QED BY <2>2, <2>3
<1>14. WindowQuota'
  <2> SUFFICES ASSUME NEW i \in Key, NEW v \in Windows
               PROVE  passed'[i][v] <= Limit[i]
    BY DEF WindowQuota
  <2>1. /\ passed[i][v] <= Limit[i]
        /\ passed[i][v] \in Nat /\ counter[i][v].count \in Nat /\ Limit[i] \in Nat
    BY <1>1, Pieces, RateLimitAssumption DEF WindowQuota
  <2>2. CASE i = k /\ v = w /\ ~(new.count > Limit[k]) /\ now + Skew < WindowEnd(w)
    <3>1. passed[i][v] <= counter[i][v].count
      BY <1>1, <2>2 DEF CounterCounts
    <3>2. QED BY <1>3, <1>9, <2>1, <2>2, <3>1
  <2>3. CASE ~(i = k /\ v = w /\ ~(new.count > Limit[k]) /\ now + Skew < WindowEnd(w))
    BY <1>9, <2>1, <2>3
  <2>4. QED BY <2>2, <2>3
<1>15. QED BY <1>5, <1>10, <1>11, <1>12, <1>13, <1>14 DEF IInv

\* A counter that Redis removes is one of a window that is over on some clock.
LEMMA TickStep ==
  ASSUME IInv, Tick
  PROVE  IInv'
<1>1. TypeOK /\ SentFits /\ CounterLasts /\ CounterCounts /\ RanIsCounted /\ WindowQuota
  BY DEF IInv
<1>2. /\ now' = now + 1 /\ now < MaxTime
      /\ counter' = [i \in Key |-> [v \in Windows |->
           IF counter[i][v].until <= now' THEN NoCounter ELSE counter[i][v]]]
      /\ UNCHANGED <<call, calls, passed, ran>>
  BY DEF Tick
<1>3. now \in Nat /\ now' \in 0 .. MaxTime
  BY <1>1, <1>2, Pieces, Numbers
<1>4. \A i \in Key, v \in Windows :
        /\ counter[i][v] \in [count : Nat, until : Nat]
        /\ counter[i][v].count > 0 => counter[i][v].until \in now + 1 .. now + Window
        /\ counter'[i][v] = IF counter[i][v].until <= now' THEN NoCounter ELSE counter[i][v]
        /\ passed[i][v] \in Nat /\ ran[i][v] \in Nat
  BY <1>1, <1>2, Pieces
<1>5. NoCounter \in [count : Nat, until : Nat] /\ NoCounter.count = 0
  BY DEF NoCounter
<1>6. TypeOK'
  <2>1. counter' \in [Key -> [Windows -> [count : Nat, until : Nat]]]
    BY <1>2, <1>4, <1>5
  <2>2. \A i \in Key, v \in Windows :
          counter'[i][v].count > 0 => counter'[i][v].until \in now' + 1 .. now' + Window
    BY <1>2, <1>3, <1>4, <1>5, Numbers
  <2>3. QED BY <1>1, <1>2, <1>3, <2>1, <2>2 DEF TypeOK
<1>7. SentFits'
  <2> SUFFICES ASSUME NEW c \in Call, call[c].at = "sent"
               PROVE  /\ call[c].expiry \in 1 .. Window
                      /\ now' + Skew + call[c].expiry >= WindowEnd(call[c].window)
    BY <1>2 DEF SentFits, WindowEnd
  <2>1. /\ call[c].expiry \in 1 .. Window
        /\ now + Skew + call[c].expiry >= WindowEnd(call[c].window)
    BY <1>1 DEF SentFits
  <2>2. call[c].window \in Windows
    BY <1>1, Pieces DEF CallType
  <2>3. WindowEnd(call[c].window) \in Nat
    BY <2>2, WindowEndIsNat
  <2>4. QED BY <1>2, <1>3, <2>1, <2>3, Numbers
<1>8. CounterLasts'
  <2> SUFFICES ASSUME NEW i \in Key, NEW v \in Windows, counter'[i][v].count > 0
               PROVE  counter'[i][v].until + Skew >= WindowEnd(v)
    BY DEF CounterLasts, WindowEnd
  <2>1. counter'[i][v] = counter[i][v]
    BY <1>4, <1>5
  <2>2. QED BY <1>1, <2>1 DEF CounterLasts
<1>9. CounterCounts'
  <2> SUFFICES ASSUME NEW i \in Key, NEW v \in Windows, now' + Skew < WindowEnd(v)
               PROVE  passed[i][v] <= counter'[i][v].count
    BY <1>2 DEF CounterCounts, WindowEnd
  <2>1. WindowEnd(v) \in Nat
    BY WindowEndIsNat
  <2>2. passed[i][v] <= counter[i][v].count
    BY <1>1, <1>2, <1>3, <2>1, Numbers DEF CounterCounts
  <2>3. CASE counter[i][v].count = 0
    BY <1>4, <1>5, <2>2, <2>3
  <2>4. CASE counter[i][v].count > 0
    <3>1. counter[i][v].until + Skew >= WindowEnd(v)
      BY <1>1, <2>4 DEF CounterLasts
    <3>2. counter'[i][v] = counter[i][v]
      BY <1>3, <1>4, <2>1, <2>4, <3>1, Numbers
    <3>3. QED BY <2>2, <3>2
  <2>5. QED BY <1>4, <2>3, <2>4
<1>10. RanIsCounted'
  BY <1>1, <1>2, <1>4, <1>5 DEF RanIsCounted
<1>11. WindowQuota'
  BY <1>1, <1>2 DEF WindowQuota
<1>12. QED BY <1>6, <1>7, <1>8, <1>9, <1>10, <1>11 DEF IInv

-----------------------------------------------------------------------------
(***************************************************************************)
(* The theorems.                                                           *)
(***************************************************************************)

LEMMA InitInv == Init => IInv
<1> SUFFICES ASSUME Init PROVE IInv
  OBVIOUS
<1>1. /\ now = 0 /\ calls = 0 /\ call = [c \in Call |-> Idle] /\ Idle \in CallType
      /\ Idle.at = "idle"
  BY CallTypes DEF Init, Idle
<1>2. \A k \in Key, w \in Windows :
        counter[k][w] = NoCounter /\ passed[k][w] = 0 /\ ran[k][w] = 0
  BY DEF Init, None
<1>3. NoCounter \in [count : Nat, until : Nat] /\ NoCounter.count = 0
  BY DEF NoCounter
<1>4. TypeOK
  <2>1. counter \in [Key -> [Windows -> [count : Nat, until : Nat]]]
    BY <1>3 DEF Init
  <2>2. passed \in [Key -> [Windows -> Nat]] /\ ran \in [Key -> [Windows -> Nat]]
    BY DEF Init, None
  <2>3. now \in 0 .. MaxTime /\ calls \in 0 .. MaxCalls
    BY <1>1, Numbers
  <2>4. call \in [Call -> CallType] /\ \A c \in Call : call[c].at = "idle"
    BY <1>1
  <2>5. QED BY <1>2, <1>3, <2>1, <2>2, <2>3, <2>4 DEF TypeOK, CallType
<1>5. SentFits
  BY <1>1 DEF SentFits
<1>6. CounterLasts /\ CounterCounts /\ RanIsCounted
  BY <1>2, <1>3 DEF CounterLasts, CounterCounts, RanIsCounted
<1>7. WindowQuota
  BY <1>2, RateLimitAssumption DEF WindowQuota
<1>8. QED BY <1>4, <1>5, <1>6, <1>7 DEF IInv

LEMMA NextInv == IInv /\ [Next]_vars => IInv'
<1> SUFFICES ASSUME IInv, [Next]_vars PROVE IInv'
  OBVIOUS
<1>1. CASE UNCHANGED vars
  BY <1>1 DEF vars, IInv, TypeOK, SentFits, CounterLasts, CounterCounts, RanIsCounted,
              WindowQuota, WindowEnd
<1>2. CASE Next
  BY <1>2, ArriveStep, SendStep, ConsumeStep, FailStep, TickStep DEF Next
<1>3. QED BY <1>1, <1>2

LEMMA Invariance == Spec => []IInv
<1>1. QED BY InitInv, NextInv, PTL DEF Spec

\* Counters live no longer than a window from now, and calls are well typed.
THEOREM TypeCorrect == Spec => []TypeOK
<1>1. IInv => TypeOK
  BY DEF IInv
<1>2. QED BY <1>1, Invariance, PTL

\* No delay between clock and script, and no disagreement of clocks, lets
\* more requests through than the limit while a window lasts.
THEOREM Quota == Spec => []WindowQuota
<1>1. IInv => WindowQuota
  BY DEF IInv
<1>2. QED BY <1>1, Invariance, PTL

\* Only Consume refuses.
LEMMA RefusedByConsume ==
  ASSUME IInv, [Next]_vars, NEW c \in Call, Rejects(c)
  PROVE  Consume(c)
<1>0. c \in DOMAIN call
  BY DEF IInv, TypeOK
<1>1. \A d \in Call, caller \in Caller : ~Arrive(d, caller)
  <2> SUFFICES ASSUME NEW d \in Call, NEW caller \in Caller, Arrive(d, caller) PROVE FALSE
    OBVIOUS
  <2>1. QED BY <1>0 DEF Arrive, Rejects, Idle
<1>2. \A d \in Call : ~Send(d)
  BY <1>0 DEF Send, Rejects
<1>3. \A d \in Call : ~Fail(d)
  BY <1>0 DEF Fail, Rejects, Idle
<1>4. ~Tick /\ ~UNCHANGED vars
  BY DEF Tick, Rejects, vars
<1>5. \A d \in Call : Consume(d) => d = c
  <2> SUFFICES ASSUME NEW d \in Call, Consume(d), d # c PROVE FALSE
    OBVIOUS
  <2>1. PICK answer : call' = [call EXCEPT ![d] = answer]
    BY DEF Consume
  <2>2. QED BY <1>0, <2>1 DEF Rejects
<1>6. QED BY <1>1, <1>2, <1>3, <1>4, <1>5 DEF Next

\* What a refusal knows of the counter.
LEMMA Refusal ==
  ASSUME IInv, [Next]_vars, NEW c \in Call, Rejects(c)
  PROVE  LET k   == Head(call[c].guards)
             w   == call[c].window
             new == Counted(counter[k][w], call[c].expiry)
         IN  /\ k \in Key /\ w \in Windows
             /\ new.count = counter[k][w].count + 1
             /\ new.until \in now + 1 .. now + Window
             /\ new.until + Skew >= WindowEnd(w)
             /\ Over(new.count, k) /\ call'[c].hint = RetryAfter(new.until - now)
<1>1. Consume(c) /\ TypeOK /\ SentFits /\ CounterLasts
  BY RefusedByConsume DEF IInv
<1>2. PICK answer \in CallType :
        /\ call' = [call EXCEPT ![c] = answer]
        /\ answer.at = "rejected" =>
             LET k   == Head(call[c].guards)
                 new == Counted(counter[k][call[c].window], call[c].expiry)
             IN  Over(new.count, k) /\ answer.hint = RetryAfter(new.until - now)
  BY <1>1, ConsumeSteps
<1>3. call'[c] = answer
  BY <1>1, <1>2 DEF TypeOK
<1>4. call[c].at = "sent" /\ Head(call[c].guards) \in Key /\ call[c].window \in Windows
  BY <1>1, ConsumeSteps
<1>5. answer.at = "rejected"
  BY <1>3 DEF Rejects
<1>6. QED BY <1>1, <1>2, <1>3, <1>4, <1>5, CountedFacts

\* A caller is refused only when as many as the limit were let through.
THEOREM RejectedOverQuota == Spec => RejectedIsOverQuota
<1>1. ASSUME IInv, [Next]_vars, NEW c \in Call, Rejects(c)
      PROVE  ran[Head(call[c].guards)][call[c].window] >= Limit[Head(call[c].guards)]
  <2> DEFINE k == Head(call[c].guards)
             w == call[c].window
  <2>1. /\ k \in Key /\ w \in Windows
        /\ counter[k][w].count + 1 > Limit[k]
    BY <1>1, Refusal DEF Over
  <2>2. /\ counter[k][w].count <= ran[k][w] \/ Limit[k] <= ran[k][w]
        /\ counter[k][w].count \in Nat /\ ran[k][w] \in Nat /\ Limit[k] \in Nat
    BY <1>1, <2>1, Pieces, RateLimitAssumption DEF IInv, RanIsCounted
  <2> HIDE DEF k, w
  <2>3. ran[k][w] >= Limit[k]
    BY <2>1, <2>2
  <2>4. QED BY <2>3 DEF k, w
<1>2. IInv /\ [Next]_vars =>
        [\A c \in Call : Rejects(c) =>
           ran[Head(call[c].guards)][call[c].window] >= Limit[Head(call[c].guards)]]_vars
  BY <1>1
<1>3. QED BY <1>2, Invariance, PTL DEF Spec, RejectedIsOverQuota

\* Retry-After reaches the end of the window that refused.
THEOREM HintsSuffice == Spec => HintSuffices
<1>1. ASSUME IInv, [Next]_vars, NEW c \in Call, Rejects(c)
      PROVE  now + call'[c].hint * Second + Skew >= WindowEnd(call[c].window)
  <2> DEFINE w == call[c].window
             ttl == Counted(counter[Head(call[c].guards)][w], call[c].expiry).until - now
  <2>1. /\ w \in Windows /\ now \in Nat
        /\ ttl \in Nat /\ now + ttl + Skew >= WindowEnd(w)
        /\ call'[c].hint = RetryAfter(ttl)
    <3>1. now \in Nat
      BY <1>1, Pieces DEF IInv
    <3>2. PICK until : until = Counted(counter[Head(call[c].guards)][w], call[c].expiry).until
      OBVIOUS
    <3>3. /\ w \in Windows /\ until \in now + 1 .. now + Window
          /\ until + Skew >= WindowEnd(w) /\ call'[c].hint = RetryAfter(until - now)
      BY <1>1, <3>2, Refusal
    <3>4. until \in Nat /\ until - now \in Nat /\ now + (until - now) = until
      BY ONLY <3>1, <3>3, Numbers
    <3>5. QED BY <3>1, <3>2, <3>3, <3>4
  <2> HIDE DEF w, ttl
  <2>2. RetryAfter(ttl) \in Nat /\ RetryAfter(ttl) * Second >= ttl
    BY <2>1, RetryAfterCovers
  <2>3. WindowEnd(w) \in Nat /\ Second \in Nat /\ Skew \in Nat
    BY <2>1, WindowEndIsNat, Numbers
  <2> DEFINE wait == RetryAfter(ttl) * Second
  <2>4. wait \in Nat /\ wait >= ttl
    BY <2>2, <2>3
  <2> HIDE DEF wait
  <2>5. now + wait + Skew >= WindowEnd(w)
    BY <2>1, <2>3, <2>4
  <2>6. QED BY <2>1, <2>5 DEF w, wait
<1>2. IInv /\ [Next]_vars =>
        [\A c \in Call : Rejects(c) =>
           now + call'[c].hint * Second + Skew >= WindowEnd(call[c].window)]_vars
  BY <1>1
<1>3. QED BY <1>2, Invariance, PTL DEF Spec, HintSuffices
=============================================================================
