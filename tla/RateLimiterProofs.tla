------------------------- MODULE RateLimiterProofs --------------------------
(***************************************************************************)
(* Proofs about RateLimiter for any limits, callers and bounds: types, how *)
(* much a window lets through, and that nobody is slowed down before the   *)
(* limit was reached.                                                      *)
(***************************************************************************)
EXTENDS RateLimiter, FiniteSetTheorems, TLAPS

W == limit.window

-----------------------------------------------------------------------------
(* The inductive invariant.                                                 *)

Shape ==
    /\ limit \in [max : Nat, window : Nat \ {0}, progressive : BOOLEAN]
    /\ limit \in Limits
    /\ now \in Nat
    /\ counter \in [count : Nat \ {0}, resetAt : Nat] \cup {None}
    /\ hub \in Caller \cup {None}
    /\ tally \in [Caller -> Nat \cup {None}]
    /\ call = [c \in Caller |-> call[c]]
    /\ \A c \in Caller : /\ call[c].stage \in Stages
                         /\ At(c, "counted") => call[c].count \in Nat

\* Where the times are: no tally is in the future, a window is at most one
\* length ahead, and nobody is under way after the last call.
Times ==
    /\ \A c \in Caller : tally[c] # None => tally[c] <= now
    /\ \A c \in Caller : At(c, "idle") \/ At(c, "sent") => tally[c] = None
    /\ \A c \in Caller : At(c, "sent") => now <= LastCall
    /\ counter # None => W <= counter.resetAt /\ counter.resetAt <= now + W
    /\ hub # None => counter # None
    /\ \A c \in Caller : At(c, "asleep") \/ At(c, "resetting") => limit.progressive

\* Who was counted with c, up to c, when a window that holds c began.
UpTo(c, from) == {d \in CountedIn(from) : tally[d] <= tally[c]}
After(c, n) == \E from \in 0 .. now : c \in CountedIn(from) /\ Cardinality(UpTo(c, from)) >= n

\* A count is backed by that many requests of one window.
Backed ==
    /\ counter # None => Cardinality(CountedIn(counter.resetAt - W)) >= counter.count
    /\ \A c \in Caller : /\ At(c, "counted") => After(c, call[c].count)
                         /\ At(c, "refused") \/ At(c, "asleep") => After(c, limit.max + 1)

LEMMA Sets ==
    ASSUME NEW S \in SUBSET Caller
    PROVE  /\ IsFiniteSet(S) /\ Cardinality(S) \in Nat
           /\ Cardinality(S) <= Cardinality(Caller) /\ Cardinality(Caller) \in Nat
           /\ \A T \in SUBSET S : Cardinality(T) <= Cardinality(S) /\ IsFiniteSet(T)
                                  /\ Cardinality(T) \in Nat
<1>1. IsFiniteSet(S) /\ Cardinality(S) <= Cardinality(Caller)
  BY RateLimiterAssumption, FS_Subset
<1>2. \A T \in SUBSET S : IsFiniteSet(T) /\ Cardinality(T) <= Cardinality(S)
  BY <1>1, FS_Subset
<1> QED BY <1>1, <1>2, RateLimiterAssumption, FS_CardinalityType

\* A request goes on, and every other one stays where it was.
LEMMA GoesOn ==
    ASSUME Shape, NEW c \in Caller, NEW next, Goes(c, next)
    PROVE  /\ call' = [d \in Caller |-> call'[d]]
           /\ call'[c] = next
           /\ \A d \in Caller \ {c} : call'[d] = call[d]
BY DEF Shape, Goes

\* To be slowed down takes a count past the limit.
LEMMA DelayIsEarned ==
    ASSUME NEW n, DelayOf(n) # 0
    PROVE  ~(n <= limit.max)
BY Zenon DEF DelayOf

-----------------------------------------------------------------------------
(* Counting.                                                                *)

\* What counting one more request does to the windows.
LEMMA Joins ==
    ASSUME Shape, Times, NEW c \in Caller, HandleConsume(c), NEW from \in Nat
    PROVE  /\ tally'[c] = now /\ tally[c] = None
           /\ \A d \in Caller \ {c} : tally'[d] = tally[d]
           /\ from <= now /\ now < from + W => CountedIn(from)' = CountedIn(from) \cup {c}
           /\ ~(from <= now /\ now < from + W) => CountedIn(from)' = CountedIn(from)
           /\ c \notin CountedIn(from)
<1>1. /\ tally' = [tally EXCEPT ![c] = now] /\ tally[c] = None
      /\ limit' = limit
  BY DEF HandleConsume, Times
<1>2. tally'[c] = now /\ \A d \in Caller \ {c} : tally'[d] = tally[d]
  BY <1>1 DEF Shape
<1>3. now # None /\ now \in Nat /\ W \in Nat
  BY RateLimiterAssumption DEF Shape, W
<1>4. c \notin CountedIn(from)
  BY <1>1 DEF CountedIn
<1>5. \A d \in Caller \ {c} : d \in CountedIn(from)' <=> d \in CountedIn(from)
  BY <1>1, <1>2 DEF CountedIn
<1>6. c \in CountedIn(from)' <=> now >= from /\ now < from + W
  BY <1>1, <1>2, <1>3 DEF CountedIn, W
<1>7. CountedIn(from) \subseteq Caller /\ CountedIn(from)' \subseteq Caller
  BY DEF CountedIn
<1> QED BY <1>1, <1>2, <1>3, <1>4, <1>5, <1>6, <1>7

-----------------------------------------------------------------------------
(* The middleware's steps, in which nothing is counted.                     *)

Quiet == UNCHANGED <<limit, now, counter, alarm, hub, tally>>

\* How a request moves on, and on what.
LEMMA MiddlewareMoves ==
    ASSUME Shape, NEW c \in Caller, Middleware(c)
    PROVE  /\ Quiet
           /\ call' = [d \in Caller |-> call'[d]]
           /\ \A d \in Caller \ {c} : call'[d] = call[d]
           /\ \/ At(c, "idle") /\ now <= LastCall /\ call'[c] = [stage |-> "sent"]
              \/ call'[c] = [stage |-> "served", open |-> TRUE]
              \/ /\ At(c, "counted") /\ call[c].count <= limit.max
                 /\ call'[c] = [stage |-> "served", open |-> FALSE]
              \/ /\ At(c, "counted") /\ ~(call[c].count <= limit.max)
                 /\ call'[c] = [stage |-> "refused"]
              \/ /\ At(c, "counted") /\ limit.progressive
                 /\ call'[c] = [stage |-> "served", open |-> FALSE]
              \/ /\ At(c, "counted") /\ ~(call[c].count <= limit.max) /\ limit.progressive
                 /\ call'[c] = [stage |-> "asleep", until |-> call'[c].until]
              \/ At(c, "asleep") /\ call'[c] = [stage |-> "served", open |-> FALSE]
              \/ limit.progressive /\ call'[c] = [stage |-> "resetting"]
              \/ call'[c] = Done
<1>1. CASE RateLimit(c)
  BY <1>1, GoesOn DEF RateLimit, Begins, Quiet
<1>2. CASE FailOpen(c)
  BY <1>2, GoesOn DEF FailOpen, Quiet
<1>3. CASE Reject(c)
  <2>1. At(c, "counted") /\ call[c].count \in Nat /\ limit.max \in Nat
    BY <1>3 DEF Reject, Answered, Shape
  <2>2. CASE call[c].count > limit.max
    <3>1. Goes(c, [stage |-> "refused"]) /\ Quiet
      BY <1>3, <2>2 DEF Reject, Quiet
    <3> QED BY <2>1, <2>2, <3>1, GoesOn
  <2>3. CASE ~(call[c].count > limit.max)
    <3>1. Goes(c, [stage |-> "served", open |-> FALSE]) /\ Quiet
      BY <1>3, <2>3 DEF Reject, Quiet
    <3> QED BY <2>1, <2>3, <3>1, GoesOn
  <2> QED BY <2>2, <2>3
<1>4. CASE ApplyProgressiveDelay(c)
  <2>1. At(c, "counted") /\ limit.progressive /\ Quiet
    BY <1>4 DEF ApplyProgressiveDelay, Answered, Quiet
  <2>2. CASE DelayOf(call[c].count) = 0
    <3>1. Goes(c, [stage |-> "served", open |-> FALSE])
      BY <1>4, <2>2, Zenon DEF ApplyProgressiveDelay
    <3> QED BY <2>1, <3>1, GoesOn
  <2>3. CASE DelayOf(call[c].count) # 0
    <3>1. PICK until : Goes(c, [stage |-> "asleep", until |-> until])
      BY <1>4, <2>3, Zenon DEF ApplyProgressiveDelay
    <3>2. ~(call[c].count <= limit.max)
      BY <2>3, DelayIsEarned, Zenon
    <3>3. /\ call' = [d \in Caller |-> call'[d]]
          /\ call'[c] = [stage |-> "asleep", until |-> until]
          /\ \A d \in Caller \ {c} : call'[d] = call[d]
      BY <3>1, GoesOn
    <3>4. call'[c].until = until
      BY <3>3
    <3> QED BY <2>1, <3>2, <3>3, <3>4, Zenon
  <2> QED BY <2>2, <2>3
<1>5. CASE Wake(c)
  BY <1>5, GoesOn DEF Wake, Quiet
<1>6. CASE ResetRateLimit(c)
  BY <1>6, GoesOn DEF ResetRateLimit, Quiet
<1>7. CASE ResetFails(c)
  BY <1>7, GoesOn DEF ResetFails, Quiet
<1> QED BY <1>1, <1>2, <1>3, <1>4, <1>5, <1>6, <1>7 DEF Middleware

\* The stage a request moves on to, and what it says of the one before.
LEMMA MiddlewareStage ==
    ASSUME Shape, NEW c \in Caller, Middleware(c)
    PROVE  /\ call'[c].stage \in Stages \ {"counted", "idle"}
           /\ call'[c].stage = "sent" => At(c, "idle") /\ now <= LastCall
           /\ call'[c].stage = "resetting" => limit.progressive
           /\ call'[c].stage = "asleep" => limit.progressive
           /\ call'[c].stage \in {"refused", "asleep"}
                => At(c, "counted") /\ ~(call[c].count <= limit.max)
<1>1. \/ At(c, "idle") /\ now <= LastCall /\ call'[c] = [stage |-> "sent"]
      \/ \E open \in BOOLEAN : call'[c] = [stage |-> "served", open |-> open]
      \/ /\ At(c, "counted") /\ ~(call[c].count <= limit.max)
         /\ call'[c] = [stage |-> "refused"]
      \/ /\ At(c, "counted") /\ ~(call[c].count <= limit.max) /\ limit.progressive
         /\ call'[c] = [stage |-> "asleep", until |-> call'[c].until]
      \/ limit.progressive /\ call'[c] = [stage |-> "resetting"]
      \/ call'[c] = Done
  BY MiddlewareMoves, ZenonT(60)
<1>2. CASE At(c, "idle") /\ now <= LastCall /\ call'[c] = [stage |-> "sent"]
  BY <1>2 DEF Stages
<1>3. CASE \E open \in BOOLEAN : call'[c] = [stage |-> "served", open |-> open]
  BY <1>3 DEF Stages
<1>4. CASE /\ At(c, "counted") /\ ~(call[c].count <= limit.max)
           /\ call'[c] = [stage |-> "refused"]
  <2>1. call'[c].stage = "refused"
    BY <1>4
  <2> QED BY <1>4, <2>1 DEF Stages
<1>5. CASE /\ At(c, "counted") /\ ~(call[c].count <= limit.max) /\ limit.progressive
           /\ call'[c] = [stage |-> "asleep", until |-> call'[c].until]
  <2>1. call'[c].stage = "asleep"
    BY <1>5
  <2> QED BY <1>5, <2>1 DEF Stages
<1>6. CASE limit.progressive /\ call'[c] = [stage |-> "resetting"]
  BY <1>6 DEF Stages
<1>7. CASE call'[c] = Done
  BY <1>7 DEF Stages, Done
<1> QED BY <1>1, <1>2, <1>3, <1>4, <1>5, <1>6, <1>7

-----------------------------------------------------------------------------
(* Shape and times.                                                         *)

LEMMA MiddlewareKeeps ==
    ASSUME Shape, Times, NEW c \in Caller, Middleware(c)
    PROVE  Shape' /\ Times'
<1>1. Quiet /\ call' = [d \in Caller |-> call'[d]]
      /\ \A d \in Caller \ {c} : call'[d] = call[d]
  BY MiddlewareMoves
<1>2. /\ call'[c].stage \in Stages \ {"counted", "idle"}
      /\ call'[c].stage = "sent" => At(c, "idle") /\ now <= LastCall
      /\ call'[c].stage \in {"asleep", "resetting"} => limit.progressive
  BY MiddlewareStage
<1>3. Shape'
  BY <1>1, <1>2 DEF Shape, Quiet, At
<1>4. Times'
  BY <1>1, <1>2 DEF Times, Quiet, At, W
<1> QED BY <1>3, <1>4

LEMMA ConsumeKeeps ==
    ASSUME Shape, Times, NEW c \in Caller, HandleConsume(c)
    PROVE  Shape' /\ Times'
<1>1. /\ At(c, "sent") /\ hub = None /\ UNCHANGED <<limit, now, alarm>>
      /\ counter' = Counted
      /\ hub' \in {c, None}
      /\ tally' = [tally EXCEPT ![c] = now]
      /\ Goes(c, [stage |-> "counted", count |-> Counted.count])
  BY DEF HandleConsume
<1>2. /\ call' = [d \in Caller |-> call'[d]]
      /\ call'[c] = [stage |-> "counted", count |-> Counted.count]
      /\ \A d \in Caller \ {c} : call'[d] = call[d]
  BY <1>1, GoesOn
<1>3. /\ Counted \in [count : Nat \ {0}, resetAt : Nat] /\ Counted # None
      /\ W <= Counted.resetAt /\ Counted.resetAt <= now + W
  <2>1. W \in Nat \ {0} /\ now \in Nat
    BY DEF Shape, W
  <2>2. CASE IsNewWindow
    <3>1. Counted = [count |-> 1, resetAt |-> now + W]
      BY <2>2 DEF Counted, W
    <3> QED BY <2>1, <3>1, RateLimiterAssumption
  <2>3. CASE ~IsNewWindow
    <3>1. counter \in [count : Nat \ {0}, resetAt : Nat] /\ counter # None
      BY <2>3 DEF IsNewWindow, Shape
    <3>2. Counted = [counter EXCEPT !.count = @ + 1]
      BY <2>3 DEF Counted
    <3>3. Counted.count = counter.count + 1 /\ Counted.resetAt = counter.resetAt
          /\ Counted \in [count : Nat \ {0}, resetAt : Nat]
      BY <3>1, <3>2
    <3> QED BY <3>1, <3>3, RateLimiterAssumption DEF Times
  <2> QED BY <2>2, <2>3
<1>4. Counted.count \in Nat
  BY <1>3
<1>5. tally'[c] = now /\ \A d \in Caller \ {c} : tally'[d] = tally[d]
  BY <1>1 DEF Shape
<1> HIDE DEF Counted
<1>6. Shape'
  <2>1. tally' \in [Caller -> Nat \cup {None}]
    BY <1>1 DEF Shape
  <2>2. \A d \in Caller : /\ call'[d].stage \in Stages
                          /\ At(d, "counted")' => call'[d].count \in Nat
    BY <1>2, <1>4 DEF Shape, At, Stages
  <2> QED BY <1>1, <1>2, <1>3, <2>1, <2>2 DEF Shape
<1>7. Times'
  <2>1. \A d \in Caller : tally'[d] # None => tally'[d] <= now'
    BY <1>1, <1>5 DEF Times, Shape
  <2>2. \A d \in Caller : At(d, "idle")' \/ At(d, "sent")' => tally'[d] = None
    BY <1>2, <1>5 DEF Times, At
  <2>3. \A d \in Caller : At(d, "sent")' => now' <= LastCall
    BY <1>1, <1>2 DEF Times, At
  <2>4. \A d \in Caller : At(d, "asleep")' \/ At(d, "resetting")' => limit'.progressive
    BY <1>1, <1>2 DEF Times, At
  <2> QED BY <1>1, <1>3, <2>1, <2>2, <2>3, <2>4 DEF Times, W
<1> QED BY <1>6, <1>7

\* The steps of the object that count nothing, and the clock.
HubStep == (\E c \in Caller : HandleReset(c)) \/ EnsureSweepScheduled \/ Alarm \/ HubCrashes

LEMMA HubStepMeans ==
    ASSUME Shape, HubStep
    PROVE  /\ UNCHANGED <<limit, now, tally>>
           /\ counter' \in {counter, None}
           /\ hub' = None
           /\ call' = [d \in Caller |-> call'[d]]
           /\ \A d \in Caller : call'[d] = call[d] \/ (At(d, "resetting") /\ call'[d] = Done)
           /\ \/ counter' = counter
              \/ \E c \in Caller : At(c, "resetting")
              \/ counter # None => counter.resetAt <= now
<1>1. ASSUME NEW c \in Caller, HandleReset(c)
      PROVE  /\ UNCHANGED <<limit, now, tally>> /\ counter' = None /\ hub' = None
             /\ At(c, "resetting")
             /\ call' = [d \in Caller |-> call'[d]] /\ call'[c] = Done
             /\ \A d \in Caller \ {c} : call'[d] = call[d]
  BY <1>1, GoesOn DEF HandleReset
<1>2. CASE EnsureSweepScheduled
  BY <1>2 DEF EnsureSweepScheduled, Shape
<1>3. CASE Alarm
  BY <1>3 DEF Alarm, IsNewWindow, Shape
<1>4. CASE HubCrashes
  BY <1>4 DEF HubCrashes, Shape
<1> QED BY <1>1, <1>2, <1>3, <1>4 DEF HubStep

LEMMA HubStepKeeps ==
    ASSUME Shape, Times, HubStep
    PROVE  Shape' /\ Times'
<1>1. Shape'
  BY HubStepMeans DEF Shape, At, Done, Stages
<1>2. Times'
  BY HubStepMeans DEF Times, At, Done, W
<1> QED BY <1>1, <1>2

LEMMA TickKeeps ==
    ASSUME Shape, Times, Tick
    PROVE  Shape' /\ Times'
<1>1. /\ UNCHANGED <<limit, counter, alarm, hub, tally, call>>
      /\ now' = now + 1 /\ now \in Nat /\ LastCall \in Nat
      /\ now = LastCall => \A c \in Caller : ~At(c, "sent")
  BY RateLimiterAssumption DEF Tick, Shape
<1>2. Shape'
  BY <1>1 DEF Shape, At
<1>3. ASSUME NEW c \in Caller
      PROVE  /\ tally'[c] # None => tally'[c] <= now'
             /\ At(c, "sent")' => now' <= LastCall
  BY <1>1 DEF Times, At, Shape
<1>4. counter # None => counter.resetAt <= now' + W
  <2>1. W \in Nat /\ (counter # None => counter.resetAt \in Nat)
    BY DEF Shape, W
  <2> QED BY <1>1, <2>1 DEF Times
<1> QED BY <1>1, <1>2, <1>3, <1>4 DEF Times, At, W

LEMMA NextKeeps ==
    ASSUME Shape, Times, [Next]_vars
    PROVE  Shape' /\ Times'
<1>1. CASE UNCHANGED vars
  BY <1>1 DEF vars, Shape, Times, At, W
<1> QED BY <1>1, MiddlewareKeeps, ConsumeKeeps, HubStepKeeps, TickKeeps
        DEF Next, Handles, HubStep

-----------------------------------------------------------------------------
(* Who came after whom.                                                     *)

LEMMA AfterLess ==
    ASSUME Shape, NEW c \in Caller, NEW m \in Nat, NEW n \in Nat, n <= m, After(c, m)
    PROVE  After(c, n)
<1>1. PICK from \in 0 .. now : c \in CountedIn(from) /\ Cardinality(UpTo(c, from)) >= m
  BY DEF After
<1>2. Cardinality(UpTo(c, from)) \in Nat
  BY Sets DEF UpTo, CountedIn
<1>3. Cardinality(UpTo(c, from)) >= n
  BY <1>1, <1>2
<1> QED BY <1>1, <1>3 DEF After

LEMMA AfterStays ==
    ASSUME Shape, limit' = limit, tally' = tally, now' \in Nat, now <= now',
           NEW c \in Caller, NEW n \in Nat, After(c, n)
    PROVE  After(c, n)'
<1>1. PICK from \in 0 .. now : c \in CountedIn(from) /\ Cardinality(UpTo(c, from)) >= n
  BY DEF After
<1>2. CountedIn(from)' = CountedIn(from) /\ UpTo(c, from)' = UpTo(c, from)
  BY DEF CountedIn, UpTo
<1>3. from \in 0 .. now'
  BY DEF Shape
<1> QED BY <1>1, <1>2, <1>3 DEF After

\* One more request counted takes nobody's place.
LEMMA AfterJoins ==
    ASSUME Shape, Times, NEW c \in Caller, HandleConsume(c),
           NEW d \in Caller \ {c}, NEW n \in Nat, After(d, n)
    PROVE  After(d, n)'
<1>1. PICK from \in 0 .. now : d \in CountedIn(from) /\ Cardinality(UpTo(d, from)) >= n
  BY DEF After
<1>2. from \in Nat /\ from \in 0 .. now'
  BY DEF Shape, HandleConsume
<1>3. d \in CountedIn(from)'
  BY <1>1, <1>2, Joins
<1>4. UpTo(d, from) \subseteq UpTo(d, from)'
  <2>1. CountedIn(from) \subseteq CountedIn(from)' /\ c \notin CountedIn(from)
    BY <1>2, Joins
  <2>2. CountedIn(from) \subseteq Caller
    BY DEF CountedIn
  <2>3. \A e \in CountedIn(from) : tally'[e] = tally[e]
    BY <2>1, <2>2, <1>2, Joins
  <2>4. tally'[d] = tally[d]
    BY <1>2, Joins
  <2> QED BY <2>1, <2>3, <2>4 DEF UpTo
<1>5. UpTo(d, from)' \in SUBSET Caller
  BY DEF UpTo, CountedIn
<1>6. /\ Cardinality(UpTo(d, from)) <= Cardinality(UpTo(d, from)')
      /\ Cardinality(UpTo(d, from)) \in Nat /\ Cardinality(UpTo(d, from)') \in Nat
  BY <1>4, <1>5, Sets
<1>7. Cardinality(UpTo(d, from)') >= n
  BY <1>1, <1>6
<1> QED BY <1>2, <1>3, <1>7 DEF After

-----------------------------------------------------------------------------
(* Counts are backed.                                                       *)

\* The window a request is counted in, and that it fills it by one.
LEMMA WindowFills ==
    ASSUME Shape, Times, Backed, NEW c \in Caller, HandleConsume(c)
    PROVE  \E from \in 0 .. now :
               /\ counter' # None
               /\ from = counter'.resetAt - W
               /\ CountedIn(from)' = CountedIn(from) \cup {c}
               /\ Cardinality(CountedIn(from)') >= counter'.count
<1>1. counter' = Counted /\ W \in Nat \ {0} /\ now \in Nat
  BY DEF HandleConsume, Shape, W
<1>2. PICK from \in 0 .. now :
          /\ counter' # None /\ from = counter'.resetAt - W
          /\ now < from + W
          /\ \/ counter'.count = 1
             \/ /\ counter # None /\ from = counter.resetAt - W
                /\ counter.count \in Nat /\ counter'.count = counter.count + 1
  <2>1. CASE IsNewWindow
    <3>1. counter' = [count |-> 1, resetAt |-> now + W]
      BY <1>1, <2>1 DEF Counted, W
    <3>2. now + W \in Nat /\ counter' \in [count : Nat, resetAt : Nat]
      BY <1>1, <3>1
    <3>3. counter'.resetAt - W = now /\ counter'.count = 1 /\ counter' # None
      BY <1>1, <3>1, <3>2, RateLimiterAssumption
    <3>4. now \in 0 .. now /\ now < now + W
      BY <1>1
    <3> QED BY <3>3, <3>4
  <2>2. CASE ~IsNewWindow
    <3>1. counter # None /\ counter \in [count : Nat \ {0}, resetAt : Nat]
          /\ now < counter.resetAt
      BY <2>2 DEF IsNewWindow, Shape
    <3>2. counter' = [counter EXCEPT !.count = @ + 1]
      BY <1>1, <2>2 DEF Counted
    <3>3. counter'.resetAt = counter.resetAt /\ counter'.count = counter.count + 1
          /\ counter' \in [count : Nat, resetAt : Nat]
      BY <3>1, <3>2
    <3>4. counter.resetAt - W \in 0 .. now /\ now < (counter.resetAt - W) + W
      BY <1>1, <3>1 DEF Times
    <3> QED BY <3>1, <3>3, <3>4, RateLimiterAssumption
  <2> QED BY <2>1, <2>2
<1>3. CountedIn(from)' = CountedIn(from) \cup {c} /\ c \notin CountedIn(from)
  <2>1. from \in Nat /\ from <= now /\ now < from + W
    BY <1>1, <1>2
  <2> QED BY <2>1, Joins
<1>4. CountedIn(from) \in SUBSET Caller
  BY DEF CountedIn
<1>5. /\ Cardinality(CountedIn(from)) \in Nat
      /\ Cardinality(CountedIn(from) \cup {c}) = Cardinality(CountedIn(from)) + 1
  BY <1>3, <1>4, Sets, FS_AddElement
<1>6. Cardinality(CountedIn(from)') = Cardinality(CountedIn(from)) + 1
  BY <1>3, <1>5
<1>7. Cardinality(CountedIn(from)') >= counter'.count
  <2>1. CASE counter'.count = 1
    BY <2>1, <1>5, <1>6
  <2>2. CASE /\ counter # None /\ from = counter.resetAt - W
             /\ counter.count \in Nat /\ counter'.count = counter.count + 1
    <3>1. Cardinality(CountedIn(from)) >= counter.count
      BY <2>2 DEF Backed
    <3> QED BY <3>1, <2>2, <1>5, <1>6
  <2> QED BY <1>2, <2>1, <2>2
<1> QED BY <1>2, <1>3, <1>7

LEMMA BackedConsume ==
    ASSUME Shape, Times, Backed, NEW c \in Caller, HandleConsume(c)
    PROVE  Backed'
<1>1. PICK from \in 0 .. now :
          /\ counter' # None
          /\ from = counter'.resetAt - W
          /\ CountedIn(from)' = CountedIn(from) \cup {c}
          /\ Cardinality(CountedIn(from)') >= counter'.count
  BY WindowFills
<1>2. /\ At(c, "sent") /\ UNCHANGED <<limit, now>>
      /\ Goes(c, [stage |-> "counted", count |-> counter'.count])
  BY DEF HandleConsume
<1>3. /\ call'[c] = [stage |-> "counted", count |-> counter'.count]
      /\ \A d \in Caller \ {c} : call'[d] = call[d]
  BY <1>2, GoesOn
<1>4. After(c, counter.count)'
  <2>1. c \in CountedIn(from)' /\ CountedIn(from)' \subseteq Caller
    BY <1>1 DEF CountedIn
  <2>2. \A d \in CountedIn(from)' : tally'[d] <= tally'[c]
    <3>1. tally'[c] = now /\ now \in Nat
      BY <1>1, Joins DEF Shape
    <3>2. \A d \in Caller : tally'[d] # None => tally'[d] <= now'
      BY ConsumeKeeps DEF Times
    <3> QED BY <1>2, <3>1, <3>2 DEF CountedIn
  <2>3. UpTo(c, from)' = CountedIn(from)'
    BY <2>2 DEF UpTo
  <2> QED BY <1>1, <1>2, <2>1, <2>3 DEF After
<1>5. (Cardinality(CountedIn(counter.resetAt - W)) >= counter.count)'
  <2>1. CountedIn(counter.resetAt - W)' = CountedIn(from)'
    BY <1>1, <1>2 DEF CountedIn, W
  <2> QED BY <1>1, <2>1
<1>6. ASSUME NEW d \in Caller \ {c}
      PROVE  /\ At(d, "counted")' => After(d, call[d].count)'
             /\ At(d, "refused")' \/ At(d, "asleep")' => After(d, limit.max + 1)'
  <2>1. call'[d] = call[d] /\ limit' = limit
    BY <1>2, <1>3
  <2>2. ASSUME NEW n \in Nat, After(d, n) PROVE After(d, n)'
    BY <2>2, AfterJoins
  <2>3. At(d, "counted") => After(d, call[d].count) /\ call[d].count \in Nat
    BY DEF Backed, Shape
  <2>4. /\ At(d, "refused") \/ At(d, "asleep") => After(d, limit.max + 1)
        /\ limit.max + 1 \in Nat
    BY DEF Backed, Shape
  <2> QED BY <2>1, <2>2, <2>3, <2>4 DEF At
<1> QED BY <1>3, <1>4, <1>5, <1>6 DEF Backed, At

LEMMA BackedMiddleware ==
    ASSUME Shape, Times, Backed, NEW c \in Caller, Middleware(c)
    PROVE  Backed'
<1>1. Quiet /\ \A d \in Caller \ {c} : call'[d] = call[d]
  BY MiddlewareMoves
<1>2. \A d \in Caller, n \in Nat : After(d, n) => After(d, n)'
  BY <1>1, AfterStays DEF Quiet, Shape
<1>3. limit.max + 1 \in Nat /\ limit.max \in Nat
  BY DEF Shape
<1>4. counter # None => (Cardinality(CountedIn(counter.resetAt - W)) >= counter.count)'
  BY <1>1 DEF Backed, Quiet, CountedIn, W
<1>5. ASSUME NEW d \in Caller \ {c}
      PROVE  /\ At(d, "counted")' => After(d, call[d].count)'
             /\ At(d, "refused")' \/ At(d, "asleep")' => After(d, limit.max + 1)'
  <2>1. call'[d] = call[d] /\ limit' = limit
    BY <1>1 DEF Quiet
  <2>2. At(d, "counted") => After(d, call[d].count) /\ call[d].count \in Nat
    BY DEF Backed, Shape
  <2>3. At(d, "refused") \/ At(d, "asleep") => After(d, limit.max + 1)
    BY DEF Backed
  <2> QED BY <1>2, <1>3, <2>1, <2>2, <2>3 DEF At
<1>6. call'[c].stage # "counted"
      /\ (call'[c].stage \in {"refused", "asleep"}
            => At(c, "counted") /\ ~(call[c].count <= limit.max))
  BY MiddlewareStage
<1>7. At(c, "refused")' \/ At(c, "asleep")' => After(c, limit.max + 1)'
  <2>1. SUFFICES ASSUME call'[c].stage \in {"refused", "asleep"}
                 PROVE  After(c, limit.max + 1)'
    BY DEF At
  <2>2. At(c, "counted") /\ ~(call[c].count <= limit.max)
    BY <1>6, <2>1
  <2>3. call[c].count \in Nat /\ After(c, call[c].count)
    BY <2>2 DEF Shape, Backed
  <2>4. limit.max + 1 <= call[c].count
    BY <1>3, <2>2, <2>3
  <2>5. After(c, limit.max + 1)
    BY <1>3, <2>3, <2>4, AfterLess
  <2>6. limit'.max = limit.max
    BY <1>1 DEF Quiet
  <2> QED BY <1>2, <1>3, <2>5, <2>6
<1> QED BY <1>1, <1>4, <1>5, <1>6, <1>7 DEF Backed, At, Quiet

LEMMA BackedHub ==
    ASSUME Shape, Backed, HubStep \/ Tick \/ UNCHANGED vars
    PROVE  Backed'
<1>1. /\ UNCHANGED <<limit, tally>>
      /\ now' \in Nat /\ now <= now'
      /\ counter' \in {counter, None}
      /\ \A d \in Caller : call'[d] = call[d] \/ call'[d] = Done
  <2>1. CASE HubStep
    BY <2>1, HubStepMeans DEF Shape
  <2>2. CASE Tick \/ UNCHANGED vars
    BY <2>2 DEF Tick, vars, Shape
  <2> QED BY <2>1, <2>2
<1>2. \A d \in Caller, n \in Nat : After(d, n) => After(d, n)'
  BY <1>1, AfterStays
<1>3. counter' # None => (Cardinality(CountedIn(counter.resetAt - W)) >= counter.count)'
  <2>1. counter' # None => counter' = counter /\ counter # None
    BY <1>1
  <2> QED BY <1>1, <2>1 DEF Backed, CountedIn, W
<1>4. ASSUME NEW d \in Caller
      PROVE  /\ At(d, "counted")' => After(d, call[d].count)'
             /\ At(d, "refused")' \/ At(d, "asleep")' => After(d, limit.max + 1)'
  <2>1. limit' = limit /\ limit.max + 1 \in Nat
    BY <1>1 DEF Shape
  <2>2. At(d, "counted") => After(d, call[d].count) /\ call[d].count \in Nat
    BY DEF Backed, Shape
  <2>3. At(d, "refused") \/ At(d, "asleep") => After(d, limit.max + 1)
    BY DEF Backed
  <2>4. CASE call'[d] = call[d]
    BY <1>2, <2>1, <2>2, <2>3, <2>4 DEF At
  <2>5. CASE call'[d] = Done
    BY <2>5 DEF At, Done
  <2> QED BY <1>1, <2>4, <2>5
<1> QED BY <1>3, <1>4 DEF Backed

LEMMA InitHolds ==
    ASSUME Init
    PROVE  Shape /\ Times /\ Backed
<1>1. Shape
  BY RateLimiterAssumption DEF Init, Shape, Idle, Stages, At
<1>2. Times /\ Backed
  BY DEF Init, Times, Backed, Idle, At
<1> QED BY <1>1, <1>2

\* Who is refused or slowed down came after max others within one window,
\* whatever the limits, the clock, the losses and the crashes of the object.
THEOREM SlowedOnlyAfterTheMax == Spec => []NobodyIsSlowedEarly
<1>1. Init => Shape /\ Times /\ Backed
  BY InitHolds
<1>2. Shape /\ Times /\ Backed /\ [Next]_vars => (Shape /\ Times /\ Backed)'
  BY NextKeeps, BackedConsume, BackedMiddleware, BackedHub DEF Next, Handles, HubStep
<1>3. Shape /\ Times /\ Backed => NobodyIsSlowedEarly
  <2>1. SUFFICES ASSUME Shape, Backed, NEW c \in Caller, At(c, "refused") \/ At(c, "asleep")
                 PROVE  \E from \in 0 .. now :
                            /\ c \in CountedIn(from)
                            /\ Cardinality({d \in CountedIn(from) : tally[d] <= tally[c]})
                                 > limit.max
    BY DEF NobodyIsSlowedEarly
  <2>2. PICK from \in 0 .. now :
            c \in CountedIn(from) /\ Cardinality(UpTo(c, from)) >= limit.max + 1
    BY <2>1 DEF Backed, After
  <2>3. limit.max \in Nat /\ Cardinality(UpTo(c, from)) \in Nat
    BY <2>1, Sets DEF Shape, UpTo, CountedIn
  <2>4. Cardinality(UpTo(c, from)) > limit.max
    BY <2>2, <2>3
  <2> QED BY <2>2, <2>4 DEF UpTo
<1> QED BY <1>1, <1>2, <1>3, PTL DEF Spec

-----------------------------------------------------------------------------
(* The windows opened so far, where the counter is never reset.             *)

Passed(from) ==
    {c \in CountedIn(from) : \/ At(c, "counted") /\ call[c].count <= limit.max
                             \/ At(c, "served") /\ ~ call[c].open}

\* Starts are where the windows began: they do not overlap, hold every request
\* counted, and let max of theirs through; the counter stands for the last one.
Opened(Starts) ==
    /\ \A c \in Caller : tally[c] # None => \E s \in Starts : c \in CountedIn(s)
    /\ \A s, t \in Starts : s < t => s + W <= t
    /\ \A s \in Starts : Cardinality(Passed(s)) <= limit.max
    /\ \A s \in Starts : IF counter = None THEN s + W <= now ELSE s + W <= counter.resetAt
    /\ counter # None => /\ counter.resetAt - W \in Starts
                         /\ Cardinality(CountedIn(counter.resetAt - W)) = counter.count

WindowsApart == ~ limit.progressive => \E Starts \in SUBSET Nat : Opened(Starts)

LEMMA LastWindow ==
    ASSUME Shape, Times, NEW Starts \in SUBSET Nat, Opened(Starts),
           NEW c \in Caller, HandleConsume(c)
    PROVE  \E t \in 0 .. now :
               /\ counter' # None /\ t = counter'.resetAt - W
               /\ CountedIn(t)' = CountedIn(t) \cup {c}
               /\ Cardinality(CountedIn(t)') = counter'.count
               /\ \A s \in Starts \ {t} : s + W <= t
               /\ t \in Starts \/ CountedIn(t) = {}
<1>1. counter' = Counted /\ W \in Nat \ {0} /\ now \in Nat
  BY DEF HandleConsume, Shape, W
<1>2. PICK t \in 0 .. now :
          /\ counter' # None /\ t = counter'.resetAt - W
          /\ now < t + W
          /\ \A s \in Starts \ {t} : s + W <= t
          /\ t \in Starts \/ CountedIn(t) = {}
          /\ counter'.count = Cardinality(CountedIn(t)) + 1
  <2>1. CASE IsNewWindow
    <3>1. counter' = [count |-> 1, resetAt |-> now + W]
      BY <1>1, <2>1 DEF Counted, W
    <3>2. now + W \in Nat /\ counter' \in [count : Nat, resetAt : Nat]
      BY <1>1, <3>1
    <3>3. counter'.resetAt - W = now /\ counter'.count = 1 /\ counter' # None
      BY <1>1, <3>1, <3>2, RateLimiterAssumption
    <3>4. \A s \in Starts : s + W <= now
      <4>1. counter # None => counter.resetAt \in Nat /\ counter.resetAt <= now
        BY <2>1 DEF IsNewWindow, Shape
      <4> QED BY <1>1, <4>1 DEF Opened
    <3>5. CountedIn(now) = {}
      <4>1. SUFFICES ASSUME NEW d \in CountedIn(now) PROVE FALSE
        OBVIOUS
      <4>2. d \in Caller /\ tally[d] # None /\ tally[d] \in Nat /\ tally[d] >= now
        BY <4>1 DEF CountedIn, Shape
      <4>3. PICK s \in Starts : d \in CountedIn(s)
        BY <4>2 DEF Opened
      <4>4. tally[d] < s + W /\ s \in Nat
        BY <4>3 DEF CountedIn, W
      <4> QED BY <1>1, <3>4, <4>2, <4>4
    <3>6. now \in 0 .. now /\ now < now + W /\ Cardinality(CountedIn(now)) = 0
      BY <1>1, <3>5, FS_EmptySet
    <3> QED BY <3>3, <3>4, <3>5, <3>6
  <2>2. CASE ~IsNewWindow
    <3>1. counter # None /\ counter \in [count : Nat \ {0}, resetAt : Nat]
          /\ now < counter.resetAt
      BY <2>2 DEF IsNewWindow, Shape
    <3>2. counter' = [counter EXCEPT !.count = @ + 1]
      BY <1>1, <2>2 DEF Counted
    <3>3. counter'.resetAt = counter.resetAt /\ counter'.count = counter.count + 1
          /\ counter' \in [count : Nat, resetAt : Nat]
      BY <3>1, <3>2
    <3>4. PICK t \in 0 .. now : t = counter.resetAt - W /\ now < t + W
      BY <1>1, <3>1 DEF Times
    <3>5. t \in Starts /\ Cardinality(CountedIn(t)) = counter.count
      BY <3>1, <3>4 DEF Opened
    <3>6. ASSUME NEW s \in Starts \ {t} PROVE s + W <= t
      <4>1. s \in Nat /\ t \in Nat /\ s # t
        BY <3>5
      <4>2. s + W <= t + W
        BY <1>1, <3>1, <3>4 DEF Opened
      <4>3. s < t
        BY <1>1, <4>1, <4>2
      <4> QED BY <3>5, <4>3 DEF Opened
    <3>7. counter' # None
      BY <3>3, RateLimiterAssumption
    <3> QED BY <3>3, <3>4, <3>5, <3>6, <3>7
  <2> QED BY <2>1, <2>2
<1>3. CountedIn(t)' = CountedIn(t) \cup {c} /\ c \notin CountedIn(t)
  <2>1. t \in Nat /\ t <= now /\ now < t + W
    BY <1>1, <1>2
  <2> QED BY <2>1, Joins
<1>4. CountedIn(t) \in SUBSET Caller
  BY DEF CountedIn
<1>5. Cardinality(CountedIn(t) \cup {c}) = Cardinality(CountedIn(t)) + 1
  BY <1>3, <1>4, Sets, FS_AddElement
<1> QED BY <1>2, <1>3, <1>5

LEMMA OpenedConsume ==
    ASSUME Shape, Times, NEW Starts \in SUBSET Nat, Opened(Starts),
           NEW c \in Caller, HandleConsume(c)
    PROVE  \E Later \in SUBSET Nat : Opened(Later)'
<1>1. PICK t \in 0 .. now :
          /\ counter' # None /\ t = counter'.resetAt - W
          /\ CountedIn(t)' = CountedIn(t) \cup {c}
          /\ Cardinality(CountedIn(t)') = counter'.count
          /\ \A s \in Starts \ {t} : s + W <= t
          /\ t \in Starts \/ CountedIn(t) = {}
  BY LastWindow
<1>2. /\ UNCHANGED <<limit, now>> /\ W' = W /\ W \in Nat \ {0} /\ now \in Nat
      /\ Goes(c, [stage |-> "counted", count |-> counter'.count])
      /\ At(c, "sent")
      /\ counter' \in [count : Nat \ {0}, resetAt : Nat]
  BY <1>1, ConsumeKeeps DEF HandleConsume, Shape, W
<1>3. /\ call'[c] = [stage |-> "counted", count |-> counter'.count]
      /\ \A d \in Caller \ {c} : call'[d] = call[d]
  BY <1>2, GoesOn
<1> DEFINE Later == Starts \cup {t}
<1>4. Later \in SUBSET Nat
  BY <1>2
<1>5. \A s \in Starts \ {t} : CountedIn(s)' = CountedIn(s) /\ c \notin CountedIn(s)
  <2>1. SUFFICES ASSUME NEW s \in Starts \ {t}
                 PROVE  CountedIn(s)' = CountedIn(s) /\ c \notin CountedIn(s)
    OBVIOUS
  <2>2. s \in Nat /\ ~(s <= now /\ now < s + W)
    BY <1>1, <1>2
  <2> QED BY <2>2, Joins
<1>6. \A s \in Starts \ {t} : Passed(s)' = Passed(s)
  BY <1>2, <1>3, <1>5 DEF Passed, CountedIn, At
<1>7. Passed(t)' \subseteq Passed(t) \cup {c} /\ Passed(t)' \subseteq CountedIn(t)'
      /\ (c \in Passed(t)' => counter'.count <= limit.max)
  <2>1. Passed(t)' \subseteq CountedIn(t)' /\ CountedIn(t) \subseteq Caller
    BY DEF Passed, CountedIn
  <2>2. ASSUME NEW d \in CountedIn(t), d # c, d \in Passed(t)' PROVE d \in Passed(t)
    <3>1. call'[d] = call[d] /\ limit' = limit
      BY <1>2, <1>3, <2>1, <2>2
    <3> QED BY <2>2, <3>1 DEF Passed, At
  <2>3. ASSUME c \in Passed(t)' PROVE counter'.count <= limit.max
    <3>1. call'[c].stage = "counted" /\ call'[c].count = counter'.count /\ limit' = limit
      BY <1>2, <1>3
    <3> QED BY <2>3, <3>1 DEF Passed, At
  <2> QED BY <1>1, <2>1, <2>2, <2>3
<1>8. Cardinality(Passed(t)') <= limit'.max
  <2>1. limit' = limit /\ limit.max \in Nat
    BY <1>2 DEF Shape
  <2>2. CountedIn(t)' \in SUBSET Caller /\ CountedIn(t) \in SUBSET Caller
    BY <1>1 DEF CountedIn
  <2>3. Passed(t)' \in SUBSET Caller /\ Passed(t) \in SUBSET Caller
        /\ Passed(t) \subseteq CountedIn(t)
    BY <1>7, <2>2 DEF Passed
  <2>4. CASE c \in Passed(t)'
    <3>1. Cardinality(Passed(t)') <= Cardinality(CountedIn(t)')
          /\ Cardinality(Passed(t)') \in Nat /\ Cardinality(CountedIn(t)') \in Nat
      BY <1>7, <2>2, <2>3, Sets
    <3> QED BY <1>1, <1>2, <1>7, <2>1, <2>4, <3>1
  <2>5. CASE c \notin Passed(t)'
    <3>1. Passed(t)' \subseteq Passed(t)
      BY <1>7, <2>5
    <3>2. Cardinality(Passed(t)') <= Cardinality(Passed(t))
          /\ Cardinality(Passed(t)') \in Nat /\ Cardinality(Passed(t)) \in Nat
      BY <2>3, <3>1, Sets
    <3>3. Cardinality(Passed(t)) <= limit.max
      <4>1. CASE t \in Starts
        BY <4>1 DEF Opened
      <4>2. CASE CountedIn(t) = {}
        <5>1. Passed(t) = {}
          BY <2>3, <4>2
        <5> QED BY <2>1, <5>1, FS_EmptySet
      <4> QED BY <1>1, <4>1, <4>2
    <3> QED BY <2>1, <3>2, <3>3
  <2> QED BY <2>4, <2>5
<1>9. ASSUME NEW d \in Caller, tally'[d] # None
      PROVE  \E s \in Later : d \in CountedIn(s)'
  <2>1. CASE d = c
    BY <1>1, <2>1
  <2>2. CASE d # c
    <3>1. tally'[d] = tally[d]
      BY <1>1, <2>2, Joins
    <3>2. PICK s \in Starts : d \in CountedIn(s)
      BY <1>9, <3>1 DEF Opened
    <3> QED BY <1>1, <1>5, <3>2
  <2> QED BY <2>1, <2>2
<1>10. \A s, u \in Later : s < u => s + W <= u
  <2>1. \A s, u \in Starts : s < u => s + W <= u
    BY DEF Opened
  <2>2. ASSUME NEW s \in Later, s > t PROVE FALSE
    <3>1. s \in Nat /\ t \in Nat /\ s \in Starts \ {t}
      BY <1>2, <2>2
    <3> QED BY <1>1, <1>2, <2>2, <3>1
  <2>3. \A s \in Later, u \in Nat : s < t => s + W <= t
    BY <1>1, <1>2
  <2> QED BY <2>1, <2>2, <2>3, <1>4
<1>11. \A s \in Later : s + W <= counter'.resetAt
  <2>1. t + W = counter'.resetAt
    BY <1>1, <1>2
  <2> QED BY <1>1, <1>2, <2>1
<1>12. \A s \in Later : Cardinality(Passed(s)') <= limit'.max
  <2>1. \A s \in Starts : Cardinality(Passed(s)) <= limit.max
    BY DEF Opened
  <2> QED BY <1>2, <1>6, <1>8, <2>1
<1>13. counter'.resetAt - W' \in Later /\ CountedIn(counter.resetAt - W)' = CountedIn(t)'
  BY <1>1, <1>2 DEF CountedIn
<1>14. Opened(Later)'
  BY <1>1, <1>2, <1>9, <1>10, <1>11, <1>12, <1>13 DEF Opened
<1> QED BY <1>4, <1>14

\* Whatever else happens, a request let through was within the limit before.
LEMMA OpenedMiddleware ==
    ASSUME Shape, Times, ~ limit.progressive, NEW Starts \in SUBSET Nat, Opened(Starts),
           NEW c \in Caller, Middleware(c)
    PROVE  Opened(Starts)'
<1>1. Quiet /\ \A d \in Caller \ {c} : call'[d] = call[d]
  BY MiddlewareMoves
<1>2. \A s \in Nat : CountedIn(s)' = CountedIn(s)
  BY <1>1 DEF Quiet, CountedIn
<1>3. \/ At(c, "idle") /\ call'[c] = [stage |-> "sent"]
      \/ call'[c] = [stage |-> "served", open |-> TRUE]
      \/ /\ At(c, "counted") /\ call[c].count <= limit.max
         /\ call'[c] = [stage |-> "served", open |-> FALSE]
      \/ call'[c] = [stage |-> "refused"]
      \/ call'[c] = Done
  <2>1. ~At(c, "asleep")
    BY DEF Times
  <2> QED BY <2>1, MiddlewareMoves, ZenonT(60)
<1>4. ASSUME NEW s \in Starts, c \in Passed(s)' PROVE c \in Passed(s)
  <2>1. c \in CountedIn(s)
    BY <1>2, <1>4 DEF Passed
  <2>2. At(c, "counted") /\ call[c].count <= limit.max
    <3>1. CASE call'[c] = [stage |-> "sent"]
      BY <1>4, <3>1 DEF Passed, At
    <3>2. CASE call'[c] = [stage |-> "served", open |-> TRUE]
      BY <1>4, <3>2 DEF Passed, At
    <3>3. CASE call'[c] = [stage |-> "refused"] \/ call'[c] = Done
      BY <1>4, <3>3 DEF Passed, At, Done
    <3> QED BY <1>3, <3>1, <3>2, <3>3
  <2> QED BY <2>1, <2>2 DEF Passed
<1>5. ASSUME NEW s \in Starts PROVE Passed(s)' \in SUBSET Passed(s)
  <2>1. SUFFICES ASSUME NEW d \in Passed(s)', d # c PROVE d \in Passed(s)
    BY <1>4
  <2>2. d \in CountedIn(s) /\ call'[d] = call[d] /\ limit' = limit
    BY <1>1, <1>2, <2>1 DEF Passed, CountedIn, Quiet
  <2> QED BY <2>1, <2>2 DEF Passed, At
<1>6. ASSUME NEW s \in Starts PROVE Cardinality(Passed(s)') <= limit'.max
  <2>1. Passed(s) \in SUBSET Caller
    BY DEF Passed, CountedIn
  <2>2. Cardinality(Passed(s)') <= Cardinality(Passed(s))
        /\ Cardinality(Passed(s)') \in Nat /\ Cardinality(Passed(s)) \in Nat
    BY <1>5, <2>1, Sets
  <2>3. Cardinality(Passed(s)) <= limit.max /\ limit.max \in Nat /\ limit' = limit
    BY <1>1 DEF Opened, Shape, Quiet
  <2> QED BY <2>2, <2>3
<1> QED BY <1>1, <1>2, <1>6 DEF Opened, Quiet, W, CountedIn

LEMMA OpenedHub ==
    ASSUME Shape, Times, ~ limit.progressive, NEW Starts \in SUBSET Nat, Opened(Starts),
           HubStep \/ Tick \/ UNCHANGED vars
    PROVE  Opened(Starts)'
<1>1. /\ UNCHANGED <<limit, tally>> /\ now \in Nat /\ now' \in Nat /\ now <= now'
      /\ \A d \in Caller : call'[d] = call[d]
      /\ \/ counter' = counter
         \/ counter' = None /\ (counter # None => counter.resetAt <= now)
  <2>1. \A d \in Caller : ~At(d, "resetting")
    BY DEF Times
  <2>2. CASE HubStep
    BY <2>1, <2>2, HubStepMeans DEF Shape
  <2>3. CASE Tick \/ UNCHANGED vars
    BY <2>3 DEF Tick, vars, Shape
  <2> QED BY <2>2, <2>3
<1>2. \A s \in Starts : CountedIn(s)' = CountedIn(s) /\ Passed(s)' = Passed(s)
  BY <1>1 DEF CountedIn, Passed, At
<1>3. \A s \in Starts : IF counter' = None THEN s + W <= now' ELSE s + W <= counter'.resetAt
  <2>1. W \in Nat /\ (counter # None => counter.resetAt \in Nat)
    BY DEF Shape, W
  <2> QED BY <1>1, <2>1 DEF Opened
<1>4. counter' # None => /\ counter' = counter /\ W' = W
                         /\ (counter.resetAt - W)' \in Starts
                         /\ CountedIn(counter.resetAt - W)' = CountedIn(counter.resetAt - W)
  BY <1>1 DEF Opened, W, CountedIn
<1> QED BY <1>1, <1>2, <1>3, <1>4 DEF Opened, W

LEMMA WindowsStayApart ==
    ASSUME Shape, Times, WindowsApart, [Next]_vars
    PROVE  WindowsApart'
<1>1. limit' = limit
  <2>1. ASSUME NEW c \in Caller, Middleware(c) PROVE limit' = limit
    BY <2>1, MiddlewareMoves DEF Quiet
  <2> QED BY <2>1, HubStepMeans DEF Next, Handles, HandleConsume, HubStep, Tick, vars
<1>2. SUFFICES ASSUME ~ limit.progressive
               PROVE  \E Later \in SUBSET Nat : Opened(Later)'
  BY <1>1 DEF WindowsApart
<1>3. PICK Starts \in SUBSET Nat : Opened(Starts)
  BY <1>2 DEF WindowsApart
<1> QED BY <1>2, <1>3, OpenedConsume, OpenedMiddleware, OpenedHub DEF Next, Handles, HubStep

\* A stretch of one window's length meets two windows at most.
LEMMA TwoWindowsAtMost ==
    ASSUME Shape, NEW Starts \in SUBSET Nat, Opened(Starts), NEW from \in 0 .. now
    PROVE  Cardinality({c \in CountedIn(from) : At(c, "served") /\ ~ call[c].open})
               <= 2 * limit.max
<1> DEFINE Through == {c \in CountedIn(from) : At(c, "served") /\ ~ call[c].open}
<1>1. /\ limit.max \in Nat /\ W \in Nat \ {0} /\ from \in Nat
      /\ Through \in SUBSET Caller
  BY DEF Shape, W, CountedIn
<1>2. ASSUME NEW c \in Through
      PROVE  \E s \in Starts : c \in Passed(s) /\ from < s + W /\ s < from + W
  <2>1. c \in Caller /\ tally[c] # None /\ tally[c] \in Nat
        /\ tally[c] >= from /\ tally[c] < from + W
    BY DEF CountedIn, Shape, W
  <2>2. PICK s \in Starts : c \in CountedIn(s)
    BY <2>1 DEF Opened
  <2>3. s \in Nat /\ tally[c] >= s /\ tally[c] < s + W
    BY <2>2 DEF CountedIn, W
  <2>4. c \in Passed(s)
    BY <2>2 DEF Passed
  <2> QED BY <1>1, <2>1, <2>3, <2>4
<1>3. \A s \in Starts : Passed(s) \in SUBSET Caller /\ Cardinality(Passed(s)) <= limit.max
                        /\ Cardinality(Passed(s)) \in Nat /\ IsFiniteSet(Passed(s))
  BY Sets DEF Opened, Passed, CountedIn
<1> HIDE DEF Through
<1>4. CASE Through = {}
  <2>1. Cardinality(Through) = 0 /\ 0 <= 2 * limit.max
    BY <1>1, <1>4, FS_EmptySet
  <2>2. Cardinality(Through) <= 2 * limit.max
    BY <2>1
  <2> QED BY <2>2 DEF Through
<1>5. CASE Through # {}
  <2>1. PICK a \in Starts : from < a + W /\ a < from + W
    BY <1>2, <1>5
  <2>2. CASE Through \subseteq Passed(a)
    <3>1. Cardinality(Through) <= Cardinality(Passed(a)) /\ Cardinality(Through) \in Nat
      BY <1>1, <1>3, <2>2, Sets
    <3>2. Cardinality(Through) <= 2 * limit.max
      BY <1>1, <1>3, <3>1
    <3> QED BY <3>2 DEF Through
  <2>3. CASE ~(Through \subseteq Passed(a))
    <3>1. PICK c \in Through : c \notin Passed(a)
      BY <2>3
    <3>2. PICK b \in Starts : c \in Passed(b) /\ from < b + W /\ b < from + W
      BY <1>2
    <3>3. a # b
      BY <3>1, <3>2
    <3>4. ASSUME NEW s \in Starts, from < s + W, s < from + W PROVE s = a \/ s = b
      <4>1. \A t, u \in Starts : t < u => t + W <= u
        BY DEF Opened
      <4>2. a \in Nat /\ b \in Nat /\ s \in Nat
        OBVIOUS
      <4>3. /\ a < b => a + W <= b
            /\ b < a => b + W <= a
            /\ a < s => a + W <= s
            /\ s < a => s + W <= a
            /\ b < s => b + W <= s
            /\ s < b => s + W <= b
        BY <4>1
      <4> QED BY <1>1, <2>1, <3>2, <3>3, <3>4, <4>2, <4>3
    <3>5. Through \subseteq Passed(a) \cup Passed(b)
      BY <1>2, <3>4
    <3>6. Passed(a) \cup Passed(b) \in SUBSET Caller /\ Passed(a) \cap Passed(b) \in SUBSET Caller
      BY <1>3
    <3>7. Cardinality(Passed(a) \cup Passed(b))
             = Cardinality(Passed(a)) + Cardinality(Passed(b))
                 - Cardinality(Passed(a) \cap Passed(b))
      BY <1>3, FS_Union
    <3>8. /\ Cardinality(Through) <= Cardinality(Passed(a) \cup Passed(b))
          /\ Cardinality(Through) \in Nat
          /\ Cardinality(Passed(a) \cup Passed(b)) \in Nat
          /\ Cardinality(Passed(a) \cap Passed(b)) \in Nat
      BY <3>5, <3>6, Sets
    <3>9. Cardinality(Through) <= 2 * limit.max
      BY <1>1, <1>3, <3>7, <3>8
    <3> QED BY <3>9 DEF Through
  <2> QED BY <2>2, <2>3
<1> QED BY <1>4, <1>5

\* However requests, sweeps, crashes and the clock interleave, a stretch of
\* one window's length lets at most two windows' worth through, those apart
\* that the counter could not be asked about.
THEOREM AtMostTwiceTheMax == Spec => []TwiceTheMaxAtMost
<1>1. Init => Shape /\ Times /\ WindowsApart
  <2>1. Init => Opened({})
    BY DEF Init, Opened
  <2> QED BY <2>1, InitHolds DEF WindowsApart
<1>2. Shape /\ Times /\ WindowsApart /\ [Next]_vars => (Shape /\ Times /\ WindowsApart)'
  BY NextKeeps, WindowsStayApart
<1>3. Shape /\ WindowsApart => TwiceTheMaxAtMost
  BY TwoWindowsAtMost DEF WindowsApart, TwiceTheMaxAtMost
<1> QED BY <1>1, <1>2, <1>3, PTL DEF Spec

-----------------------------------------------------------------------------
(* Types: nothing is due after the horizon.                                 *)

Bounds ==
    /\ now <= Horizon
    /\ counter # None => counter.resetAt <= LastCall + W
    /\ alarm \in Nat \cup {None}
    /\ alarm # None => alarm <= LastCall + W + Grace
    /\ \A c \in Caller : /\ tally[c] # None => tally[c] <= LastCall
                         /\ At(c, "counted") => call[c].count >= 1

LEMMA HorizonIsFar ==
    ASSUME Shape
    PROVE  Horizon \in Nat /\ LastCall + W + Grace <= Horizon /\ W \in Nat \ {0}
<1> DEFINE longest == CHOOSE w \in Windows : \A v \in Windows : v <= w
<1>1. Limits \subseteq [max : Nat, window : Nat \ {0}, progressive : BOOLEAN]
  BY RateLimiterAssumption
<1>2. W \in Windows /\ Windows \subseteq Nat \ {0}
  BY <1>1 DEF Shape, W, Windows
<1>3. \E w \in Windows : \A v \in Windows : v <= w
  BY RateLimiterAssumption DEF Shape
<1>4. longest \in Windows /\ W <= longest
  BY <1>2, <1>3
<1>5. Horizon = LastCall + MaxDelay + longest + Grace
  BY DEF Horizon
<1> HIDE DEF longest
<1> QED BY <1>2, <1>4, <1>5, RateLimiterAssumption

LEMMA BoundsConsume ==
    ASSUME Shape, Times, Bounds, NEW c \in Caller, HandleConsume(c)
    PROVE  Bounds'
<1>1. /\ UNCHANGED <<limit, now, alarm>> /\ now \in Nat /\ W \in Nat /\ W' = W
      /\ now <= LastCall /\ LastCall \in Nat
      /\ counter' = Counted
      /\ Goes(c, [stage |-> "counted", count |-> counter'.count])
  BY RateLimiterAssumption DEF HandleConsume, Times, Shape, W
<1>2. /\ call'[c] = [stage |-> "counted", count |-> counter'.count]
      /\ \A d \in Caller \ {c} : call'[d] = call[d]
  BY <1>1, GoesOn
<1>3. tally'[c] = now /\ \A d \in Caller \ {c} : tally'[d] = tally[d]
  BY DEF HandleConsume, Shape
<1>4. counter' # None => counter'.resetAt <= LastCall + W /\ counter'.count \in Nat \ {0}
  <2>1. Shape' /\ Times'
    BY ConsumeKeeps
  <2>2. counter' # None => /\ counter'.resetAt <= now + W
                           /\ counter'.resetAt \in Nat /\ counter'.count \in Nat \ {0}
    BY <1>1, <2>1 DEF Shape, Times
  <2> QED BY <1>1, <2>2
<1>5. counter' # None
  <2>1. counter' \in [count : Nat \ {0}, resetAt : Nat]
    <3>1. CASE IsNewWindow
      BY <1>1, <3>1 DEF Counted, W
    <3>2. CASE ~IsNewWindow
      BY <1>1, <3>2 DEF Counted, IsNewWindow, Shape
    <3> QED BY <3>1, <3>2
  <2> QED BY <2>1, RateLimiterAssumption
<1> QED BY <1>1, <1>2, <1>3, <1>4, <1>5 DEF Bounds, At

LEMMA BoundsOther ==
    ASSUME Shape, Times, Bounds, [Next]_vars, ~(\E c \in Caller : HandleConsume(c))
    PROVE  Bounds'
<1>1. ASSUME NEW c \in Caller, Middleware(c) PROVE Bounds'
  <2>1. Quiet /\ \A d \in Caller \ {c} : call'[d] = call[d]
    BY <1>1, MiddlewareMoves
  <2>2. call'[c].stage # "counted"
    BY <1>1, MiddlewareStage
  <2> QED BY <2>1, <2>2 DEF Bounds, Quiet, At, W
<1>2. CASE HubStep
  <2>1. /\ UNCHANGED <<limit, now, tally>> /\ counter' \in {counter, None}
        /\ \A d \in Caller : call'[d] = call[d] \/ call'[d] = Done
    BY <1>2, HubStepMeans
  <2>2. alarm' \in {alarm, None} \/ (counter # None /\ alarm' = counter.resetAt + Grace)
    BY <1>2 DEF Times, HubStep, HandleReset, EnsureSweepScheduled, Alarm, HubCrashes, IsNewWindow
  <2>3. /\ W \in Nat /\ LastCall \in Nat /\ Grace \in Nat
        /\ counter # None => counter.resetAt \in Nat /\ counter.resetAt <= LastCall + W
    BY RateLimiterAssumption DEF Shape, Bounds, W
  <2>4. alarm' \in Nat \cup {None} /\ (alarm' # None => alarm' <= LastCall + W + Grace)
    BY <2>2, <2>3 DEF Bounds
  <2> QED BY <2>1, <2>4 DEF Bounds, At, Done, W
<1>3. CASE Tick
  <2>1. now' <= Horizon
    BY <1>3, HorizonIsFar DEF Tick, Shape
  <2> QED BY <1>3, <2>1 DEF Tick, Bounds, At, W
<1>4. CASE UNCHANGED vars
  BY <1>4 DEF vars, Bounds, At, W
<1> QED BY <1>1, <1>2, <1>3, <1>4 DEF Next, Handles, HubStep

\* The counter, its alarm and the requests keep their types: a count is of
\* requests that were made, and nothing is due after the horizon.
THEOREM LimiterIsTyped == Spec => []LimiterTypeOK
<1>1. Init => Shape /\ Times /\ Backed /\ Bounds
  BY InitHolds, HorizonIsFar, RateLimiterAssumption DEF Init, Bounds, At, Idle
<1>2. Shape /\ Times /\ Backed /\ Bounds /\ [Next]_vars
         => (Shape /\ Times /\ Backed /\ Bounds)'
  <2>1. Shape /\ Times /\ Backed /\ [Next]_vars => (Shape /\ Times /\ Backed)'
    BY NextKeeps, BackedConsume, BackedMiddleware, BackedHub DEF Next, Handles, HubStep
  <2>2. Shape /\ Times /\ Bounds /\ [Next]_vars => Bounds'
    BY BoundsConsume, BoundsOther
  <2> QED BY <2>1, <2>2
<1>3. Shape /\ Times /\ Backed /\ Bounds => LimiterTypeOK
  <2> SUFFICES ASSUME Shape, Times, Backed, Bounds PROVE LimiterTypeOK
    OBVIOUS
  <2>1. /\ Horizon \in Nat /\ LastCall + W + Grace <= Horizon /\ W \in Nat
        /\ LastCall \in Nat /\ Grace \in Nat
    BY HorizonIsFar, RateLimiterAssumption
  <2>2. now \in 0 .. Horizon
    BY <2>1 DEF Shape, Bounds
  <2>3. counter \in [count : 1 .. Cardinality(Caller), resetAt : 0 .. Horizon] \cup {None}
    <3>1. SUFFICES ASSUME counter # None
                   PROVE  counter \in [count : 1 .. Cardinality(Caller), resetAt : 0 .. Horizon]
      OBVIOUS
    <3>2. counter \in [count : Nat \ {0}, resetAt : Nat]
      BY <3>1 DEF Shape
    <3>3. CountedIn(counter.resetAt - W) \in SUBSET Caller
      BY DEF CountedIn
    <3>4. /\ counter.count <= Cardinality(CountedIn(counter.resetAt - W))
          /\ Cardinality(CountedIn(counter.resetAt - W)) \in Nat
          /\ Cardinality(CountedIn(counter.resetAt - W)) <= Cardinality(Caller)
          /\ Cardinality(Caller) \in Nat
      BY <3>1, <3>2, <3>3, Sets DEF Backed
    <3>5. counter.count \in 1 .. Cardinality(Caller)
      BY <3>2, <3>4
    <3>6. counter.resetAt \in 0 .. Horizon
      BY <2>1, <3>1, <3>2 DEF Bounds
    <3> QED BY <3>2, <3>5, <3>6
  <2>4. alarm \in 0 .. Horizon \cup {None}
    BY <2>1 DEF Bounds
  <2>5. tally \in [Caller -> 0 .. Horizon \cup {None}]
    <3>1. \A c \in Caller : tally[c] \in 0 .. Horizon \cup {None}
      BY <2>1 DEF Shape, Bounds
    <3> QED BY <3>1 DEF Shape
  <2>6. ASSUME NEW c \in Caller, At(c, "counted")
        PROVE  call[c].count \in 1 .. Cardinality(Caller)
    <3>1. /\ call[c].count \in Nat /\ call[c].count >= 1
      BY <2>6 DEF Shape, Bounds
    <3>2. PICK from \in 0 .. now : Cardinality(UpTo(c, from)) >= call[c].count
      BY <2>6 DEF Backed, After
    <3>3. /\ Cardinality(UpTo(c, from)) <= Cardinality(Caller)
          /\ Cardinality(UpTo(c, from)) \in Nat /\ Cardinality(Caller) \in Nat
      BY Sets DEF UpTo, CountedIn
    <3> QED BY <3>1, <3>2, <3>3
  <2> QED BY <2>2, <2>3, <2>4, <2>5, <2>6 DEF LimiterTypeOK, Shape
<1> QED BY <1>1, <1>2, <1>3, PTL DEF Spec
=============================================================================
