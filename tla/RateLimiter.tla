---------------------------- MODULE RateLimiter -----------------------------
(***************************************************************************)
(* One rate-limit counter: the requests of one identity under one prefix,  *)
(* the middleware that counts them, and the Durable Object that keeps the  *)
(* counter and sweeps it by an alarm.                                      *)
(***************************************************************************)
EXTENDS Integers, FiniteSets, Requests

CONSTANTS
    Limits,     \* set of [max, window, progressive]: rateLimit's options
    Grace,      \* SWEEP_GRACE_MS
    MaxDelay,   \* the cap on a progressive delay
    LastCall,   \* bound: no request is made after it
    None

Windows == {l.window : l \in Limits}
Horizon == LastCall + MaxDelay + (CHOOSE w \in Windows : \A v \in Windows : v <= w) + Grace

ASSUME RateLimiterAssumption ==
    /\ Limits \subseteq [max : Nat, window : Nat \ {0}, progressive : BOOLEAN]
    /\ Limits # {} => \E w \in Windows : \A v \in Windows : v <= w
    /\ Grace \in Nat /\ MaxDelay \in Nat /\ LastCall \in Nat
    /\ IsFiniteSet(Caller)
    /\ None \notin Caller \cup Nat
    /\ None \notin [count : Nat, resetAt : Nat]

VARIABLES
    limit,    \* the options in force
    now,      \* the clock
    counter,  \* the stored CounterState, or None
    alarm,    \* when the sweep is due, or None
    hub,      \* the request whose handler the object is in the middle of, or None
    tally     \* [Caller -> when its request was counted, or None]

vars == <<limit, now, counter, alarm, hub, tally, call>>

Stages == {"idle", "sent", "counted", "asleep", "served", "refused", "resetting", "done"}

LimiterTypeOK ==
    /\ limit \in Limits
    /\ now \in 0 .. Horizon
    /\ counter \in [count : 1 .. Cardinality(Caller), resetAt : 0 .. Horizon] \cup {None}
    /\ alarm \in 0 .. Horizon \cup {None}
    /\ hub \in Caller \cup {None}
    /\ tally \in [Caller -> 0 .. Horizon \cup {None}]
    /\ \A c \in Caller :
          /\ call[c].stage \in Stages
          /\ At(c, "counted") => call[c].count \in 1 .. Cardinality(Caller)

Init ==
    /\ limit \in Limits
    /\ now = 0
    /\ counter = None
    /\ alarm = None
    /\ hub = None
    /\ tally = [c \in Caller |-> None]
    /\ call = [c \in Caller |-> Idle]

(***************************************************************************)
(* rateLimiterHub                                                          *)
(***************************************************************************)

\* Mutant: a window ends a tick late.
IsNewWindowLate == counter = None \/ counter.resetAt < now

IsNewWindow == counter = None \/ counter.resetAt <= now

\* Mutant: two requests read the same count, and one increment is lost.
CountedLost ==
    IF IsNewWindow THEN [count |-> 1, resetAt |-> now + limit.window] ELSE counter

Counted ==
    IF IsNewWindow THEN [count |-> 1, resetAt |-> now + limit.window]
                   ELSE [counter EXCEPT !.count = @ + 1]

\* get and put, which the input gate makes one step.  A new window goes on to
\* schedule its sweep before anything else is delivered to the object.
HandleConsume(c) ==
    LET updated == Counted
    IN  /\ At(c, "sent") /\ hub = None
        /\ counter' = updated
        /\ tally' = [tally EXCEPT ![c] = now]
        /\ hub' = IF IsNewWindow THEN c ELSE None
        /\ Goes(c, [stage |-> "counted", count |-> updated.count])
        /\ UNCHANGED <<limit, now, alarm>>

EnsureSweepScheduled ==
    /\ hub # None
    /\ hub' = None
    /\ alarm' = IF alarm = None THEN counter.resetAt + Grace ELSE alarm
    /\ UNCHANGED <<limit, now, counter, tally, call>>

\* Mutant: a reset stores a zero.
HandleResetZero(c) ==
    /\ At(c, "resetting") /\ hub = None
    /\ counter' = [count |-> 0, resetAt |-> now]
    /\ Goes(c, Done)
    /\ UNCHANGED <<limit, now, alarm, hub, tally>>

HandleReset(c) ==
    /\ At(c, "resetting") /\ hub = None
    /\ counter' = None
    /\ Goes(c, Done)
    /\ UNCHANGED <<limit, now, alarm, hub, tally>>

\* Mutant: the sweep is not set again while the counter is live.
SweepOnce ==
    /\ hub = None /\ alarm # None /\ alarm <= now
    /\ alarm' = None
    /\ counter' = IF counter # None /\ counter.resetAt <= now THEN None ELSE counter
    /\ UNCHANGED <<limit, now, hub, tally, call>>

\* An alarm set by an earlier window may find the counter live, or reset.
Alarm ==
    LET live == counter # None /\ ~ IsNewWindow
    IN  /\ hub = None /\ alarm # None /\ alarm <= now
        /\ counter' = IF live THEN counter ELSE None
        /\ alarm' = IF live THEN counter.resetAt + Grace ELSE None
        /\ UNCHANGED <<limit, now, hub, tally, call>>

\* The object is reset between its put and its setAlarm.
HubCrashes ==
    /\ hub # None
    /\ hub' = None
    /\ UNCHANGED <<limit, now, counter, alarm, tally, call>>

(***************************************************************************)
(* rateLimit: the middleware                                               *)
(***************************************************************************)
RateLimit(c) ==
    /\ now <= LastCall
    /\ Begins(c, [stage |-> "sent"])
    /\ UNCHANGED <<limit, now, counter, alarm, hub, tally>>

\* The counter cannot be reached, or its answer is lost: fail open.
FailOpen(c) ==
    /\ At(c, "sent") \/ At(c, "counted")
    /\ Goes(c, [stage |-> "served", open |-> TRUE])
    /\ UNCHANGED <<limit, now, counter, alarm, hub, tally>>

\* min(baseMs * 2 ^ (overage - 1), maxMs) with a base of one tick.
DelayOf(count) ==
    LET doubled == 2 ^ (count - limit.max - 1)
    IN  IF count <= limit.max THEN 0 ELSE IF doubled < MaxDelay THEN doubled ELSE MaxDelay

Answered(c) == At(c, "counted") /\ hub # c

Reject(c) ==
    /\ Answered(c) /\ ~ limit.progressive
    /\ IF call[c].count > limit.max THEN Goes(c, [stage |-> "refused"])
                                    ELSE Goes(c, [stage |-> "served", open |-> FALSE])
    /\ UNCHANGED <<limit, now, counter, alarm, hub, tally>>

\* Mutant: a login past the limit is refused.
RefuseLogin(c) ==
    /\ Answered(c) /\ limit.progressive
    /\ Goes(c, IF DelayOf(call[c].count) = 0 THEN [stage |-> "served", open |-> FALSE]
               ELSE [stage |-> "refused"])
    /\ UNCHANGED <<limit, now, counter, alarm, hub, tally>>

ApplyProgressiveDelay(c) ==
    LET delay == DelayOf(call[c].count)
    IN  /\ Answered(c) /\ limit.progressive
        /\ Goes(c, IF delay = 0 THEN [stage |-> "served", open |-> FALSE]
                   ELSE [stage |-> "asleep", until |-> now + delay])
        /\ UNCHANGED <<limit, now, counter, alarm, hub, tally>>

Wake(c) ==
    /\ At(c, "asleep") /\ call[c].until <= now
    /\ Goes(c, [stage |-> "served", open |-> FALSE])
    /\ UNCHANGED <<limit, now, counter, alarm, hub, tally>>

\* Signing in and changing the password clear the counter when they succeed.
ResetRateLimit(c) ==
    /\ At(c, "served") /\ limit.progressive
    /\ Goes(c, [stage |-> "resetting"])
    /\ UNCHANGED <<limit, now, counter, alarm, hub, tally>>

ResetFails(c) ==
    /\ At(c, "resetting")
    /\ Goes(c, Done)
    /\ UNCHANGED <<limit, now, counter, alarm, hub, tally>>

\* Bound: at LastCall time waits for the requests on their way.
Tick ==
    /\ now < Horizon
    /\ now = LastCall => hub = None /\ \A c \in Caller : ~ At(c, "sent") /\ ~ At(c, "counted")
    /\ now' = now + 1
    /\ UNCHANGED <<limit, counter, alarm, hub, tally, call>>

Handles(c) == HandleConsume(c) \/ HandleReset(c)

Middleware(c) ==
    \/ RateLimit(c) \/ FailOpen(c) \/ Reject(c) \/ ApplyProgressiveDelay(c) \/ Wake(c)
    \/ ResetRateLimit(c) \/ ResetFails(c)

Next ==
    \/ \E c \in Caller : Handles(c) \/ Middleware(c)
    \/ EnsureSweepScheduled \/ Alarm \/ HubCrashes
    \/ Tick

Spec == Init /\ [][Next]_vars

\* The runtime delivers alarms, and resumes handlers and sleepers.
FairSpec ==
    /\ Spec
    /\ WF_vars(Tick) /\ WF_vars(Alarm) /\ WF_vars(EnsureSweepScheduled \/ HubCrashes)
    /\ \A c \in Caller : WF_vars(HandleConsume(c) \/ FailOpen(c)) /\ WF_vars(Wake(c))
                         /\ WF_vars(Reject(c) \/ ApplyProgressiveDelay(c) \/ FailOpen(c))

(***************************************************************************)
(* Properties                                                              *)
(***************************************************************************)
CountedIn(from) == {c \in Caller : tally[c] # None /\ tally[c] >= from
                                   /\ tally[c] < from + limit.window}

\* rateLimiterHub.ts:16: however requests, sweeps and resets of the object
\* interleave, no stretch of one window's length lets more than two windows'
\* worth through, those apart that the counter could not be asked about.
TwiceTheMaxAtMost ==
    ~ limit.progressive =>
        \A from \in 0 .. now :
            Cardinality({c \in CountedIn(from) : At(c, "served") /\ ~ call[c].open})
                <= 2 * limit.max

\* Who is refused or slowed down came after max others within one window.
NobodyIsSlowedEarly ==
    \A c \in Caller :
        At(c, "refused") \/ At(c, "asleep") =>
            \E from \in 0 .. now :
                /\ c \in CountedIn(from)
                /\ Cardinality({d \in CountedIn(from) : tally[d] <= tally[c]}) > limit.max

\* rateLimit.ts:169: a login is slowed down and never turned away.
LoginsAreServed ==
    \A c \in Caller :
        At(c, "sent") /\ limit.progressive ~> At(c, "served")

\* rateLimiterHub.ts:86: once its sweep is set, a counter does not stay for
\* good in the storage of an identity that is not heard of again.
SweptInTheEnd == alarm # None ~> (counter = None /\ alarm = None)
=============================================================================
