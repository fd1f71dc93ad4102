----------------------------- MODULE EventsHub -----------------------------
(***************************************************************************)
(* One shard of the live-events hub, a Durable Object: changes are queued, *)
(* coalesced by an alarm into numbered frames, retained for a while and    *)
(* fanned out; a client that lost its connection presents the number of    *)
(* the last frame it saw and is replayed what it missed, or told to fetch. *)
(*                                                                         *)
(* While a handler of the object waits for its storage no other event is   *)
(* delivered to the object (the platform's input gates), so handlers do    *)
(* not interleave; clients and the network move between any two of their   *)
(* steps, and the object may be reset there.                               *)
(***************************************************************************)
EXTENDS Integers, Sequences, FiniteSets, Selections

CONSTANTS
    Change,       \* changes that workers submit, each once
    Audience,     \* event types with their audience key
    AudienceOf,   \* [Change -> Audience]
    Client,
    Watches,      \* [Client -> SUBSET Audience], matchesAudience
    Sse,          \* clients on the SSE transport, the others use WebSockets
    MaxFrames,    \* EVENT_LOG_MAX_FRAMES
    MaxQueued,    \* SSE_MAX_QUEUED_FRAMES
    MaxBreaks     \* connections lost and objects reset, all in all

ASSUME HubAssumption ==
    /\ AudienceOf \in [Change -> Audience]
    /\ Watches \in [Client -> SUBSET Audience]
    /\ Sse \subseteq Client
    /\ MaxFrames \in Nat \ {0}
    /\ MaxQueued \in Nat \ {0, 1}
    /\ MaxBreaks \in Nat

VARIABLES
    emitted,   \* set of Change: committed by a worker, sent to the hub or not
    pending,   \* Seq(Change): KEY_PENDING
    alarm,     \* BOOLEAN: a flush is scheduled, running or to be retried
    seq,       \* Nat: KEY_SEQ
    log,       \* Seq(Frame): the retained frames, by number
    aged,      \* Nat: frames up to this number are past EVENT_LOG_TTL_MS
    logged,    \* set of Change: those that a frame was ever stored for
    step,      \* what the handler that is running does next
    taken,     \* Seq(Change): its local variable pending
    fresh,     \* Seq(Frame): its local variable frames
    conn,      \* [Client -> "off", "open", "closed" by the hub, or "lost"]
    wire,      \* [Client -> Seq(Message)]: written and not yet received
    cursor,    \* [Client -> Nat or NoCursor]: number of the last message
    knows,     \* [Client -> set of Change]
    doubt,     \* clients that may have lost something without being told
    breaks     \* Nat

hubVars == <<emitted, pending, alarm, seq, log, aged, logged, step, taken, fresh>>
clientVars == <<conn, wire, cursor, knows, doubt>>
vars == <<hubVars, clientVars, breaks>>

NoCursor == -1

Frame == [id : Nat, audience : Audience, changes : SUBSET Change]
Message == [kind : {"HELLO", "SYNC_REQUIRED", "frame"}, id : Nat,
            resumed : BOOLEAN, changes : SUBSET Change]

Init ==
    /\ emitted = {}
    /\ pending = <<>>
    /\ alarm = FALSE
    /\ seq = 0
    /\ log = <<>>
    /\ aged = 0
    /\ logged = {}
    /\ step = "idle"
    /\ taken = <<>>
    /\ fresh = <<>>
    /\ conn = [c \in Client |-> "off"]
    /\ wire = [c \in Client |-> <<>>]
    /\ cursor = [c \in Client |-> NoCursor]
    /\ knows = [c \in Client |-> {}]
    /\ doubt = {}
    /\ breaks = 0

Elements(s) == {s[i] : i \in DOMAIN s}
Wants(c) == {ch \in Change : AudienceOf[ch] \in Watches[c]}
-----------------------------------------------------------------------------
(* Emit: queue the change, then arm the alarm.                              *)

\* A hub that cannot be reached, or cannot store its queue, costs the event,
\* never the order.
Emit(ch, queued) ==
    /\ step = "idle"
    /\ ch \notin emitted
    /\ emitted' = emitted \cup {ch}
    /\ pending' = IF queued THEN Append(pending, ch) ELSE pending
    /\ step' = IF queued THEN "arm" ELSE "idle"
    /\ UNCHANGED <<alarm, seq, log, aged, logged, taken, fresh, clientVars, breaks>>

Arm ==
    /\ step = "arm"
    /\ step' = "idle"
    /\ alarm' = TRUE
    /\ UNCHANGED <<emitted, pending, seq, log, aged, logged, taken, fresh, clientVars,
                   breaks>>

\* getAlarm or setAlarm fails: the queue is stored and waits for an alarm that
\* only the next emit arms, if none was armed before.
ArmFails ==
    /\ step = "arm"
    /\ step' = "idle"
    /\ UNCHANGED <<emitted, pending, alarm, seq, log, aged, logged, taken, fresh,
                   clientVars, breaks>>
-----------------------------------------------------------------------------
(* The alarm: take the queue, store its frames, fan them out.               *)

\* One frame for each audience, in the order the audiences first appear.
FirstOfAudience(q, i) ==
    \A j \in 1..(i - 1) : AudienceOf[q[j]] # AudienceOf[q[i]]

Leads(q) == Chosen(q, {i \in DOMAIN q : FirstOfAudience(q, i)})

GroupEmitItems(q, last) ==
    [n \in DOMAIN Leads(q) |->
        [id |-> last + n, audience |-> AudienceOf[Leads(q)[n]],
         changes |-> {ch \in Elements(q) : AudienceOf[ch] = AudienceOf[Leads(q)[n]]}]]

\* Frames past the count or the age limit are dropped, oldest first.
Prune(frames) ==
    LET overflow == IF Len(frames) > MaxFrames THEN Len(frames) - MaxFrames ELSE 0
    IN Chosen(frames, {i \in overflow + 1 .. Len(frames) : frames[i].id > aged})

FlushTake ==
    /\ alarm
    /\ step = "idle"
    /\ step' = "store"
    /\ taken' = pending
    /\ pending' = <<>>
    /\ UNCHANGED <<emitted, alarm, seq, log, aged, logged, fresh, clientVars, breaks>>

\* Mutant: flush stores its frames without the number it has reached.
FlushStoreWithoutSeq ==
    LET frames == GroupEmitItems(taken, seq) IN
    /\ step = "store"
    /\ step' = "prune"
    /\ log' = log \o frames
    /\ logged' = logged \cup Elements(taken)
    /\ fresh' = frames
    /\ taken' = <<>>
    /\ UNCHANGED <<emitted, pending, alarm, seq, aged, clientVars, breaks>>

FlushStore ==
    LET frames == GroupEmitItems(taken, seq) IN
    /\ step = "store"
    /\ step' = "prune"
    /\ seq' = seq + Len(frames)
    /\ log' = log \o frames
    /\ logged' = logged \cup Elements(taken)
    /\ fresh' = frames
    /\ taken' = <<>>
    /\ UNCHANGED <<emitted, pending, alarm, aged, clientVars, breaks>>

AsMessage(f) == [kind |-> "frame", id |-> f.id, resumed |-> FALSE, changes |-> f.changes]

For(c, frames) ==
    LET mine == Chosen(frames, {i \in DOMAIN frames : frames[i].audience \in Watches[c]}) IN
    [i \in DOMAIN mine |-> AsMessage(mine[i])]

\* Mutant: writeSse compares with the limit after it has counted the frame.
WrittenOneMore(c, queue, messages) ==
    LET all == queue \o messages IN
    IF c \in Sse /\ Len(all) > MaxQueued THEN SubSeq(all, 1, MaxQueued + 1) ELSE all

\* An SSE client with MaxQueued messages undrained is dropped, and receives
\* what was written to it before.
Written(c, queue, messages) ==
    LET all == queue \o messages IN
    IF c \in Sse /\ Len(all) > MaxQueued THEN SubSeq(all, 1, MaxQueued) ELSE all

AfterWrite(c, queue, messages) ==
    IF c \in Sse /\ Len(queue) + Len(messages) > MaxQueued THEN "closed" ELSE "open"

\* The handler re-arms itself for changes that are still queued.
Rearm == alarm' = (pending # <<>>)

FlushDeliver ==
    /\ step = "prune"
    /\ step' = "idle"
    /\ log' = Prune(log)
    /\ fresh' = <<>>
    /\ Rearm
    /\ wire' = [c \in Client |->
           IF conn[c] = "open" THEN Written(c, wire[c], For(c, fresh)) ELSE wire[c]]
    /\ conn' = [c \in Client |->
           IF conn[c] = "open" THEN AfterWrite(c, wire[c], For(c, fresh)) ELSE conn[c]]
    /\ UNCHANGED <<emitted, pending, seq, aged, logged, taken, cursor, knows, doubt,
                   breaks>>

\* Mutant: the alarm handler leaves re-arming to the next emit.
FlushFailsForGood ==
    /\ \/ step = "idle" /\ alarm
       \/ step = "store"
    /\ step' = "idle"
    /\ taken' = <<>>
    /\ fresh' = <<>>
    /\ alarm' = FALSE
    /\ UNCHANGED <<emitted, pending, seq, log, aged, logged, clientVars, breaks>>

\* A storage operation fails: before the queue was deleted, before the frames
\* were put, or when old frames are pruned; then nobody is sent the frames.
FlushFails ==
    /\ \/ step = "idle" /\ alarm
       \/ step \in {"store", "prune"}
    /\ step' = "idle"
    /\ taken' = <<>>
    /\ fresh' = <<>>
    /\ doubt' = doubt \cup {c \in Client : conn[c] = "open" /\ For(c, fresh) # <<>>}
    /\ Rearm
    /\ UNCHANGED <<emitted, pending, seq, log, aged, logged, conn, wire, cursor, knows,
                   breaks>>

\* The object is reset: memory and connections are gone, storage and the alarm
\* are not.
Reset ==
    /\ breaks < MaxBreaks
    /\ breaks' = breaks + 1
    /\ step' = "idle"
    /\ taken' = <<>>
    /\ fresh' = <<>>
    /\ conn' = [c \in Client |-> IF conn[c] \in {"open", "closed"} THEN "lost" ELSE conn[c]]
    /\ UNCHANGED <<emitted, pending, alarm, seq, log, aged, logged, wire, cursor,
                   knows, doubt>>

\* The retention time of every frame so far runs out.
Age ==
    /\ aged < seq
    /\ aged' = seq
    /\ UNCHANGED <<emitted, pending, alarm, seq, log, logged, step, taken, fresh,
                   clientVars, breaks>>
-----------------------------------------------------------------------------
(* Connecting.                                                              *)

Oldest == IF log = <<>> THEN seq + 1 ELSE log[1].id

\* Mutant: the retention limit is off by one.
ExpiredOneLater(c) == cursor[c] > seq \/ cursor[c] + 2 < Oldest

Expired(c) == cursor[c] > seq \/ cursor[c] + 1 < Oldest

Hello(resumed) ==
    [kind |-> "HELLO", id |-> seq, resumed |-> resumed, changes |-> {}]
SyncRequired ==
    [kind |-> "SYNC_REQUIRED", id |-> seq, resumed |-> FALSE, changes |-> {}]

\* HELLO, then the frames the client missed, or one SYNC_REQUIRED.
ConnectBacklog(c) ==
    IF cursor[c] = NoCursor THEN <<Hello(FALSE)>>
    ELSE IF Expired(c) THEN <<Hello(FALSE), SyncRequired>>
    ELSE <<Hello(TRUE)>> \o For(c, Chosen(log, {i \in DOMAIN log : log[i].id > cursor[c]}))

Connect(c) ==
    /\ step = "idle"
    /\ conn[c] = "off"
    /\ wire' = [wire EXCEPT ![c] = Written(c, <<>>, ConnectBacklog(c))]
    /\ conn' = [conn EXCEPT ![c] = AfterWrite(c, <<>>, ConnectBacklog(c))]
    /\ UNCHANGED <<hubVars, cursor, knows, doubt, breaks>>
-----------------------------------------------------------------------------
(* The client (REALTIME_API.md): its cursor is the number of the last       *)
(* message; it fetches everything on SYNC_REQUIRED and on a fresh HELLO.    *)

Receive(c) ==
    LET m == Head(wire[c])
        fetches == m.kind # "frame" /\ ~m.resumed
    IN
    /\ wire[c] # <<>>
    /\ wire' = [wire EXCEPT ![c] = Tail(@)]
    /\ cursor' = [cursor EXCEPT ![c] = m.id]
    /\ knows' = [knows EXCEPT ![c] = @ \cup (IF fetches THEN emitted ELSE m.changes)]
    /\ doubt' = IF fetches THEN doubt \ {c} ELSE doubt
    /\ UNCHANGED <<hubVars, conn, breaks>>

\* HELLO carries the hub's number, ahead of the frames that are replayed next.
BeforeReplay(c) ==
    /\ wire[c] # <<>>
    /\ Head(wire[c]).kind = "frame"
    /\ Head(wire[c]).id <= cursor[c]

\* The connection is lost with whatever was still on its way.
Leave(c) ==
    /\ wire' = [wire EXCEPT ![c] = <<>>]
    /\ conn' = [conn EXCEPT ![c] = "off"]
    /\ doubt' = IF BeforeReplay(c) THEN doubt \cup {c} ELSE doubt
    /\ UNCHANGED <<hubVars, cursor, knows>>

Lose(c) ==
    /\ conn[c] \in {"open", "closed"}
    /\ breaks < MaxBreaks
    /\ breaks' = breaks + 1
    /\ Leave(c)

\* Mutant: dropSse forgets the client without closing its stream.
NoticeCloseWhenLost(c) ==
    /\ conn[c] = "lost"
    /\ Leave(c)
    /\ UNCHANGED breaks

\* A stream that the hub closes is drained first, one that is lost may not be.
NoticeClose(c) ==
    /\ \/ conn[c] = "closed" /\ wire[c] = <<>>
       \/ conn[c] = "lost"
    /\ Leave(c)
    /\ UNCHANGED breaks
-----------------------------------------------------------------------------
Flush == FlushTake \/ FlushStore \/ FlushDeliver

ClientStep(c) == Connect(c) \/ Receive(c) \/ NoticeClose(c)

Next ==
    \/ \E ch \in Change, queued \in BOOLEAN : Emit(ch, queued)
    \/ Arm
    \/ ArmFails
    \/ Flush
    \/ FlushFails
    \/ Reset
    \/ Age
    \/ \E c \in Client : ClientStep(c) \/ Lose(c)

Spec == Init /\ [][Next]_vars

\* Handlers run on, alarms are run at least once and clients reconnect.
Fairness == WF_vars(Arm) /\ WF_vars(Flush) /\ \A c \in Client : WF_vars(ClientStep(c))

FairSpec == Spec /\ Fairness
-----------------------------------------------------------------------------
(* Properties.                                                              *)

\* The storage of the hub and the clients' connections keep their shape, and no
\* SSE client is ever owed more undrained messages than the limit.
TypeOK ==
    /\ emitted \subseteq Change /\ logged \subseteq emitted
    /\ pending \in Seq(Change) /\ taken \in Seq(Change)
    /\ alarm \in BOOLEAN
    /\ seq \in Nat /\ aged \in 0..seq
    /\ log \in Seq(Frame)
    /\ fresh \in Seq(Frame)
    /\ step \in {"idle", "arm", "store", "prune"}
    /\ conn \in [Client -> {"off", "open", "closed", "lost"}]
    /\ wire \in [Client -> Seq(Message)]
    /\ \A c \in Sse : Len(wire[c]) <= MaxQueued
    /\ cursor \in [Client -> Nat \cup {NoCursor}]
    /\ knows \in [Client -> SUBSET Change]
    /\ doubt \subseteq Client
    /\ breaks \in 0..MaxBreaks

\* Frames travel in the order of their numbers and none travels twice, also
\* where a replay and the live fan-out meet on one connection.
FramesInOrder ==
    \A c \in Client : \A i, j \in DOMAIN wire[c] :
        i < j /\ wire[c][i].kind = "frame" /\ wire[c][j].kind = "frame"
            => wire[c][i].id < wire[c][j].id

\* The feed the hub implements: a client that is connected, with nothing on
\* its way and no flush under way, has missed nothing it watches, unless its
\* stream was cut behind HELLO or the fan-out failed after the frames were stored.
Owed == [c \in Client |-> (logged \cap Wants(c)) \ knows[c]]
Current ==
    {c \in Client \ doubt : conn[c] = "open" /\ wire[c] = <<>> /\ step # "prune"}

Feed == INSTANCE EventFeed WITH
    published <- logged, owed <- Owed, current <- Current,
    Wanted <- [c \in Client |-> Wants(c)]

ImplementsFeed == Feed!Spec

\* What was queued does not stay queued once an alarm is armed, whatever flush
\* fails: the handler re-arms itself.  (Between the put and setAlarm of enqueue
\* a reset or an error leaves a queue that no alarm waits for.)
QueueDrains == pending # <<>> /\ alarm ~> pending = <<>>

\* A client that keeps reconnecting learns of every change in the log, or is one
\* of those that lost frames without being told.
ClientsLearn ==
    \A c \in Client : \A ch \in Wants(c) :
        ch \in logged ~> ch \in knows[c] \/ c \in doubt
=============================================================================
