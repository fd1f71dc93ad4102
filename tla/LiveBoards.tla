----------------------------- MODULE LiveBoards -----------------------------
(***************************************************************************)
(* The live events of the Node process: requests change orders and items,  *)
(* announce what they changed to the hub's shards, and the shards bring it *)
(* to the screens of students, guests and admins.  EventsHub is the other  *)
(* hub, a Durable Object; this one keeps everything in memory.             *)
(*                                                                         *)
(* What a screen shows is patched piece by piece: a delta about an order   *)
(* carries its status or who has seen it, not both.  So a thing here is    *)
(* what one kind of delta of one type of event is about, and its value is  *)
(* its version, how often it was changed.                                  *)
(***************************************************************************)
EXTENDS Integers, Sequences, FiniteSets, Requests, Selections

CONSTANTS
    Item, Order,
    KitchenOf,   \* [Order -> Kitchen]
    ItemOf,      \* [Order -> Item]
    OwnerOf,     \* [Order -> Viewer]: a student, a superadmin or a guest's session
    Viewer,
    RoleOf,      \* [Viewer -> Role]
    BoardOf,     \* [Viewer -> Kitchen or None]: an admin's kitchen, or the one asked for
    HashOf,      \* [Viewer -> Shard]: shardForSubject
    Crowds,      \* set of sets of viewers: who is watching
    MaxFrames,   \* EVENT_LOG_MAX_FRAMES
    MaxVersion,  \* bound on the changes of one thing
    MaxBreaks,   \* bound on connections lost and restarts, all in all
    None

Kitchen == {"SNACKS", "MEALS"}
Shard == Kitchen                  \* HUB_SHARDS
Role == {"STUDENT", "GUEST", "ADMIN", "SUPERADMIN"}

ASSUME LiveAssumption ==
    /\ KitchenOf \in [Order -> Kitchen] /\ ItemOf \in [Order -> Item]
    /\ OwnerOf \in [Order -> Viewer] /\ RoleOf \in [Viewer -> Role]
    /\ BoardOf \in [Viewer -> Kitchen \cup {None}]
    /\ HashOf \in [Viewer -> Shard] /\ Crowds \subseteq SUBSET Viewer
    /\ MaxFrames \in Nat \ {0} /\ MaxVersion \in Nat \ {0} /\ MaxBreaks \in Nat
    /\ None \notin Nat

VARIABLES
    db,        \* [Thing -> version]: the tables
    pending,   \* [Shard -> Seq(delta)]: queued, a timer is set while there are any
    seq,       \* [Shard -> Nat]
    frames,    \* [Shard -> Seq(frame)]: retained for replay
    accepted,  \* [Shard -> [Thing -> version]]: of the last delta queued
    conn,      \* [Viewer -> BOOLEAN]: a stream is open
    wire,      \* [Viewer -> Seq(message)]: written and not yet received
    cursor,    \* [Viewer -> Nat or NoCursor]: Last-Event-ID
    shows,     \* [Viewer -> [Thing -> version]]
    doubt,     \* viewers that may have lost something and were not told
    former,    \* viewers whose cursor is from before the last restart
    breaks,    \* Nat
    crowd      \* the viewers that watch

hubVars == <<pending, seq, frames, accepted>>
clientVars == <<conn, wire, cursor, shows, doubt, former>>
vars == <<db, hubVars, clientVars, breaks, call, crowd>>

NoCursor == -1

(***************************************************************************)
(* lib/realtime: audiences, subscriptions and shards                       *)
(***************************************************************************)
ALL == [scope |-> "ALL"]
KITCHEN(k) == [scope |-> "KITCHEN", kitchen |-> k]
SUBJECT(v) == [scope |-> "SUBJECT", subject |-> v]
Audience == {ALL} \cup {KITCHEN(k) : k \in Kitchen} \cup {SUBJECT(v) : v \in Viewer}

(* What the deltas are about: their type of event, their kind and an id.   *)
Stock(i) == <<"MENU_UPDATE", "STOCK", i>>
Menu == <<"MENU_UPDATE", "FULL_REFRESH", None>>
Row(kind, o) == <<"ORDER_BOARD_UPDATE", kind, o>>   \* on the kitchen's board
Own(o) == <<"ORDER_UPDATE", "ORDER_STATUS", o>>     \* on the owner's screen
Kind == {"ORDER_CREATED", "ORDER_STATUS", "ORDER_SEEN"}
OnMenu == {Menu} \cup {Stock(i) : i \in Item}
Thing == OnMenu \cup {Row(kind, o) : kind \in Kind, o \in Order} \cup {Own(o) : o \in Order}

\* sseService: the menu is everybody's, a row is for its kitchen's board.
AudienceFor(t) ==
    CASE t[1] = "MENU_UPDATE" -> ALL
      [] t[1] = "ORDER_BOARD_UPDATE" -> KITCHEN(KitchenOf[t[3]])
      [] t[1] = "ORDER_UPDATE" -> SUBJECT(OwnerOf[t[3]])

ShardsForAudience(audience) ==
    CASE audience.scope = "ALL" -> Shard
      [] audience.scope = "KITCHEN" -> {audience.kitchen}
      [] audience.scope = "SUBJECT" -> {HashOf[audience.subject]}

\* The kitchens a connection watches: students and guests watch none.
SubscriptionFor(v) ==
    CASE RoleOf[v] = "ADMIN" -> {IF BoardOf[v] = None THEN "SNACKS" ELSE BoardOf[v]}
      [] RoleOf[v] = "SUPERADMIN" -> IF BoardOf[v] = None THEN Kitchen ELSE {BoardOf[v]}
      [] OTHER -> {}

ShardForConnection(v) ==
    LET kitchens == SubscriptionFor(v)
    IN  CASE kitchens = Kitchen -> "SNACKS"
          [] kitchens = {} -> HashOf[v]
          [] OTHER -> CHOOSE k \in kitchens : TRUE

\* Mutant: a board's frames go to everyone on its shard.
MatchesShard(v, audience) == audience.scope = "SUBJECT" => audience.subject = v

MatchesAudience(v, audience) ==
    CASE audience.scope = "ALL" -> TRUE
      [] audience.scope = "KITCHEN" -> audience.kitchen \in SubscriptionFor(v)
      [] audience.scope = "SUBJECT" -> audience.subject = v

Delta == [thing : Thing, version : 1 .. MaxVersion, audience : Audience]
Content == {f \in [Thing -> 0 .. MaxVersion] : TRUE}   \* 0: nothing about it
Frame == [id : Nat, audience : Audience, news : Content]
Message == [kind : {"HELLO", "SYNC_REQUIRED", "frame"}, id : Nat, audience : Audience, news : Content]

LiveTypeOK ==
    /\ db \in [Thing -> 0 .. MaxVersion]
    /\ \A s \in Shard :
          /\ \A i \in DOMAIN pending[s] : pending[s][i] \in Delta
          /\ Len(frames[s]) <= MaxFrames
          /\ \A i \in DOMAIN frames[s] :
                frames[s][i] \in Frame /\ frames[s][i].id = seq[s] - Len(frames[s]) + i
    /\ accepted \in [Shard -> [Thing -> 0 .. MaxVersion]]
    /\ conn \in [Viewer -> BOOLEAN]
    /\ \A v \in Viewer : \A i \in DOMAIN wire[v] : wire[v][i] \in Message
    /\ cursor \in [Viewer -> Nat \cup {NoCursor}]
    /\ shows \in [Viewer -> [Thing -> 0 .. MaxVersion]]
    /\ doubt \subseteq Viewer /\ former \subseteq Viewer
    /\ breaks \in 0 .. MaxBreaks
    /\ crowd \in Crowds

Nothing == [t \in Thing |-> 0]
Placed(orders) == [t \in Thing |->
    IF t \in {Row("ORDER_CREATED", o) : o \in orders} THEN 1 ELSE 0]
NoneAccepted == [s \in Shard |-> Nothing]

Init ==
    /\ \E orders \in SUBSET Order : db = Placed(orders)
    /\ pending = [s \in Shard |-> <<>>]
    /\ seq = [s \in Shard |-> 0]
    /\ frames = [s \in Shard |-> <<>>]
    /\ accepted = NoneAccepted
    /\ conn = [v \in Viewer |-> FALSE]
    /\ wire = [v \in Viewer |-> <<>>]
    /\ cursor = [v \in Viewer |-> NoCursor]
    /\ shows = [v \in Viewer |-> Nothing]
    /\ doubt = {}
    /\ former = {}
    /\ breaks = 0
    /\ crowd \in Crowds
    /\ call = [c \in Caller |-> Idle]

(***************************************************************************)
(* The routes: change the tables, then announce it, one emit after another *)
(***************************************************************************)

\* One emit: things, and their version (None: read it again first).
Announcement(things, version) == [things |-> things, version |-> version]

IsPlaced(o) == db[Row("ORDER_CREATED", o)] > 0

Begin(c, things, script) ==
    /\ \A t \in things : db[t] < MaxVersion
    /\ db' = [t \in Thing |-> IF t \in things THEN db[t] + 1 ELSE db[t]]
    /\ Begins(c, [stage |-> "emit", script |-> script, posted |-> {}])
    /\ UNCHANGED <<hubVars, clientVars, breaks>>

\* emitOrderStatusChanged: the board's delta and the owner's.
StatusOf(o) == {Row("ORDER_STATUS", o), Own(o)}
Status(o) == Announcement(<<Row("ORDER_STATUS", o), Own(o)>>, db[Own(o)] + 1)

\* POST /orders announces the order and the stock, read again; /guest/orders
\* announces the order.
CreateOrder(c, o) ==
    LET created == Announcement(<<Row("ORDER_CREATED", o)>>, 1)
        stock == Announcement(<<Stock(ItemOf[o])>>, None)
    IN  /\ ~ IsPlaced(o)
        /\ Begin(c, {Row("ORDER_CREATED", o), Stock(ItemOf[o])},
                 IF RoleOf[OwnerOf[o]] = "GUEST" THEN <<created>> ELSE <<created, stock>>)

\* POST /orders/:id/cancel announces the status only; no guest can call it.
CancelOrder(c, o) ==
    /\ IsPlaced(o) /\ RoleOf[OwnerOf[o]] # "GUEST"
    /\ Begin(c, StatusOf(o) \cup {Stock(ItemOf[o])}, <<Status(o)>>)

\* PATCH /admin/orders/:id/status; a delivery takes stock and announces it.
UpdateOrderStatus(c, o, delivered) ==
    LET i == ItemOf[o]
        stock == Announcement(<<Stock(i)>>, db[Stock(i)] + 1)
    IN  /\ IsPlaced(o)
        /\ IF delivered THEN Begin(c, StatusOf(o) \cup {Stock(i)}, <<Status(o), stock>>)
                        ELSE Begin(c, StatusOf(o), <<Status(o)>>)

\* GET /admin/orders/:id marks the order as seen.
OpenOrder(c, o) ==
    LET row == Row("ORDER_SEEN", o)
    IN  /\ IsPlaced(o)
        /\ Begin(c, {row}, <<Announcement(<<row>>, db[row] + 1)>>)

\* An admin edits an item, its stock included: broadcastMenuUpdate tells every
\* screen to fetch the menu.
EditItem(c, i) == Begin(c, {Menu, Stock(i)}, <<Announcement(<<Menu>>, db[Menu] + 1)>>)

\* emitStockForOrders reads what is sellable by now.
ReadStock(c) ==
    LET me == call[c] IN
    /\ At(c, "emit") /\ me.script[1].version = None
    /\ Goes(c, [me EXCEPT !.script[1].version = db[me.script[1].things[1]]])
    /\ UNCHANGED <<db, hubVars, clientVars, breaks>>

(***************************************************************************)
(* sseService.emit: one request to each shard, in any order                *)
(***************************************************************************)
ThingsFor(announcement, s) ==
    LET things == announcement.things
    IN  Chosen(things, {i \in DOMAIN things : s \in ShardsForAudience(AudienceFor(things[i]))})

Concerned(announcement) == {s \in Shard : ThingsFor(announcement, s) # <<>>}

AsDeltas(announcement, s) ==
    LET mine == ThingsFor(announcement, s)
    IN  [i \in DOMAIN mine |->
            [thing |-> mine[i], version |-> announcement.version, audience |-> AudienceFor(mine[i])]]

Posted(me, s) ==
    IF me.posted \cup {s} # Concerned(me.script[1]) THEN [me EXCEPT !.posted = @ \cup {s}]
    ELSE IF Len(me.script) = 1 THEN Done
    ELSE [me EXCEPT !.script = Tail(@), !.posted = {}]

\* handleEmit: the items are queued and a flush is scheduled.
Emit(c, s) ==
    LET me == call[c]
        now == me.script[1]
        deltas == AsDeltas(now, s)
    IN  /\ At(c, "emit") /\ now.version # None
        /\ s \in Concerned(now) \ me.posted
        /\ Goes(c, Posted(me, s))
        /\ pending' = [pending EXCEPT ![s] = @ \o deltas]
        /\ accepted' = [accepted EXCEPT ![s] = [t \in Thing |->
              IF \E i \in DOMAIN deltas : deltas[i].thing = t THEN now.version ELSE @[t]]]
        /\ UNCHANGED <<db, seq, frames, clientVars, breaks>>

\* The request ends before it has announced everything.
Aborts(c) ==
    /\ At(c, "emit")
    /\ Goes(c, Done)
    /\ UNCHANGED <<db, hubVars, clientVars, breaks>>

(***************************************************************************)
(* nodeEventsHub: flush                                                    *)
(***************************************************************************)

\* Mutant: targets are told apart by their id, whatever the kind of delta.
NewsById(deltas) ==
    [t \in Thing |->
        LET about == {i \in DOMAIN deltas : deltas[i].thing[3] = t[3]}
            last == CHOOSE i \in about : \A j \in about : j <= i
        IN  IF about # {} /\ deltas[last].thing = t THEN deltas[last].version ELSE 0]

\* buildFramePayload: of several deltas about a target the last counts.
News(deltas) ==
    [t \in Thing |->
        LET about == {i \in DOMAIN deltas : deltas[i].thing = t}
        IN  IF about = {} THEN 0
            ELSE deltas[CHOOSE i \in about : \A j \in about : j <= i].version]

\* groupEmitItems: a frame for each type and audience, in the order they first
\* appear.  Each type has audiences of its own.
Leads(deltas) ==
    Chosen(deltas, {i \in DOMAIN deltas :
        \A j \in 1 .. i - 1 : deltas[j].audience # deltas[i].audience})

Group(deltas, a) == Chosen(deltas, {i \in DOMAIN deltas : deltas[i].audience = a})

GroupEmitItems(deltas, last) ==
    [n \in DOMAIN Leads(deltas) |->
        LET a == Leads(deltas)[n].audience
        IN  [id |-> last + n, audience |-> a, news |-> News(Group(deltas, a))]]

AsMessage(frame) ==
    [kind |-> "frame", id |-> frame.id, audience |-> frame.audience, news |-> frame.news]

For(v, some) ==
    LET mine == Chosen(some, {i \in DOMAIN some : MatchesAudience(v, some[i].audience)})
    IN  [i \in DOMAIN mine |-> AsMessage(mine[i])]

\* Mutant: one frame more than the limit is retained.
PrunedOneLater(all, expired) ==
    LET over == Len(all) - expired - MaxFrames - 1
    IN  SubSeq(all, 1 + expired + (IF over > 0 THEN over ELSE 0), Len(all))

\* The frames retained: those past the count are gone, and so are `expired` of
\* the oldest, past EVENT_LOG_TTL_MS.
Pruned(all, expired) ==
    LET over == Len(all) - expired - MaxFrames
    IN  SubSeq(all, 1 + expired + (IF over > 0 THEN over ELSE 0), Len(all))

Flush(s) ==
    LET built == GroupEmitItems(pending[s], seq[s])
    IN  /\ pending[s] # <<>>
        /\ pending' = [pending EXCEPT ![s] = <<>>]
        /\ seq' = [seq EXCEPT ![s] = @ + Len(built)]
        /\ \E expired \in 0 .. Len(frames[s]) :
              frames' = [frames EXCEPT ![s] = Pruned(@ \o built, expired)]
        /\ wire' = [v \in Viewer |->
              IF conn[v] /\ ShardForConnection(v) = s THEN wire[v] \o For(v, built) ELSE wire[v]]
        /\ UNCHANGED <<db, accepted, conn, cursor, shows, doubt, former, breaks, call>>

(***************************************************************************)
(* nodeEventsHub: connect                                                  *)
(***************************************************************************)
Oldest(s) == IF frames[s] = <<>> THEN seq[s] + 1 ELSE frames[s][1].id

\* Mutant: one frame that is no longer retained is overlooked.
ExpiredOneLater(v, s) == cursor[v] > seq[s] \/ cursor[v] + 2 < Oldest(s)

Expired(v, s) == cursor[v] > seq[s] \/ cursor[v] + 1 < Oldest(s)

Hello(s) == [kind |-> "HELLO", id |-> seq[s], audience |-> ALL, news |-> Nothing]
SyncRequired(s) == [Hello(s) EXCEPT !.kind = "SYNC_REQUIRED"]

BuildConnectBacklog(v, s) ==
    IF cursor[v] = NoCursor THEN <<Hello(s)>>
    ELSE IF Expired(v, s) THEN <<Hello(s), SyncRequired(s)>>
    ELSE <<Hello(s)>>
         \o For(v, Chosen(frames[s], {i \in DOMAIN frames[s] : frames[s][i].id > cursor[v]}))

\* A cursor of the former life that is not ahead of the log is taken for one of
\* this life.
Connect(v) ==
    LET s == ShardForConnection(v)
    IN  /\ ~ conn[v]
        /\ conn' = [conn EXCEPT ![v] = TRUE]
        /\ wire' = [wire EXCEPT ![v] = BuildConnectBacklog(v, s)]
        /\ doubt' = IF v \in former /\ ~ Expired(v, s) THEN doubt \cup {v} ELSE doubt
        /\ UNCHANGED <<db, hubVars, cursor, shows, former, breaks, call>>

(***************************************************************************)
(* The screens (REALTIME_API.md)                                           *)
(***************************************************************************)

\* What a message leaves on a screen: all is fetched when it opens its first
\* stream and on SYNC_REQUIRED, the menu on FULL_REFRESH; the rest is patched.
Patched(screen, m, fetches) ==
    [t \in Thing |->
        IF fetches \/ (t \in OnMenu /\ m.news[Menu] > 0) THEN db[t]
        ELSE IF m.news[t] > 0 THEN m.news[t] ELSE screen[t]]

Receive(v) ==
    LET m == Head(wire[v])
        fetches == m.kind = "SYNC_REQUIRED" \/ cursor[v] = NoCursor
    IN  /\ wire[v] # <<>>
        /\ wire' = [wire EXCEPT ![v] = Tail(@)]
        /\ cursor' = [cursor EXCEPT ![v] = m.id]
        /\ shows' = [shows EXCEPT ![v] = Patched(@, m, fetches)]
        /\ doubt' = IF fetches THEN doubt \ {v} ELSE doubt
        /\ former' = former \ {v}
        /\ UNCHANGED <<db, hubVars, conn, breaks, call>>

\* HELLO carries the number of the last frame, and what it is followed by, the
\* replay or SYNC_REQUIRED, is behind it.
BehindHello(v) == wire[v] # <<>> /\ Head(wire[v]).id <= cursor[v]

\* The connection is lost, with what is on its way.
Lose(v) ==
    /\ conn[v] /\ breaks < MaxBreaks
    /\ breaks' = breaks + 1
    /\ conn' = [conn EXCEPT ![v] = FALSE]
    /\ wire' = [wire EXCEPT ![v] = <<>>]
    /\ doubt' = IF BehindHello(v) THEN doubt \cup {v} ELSE doubt
    /\ UNCHANGED <<db, hubVars, cursor, shows, former, call>>

\* The process restarts: the hub's memory, the streams and the requests that
\* were being served are gone.
Restart ==
    /\ breaks < MaxBreaks
    /\ breaks' = breaks + 1
    /\ pending' = [s \in Shard |-> <<>>]
    /\ seq' = [s \in Shard |-> 0]
    /\ frames' = [s \in Shard |-> <<>>]
    /\ accepted' = NoneAccepted
    /\ conn' = [v \in Viewer |-> FALSE]
    /\ wire' = [v \in Viewer |-> <<>>]
    /\ doubt' = doubt \cup {v \in Viewer : BehindHello(v)}
    /\ former' = {v \in Viewer : cursor[v] # NoCursor}
    /\ call' = [c \in Caller |-> IF At(c, "emit") THEN Done ELSE call[c]]
    /\ UNCHANGED <<db, cursor, shows>>

Routes(c) ==
    \/ \E o \in Order :
          \/ CreateOrder(c, o) \/ CancelOrder(c, o) \/ OpenOrder(c, o)
          \/ \E delivered \in BOOLEAN : UpdateOrderStatus(c, o, delivered)
    \/ \E i \in Item : EditItem(c, i)
    \/ ReadStock(c) \/ Aborts(c) \/ \E s \in Shard : Emit(c, s)

Screen(v) == Connect(v) \/ Receive(v)

Next ==
    /\ \/ \E c \in Caller : Routes(c)
       \/ \E s \in Shard : Flush(s)
       \/ \E v \in crowd : Screen(v) \/ Lose(v)
       \/ Restart
    /\ UNCHANGED crowd

Spec == Init /\ [][Next]_vars

(***************************************************************************)
(* Properties                                                              *)
(***************************************************************************)
Entitled(v) == {ALL, SUBJECT(v)} \cup {KITCHEN(k) : k \in SubscriptionFor(v)}

\* Nothing is on its way to the screen.
Quiet(v, s) == conn[v] /\ wire[v] = <<>> /\ pending[s] = <<>> /\ cursor[v] # NoCursor

\* nodeEventsHub.ts:26: a screen with nothing on its way shows, of what it is
\* subscribed to, nothing older than its shard has accepted, however
\* deltas were coalesced, replayed or dropped and whichever of an order's
\* pieces they patch; unless its stream was cut behind HELLO or its cursor
\* outlived a restart.
ShowsWhatWasAccepted ==
    \A v \in Viewer \ doubt :
        LET s == ShardForConnection(v)
        IN  Quiet(v, s) =>
                \A t \in Thing : AudienceFor(t) \in Entitled(v) => shows[v][t] >= accepted[s][t]

\* Frames arrive in the order of their numbers, replayed or live, and only on
\* streams they are meant for: no board frame reaches a student or a guest, the
\* owner of the order included, and nobody gets the owner's frames of another.
FramesForViewer ==
    \A v \in Viewer : \A i \in DOMAIN wire[v] :
        wire[v][i].kind = "frame" =>
            /\ wire[v][i].audience \in Entitled(v)
            /\ \A j \in 1 .. i - 1 : wire[v][j].kind = "frame" => wire[v][j].id < wire[v][i].id

\* REALTIME_API.md:268: a superadmin who has not asked for one kitchen watches
\* both boards: with nothing on its way, nothing accepted for a board is missing.
WatchesBothBoards ==
    \A v \in Viewer \ doubt :
        Quiet(v, ShardForConnection(v)) =>
            \A k \in SubscriptionFor(v), kind \in Kind, o \in Order :
                \/ pending[k] # <<>>
                \/ shows[v][Row(kind, o)] >= accepted[k][Row(kind, o)]
=============================================================================
