--------------------------- MODULE LiveBoardsProofs ---------------------------
(***************************************************************************)
(* Proofs about LiveBoards for any set of items, orders, requests and      *)
(* viewers: the hub's memory and the streams keep their shape, frames      *)
(* reach those they are meant for, in order, and no screen is left behind. *)
(***************************************************************************)
EXTENDS LiveBoards, SelectionsProofs, SequenceTheorems, TLAPS

-----------------------------------------------------------------------------
(* The inductive invariant.                                                 *)

\* Whom the routes tell about a thing.
AudiencesOf(t) == {AudienceFor(t)}

Announcements == [things : Seq(Thing), version : Nat \cup {None}]
Emitting == [stage : {"emit"}, script : Seq(Announcements), posted : SUBSET Shard]

\* What a request has yet to announce is of things that were changed, and no
\* newer than they are; it reads again one thing at a time.
Truthful(x, tables) ==
    /\ x.things # <<>>
    /\ x.version = None => Len(x.things) = 1
    /\ \A i \in DOMAIN x.things :
          /\ tables[x.things[i]] >= 1
          /\ x.version # None => x.version \in 1 .. tables[x.things[i]]

\* The board's and the owner's pieces of an order change together.
Together == \A o \in Order : db[Row("ORDER_STATUS", o)] = db[Own(o)]

CallInv ==
    /\ Together
    /\ call \in [Caller -> {Idle, Done} \cup Emitting]
    /\ \A c \in Caller : At(c, "emit") =>
          /\ call[c].script # <<>>
          /\ \A i \in DOMAIN call[c].script : Truthful(call[c].script[i], db)

TypeInv ==
    /\ LiveTypeOK
    /\ pending \in [Shard -> Seq(Delta)] /\ frames \in [Shard -> Seq(Frame)]
    /\ seq \in [Shard -> Nat] /\ wire \in [Viewer -> Seq(Message)]
    /\ \A s \in Shard : Len(frames[s]) <= seq[s]

DeltaAbout(d, t, a) == d.thing = t /\ d.audience = a
About(f, t, a) == f.audience = a /\ f.news[t] > 0

Concerns(q, t, a) == \E i \in DOMAIN q : DeltaAbout(q[i], t, a)
Tells(q, t, a) == \E i \in DOMAIN q : About(q[i], t, a)

\* The last of some deltas, or of some frames, about a thing brings version n.
LastDelta(q, t, a, n) ==
    \A i \in DOMAIN q :
        /\ DeltaAbout(q[i], t, a)
        /\ \A j \in DOMAIN q : j > i => ~DeltaAbout(q[j], t, a)
        => q[i].version = n
LastFrame(q, t, a, n) ==
    \A i \in DOMAIN q :
        /\ About(q[i], t, a)
        /\ \A j \in DOMAIN q : j > i => ~About(q[j], t, a)
        => q[i].news[t] = n

\* Frames are about what their audience is told of.
Fits(f) == \A t \in Thing : f.news[t] > 0 => f.audience \in AudiencesOf(t)

\* What a shard accepted last is the last it queued, or the last it retains.
ShardInv(s) ==
    /\ \A i \in DOMAIN pending[s] :
          pending[s][i].audience \in AudiencesOf(pending[s][i].thing)
    /\ \A i \in DOMAIN frames[s] : Fits(frames[s][i])
    /\ \A t \in Thing : \A a \in AudiencesOf(t) :
          /\ accepted[s][t] <= db[t]
          /\ LastDelta(pending[s], t, a, accepted[s][t])
          /\ Concerns(pending[s], t, a) \/ LastFrame(frames[s], t, a, accepted[s][t])

HubInv == TypeInv /\ CallInv /\ \A s \in Shard : ShardInv(s)

\* The number of the oldest frame retained, or of the next one.
First(s) == seq[s] - Len(frames[s]) + 1

\* A frame on its way is retained still, or too old for any replay.
Retained(m, s) ==
    \/ \E i \in DOMAIN frames[s] :
          /\ frames[s][i].id = m.id
          /\ frames[s][i].audience = m.audience /\ frames[s][i].news = m.news
    \/ m.id < First(s)

\* What is on its way to a screen: HELLO, perhaps SYNC_REQUIRED, frames in order.
Shape(w) ==
    \A i \in DOMAIN w :
        /\ w[i].kind = "frame" =>
              \A j \in 1 .. i - 1 : w[j].kind = "frame" => w[j].id < w[i].id
        /\ w[i].kind # "frame" =>
              /\ w[i].news = Nothing
              /\ i > 1 => /\ i = 2 /\ w[1].kind = "HELLO"
                          /\ w[2].kind = "SYNC_REQUIRED" /\ w[2].id = w[1].id

\* A screen that resumes behind the HELLO that heads its stream.
Resumes(v) ==
    wire[v] # <<>> /\ wire[v][1].kind = "HELLO" /\ v \notin former /\ cursor[v] # NoCursor

WireInv(v) ==
    LET s == ShardForConnection(v)
        w == wire[v]
    IN  /\ Shape(w)
        /\ ~conn[v] => w = <<>>
        /\ v \notin former => cursor[v] <= seq[s]
        /\ w # <<>> /\ w[1].kind = "SYNC_REQUIRED" => w[1].id <= cursor[v]
        /\ \A i \in DOMAIN w :
              /\ w[i].id <= seq[s]
              /\ w[i].kind = "frame" =>
                    /\ w[i].audience \in Entitled(v)
                    /\ Fits(w[i]) /\ Retained(w[i], s)
                    /\ Resumes(v) => cursor[v] < w[i].id
              /\ w[i].kind = "SYNC_REQUIRED" /\ Resumes(v) => cursor[v] + 1 < First(s)
        /\ \A t \in Thing : \A a \in Entitled(v) \cap AudiencesOf(t) :
              \/ Concerns(pending[s], t, a)
              \/ LastFrame(w, t, a, accepted[s][t])

FetchPending(v) ==
    /\ wire[v] # <<>>
    /\ cursor[v] = NoCursor \/ \E i \in DOMAIN wire[v] : wire[v][i].kind = "SYNC_REQUIRED"

\* What a connected screen shows, or will show once it has received everything.
Linked(v, s, t, a) ==
    \/ Concerns(pending[s], t, a)
    \/ Tells(wire[v], t, a)
    \/ FetchPending(v)
    \/ shows[v][t] >= accepted[s][t]

\* What a disconnected screen shows, or will be replayed or told to fetch.
Catchable(v, s, t, a) ==
    \/ Concerns(pending[s], t, a)
    \/ \E i \in DOMAIN frames[s] : About(frames[s][i], t, a) /\ frames[s][i].id > cursor[v]
    \/ cursor[v] + 1 < First(s)
    \/ shows[v][t] >= accepted[s][t]

LinkOf(v) ==
    LET s == ShardForConnection(v) IN
    \A t \in Thing : \A a \in Entitled(v) \cap AudiencesOf(t) :
        IF conn[v] THEN Linked(v, s, t, a)
        ELSE v \in former \/ cursor[v] = NoCursor \/ Catchable(v, s, t, a)

IInv ==
    /\ HubInv
    /\ \A v \in Viewer : WireInv(v)
    /\ \A v \in Viewer \ doubt : LinkOf(v)

-----------------------------------------------------------------------------
(* Audiences.                                                               *)

LEMMA KitchensIs ==
    ASSUME NEW v \in Viewer
    PROVE  /\ SubscriptionFor(v) \subseteq Kitchen
           /\ RoleOf[v] \in {"STUDENT", "GUEST"} => SubscriptionFor(v) = {}
           /\ ShardForConnection(v) \in Shard
<1>1. /\ SubscriptionFor(v) \subseteq Kitchen
      /\ RoleOf[v] \in {"STUDENT", "GUEST"} => SubscriptionFor(v) = {}
  <2>1. RoleOf[v] \in Role /\ BoardOf[v] \in Kitchen \cup {None} /\ "SNACKS" \in Kitchen
    BY LiveAssumption DEF Kitchen
  <2> QED BY <2>1 DEF SubscriptionFor, Role
<1>2. ShardForConnection(v) \in Shard
  <2>1. HashOf[v] \in Shard /\ "SNACKS" \in Shard
    BY LiveAssumption DEF Shard, Kitchen
  <2>2. CASE SubscriptionFor(v) = Kitchen
    BY <2>1, <2>2 DEF ShardForConnection
  <2>3. CASE SubscriptionFor(v) # Kitchen /\ SubscriptionFor(v) = {}
    BY <2>1, <2>3 DEF ShardForConnection
  <2>4. CASE SubscriptionFor(v) # Kitchen /\ SubscriptionFor(v) # {}
    <3>1. (CHOOSE k \in SubscriptionFor(v) : TRUE) \in SubscriptionFor(v)
      BY <2>4
    <3>2. ShardForConnection(v) = CHOOSE k \in SubscriptionFor(v) : TRUE
      BY <2>4 DEF ShardForConnection
    <3> QED BY <1>1, <3>1, <3>2 DEF Shard
  <2> QED BY <2>2, <2>3, <2>4
<1> QED BY <1>1, <1>2

LEMMA ScopesDiffer ==
    /\ ALL.scope = "ALL"
    /\ \A k \in Kitchen : KITCHEN(k).scope = "KITCHEN" /\ KITCHEN(k).kitchen = k
    /\ \A v \in Viewer : SUBJECT(v).scope = "SUBJECT" /\ SUBJECT(v).subject = v
BY DEF ALL, KITCHEN, SUBJECT

\* A stream carries exactly what its viewer is entitled to.
LEMMA EntitledIs ==
    ASSUME NEW v \in Viewer
    PROVE  /\ Entitled(v) \subseteq Audience
           /\ \A a \in Audience : MatchesAudience(v, a) <=> a \in Entitled(v)
<1>1. SubscriptionFor(v) \subseteq Kitchen
  BY KitchensIs
<1>2. Entitled(v) \subseteq Audience
  BY <1>1 DEF Entitled, Audience
<1>3. ASSUME NEW a \in Audience PROVE MatchesAudience(v, a) <=> a \in Entitled(v)
  <2>1. CASE a = ALL
    BY <2>1, ScopesDiffer DEF MatchesAudience, Entitled
  <2>2. ASSUME NEW k \in Kitchen, a = KITCHEN(k)
        PROVE  MatchesAudience(v, a) <=> a \in Entitled(v)
    <3>1. a.scope = "KITCHEN" /\ a.kitchen = k
      BY <2>2, ScopesDiffer
    <3>2. MatchesAudience(v, a) <=> k \in SubscriptionFor(v)
      BY <3>1 DEF MatchesAudience
    <3>3. a \in Entitled(v) <=> k \in SubscriptionFor(v)
      BY <1>1, <2>2, <3>1, ScopesDiffer DEF Entitled
    <3> QED BY <3>2, <3>3
  <2>3. ASSUME NEW u \in Viewer, a = SUBJECT(u)
        PROVE  MatchesAudience(v, a) <=> a \in Entitled(v)
    <3>1. a.scope = "SUBJECT" /\ a.subject = u
      BY <2>3, ScopesDiffer
    <3>2. MatchesAudience(v, a) <=> u = v
      BY <3>1 DEF MatchesAudience
    <3>3. a \in Entitled(v) <=> u = v
      BY <1>1, <2>3, <3>1, ScopesDiffer DEF Entitled
    <3> QED BY <3>2, <3>3
  <2> QED BY <2>1, <2>2, <2>3 DEF Audience
<1> QED BY <1>2, <1>3

\* A thing is told of to one audience.
LEMMA OneAudience ==
    ASSUME NEW t \in Thing
    PROVE  /\ AudienceFor(t) \in Audience /\ AudiencesOf(t) \subseteq Audience
           /\ \A a, b \in AudiencesOf(t) : a = b
<1>1. CASE t \in OnMenu
  <2>1. t[1] = "MENU_UPDATE"
    BY <1>1 DEF OnMenu, Menu, Stock
  <2>2. AudienceFor(t) = ALL
    BY <2>1 DEF AudienceFor
  <2> QED BY <2>2 DEF AudiencesOf, Audience
<1>2. ASSUME NEW kind \in Kind, NEW o \in Order, t = Row(kind, o)
      PROVE  AudienceFor(t) = KITCHEN(KitchenOf[o]) /\ KitchenOf[o] \in Kitchen
  <2>1. t[1] = "ORDER_BOARD_UPDATE" /\ t[3] = o
    BY <1>2 DEF Row
  <2> QED BY <2>1, LiveAssumption DEF AudienceFor
<1>3. ASSUME NEW o \in Order, t = Own(o)
      PROVE  AudienceFor(t) = SUBJECT(OwnerOf[o]) /\ OwnerOf[o] \in Viewer
  <2>1. t[1] = "ORDER_UPDATE" /\ t[3] = o
    BY <1>3 DEF Own
  <2> QED BY <2>1, LiveAssumption DEF AudienceFor
<1>4. \/ t \in OnMenu
      \/ \E kind \in Kind, o \in Order : t = Row(kind, o)
      \/ \E o \in Order : t = Own(o)
  BY DEF Thing
<1> QED BY <1>1, <1>2, <1>3, <1>4 DEF AudiencesOf, Audience

-----------------------------------------------------------------------------
(* What the operators of the hub return.                                    *)

\* What is queued on a shard for an announcement: a delta for each of its
\* things that the shard serves.
LEMMA DeltasAre ==
    ASSUME NEW now \in Announcements, NEW s \in Shard, now.version \in 1 .. MaxVersion
    PROVE  LET ds == AsDeltas(now, s) IN
           /\ ds \in Seq(Delta)
           /\ \A i \in DOMAIN ds :
                 /\ ds[i].version = now.version
                 /\ ds[i].audience \in AudiencesOf(ds[i].thing)
                 /\ \E j \in DOMAIN now.things : ds[i].thing = now.things[j]
<1> DEFINE q == now.things
           I == {i \in DOMAIN q : s \in ShardsForAudience(AudienceFor(q[i]))}
           mine == Chosen(q, I)
           delta(t) == [thing |-> t, version |-> now.version, audience |-> AudienceFor(t)]
           ds == AsDeltas(now, s)
<1>1. q \in Seq(Thing) /\ I \in SUBSET DOMAIN q
  BY DEF Announcements
<1>2. ds = [i \in DOMAIN mine |-> delta(mine[i])]
  BY DEF AsDeltas, ThingsFor
<1> HIDE DEF q, I
<1>3. mine \in Seq(Thing) /\ \A n \in 1 .. Len(mine) : \E j \in DOMAIN q : mine[n] = q[j]
  BY <1>1, ChosenIs
<1>4. \A t \in Thing : delta(t) \in Delta
  BY OneAudience DEF Delta
<1> HIDE DEF mine, ds
<1>5. DOMAIN mine = 1 .. Len(mine) /\ Len(mine) \in Nat
  BY <1>3
<1>6. ASSUME NEW i \in DOMAIN mine
      PROVE  /\ ds[i] \in Delta /\ ds[i].version = now.version
             /\ ds[i].audience \in AudiencesOf(ds[i].thing)
             /\ \E j \in DOMAIN q : ds[i].thing = q[j]
  <2>1. mine[i] \in Thing /\ ds[i] = delta(mine[i])
    BY <1>2, <1>3, <1>5
  <2> QED BY <1>3, <1>4, <1>5, <2>1 DEF AudiencesOf
<1>7. ds \in Seq(Delta) /\ DOMAIN ds = DOMAIN mine
  <2>1. ds \in [1 .. Len(mine) -> Delta]
    <3> HIDE DEF delta
    <3>1. \A i \in 1 .. Len(mine) : delta(mine[i]) \in Delta
      BY <1>3, <1>4
    <3> QED BY <1>2, <1>5, <3>1
  <2> QED BY <1>5, <2>1
<1> QED BY <1>6, <1>7 DEF ds, q

\* Of several deltas about a thing the last counts.
LEMMA NewsIs ==
    ASSUME NEW q \in Seq(Delta)
    PROVE  /\ News(q) \in Content
           /\ \A t \in Thing :
                 \/ News(q)[t] = 0 /\ \A i \in DOMAIN q : q[i].thing # t
                 \/ \E i \in DOMAIN q :
                       /\ q[i].thing = t /\ News(q)[t] = q[i].version
                       /\ \A j \in DOMAIN q : q[j].thing = t => j <= i
<1> DEFINE Of(t) == {i \in DOMAIN q : q[i].thing = t}
           last(t) == CHOOSE i \in Of(t) : \A j \in Of(t) : j <= i
<1>0. DOMAIN q = 1 .. Len(q) /\ Len(q) \in Nat /\ MaxVersion \in Nat
  BY LiveAssumption
<1>1. News(q) = [t \in Thing |-> IF Of(t) = {} THEN 0 ELSE q[last(t)].version]
  BY DEF News
<1>2. ASSUME NEW t \in Thing, Of(t) # {}
      PROVE  last(t) \in Of(t) /\ \A j \in Of(t) : j <= last(t)
  <2>1. Of(t) \in SUBSET (1 .. Len(q)) /\ Of(t) \in SUBSET Int
    BY <1>0
  <2>2. IsFiniteSet(Of(t))
    <3> HIDE DEF Of
    <3>1. IsFiniteSet(1 .. Len(q))
      BY <1>0, FS_Interval
    <3> QED BY <2>1, <3>1, FS_Subset
  <2>3. \E i \in Of(t) : \A j \in Of(t) : j <= i
    <3> HIDE DEF Of
    <3> QED BY <1>2, <2>1, <2>2, FirstAndLast
  <2> HIDE DEF Of
  <2> QED BY <2>3
<1> HIDE DEF last
<1>3. ASSUME NEW t \in Thing
      PROVE  /\ News(q)[t] \in 0 .. MaxVersion
             /\ \/ News(q)[t] = 0 /\ \A i \in DOMAIN q : q[i].thing # t
                \/ \E i \in DOMAIN q :
                      /\ q[i].thing = t /\ News(q)[t] = q[i].version
                      /\ \A j \in DOMAIN q : q[j].thing = t => j <= i
  <2>1. CASE Of(t) = {}
    BY <1>0, <1>1, <2>1
  <2>2. CASE Of(t) # {}
    <3>1. /\ last(t) \in DOMAIN q /\ q[last(t)].thing = t
          /\ \A j \in DOMAIN q : q[j].thing = t => j <= last(t)
      BY <1>2, <2>2
    <3>2. News(q)[t] = q[last(t)].version
      BY <1>1, <2>2
    <3>3. q[last(t)].version \in 1 .. MaxVersion
      <4>1. q[last(t)] \in Delta
        BY <3>1
      <4> QED BY <4>1 DEF Delta
    <3> QED BY <1>0, <3>1, <3>2, <3>3
  <2> QED BY <2>1, <2>2
<1>4. News(q) \in Content
  <2>1. News(q) \in [Thing -> 0 .. MaxVersion]
    BY <1>1, <1>3
  <2> QED BY <2>1 DEF Content
<1> QED BY <1>3, <1>4

LEMMA NewsOfGroup ==
    ASSUME NEW q \in Seq(Delta), NEW a \in Audience
    PROVE  LET news == News(Group(q, a)) IN
           /\ news \in Content
           /\ \A t \in Thing :
                 /\ news[t] > 0 <=> Concerns(q, t, a)
                 /\ \A x : news[t] > 0 /\ LastDelta(q, t, a, x) => news[t] = x
<1> DEFINE I == {i \in DOMAIN q : q[i].audience = a}
           g == Chosen(q, I)
<1>1. I \in SUBSET DOMAIN q
  OBVIOUS
<1>2. /\ g \in Seq(Delta)
      /\ \A n \in 1 .. Len(g) : Nth(I, n) \in I /\ g[n] = q[Nth(I, n)]
      /\ \A m, n \in 1 .. Len(g) : m < n => Nth(I, m) < Nth(I, n)
      /\ \A i \in I : \E n \in 1 .. Len(g) : Nth(I, n) = i /\ g[n] = q[i]
  <2> HIDE DEF I
  <2> QED BY <1>1, ChosenIs
<1>3. Group(q, a) = g
  BY DEF Group
<1>4. \A i \in DOMAIN q : i \in I <=> q[i].audience = a
  OBVIOUS
<1>5. DOMAIN g = 1 .. Len(g) /\ DOMAIN q = 1 .. Len(q) /\ Len(q) \in Nat /\ Len(g) \in Nat
  BY <1>2
<1> HIDE DEF I, g
<1>6. News(g) \in Content
  BY <1>2, NewsIs
<1>7. ASSUME NEW t \in Thing
      PROVE  /\ News(g)[t] > 0 <=> Concerns(q, t, a)
             /\ \A x : News(g)[t] > 0 /\ LastDelta(q, t, a, x) => News(g)[t] = x
  <2>1. CASE News(g)[t] = 0 /\ \A n \in DOMAIN g : g[n].thing # t
    <3>1. ~ Concerns(q, t, a)
      <4> SUFFICES ASSUME NEW i \in DOMAIN q, DeltaAbout(q[i], t, a)
                   PROVE  FALSE
        BY DEF Concerns
      <4>1. i \in I /\ q[i].thing = t
        BY <1>4 DEF DeltaAbout
      <4> QED BY <1>2, <1>5, <2>1, <4>1
    <3> QED BY <2>1, <3>1
  <2>2. ASSUME NEW n \in DOMAIN g, g[n].thing = t, News(g)[t] = g[n].version,
               \A m \in DOMAIN g : g[m].thing = t => m <= n
        PROVE  /\ News(g)[t] > 0 /\ Concerns(q, t, a)
               /\ \A x : LastDelta(q, t, a, x) => News(g)[t] = x
    <3> DEFINE i == Nth(I, n)
    <3>1. i \in I /\ i \in DOMAIN q /\ g[n] = q[i]
      BY <1>1, <1>2, <1>5
    <3>2. g[n].version \in 1 .. MaxVersion
      <4>1. g[n] \in Delta
        BY <1>2, <1>5
      <4> QED BY <4>1 DEF Delta
    <3>3. DeltaAbout(q[i], t, a)
      BY <1>4, <2>2, <3>1 DEF DeltaAbout
    <3>4. ASSUME NEW j \in DOMAIN q, j > i, DeltaAbout(q[j], t, a)
          PROVE  FALSE
      <4>1. j \in I /\ q[j].thing = t
        BY <1>4, <3>4 DEF DeltaAbout
      <4>2. PICK m \in 1 .. Len(g) : Nth(I, m) = j /\ g[m] = q[j]
        BY <1>2, <4>1
      <4>3. m <= n
        BY <1>5, <2>2, <4>1, <4>2
      <4>4. ~(m < n) /\ m # n
        <5> i \in Int /\ j \in Int
          BY <1>5, <3>1
        <5> QED BY <1>2, <1>5, <3>4, <4>2
      <4> QED BY <1>5, <4>3, <4>4
    <3>5. MaxVersion \in Nat
      BY LiveAssumption
    <3>6. News(g)[t] > 0
      BY <2>2, <3>2, <3>5
    <3>7. Concerns(q, t, a)
      BY <3>1, <3>3 DEF Concerns
    <3>8. ASSUME NEW x, LastDelta(q, t, a, x)
          PROVE  News(g)[t] = x
      <4>1. q[i].version = x
        BY <3>1, <3>3, <3>4, <3>8 DEF LastDelta
      <4> QED BY <2>2, <3>1, <4>1
    <3> QED BY <3>6, <3>7, <3>8
  <2> QED BY <1>2, <2>1, <2>2, NewsIs
<1> QED BY <1>3, <1>6, <1>7

\* The frames built of a queue are numbered from the last number on, and tell of
\* a thing exactly what the last delta about it says.
LEMMA BuiltIs ==
    ASSUME NEW q \in Seq(Delta), NEW last \in Nat
    PROVE  LET built == GroupEmitItems(q, last) IN
           /\ built \in Seq(Frame)
           /\ \A n \in DOMAIN built : built[n].id = last + n
           /\ \A n \in DOMAIN built, t \in Thing :
                 built[n].news[t] > 0 => Concerns(q, t, built[n].audience)
           /\ \A t \in Thing, a \in Audience :
                 /\ Concerns(q, t, a) => Tells(built, t, a)
                 /\ \A x : LastDelta(q, t, a, x) => LastFrame(built, t, a, x)
<1> DEFINE I == {i \in DOMAIN q : \A j \in 1 .. i - 1 : q[j].audience # q[i].audience}
           leads == Chosen(q, I)
           news(a) == News(Group(q, a))
           frame(n) == [id |-> last + n, audience |-> leads[n].audience,
                        news |-> news(leads[n].audience)]
           built == GroupEmitItems(q, last)
<1>1. I \in SUBSET DOMAIN q /\ DOMAIN q = 1 .. Len(q) /\ Len(q) \in Nat
  OBVIOUS
<1>2. /\ leads \in Seq(Delta)
      /\ \A i \in I : \E n \in 1 .. Len(leads) : leads[n] = q[i]
  <2> HIDE DEF I
  <2> QED BY <1>1, ChosenIs
<1>3. ASSUME NEW k \in DOMAIN q
      PROVE  \E i \in I : q[i].audience = q[k].audience
  <2> DEFINE J == {i \in DOMAIN q : q[i].audience = q[k].audience}
  <2>1. J \in SUBSET Int /\ J \in SUBSET (1 .. Len(q)) /\ J # {}
    BY <1>1
  <2>2. IsFiniteSet(J)
    <3> HIDE DEF J
    <3>1. IsFiniteSet(1 .. Len(q))
      BY <1>1, FS_Interval
    <3> QED BY <2>1, <3>1, FS_Subset
  <2>3. PICK i \in J : \A j \in J : i <= j
    <3> HIDE DEF J
    <3> QED BY <2>1, <2>2, FirstAndLast
  <2>4. ASSUME NEW j \in 1 .. (i - 1)
        PROVE  q[j].audience # q[i].audience
    <3>1. i \in 1 .. Len(q)
      BY <2>1
    <3>2. j \in DOMAIN q /\ ~(i <= j)
      BY <1>1, <3>1
    <3> QED BY <2>3, <3>2
  <2> QED BY <2>4
<1>4. built = [n \in DOMAIN leads |-> frame(n)]
  BY DEF GroupEmitItems, Leads
<1> HIDE DEF I, leads
<1>5. DOMAIN leads = 1 .. Len(leads) /\ Len(leads) \in Nat
  BY <1>2
<1>6. \A d \in Delta : d.audience \in Audience
  BY DEF Delta
<1>7. \A n \in DOMAIN leads : leads[n].audience \in Audience
  BY <1>2, <1>5, <1>6
<1>8. \A a \in Audience :
          /\ news(a) \in Content
          /\ \A t \in Thing :
                /\ news(a)[t] > 0 <=> Concerns(q, t, a)
                /\ \A x : news(a)[t] > 0 /\ LastDelta(q, t, a, x) => news(a)[t] = x
  BY NewsOfGroup
<1> HIDE DEF built, news
<1>9. ASSUME NEW n \in DOMAIN leads
      PROVE  /\ built[n] \in Frame /\ built[n].id = last + n
             /\ built[n].audience = leads[n].audience
             /\ built[n].news = news(leads[n].audience)
  <2>1. built[n] = frame(n)
    BY <1>4
  <2>2. last + n \in Nat
    BY <1>5
  <2> QED BY <1>7, <1>8, <2>1, <2>2 DEF Frame
<1>10. built \in Seq(Frame) /\ DOMAIN built = DOMAIN leads
  <2>1. DOMAIN built = 1 .. Len(leads)
    BY <1>4, <1>5
  <2>2. built \in [1 .. Len(leads) -> Frame]
    BY <1>4, <1>9, <1>5, <2>1
  <2> QED BY <1>5, <2>1, <2>2
<1>11. ASSUME NEW n \in DOMAIN built, NEW t \in Thing, built[n].news[t] > 0
       PROVE  Concerns(q, t, built[n].audience)
  BY <1>7, <1>8, <1>9, <1>10, <1>11
<1>12. ASSUME NEW t \in Thing, NEW a \in Audience, Concerns(q, t, a)
       PROVE  Tells(built, t, a)
  <2>1. PICK k \in DOMAIN q : DeltaAbout(q[k], t, a)
    BY <1>12 DEF Concerns
  <2>2. PICK i \in I : q[i].audience = a
    BY <1>3, <2>1 DEF DeltaAbout
  <2>3. PICK n \in DOMAIN leads : leads[n] = q[i]
    BY <1>2, <1>5, <2>2
  <2>4. About(built[n], t, a)
    BY <1>8, <1>9, <1>12, <2>2, <2>3 DEF About
  <2> QED BY <1>10, <2>4 DEF Tells
<1>13. ASSUME NEW t \in Thing, NEW a \in Audience, NEW x, LastDelta(q, t, a, x)
       PROVE  LastFrame(built, t, a, x)
  <2>1. ASSUME NEW n \in DOMAIN built, About(built[n], t, a)
        PROVE  built[n].news[t] = x
    BY <1>8, <1>9, <1>10, <1>13, <2>1 DEF About
  <2> QED BY <2>1 DEF LastFrame
<1> QED BY <1>9, <1>10, <1>11, <1>12, <1>13 DEF built

-----------------------------------------------------------------------------
(* The last of some deltas, and of some frames.                             *)

LEMMA LastDeltaAppended ==
    ASSUME NEW p \in Seq(Delta), NEW q \in Seq(Delta), NEW t, NEW a, NEW n,
           LastDelta(q, t, a, n),
           Concerns(q, t, a) \/ LastDelta(p, t, a, n)
    PROVE  /\ p \o q \in Seq(Delta)
           /\ LastDelta(p \o q, t, a, n)
           /\ Concerns(p \o q, t, a) <=> Concerns(p, t, a) \/ Concerns(q, t, a)
<1> DEFINE r == p \o q
<1>1. /\ r \in Seq(Delta) /\ Len(r) = Len(p) + Len(q)
      /\ \A i \in 1 .. Len(p) + Len(q) : r[i] = IF i <= Len(p) THEN p[i] ELSE q[i - Len(p)]
  BY ConcatProperties
<1> HIDE DEF r
<1>2. /\ Len(p) \in Nat /\ Len(q) \in Nat /\ DOMAIN p = 1 .. Len(p)
      /\ DOMAIN q = 1 .. Len(q) /\ DOMAIN r = 1 .. Len(p) + Len(q)
  BY <1>1
<1>3. \A i \in DOMAIN p : i \in DOMAIN r /\ r[i] = p[i]
  BY <1>1, <1>2
<1>4. \A j \in DOMAIN q : Len(p) + j \in DOMAIN r /\ r[Len(p) + j] = q[j]
  BY <1>1, <1>2
<1>5. \A i \in DOMAIN r : i \in DOMAIN p \/ (i - Len(p) \in DOMAIN q /\ i = Len(p) + (i - Len(p)))
  BY <1>2
<1>6. Concerns(r, t, a) <=> Concerns(p, t, a) \/ Concerns(q, t, a)
  <2>1. ASSUME NEW i \in DOMAIN r, DeltaAbout(r[i], t, a)
        PROVE  Concerns(p, t, a) \/ Concerns(q, t, a)
    BY <1>3, <1>4, <1>5, <2>1 DEF Concerns
  <2> QED BY <1>3, <1>4, <2>1 DEF Concerns
<1>7. ASSUME NEW i \in DOMAIN r, DeltaAbout(r[i], t, a),
             \A j \in DOMAIN r : j > i => ~DeltaAbout(r[j], t, a)
      PROVE  r[i].version = n
  <2>1. CASE i \in DOMAIN p
    <3>1. \A j \in DOMAIN q : ~DeltaAbout(q[j], t, a)
      <4> SUFFICES ASSUME NEW j \in DOMAIN q, DeltaAbout(q[j], t, a) PROVE FALSE
        OBVIOUS
      <4>1. Len(p) + j > i
        BY <1>2, <2>1
      <4> QED BY <1>4, <1>7, <4>1
    <3>2. LastDelta(p, t, a, n)
      BY <3>1 DEF Concerns
    <3>3. \A j \in DOMAIN p : j > i => ~DeltaAbout(p[j], t, a)
      BY <1>3, <1>7
    <3> QED BY <1>3, <1>7, <2>1, <3>2, <3>3 DEF LastDelta
  <2>2. CASE i \notin DOMAIN p
    <3> DEFINE k == i - Len(p)
    <3>1. k \in DOMAIN q /\ r[i] = q[k] /\ i = Len(p) + k
      BY <1>4, <1>5, <2>2
    <3>2. ASSUME NEW j \in DOMAIN q, j > k
          PROVE  ~DeltaAbout(q[j], t, a)
      <4>1. Len(p) + j > i
        BY <1>2, <3>1, <3>2
      <4> QED BY <1>4, <1>7, <4>1
    <3> QED BY <1>7, <3>1, <3>2 DEF LastDelta
  <2> QED BY <2>1, <2>2
<1>8. LastDelta(r, t, a, n)
  BY <1>7 DEF LastDelta
<1> QED BY <1>1, <1>6, <1>8 DEF r

LEMMA LastFrameAppended ==
    ASSUME NEW S, NEW p \in Seq(S), NEW q \in Seq(S), NEW t, NEW a, NEW n,
           LastFrame(q, t, a, n),
           Tells(q, t, a) \/ LastFrame(p, t, a, n)
    PROVE  /\ LastFrame(p \o q, t, a, n)
           /\ Tells(p \o q, t, a) <=> Tells(p, t, a) \/ Tells(q, t, a)
<1> DEFINE r == p \o q
<1>1. /\ r \in Seq(S) /\ Len(r) = Len(p) + Len(q)
      /\ \A i \in 1 .. Len(p) + Len(q) : r[i] = IF i <= Len(p) THEN p[i] ELSE q[i - Len(p)]
  BY ConcatProperties
<1> HIDE DEF r
<1>2. /\ Len(p) \in Nat /\ Len(q) \in Nat /\ DOMAIN p = 1 .. Len(p)
      /\ DOMAIN q = 1 .. Len(q) /\ DOMAIN r = 1 .. Len(p) + Len(q)
  BY <1>1
<1>3. \A i \in DOMAIN p : i \in DOMAIN r /\ r[i] = p[i]
  BY <1>1, <1>2
<1>4. \A j \in DOMAIN q : Len(p) + j \in DOMAIN r /\ r[Len(p) + j] = q[j]
  BY <1>1, <1>2
<1>5. \A i \in DOMAIN r : i \in DOMAIN p \/ (i - Len(p) \in DOMAIN q /\ i = Len(p) + (i - Len(p)))
  BY <1>2
<1>6. Tells(r, t, a) <=> Tells(p, t, a) \/ Tells(q, t, a)
  <2>1. ASSUME NEW i \in DOMAIN r, About(r[i], t, a)
        PROVE  Tells(p, t, a) \/ Tells(q, t, a)
    BY <1>3, <1>4, <1>5, <2>1 DEF Tells
  <2> QED BY <1>3, <1>4, <2>1 DEF Tells
<1>7. ASSUME NEW i \in DOMAIN r, About(r[i], t, a),
             \A j \in DOMAIN r : j > i => ~About(r[j], t, a)
      PROVE  r[i].news[t] = n
  <2>1. CASE i \in DOMAIN p
    <3>1. \A j \in DOMAIN q : ~About(q[j], t, a)
      <4> SUFFICES ASSUME NEW j \in DOMAIN q, About(q[j], t, a) PROVE FALSE
        OBVIOUS
      <4>1. Len(p) + j > i
        BY <1>2, <2>1
      <4> QED BY <1>4, <1>7, <4>1
    <3>2. LastFrame(p, t, a, n)
      BY <3>1 DEF Tells
    <3>3. \A j \in DOMAIN p : j > i => ~About(p[j], t, a)
      BY <1>3, <1>7
    <3> QED BY <1>3, <1>7, <2>1, <3>2, <3>3 DEF LastFrame
  <2>2. CASE i \notin DOMAIN p
    <3> DEFINE k == i - Len(p)
    <3>1. k \in DOMAIN q /\ r[i] = q[k] /\ i = Len(p) + k
      BY <1>4, <1>5, <2>2
    <3>2. ASSUME NEW j \in DOMAIN q, j > k
          PROVE  ~About(q[j], t, a)
      <4>1. Len(p) + j > i
        BY <1>2, <3>1, <3>2
      <4> QED BY <1>4, <1>7, <4>1
    <3> QED BY <1>7, <3>1, <3>2 DEF LastFrame
  <2> QED BY <2>1, <2>2
<1>8. LastFrame(r, t, a, n)
  BY <1>7 DEF LastFrame
<1> QED BY <1>6, <1>8 DEF r

\* What follows some of the frames.
LEMMA LastOfSuffix ==
    ASSUME NEW S, NEW p \in Seq(S), NEW q \in Seq(S), NEW d \in Nat, NEW t, NEW a, NEW n,
           Len(q) = Len(p) + d, \A i \in DOMAIN p : p[i] = q[i + d],
           LastFrame(q, t, a, n)
    PROVE  LastFrame(p, t, a, n)
<1>1. /\ Len(p) \in Nat /\ Len(q) \in Nat
      /\ DOMAIN p = 1 .. Len(p) /\ DOMAIN q = 1 .. Len(q)
  OBVIOUS
<1>2. \A i \in DOMAIN p : i + d \in DOMAIN q
  BY <1>1
<1> SUFFICES ASSUME NEW i \in DOMAIN p, About(p[i], t, a),
                    \A j \in DOMAIN p : j > i => ~About(p[j], t, a)
             PROVE  p[i].news[t] = n
  BY DEF LastFrame
<1>3. ASSUME NEW j \in DOMAIN q, j > i + d
      PROVE  ~About(q[j], t, a)
  <2>1. j - d \in DOMAIN p /\ j - d > i /\ (j - d) + d = j
    BY <1>1, <1>3
  <2> QED BY <2>1
<1> QED BY <1>2, <1>3 DEF LastFrame

\* What is chosen of frames: nothing follows the last one about a thing.
LEMMA LastOfChosen ==
    ASSUME NEW S, NEW q \in Seq(S), NEW I \in SUBSET DOMAIN q, NEW t, NEW a, NEW n,
           LastFrame(q, t, a, n),
           \A i \in I, j \in DOMAIN q : i < j /\ About(q[j], t, a) => j \in I
    PROVE  LastFrame(Chosen(q, I), t, a, n)
<1> DEFINE r == Chosen(q, I)
<1>1. /\ r \in Seq(S)
      /\ \A k \in 1 .. Len(r) : Nth(I, k) \in I /\ r[k] = q[Nth(I, k)]
      /\ \A m, k \in 1 .. Len(r) : m < k => Nth(I, m) < Nth(I, k)
      /\ \A i \in I : \E k \in 1 .. Len(r) : Nth(I, k) = i /\ r[k] = q[i]
  BY ChosenIs
<1> HIDE DEF r
<1>2. DOMAIN r = 1 .. Len(r) /\ DOMAIN q = 1 .. Len(q) /\ Len(r) \in Nat /\ Len(q) \in Nat
  BY <1>1
<1>3. ASSUME NEW k \in DOMAIN r, About(r[k], t, a),
             \A m \in DOMAIN r : m > k => ~About(r[m], t, a)
      PROVE  r[k].news[t] = n
  <2> DEFINE i == Nth(I, k)
  <2>1. i \in I /\ i \in DOMAIN q /\ r[k] = q[i]
    BY <1>1, <1>2
  <2>2. ASSUME NEW j \in DOMAIN q, j > i, About(q[j], t, a)
        PROVE  FALSE
    <3>1. j \in I
      BY <2>1, <2>2
    <3>2. PICK m \in 1 .. Len(r) : Nth(I, m) = j /\ r[m] = q[j]
      BY <1>1, <3>1
    <3>3. ~(m < k) /\ m # k
      <4> i \in Int /\ j \in Int
        BY <1>2, <2>1
      <4> QED BY <1>1, <1>2, <2>2, <3>2
    <3>4. m > k
      BY <1>2, <3>3
    <3> QED BY <1>2, <1>3, <2>2, <3>2, <3>4
  <2> QED BY <1>3, <2>1, <2>2 DEF LastFrame
<1> QED BY <1>3 DEF r, LastFrame

-----------------------------------------------------------------------------
(* What is retained, and what is written.                                   *)

LEMMA PrunedIs ==
    ASSUME NEW q \in Seq(Frame), NEW expired \in 0 .. Len(q)
    PROVE  LET p == Pruned(q, expired) IN
           /\ p \in Seq(Frame) /\ Len(p) <= MaxFrames
           /\ \E d \in 0 .. Len(q) : Len(q) = Len(p) + d /\ \A i \in DOMAIN p : p[i] = q[i + d]
<1> DEFINE over == Len(q) - expired - MaxFrames
           more == IF over > 0 THEN over ELSE 0
           d == expired + more
           p == Pruned(q, expired)
<1>1. Len(q) \in Nat /\ MaxFrames \in Nat \ {0}
  BY LiveAssumption
<1>2. d \in 0 .. Len(q) /\ Len(q) - d <= MaxFrames
  BY <1>1
<1>3. p = SubSeq(q, d + 1, Len(q))
  <2>1. more \in Int /\ expired \in Int
    BY <1>1
  <2>2. p = SubSeq(q, 1 + expired + more, Len(q))
    BY DEF Pruned
  <2> HIDE DEF more, p
  <2>3. 1 + expired + more = d + 1
    BY <2>1
  <2> QED BY <2>2, <2>3
<1> HIDE DEF d, p, more, over
<1>4. d + 1 \in 1 .. Len(q) + 1 /\ Len(q) \in d + 1 - 1 .. Len(q)
  BY <1>1, <1>2
<1>5. /\ p \in Seq(Frame) /\ Len(p) = Len(q) - d
      /\ \A i \in 1 .. Len(q) - d : p[i] = q[i + d]
  <2>1. /\ p \in Seq(Frame) /\ Len(p) = Len(q) - (d + 1) + 1
        /\ \A i \in 1 .. Len(q) - (d + 1) + 1 : p[i] = q[(d + 1) + i - 1]
    <3> DEFINE m == d + 1
               n == Len(q)
    <3>1. m \in Int /\ n \in Int /\ m \in 1 .. Len(q) + 1 /\ n \in m - 1 .. Len(q)
      BY <1>1, <1>2, <1>4
    <3>2. p = SubSeq(q, m, n)
      BY <1>3
    <3> HIDE DEF m, n
    <3>3. /\ SubSeq(q, m, n) \in Seq(Frame)
          /\ Len(SubSeq(q, m, n)) = IF m <= n THEN n - m + 1 ELSE 0
          /\ \A i \in 1 .. n - m + 1 : SubSeq(q, m, n)[i] = q[m + i - 1]
      BY <3>1, SubSeqProperties
    <3>4. Len(p) = n - m + 1
      BY <3>1, <3>2, <3>3
    <3> QED BY <3>2, <3>3, <3>4 DEF m, n
  <2>2. d \in Int /\ Len(q) - (d + 1) + 1 = Len(q) - d
    BY <1>1, <1>2
  <2>3. ASSUME NEW i \in 1 .. Len(q) - d PROVE p[i] = q[i + d]
    <3>1. p[i] = q[(d + 1) + i - 1]
      BY <2>1, <2>2
    <3>2. (d + 1) + i - 1 = i + d
      BY <2>2
    <3> QED BY <3>1, <3>2
  <2> QED BY <2>1, <2>2, <2>3
<1>6. DOMAIN p = 1 .. Len(q) - d /\ Len(q) = Len(p) + d
  BY <1>1, <1>2, <1>5
<1>7. Len(p) <= MaxFrames /\ \A i \in DOMAIN p : p[i] = q[i + d]
  BY <1>2, <1>5, <1>6
<1> QED BY <1>2, <1>5, <1>6, <1>7 DEF p

Increasing(q) == \A i, j \in DOMAIN q : i < j => q[i].id < q[j].id

LEMMA ChosenInOrder ==
    ASSUME NEW q \in Seq(Frame), NEW I \in SUBSET DOMAIN q, Increasing(q)
    PROVE  /\ Chosen(q, I) \in Seq(Frame)
           /\ Increasing(Chosen(q, I))
           /\ \A n \in DOMAIN Chosen(q, I) : \E i \in I : Chosen(q, I)[n] = q[i]
           /\ \A i \in I : \E n \in DOMAIN Chosen(q, I) : Chosen(q, I)[n] = q[i]
<1> DEFINE r == Chosen(q, I)
<1>1. /\ r \in Seq(Frame)
      /\ \A n \in 1 .. Len(r) : Nth(I, n) \in I /\ r[n] = q[Nth(I, n)]
      /\ \A m, n \in 1 .. Len(r) : m < n => Nth(I, m) < Nth(I, n)
      /\ \A i \in I : \E n \in 1 .. Len(r) : r[n] = q[i]
  BY ChosenIs
<1> HIDE DEF r
<1>2. DOMAIN r = 1 .. Len(r)
  BY <1>1
<1>3. ASSUME NEW m \in DOMAIN r, NEW n \in DOMAIN r, m < n
      PROVE  r[m].id < r[n].id
  BY <1>1, <1>2, <1>3 DEF Increasing
<1>4. Increasing(r)
  BY <1>3 DEF Increasing
<1> QED BY <1>1, <1>2, <1>4 DEF r

\* A viewer is sent the frames it is entitled to, in their order.
LEMMA ForIs ==
    ASSUME NEW v \in Viewer, NEW q \in Seq(Frame), Increasing(q)
    PROVE  LET ms == For(v, q) IN
           /\ ms \in Seq(Message) /\ Increasing(ms)
           /\ \A n \in DOMAIN ms :
                 /\ ms[n].kind = "frame" /\ ms[n].audience \in Entitled(v)
                 /\ \E i \in DOMAIN q : /\ ms[n].id = q[i].id
                                        /\ ms[n].audience = q[i].audience
                                        /\ ms[n].news = q[i].news
           /\ \A t \in Thing, a \in Entitled(v) :
                 /\ Tells(q, t, a) <=> Tells(ms, t, a)
                 /\ \A x : LastFrame(q, t, a, x) => LastFrame(ms, t, a, x)
<1> DEFINE I == {i \in DOMAIN q : MatchesAudience(v, q[i].audience)}
           r == Chosen(q, I)
           ms == For(v, q)
<1>1. I \in SUBSET DOMAIN q /\ \A i \in DOMAIN q : i \in I <=> MatchesAudience(v, q[i].audience)
  OBVIOUS
<1>2. ms = [n \in DOMAIN r |-> AsMessage(r[n])]
  BY DEF For
<1> HIDE DEF I
<1>3. /\ r \in Seq(Frame) /\ Increasing(r)
      /\ \A n \in DOMAIN r : \E i \in I : r[n] = q[i]
      /\ \A i \in I : \E n \in DOMAIN r : r[n] = q[i]
  BY <1>1, ChosenInOrder
<1>4. \A t, a, x : LastFrame(q, t, a, x) /\ (\A i \in I, j \in DOMAIN q : i < j /\ About(q[j], t, a) => j \in I)
          => LastFrame(r, t, a, x)
  BY <1>1, LastOfChosen
<1> HIDE DEF r, ms
<1>5. \A f \in Frame : /\ AsMessage(f) \in Message /\ AsMessage(f).id = f.id
                       /\ AsMessage(f).kind = "frame" /\ AsMessage(f).news = f.news
                       /\ AsMessage(f).audience = f.audience /\ f.audience \in Audience
  BY DEF AsMessage, Frame, Message
<1>6. Len(r) \in Nat /\ DOMAIN r = 1 .. Len(r) /\ DOMAIN ms = DOMAIN r
  BY <1>2, <1>3
<1>7. \A n \in DOMAIN ms : /\ ms[n] \in Message /\ ms[n].kind = "frame" /\ ms[n].id = r[n].id
                           /\ ms[n].audience = r[n].audience /\ ms[n].news = r[n].news
  BY <1>2, <1>3, <1>5, <1>6
<1>8. ms \in Seq(Message)
  <2>1. ms \in [1 .. Len(r) -> Message]
    BY <1>2, <1>6, <1>7
  <2> QED BY <1>6, <2>1
<1>9. Increasing(ms)
  BY <1>3, <1>6, <1>7 DEF Increasing
<1>10. \A i \in DOMAIN q : i \in I <=> q[i].audience \in Entitled(v)
  BY <1>1, <1>5, EntitledIs
<1>11. ASSUME NEW n \in DOMAIN ms
       PROVE  /\ ms[n].audience \in Entitled(v)
              /\ \E i \in DOMAIN q : /\ ms[n].id = q[i].id
                                     /\ ms[n].audience = q[i].audience
                                     /\ ms[n].news = q[i].news
  <2>1. PICK i \in I : r[n] = q[i]
    BY <1>3, <1>6
  <2>2. i \in DOMAIN q
    BY <1>1
  <2> QED BY <1>7, <1>10, <2>1, <2>2
<1>12. ASSUME NEW t \in Thing, NEW a \in Entitled(v)
       PROVE  /\ Tells(q, t, a) <=> Tells(ms, t, a)
              /\ \A x : LastFrame(q, t, a, x) => LastFrame(ms, t, a, x)
  <2>1. \A n \in DOMAIN ms : About(ms[n], t, a) <=> About(r[n], t, a)
    BY <1>7 DEF About
  <2>2. \A i \in DOMAIN q : About(q[i], t, a) => i \in I
    BY <1>10 DEF About
  <2>3. Tells(q, t, a) => Tells(ms, t, a)
    <3> SUFFICES ASSUME NEW i \in DOMAIN q, About(q[i], t, a) PROVE Tells(ms, t, a)
      BY DEF Tells
    <3>1. PICK n \in DOMAIN r : r[n] = q[i]
      BY <1>3, <2>2
    <3> QED BY <1>6, <2>1, <3>1 DEF Tells
  <2>4. Tells(ms, t, a) => Tells(q, t, a)
    <3> SUFFICES ASSUME NEW n \in DOMAIN ms, About(ms[n], t, a) PROVE Tells(q, t, a)
      BY DEF Tells
    <3>1. PICK i \in I : r[n] = q[i]
      BY <1>3, <1>6
    <3> QED BY <1>1, <2>1, <3>1 DEF Tells
  <2>5. ASSUME NEW x, LastFrame(q, t, a, x)
        PROVE  LastFrame(ms, t, a, x)
    <3>1. LastFrame(r, t, a, x)
      BY <1>4, <2>2, <2>5
    <3> QED BY <1>6, <1>7, <2>1, <3>1 DEF LastFrame
  <2> QED BY <2>3, <2>4, <2>5
<1> QED BY <1>7, <1>8, <1>9, <1>11, <1>12 DEF ms

\* The frames retained past a number.
LEMMA ReplayIs ==
    ASSUME NEW q \in Seq(Frame), Increasing(q), NEW n \in Int
    PROVE  LET r == Chosen(q, {i \in DOMAIN q : q[i].id > n}) IN
           /\ r \in Seq(Frame) /\ Increasing(r)
           /\ \A k \in DOMAIN r : r[k].id > n /\ \E i \in DOMAIN q : r[k] = q[i]
           /\ \A i \in DOMAIN q : q[i].id > n => \E k \in DOMAIN r : r[k] = q[i]
           /\ \A t, a, x : LastFrame(q, t, a, x) => LastFrame(r, t, a, x)
<1> DEFINE I == {i \in DOMAIN q : q[i].id > n}
           r == Chosen(q, I)
<1>1. I \in SUBSET DOMAIN q /\ \A i \in DOMAIN q : i \in I <=> q[i].id > n
  OBVIOUS
<1>2. \A i \in DOMAIN q : q[i].id \in Nat
  <2>1. \A i \in DOMAIN q : q[i] \in Frame
    OBVIOUS
  <2> QED BY <2>1 DEF Frame
<1> HIDE DEF I
<1>3. /\ r \in Seq(Frame) /\ Increasing(r)
      /\ \A k \in DOMAIN r : \E i \in I : r[k] = q[i]
      /\ \A i \in I : \E k \in DOMAIN r : r[k] = q[i]
  BY <1>1, ChosenInOrder
<1>4. \A i \in I, j \in DOMAIN q : i < j => j \in I
  <2> SUFFICES ASSUME NEW i \in I, NEW j \in DOMAIN q, i < j PROVE j \in I
    OBVIOUS
  <2>1. q[i].id > n /\ q[i].id < q[j].id /\ q[i].id \in Nat /\ q[j].id \in Nat
    BY <1>1, <1>2 DEF Increasing
  <2> QED BY <1>1, <2>1
<1>5. \A t, a, x : LastFrame(q, t, a, x) => LastFrame(r, t, a, x)
  BY <1>1, <1>4, LastOfChosen
<1> HIDE DEF r
<1> QED BY <1>1, <1>3, <1>5 DEF r, I

\* Later frames may follow any stream.
LEMMA ShapeAppended ==
    ASSUME NEW w \in Seq(Message), NEW ms \in Seq(Message), Shape(w), Increasing(ms),
           \A j \in DOMAIN ms : ms[j].kind = "frame",
           \A i \in DOMAIN w, j \in DOMAIN ms : w[i].kind = "frame" => w[i].id < ms[j].id
    PROVE  /\ w \o ms \in Seq(Message) /\ Shape(w \o ms)
           /\ Len(w \o ms) = Len(w) + Len(ms)
           /\ \A i \in DOMAIN w : i \in DOMAIN (w \o ms) /\ (w \o ms)[i] = w[i]
           /\ \A j \in DOMAIN ms :
                 Len(w) + j \in DOMAIN (w \o ms) /\ (w \o ms)[Len(w) + j] = ms[j]
           /\ \A i \in DOMAIN (w \o ms) : \/ i \in DOMAIN w
                                          \/ \E j \in DOMAIN ms : i = Len(w) + j
<1> DEFINE r == w \o ms
<1>1. /\ r \in Seq(Message) /\ Len(r) = Len(w) + Len(ms)
      /\ \A i \in 1 .. Len(w) + Len(ms) : r[i] = IF i <= Len(w) THEN w[i] ELSE ms[i - Len(w)]
  BY ConcatProperties
<1> HIDE DEF r
<1>2. /\ Len(w) \in Nat /\ Len(ms) \in Nat /\ DOMAIN w = 1 .. Len(w)
      /\ DOMAIN ms = 1 .. Len(ms) /\ DOMAIN r = 1 .. Len(w) + Len(ms)
  BY <1>1
<1>3. \A i \in DOMAIN w : i \in DOMAIN r /\ r[i] = w[i]
  BY <1>1, <1>2
<1>4. \A j \in DOMAIN ms : Len(w) + j \in DOMAIN r /\ r[Len(w) + j] = ms[j]
  BY <1>1, <1>2
<1>5. ASSUME NEW i \in DOMAIN r
      PROVE  i \in DOMAIN w \/ \E j \in DOMAIN ms : i = Len(w) + j
  <2>1. i \in DOMAIN w \/ (i - Len(w) \in DOMAIN ms /\ i = Len(w) + (i - Len(w)))
    BY <1>2
  <2> QED BY <2>1
<1>6. ASSUME NEW i \in DOMAIN r, r[i].kind = "frame",
             NEW k \in 1 .. i - 1, r[k].kind = "frame"
      PROVE  r[k].id < r[i].id
  <2>0. k \in DOMAIN r /\ k < i /\ i \in Nat /\ k \in Nat
    BY <1>2
  <2>1. CASE i \in DOMAIN w
    <3>1. k \in DOMAIN w
      BY <1>2, <2>0, <2>1
    <3> QED BY <1>3, <1>6, <2>1, <3>1 DEF Shape
  <2>2. ASSUME NEW j \in DOMAIN ms, i = Len(w) + j
        PROVE  r[k].id < r[i].id
    <3>1. CASE k \in DOMAIN w
      BY <1>3, <1>4, <1>6, <2>2, <3>1
    <3>2. ASSUME NEW m \in DOMAIN ms, k = Len(w) + m
          PROVE  r[k].id < r[i].id
      <4>1. m < j
        BY <1>2, <2>0, <2>2, <3>2
      <4> QED BY <1>4, <2>2, <3>2, <4>1 DEF Increasing
    <3> QED BY <1>5, <2>0, <3>1, <3>2
  <2> QED BY <1>5, <2>1, <2>2
<1>7. ASSUME NEW i \in DOMAIN r, r[i].kind # "frame"
      PROVE  /\ r[i].news = Nothing
             /\ i > 1 => /\ i = 2 /\ r[1].kind = "HELLO"
                         /\ r[2].kind = "SYNC_REQUIRED" /\ r[2].id = r[1].id
  <2>1. i \in DOMAIN w
    BY <1>4, <1>5, <1>7
  <2>2. r[i] = w[i] /\ (i > 1 => 1 \in DOMAIN w)
    BY <1>2, <1>3, <2>1
  <2>3. /\ w[i].news = Nothing
        /\ i > 1 => /\ i = 2 /\ w[1].kind = "HELLO"
                    /\ w[2].kind = "SYNC_REQUIRED" /\ w[2].id = w[1].id
    BY <1>7, <2>1, <2>2 DEF Shape
  <2> QED BY <1>3, <2>1, <2>2, <2>3
<1>8. Shape(r)
  BY <1>6, <1>7 DEF Shape
<1> QED BY <1>1, <1>3, <1>4, <1>5, <1>8 DEF r

\* A stream without its head.
LEMMA TailIs ==
    ASSUME NEW w \in Seq(Message), w # <<>>, Shape(w)
    PROVE  /\ Tail(w) \in Seq(Message) /\ Shape(Tail(w)) /\ Head(w) = w[1]
           /\ 1 \in DOMAIN w
           /\ \A i \in DOMAIN Tail(w) : i + 1 \in DOMAIN w /\ Tail(w)[i] = w[i + 1]
           /\ \A j \in DOMAIN w : j > 1 => j - 1 \in DOMAIN Tail(w) /\ Tail(w)[j - 1] = w[j]
           /\ \A t, a, n : LastFrame(w, t, a, n) => LastFrame(Tail(w), t, a, n)
           /\ Tail(w) # <<>> => Tail(w)[1] = w[2] /\ 2 \in DOMAIN w
<1> DEFINE r == Tail(w)
<1>1. /\ r \in Seq(Message) /\ Len(r) = Len(w) - 1 /\ Head(w) = w[1]
      /\ \A i \in 1 .. Len(w) - 1 : r[i] = w[i + 1]
  BY HeadTailProperties
<1>2. Len(w) \in Nat /\ Len(w) # 0 /\ DOMAIN w = 1 .. Len(w)
  OBVIOUS
<1> HIDE DEF r
<1>3. DOMAIN r = 1 .. Len(w) - 1
  BY <1>1
<1>4. \A i \in DOMAIN r : i + 1 \in DOMAIN w /\ r[i] = w[i + 1]
  BY <1>1, <1>2, <1>3
<1>5. \A j \in DOMAIN w : j > 1 => j - 1 \in DOMAIN r /\ r[j - 1] = w[j]
  <2> SUFFICES ASSUME NEW j \in DOMAIN w, j > 1
               PROVE  j - 1 \in DOMAIN r /\ r[j - 1] = w[j]
    OBVIOUS
  <2>1. j - 1 \in DOMAIN r /\ (j - 1) + 1 = j
    BY <1>2, <1>3
  <2> QED BY <1>4, <2>1
<1>6. \A t, a, n : LastFrame(w, t, a, n) => LastFrame(r, t, a, n)
  <2>1. Len(w) = Len(r) + 1 /\ 1 \in Nat
    BY <1>1, <1>2
  <2> QED BY <1>1, <1>4, <2>1, LastOfSuffix
<1>7. ASSUME NEW i \in DOMAIN r, r[i].kind = "frame",
             NEW k \in 1 .. i - 1, r[k].kind = "frame"
      PROVE  r[k].id < r[i].id
  <2>1. k \in DOMAIN r /\ k + 1 \in 1 .. (i + 1) - 1
    BY <1>2, <1>3
  <2> QED BY <1>4, <1>7, <2>1 DEF Shape
<1>8. ASSUME NEW i \in DOMAIN r, r[i].kind # "frame"
      PROVE  r[i].news = Nothing /\ i = 1
  <2>1. i + 1 \in DOMAIN w /\ r[i] = w[i + 1] /\ i + 1 > 1
    BY <1>2, <1>3, <1>4
  <2>2. w[i + 1].news = Nothing /\ i + 1 = 2
    BY <1>8, <2>1 DEF Shape
  <2> QED BY <1>3, <2>1, <2>2
<1>9. Shape(r)
  BY <1>7, <1>8 DEF Shape
<1>10. r # <<>> => r[1] = w[2] /\ 2 \in DOMAIN w
  <2> SUFFICES ASSUME r # <<>> PROVE r[1] = w[2] /\ 2 \in DOMAIN w
    OBVIOUS
  <2>1. Len(r) # 0
    BY <1>1
  <2>2. 1 \in DOMAIN r /\ 1 + 1 = 2
    BY <1>1, <1>2, <1>3, <2>1
  <2> QED BY <1>4, <2>2
<1> QED BY <1>1, <1>2, <1>4, <1>5, <1>6, <1>9, <1>10 DEF r

-----------------------------------------------------------------------------
(* The shards.                                                              *)

LEMMA FramesAre ==
    ASSUME TypeInv, NEW s \in Shard
    PROVE  /\ pending[s] \in Seq(Delta) /\ frames[s] \in Seq(Frame) /\ seq[s] \in Nat
           /\ Increasing(frames[s])
           /\ First(s) \in Nat /\ Oldest(s) = First(s)
           /\ \A i \in DOMAIN frames[s] : frames[s][i].id \in First(s) .. seq[s]
<1>1. /\ pending[s] \in Seq(Delta) /\ frames[s] \in Seq(Frame) /\ seq[s] \in Nat
      /\ Len(frames[s]) <= seq[s]
      /\ \A i \in DOMAIN frames[s] : frames[s][i].id = seq[s] - Len(frames[s]) + i
  BY DEF TypeInv, LiveTypeOK
<1>2. Len(frames[s]) \in Nat /\ DOMAIN frames[s] = 1 .. Len(frames[s])
  BY <1>1
<1>3. First(s) = seq[s] - Len(frames[s]) + 1 /\ First(s) \in Nat
  BY <1>1, <1>2 DEF First
<1>4. ASSUME NEW i \in DOMAIN frames[s] PROVE frames[s][i].id \in First(s) .. seq[s]
  <2>1. PICK n \in Nat : n = Len(frames[s])
    BY <1>2
  <2>2. PICK last \in Nat : last = seq[s]
    BY <1>1
  <2>3. i \in 1 .. n /\ n <= last /\ First(s) = last - n + 1
    BY <1>1, <1>2, <1>3, <2>1, <2>2
  <2>4. frames[s][i].id = last - n + i
    BY <1>1, <2>1, <2>2
  <2> QED BY <2>2, <2>3, <2>4
<1>5. Increasing(frames[s])
  BY <1>1, <1>2 DEF Increasing
<1>6. Oldest(s) = First(s)
  <2>1. CASE frames[s] = <<>>
    BY <1>1, <1>3, <2>1 DEF Oldest
  <2>2. CASE frames[s] # <<>>
    <3>1. 1 \in DOMAIN frames[s]
      BY <1>1, <1>2, <2>2
    <3> QED BY <1>1, <1>3, <2>2, <3>1 DEF Oldest
  <2> QED BY <2>1, <2>2
<1> QED BY <1>1, <1>3, <1>4, <1>5, <1>6

LEMMA NumbersAfterDrop ==
    ASSUME NEW old \in Nat, NEW built \in Nat, NEW kept \in Nat, NEW d \in Nat,
           NEW last \in Nat, old <= last, kept + d = old + built
    PROVE  /\ (last + built) - kept + 1 = (last - old + 1) + d
           /\ last - old + 1 \in Nat /\ last - old + 1 <= (last + built) - kept + 1
           /\ kept <= last + built
           /\ \A i \in Int : last - old + (i + d) = (last + built) - kept + i
OBVIOUS

\* A flush: frames are numbered on, the oldest are dropped.
LEMMA FlushIs ==
    ASSUME TypeInv, NEW s \in Shard, Flush(s)
    PROVE  LET built == GroupEmitItems(pending[s], seq[s]) IN
           /\ built \in Seq(Frame) /\ Increasing(built)
           /\ \A n \in DOMAIN built : built[n].id \in seq[s] + 1 .. seq[s] + Len(built)
           /\ pending' = [pending EXCEPT ![s] = <<>>]
           /\ seq' = [seq EXCEPT ![s] = seq[s] + Len(built)]
           /\ frames' = [frames EXCEPT ![s] = frames'[s]]
           /\ frames'[s] \in Seq(Frame) /\ Len(frames'[s]) <= MaxFrames
           /\ Len(frames'[s]) <= seq'[s]
           /\ \A i \in DOMAIN frames'[s] :
                 /\ frames'[s][i].id = seq'[s] - Len(frames'[s]) + i
                 /\ \/ \E j \in DOMAIN frames[s] : frames'[s][i] = frames[s][j]
                    \/ \E n \in DOMAIN built : frames'[s][i] = built[n]
           /\ First(s)' \in Nat /\ First(s) <= First(s)'
           /\ \A j \in DOMAIN frames[s] : \/ \E i \in DOMAIN frames'[s] : frames'[s][i] = frames[s][j]
                                          \/ frames[s][j].id < First(s)'
           /\ \A n \in DOMAIN built : \/ \E i \in DOMAIN frames'[s] : frames'[s][i] = built[n]
                                      \/ built[n].id < First(s)'
           /\ \A t, a, x : LastFrame(frames[s] \o built, t, a, x) => LastFrame(frames'[s], t, a, x)
<1> DEFINE built == GroupEmitItems(pending[s], seq[s])
           old == frames[s]
           all == old \o built
           kept == frames'[s]
<1>1. /\ pending[s] \in Seq(Delta) /\ old \in Seq(Frame) /\ seq[s] \in Nat
      /\ Len(old) <= seq[s]
      /\ \A i \in DOMAIN old : old[i].id = seq[s] - Len(old) + i
  BY DEF TypeInv, LiveTypeOK
<1>2. built \in Seq(Frame) /\ \A n \in DOMAIN built : built[n].id = seq[s] + n
  BY <1>1, BuiltIs
<1>3. /\ pending' = [pending EXCEPT ![s] = <<>>]
      /\ seq' = [seq EXCEPT ![s] = seq[s] + Len(built)]
      /\ \E expired \in 0 .. Len(old) : frames' = [frames EXCEPT ![s] = Pruned(all, expired)]
  BY DEF Flush
<1>4. seq'[s] = seq[s] + Len(built)
  BY <1>3 DEF TypeInv
<1> HIDE DEF built
<1>5. /\ all \in Seq(Frame) /\ Len(all) = Len(old) + Len(built)
      /\ \A i \in 1 .. Len(old) + Len(built) :
            all[i] = IF i <= Len(old) THEN old[i] ELSE built[i - Len(old)]
  BY <1>1, <1>2, ConcatProperties
<1>6. /\ Len(old) \in Nat /\ Len(built) \in Nat /\ DOMAIN old = 1 .. Len(old)
      /\ DOMAIN built = 1 .. Len(built)
  BY <1>1, <1>2
<1>7. PICK expired \in 0 .. Len(old) : frames' = [frames EXCEPT ![s] = Pruned(all, expired)]
  BY <1>3
<1>8. kept = Pruned(all, expired) /\ frames' = [frames EXCEPT ![s] = kept]
  BY <1>7 DEF TypeInv
<1> HIDE DEF all, old
<1>9. expired \in 0 .. Len(all)
  BY <1>5, <1>6
<1>10. /\ kept \in Seq(Frame) /\ Len(kept) <= MaxFrames
       /\ \E d \in 0 .. Len(all) : /\ Len(all) = Len(kept) + d
                                   /\ \A i \in DOMAIN kept : kept[i] = all[i + d]
  <2> DEFINE p == Pruned(all, expired)
  <2>1. /\ p \in Seq(Frame) /\ Len(p) <= MaxFrames
        /\ \E d \in 0 .. Len(all) : /\ Len(all) = Len(p) + d
                                    /\ \A i \in DOMAIN p : p[i] = all[i + d]
    BY <1>5, <1>9, PrunedIs
  <2>2. kept = p
    BY <1>8
  <2> HIDE DEF p, kept
  <2> QED BY <2>1, <2>2
<1>11. PICK d \in 0 .. Len(all) : /\ Len(all) = Len(kept) + d
                                  /\ \A i \in DOMAIN kept : kept[i] = all[i + d]
  BY <1>10
<1>12. First(s)' = seq'[s] - Len(kept) + 1 /\ First(s) = seq[s] - Len(old) + 1
  BY DEF First, old
<1> DEFINE new == seq'[s]
<1> HIDE DEF kept, new
<1>13. Len(kept) \in Nat /\ DOMAIN kept = 1 .. Len(kept) /\ DOMAIN all = 1 .. Len(all)
  BY <1>5, <1>10
<1>14. new = seq[s] + Len(built)
  BY <1>4 DEF new
<1>15. \A i \in DOMAIN all : all[i].id = seq[s] - Len(old) + i
  <2> SUFFICES ASSUME NEW i \in DOMAIN all PROVE all[i].id = seq[s] - Len(old) + i
    OBVIOUS
  <2>1. CASE i <= Len(old)
    <3>1. i \in DOMAIN old /\ all[i] = old[i]
      BY <1>5, <1>6, <1>13, <2>1
    <3> QED BY <1>1, <3>1 DEF old
  <2>2. CASE ~(i <= Len(old))
    <3>1. i - Len(old) \in DOMAIN built /\ all[i] = built[i - Len(old)]
      BY <1>5, <1>6, <1>13, <2>2
    <3>2. built[i - Len(old)].id = seq[s] + (i - Len(old))
      BY <1>2, <3>1
    <3>3. i \in Int /\ Len(old) \in Int /\ seq[s] \in Int
      BY <1>1, <1>5, <1>6, <1>13
    <3>4. seq[s] + (i - Len(old)) = seq[s] - Len(old) + i
      BY <3>3
    <3> QED BY <3>1, <3>2, <3>4
  <2> QED BY <2>1, <2>2
<1>lengths. /\ d \in Nat /\ Len(kept) + d = Len(old) + Len(built) /\ new \in Nat
        /\ Len(old) \in Nat /\ Len(built) \in Nat /\ Len(kept) \in Nat
        /\ seq[s] \in Nat /\ Len(old) <= seq[s]
  <2>1. Len(old) <= seq[s] /\ seq[s] \in Nat
    BY <1>1 DEF old
  <2>2. Len(all) = Len(old) + Len(built)
    BY <1>5
  <2>3. d \in Nat /\ Len(all) = Len(kept) + d
    BY <1>6, <1>11, <2>2
  <2>4. Len(built) \in Nat /\ Len(old) \in Nat /\ Len(kept) \in Nat
    BY <1>6, <1>13
  <2>5. new \in Nat
    BY <1>14, <2>1, <2>4
  <2> QED BY <2>1, <2>2, <2>3, <2>4, <2>5
<1>shift. /\ (seq[s] + Len(built)) - Len(kept) + 1 = (seq[s] - Len(old) + 1) + d
        /\ seq[s] - Len(old) + 1 \in Nat
        /\ seq[s] - Len(old) + 1 <= (seq[s] + Len(built)) - Len(kept) + 1
        /\ Len(kept) <= seq[s] + Len(built)
        /\ \A k \in Int : seq[s] - Len(old) + (k + d) = (seq[s] + Len(built)) - Len(kept) + k
  <2>1. PICK lo \in Nat : lo = Len(old)
    BY <1>lengths
  <2>2. PICK lb \in Nat : lb = Len(built)
    BY <1>lengths
  <2>3. PICK lk \in Nat : lk = Len(kept)
    BY <1>lengths
  <2>4. PICK last \in Nat : last = seq[s]
    BY <1>lengths
  <2>5. lo <= last /\ lk + d = lo + lb /\ d \in Nat
    BY <1>lengths, <2>1, <2>2, <2>3, <2>4
  <2>6. /\ (last + lb) - lk + 1 = (last - lo + 1) + d
        /\ last - lo + 1 \in Nat /\ last - lo + 1 <= (last + lb) - lk + 1
        /\ lk <= last + lb
        /\ \A i \in Int : last - lo + (i + d) = (last + lb) - lk + i
    BY <2>5, NumbersAfterDrop
  <2> QED BY <2>1, <2>2, <2>3, <2>4, <2>6
<1>16. \A i \in DOMAIN kept : i + d \in DOMAIN all /\ kept[i] = all[i + d]
  BY <1>11, <1>13
<1>17. ASSUME NEW i \in DOMAIN kept
       PROVE  /\ kept[i].id = new - Len(kept) + i
              /\ \/ \E j \in DOMAIN old : kept[i] = old[j]
                 \/ \E n \in DOMAIN built : kept[i] = built[n]
  <2>1. kept[i].id = seq[s] - Len(old) + (i + d)
    BY <1>15, <1>16
  <2>2. seq[s] - Len(old) + (i + d) = new - Len(kept) + i
    <3>1. \A k \in Int : seq[s] - Len(old) + (k + d) = (seq[s] + Len(built)) - Len(kept) + k
      BY <1>shift
    <3>2. i \in Int
      BY <1>13
    <3> QED BY <1>14, <3>1, <3>2
  <2>3. PICK k \in 1 .. Len(old) + Len(built) : kept[i] = all[k]
    BY <1>5, <1>13, <1>16
  <2>4. CASE k <= Len(old)
    <3>1. k \in DOMAIN old /\ all[k] = old[k]
      BY <1>5, <1>6, <2>4
    <3> QED BY <2>1, <2>2, <2>3, <3>1
  <2>5. CASE ~(k <= Len(old))
    <3>1. k - Len(old) \in DOMAIN built /\ all[k] = built[k - Len(old)]
      BY <1>5, <1>6, <2>5
    <3> QED BY <2>1, <2>2, <2>3, <3>1
  <2> QED BY <2>4, <2>5
<1>18. First(s)' = First(s) + d /\ First(s) \in Nat /\ First(s) <= First(s)' /\ Len(kept) <= new
  <2>1. First(s)' = new - Len(kept) + 1
    BY <1>12 DEF new
  <2> DEFINE f == First(s)'
  <2> HIDE DEF f
  <2>2. f = new - Len(kept) + 1
    BY <2>1 DEF f
  <2>3. f = First(s) + d /\ First(s) \in Nat /\ First(s) <= f /\ Len(kept) <= new
    BY <1>12, <1>14, <1>shift, <2>2
  <2> QED BY <2>3 DEF f
<1>19. ASSUME NEW i \in DOMAIN all
       PROVE  (\E k \in DOMAIN kept : kept[k] = all[i]) \/ all[i].id < First(s)'
  <2>1. CASE i > d
    <3>1. i - d \in DOMAIN kept /\ (i - d) + d = i
      BY <1>11, <1>13, <2>1
    <3> QED BY <1>16, <3>1
  <2>2. CASE ~(i > d)
    <3>1. all[i].id < First(s) + d
      BY <1>1, <1>6, <1>12, <1>13, <1>15, <2>2 DEF old
    <3> QED BY <1>18, <3>1
  <2> QED BY <2>1, <2>2
<1>20. ASSUME NEW t, NEW a, NEW x, LastFrame(all, t, a, x)
       PROVE  LastFrame(kept, t, a, x)
  <2>1. kept \in Seq(Frame) /\ all \in Seq(Frame) /\ d \in Nat
    BY <1>5, <1>10, <1>lengths
  <2> QED BY <1>11, <1>20, <2>1, LastOfSuffix
<1>21. ASSUME NEW j \in DOMAIN old PROVE j \in DOMAIN all /\ all[j] = old[j]
  <2>1. j \in 1 .. Len(old) + Len(built) /\ j <= Len(old)
    BY <1>6
  <2> QED BY <1>5, <1>13, <2>1
<1>22. ASSUME NEW n \in DOMAIN built
       PROVE  Len(old) + n \in DOMAIN all /\ all[Len(old) + n] = built[n]
  <2>1. PICK k \in 1 .. Len(old) + Len(built) : k = Len(old) + n
    BY <1>6
  <2>2. ~(k <= Len(old)) /\ k - Len(old) = n
    BY <1>6, <2>1
  <2> QED BY <1>5, <1>13, <2>1, <2>2
<1>23. Increasing(built)
  BY <1>1, <1>2, <1>6 DEF Increasing
<1>24. \A n \in DOMAIN built : built[n].id \in seq[s] + 1 .. seq[s] + Len(built)
  BY <1>1, <1>2, <1>6
<1>25. First(s)' \in Nat
  BY <1>18
<1> DEFINE Goal == /\ \A j \in DOMAIN old : \/ \E i \in DOMAIN kept : kept[i] = old[j]
                                            \/ old[j].id < First(s)'
                   /\ \A n \in DOMAIN built : \/ \E i \in DOMAIN kept : kept[i] = built[n]
                                              \/ built[n].id < First(s)'
<1>26. Goal
  BY <1>19, <1>21, <1>22
<1> HIDE DEF Goal
<1> QED BY <1>2, <1>3, <1>8, <1>10, <1>17, <1>18, <1>20, <1>23, <1>24, <1>25, <1>26 DEF kept, old, all, new, built, Goal

-----------------------------------------------------------------------------
(* The requests.                                                            *)

\* The versions of things only grow.
Grows ==
    /\ db' \in [Thing -> 0 .. MaxVersion]
    /\ \A t \in Thing : db[t] <= db'[t]
    /\ Together => Together'

LEMMA Steady ==
    ASSUME HubInv, UNCHANGED db
    PROVE  Grows
<1>1. MaxVersion \in Nat /\ db \in [Thing -> 0 .. MaxVersion]
  BY LiveAssumption DEF HubInv, TypeInv, LiveTypeOK
<1>2. \A n \in 0 .. MaxVersion : n <= n
  BY <1>1
<1> QED BY <1>1, <1>2 DEF Grows, Together

\* What an action changes of the tables, it changes of both.
Balanced(things) ==
    \A o \in Order : Row("ORDER_STATUS", o) \in things <=> Own(o) \in things

LEMMA ThingsDiffer ==
    ASSUME NEW o \in Order
    PROVE  /\ Row("ORDER_STATUS", o) \in Thing /\ Own(o) \in Thing
           /\ \A kind \in {"ORDER_CREATED", "ORDER_SEEN"}, x \in Order :
                 Row("ORDER_STATUS", o) # Row(kind, x) /\ Own(o) # Row(kind, x)
           /\ \A x \in Order :
                 /\ Row("ORDER_STATUS", o) # Own(x)
                 /\ Row("ORDER_STATUS", o) = Row("ORDER_STATUS", x) <=> o = x
                 /\ Own(o) = Own(x) <=> o = x
                 /\ Own(o) # Row("ORDER_STATUS", x)
           /\ \A i \in Item : Row("ORDER_STATUS", o) # Stock(i) /\ Own(o) # Stock(i)
           /\ Row("ORDER_STATUS", o) # Menu /\ Own(o) # Menu
<1>1. Row("ORDER_STATUS", o) \in Thing /\ Own(o) \in Thing
  BY DEF Thing, Kind
<1> QED BY <1>1 DEF Row, Own, Stock, Menu

LEMMA CallsAre ==
    ASSUME CallInv, NEW c \in Caller, At(c, "emit")
    PROVE  /\ call[c] \in Emitting /\ call[c].script \in Seq(Announcements)
           /\ call[c].script # <<>> /\ 1 \in DOMAIN call[c].script
           /\ call[c].script[1] \in Announcements /\ Truthful(call[c].script[1], db)
<1>1. call[c] \in {Idle, Done} \cup Emitting
  BY DEF CallInv
<1>2. call[c] \in Emitting
  BY <1>1 DEF At, Idle, Done
<1>3. call[c].script \in Seq(Announcements)
  BY <1>2 DEF Emitting
<1>4. call[c].script # <<>>
  BY DEF CallInv
<1> DEFINE q == call[c].script
<1>5. \A i \in DOMAIN q : Truthful(q[i], db)
  BY DEF CallInv
<1> HIDE DEF q
<1>6. q \in Seq(Announcements) /\ q # <<>>
  BY <1>3, <1>4 DEF q
<1>7. 1 \in DOMAIN q /\ q[1] \in Announcements
  BY <1>6
<1> QED BY <1>2, <1>5, <1>6, <1>7 DEF q

\* What was true of a thing to announce remains so.
LEMMA TruthfulStays ==
    ASSUME TypeInv, Grows, NEW x \in Announcements, Truthful(x, db)
    PROVE  Truthful(x, db')
<1>1. ASSUME NEW i \in DOMAIN x.things
      PROVE  /\ db'[x.things[i]] >= 1
             /\ x.version # None => x.version \in 1 .. db'[x.things[i]]
  <2>1. PICK t \in Thing : t = x.things[i]
    BY DEF Announcements
  <2>2. db[t] \in Nat /\ db'[t] \in Nat /\ db[t] <= db'[t]
    <3>1. MaxVersion \in Nat
      BY LiveAssumption
    <3> QED BY <3>1 DEF TypeInv, LiveTypeOK, Grows
  <2>3. db[t] >= 1 /\ (x.version # None => x.version \in 1 .. db[t])
    BY <2>1 DEF Truthful
  <2>4. \A n : n \in 1 .. db[t] => n \in 1 .. db'[t]
    BY <2>2
  <2>5. db'[t] >= 1
    BY <2>2, <2>3
  <2> QED BY <2>1, <2>3, <2>4, <2>5
<1> QED BY <1>1 DEF Truthful

\* A request goes on with true announcements.
LEMMA CallGoes ==
    ASSUME TypeInv, CallInv, Grows, NEW c \in Caller, NEW r, Goes(c, r),
           r = Done \/ ( /\ r \in Emitting /\ r.script # <<>>
                         /\ \A i \in DOMAIN r.script : Truthful(r.script[i], db') )
    PROVE  CallInv'
<1>1. call \in [Caller -> {Idle, Done} \cup Emitting] /\ call' = [call EXCEPT ![c] = r]
  BY DEF CallInv, Goes
<1>2. call' \in [Caller -> {Idle, Done} \cup Emitting] /\ call'[c] = r
      /\ \A d \in Caller : d # c => call'[d] = call[d]
  BY <1>1
<1>3. ASSUME NEW d \in Caller, call'[d].stage = "emit"
      PROVE  /\ call'[d].script # <<>>
             /\ \A i \in DOMAIN call'[d].script : Truthful(call'[d].script[i], db')
  <2>1. CASE d = c
    <3>1. r # Done
      BY <1>2, <1>3, <2>1 DEF Done
    <3> QED BY <1>2, <2>1, <3>1
  <2>2. CASE d # c
    <3>1. call'[d] = call[d] /\ At(d, "emit")
      BY <1>2, <1>3, <2>2 DEF At
    <3>2. call[d].script \in Seq(Announcements) /\ call[d].script # <<>>
      BY <3>1, CallsAre
    <3>3. \A i \in DOMAIN call[d].script : Truthful(call[d].script[i], db)
      BY <3>1 DEF CallInv
    <3>4. \A i \in DOMAIN call[d].script : call[d].script[i] \in Announcements
      BY <3>2
    <3>5. \A i \in DOMAIN call[d].script : Truthful(call[d].script[i], db')
      BY <3>3, <3>4, TruthfulStays
    <3> QED BY <3>1, <3>2, <3>5
  <2> QED BY <2>1, <2>2
<1>4. Together'
  BY DEF CallInv, Grows
<1> QED BY <1>2, <1>3, <1>4 DEF CallInv, At

\* Nothing of the hub or the screens changes.
LEMMA HubKept ==
    ASSUME HubInv, Grows, CallInv', UNCHANGED <<hubVars, clientVars, breaks, crowd>>
    PROVE  HubInv'
<1>0. MaxVersion \in Nat
  BY LiveAssumption
<1>1. TypeInv'
  BY DEF HubInv, TypeInv, LiveTypeOK, Grows, hubVars, clientVars
<1>2. ASSUME NEW s \in Shard
      PROVE  ShardInv(s)'
  <2>1. ShardInv(s)
    BY DEF HubInv
  <2>2. \A t \in Thing : \A a \in AudiencesOf(t) :
           /\ accepted[s][t] \in Nat /\ db[t] \in Nat /\ db'[t] \in Nat
           /\ db[t] <= db'[t]
    <3>1. \A t \in Thing : \A a \in AudiencesOf(t) : accepted[s][t] \in 0 .. MaxVersion
      BY DEF HubInv, TypeInv, LiveTypeOK
    <3>2. \A t \in Thing : db[t] \in 0 .. MaxVersion /\ db'[t] \in 0 .. MaxVersion /\ db[t] <= db'[t]
      BY DEF HubInv, TypeInv, LiveTypeOK, Grows
    <3>3. 0 .. MaxVersion \subseteq Nat
      BY <1>0
    <3> QED BY <3>1, <3>2, <3>3
  <2>3. pending' = pending /\ frames' = frames /\ accepted' = accepted
    BY DEF hubVars
  <2>4. \A t \in Thing : \A a \in AudiencesOf(t) : accepted[s][t] <= db'[t]
    <3> SUFFICES ASSUME NEW t \in Thing, NEW a \in AudiencesOf(t)
                 PROVE  accepted[s][t] <= db'[t]
      OBVIOUS
    <3>1. accepted[s][t] <= db[t]
      BY <2>1 DEF ShardInv
    <3> QED BY <2>2, <3>1
  <2> QED BY <2>1, <2>3, <2>4 DEF ShardInv
<1> QED BY <1>1, <1>2 DEF HubInv

LEMMA BeginHub ==
    ASSUME HubInv, NEW c \in Caller, NEW things \in SUBSET Thing,
           NEW script \in Seq(Announcements), script # <<>>,
           \A i \in DOMAIN script :
              /\ script[i].things # <<>>
              /\ script[i].version = None => Len(script[i].things) = 1
              /\ \A j \in DOMAIN script[i].things :
                    /\ script[i].things[j] \in things
                    /\ script[i].version = None \/ script[i].version = db[script[i].things[j]] + 1,
           Begin(c, things, script), Balanced(things), UNCHANGED crowd
    PROVE  HubInv' /\ Grows /\ UNCHANGED <<hubVars, clientVars>>
<1> DEFINE r == [stage |-> "emit", script |-> script, posted |-> {}]
<1>0. MaxVersion \in Nat /\ db \in [Thing -> 0 .. MaxVersion]
  BY LiveAssumption DEF HubInv, TypeInv, LiveTypeOK
<1>1. /\ \A t \in things : db[t] < MaxVersion
      /\ db' = [t \in Thing |-> IF t \in things THEN db[t] + 1 ELSE db[t]]
      /\ Goes(c, r)
      /\ UNCHANGED <<hubVars, clientVars, breaks>>
  BY DEF Begin, Begins
<1>2. ASSUME NEW t \in Thing
      PROVE  db'[t] \in 0 .. MaxVersion /\ db[t] <= db'[t] /\ (t \in things => db'[t] = db[t] + 1)
             /\ db[t] \in Nat
  <2>1. db[t] \in 0 .. MaxVersion
    BY <1>0
  <2>2. db'[t] = IF t \in things THEN db[t] + 1 ELSE db[t]
    BY <1>1
  <2>3. CASE t \in things
    BY <1>0, <1>1, <2>1, <2>2, <2>3
  <2>4. CASE t \notin things
    BY <1>0, <2>1, <2>2, <2>4
  <2> QED BY <2>3, <2>4
<1>3. Grows
  <2>1. db' \in [Thing -> 0 .. MaxVersion]
    <3>1. db' = [t \in Thing |-> db'[t]]
      BY <1>1
    <3> QED BY <1>2, <3>1
  <2>2. ASSUME Together, NEW o \in Order
        PROVE  db'[Row("ORDER_STATUS", o)] = db'[Own(o)]
    <3>1. Row("ORDER_STATUS", o) \in Thing /\ Own(o) \in Thing
      BY ThingsDiffer
    <3> QED BY <1>1, <2>2, <3>1 DEF Together, Balanced
  <2>3. Together => Together'
    BY <2>2 DEF Together
  <2> QED BY <1>2, <2>1, <2>3 DEF Grows
<1>4. r \in Emitting /\ r.script # <<>> /\ r.script = script
  BY DEF Emitting
<1>5. ASSUME NEW i \in DOMAIN script
      PROVE  Truthful(script[i], db')
  <2>1. ASSUME NEW j \in DOMAIN script[i].things
        PROVE  /\ db'[script[i].things[j]] >= 1
               /\ script[i].version # None => script[i].version \in 1 .. db'[script[i].things[j]]
    <3>1. PICK t \in things : t = script[i].things[j]
      OBVIOUS
    <3>2. db'[t] = db[t] + 1 /\ db[t] \in Nat
      BY <1>2, <3>1
    <3>3. db'[t] >= 1 /\ db[t] + 1 \in 1 .. db'[t]
      BY <3>2
    <3> QED BY <3>1, <3>3
  <2> QED BY <2>1 DEF Truthful
<1> HIDE DEF r
<1>6. CallInv'
  BY <1>1, <1>3, <1>4, <1>5, CallGoes DEF HubInv
<1>7. HubInv'
  BY <1>1, <1>3, <1>6, HubKept
<1> QED BY <1>1, <1>3, <1>7

\* What the routes announce is of the things they change.
LEMMA RouteHub ==
    ASSUME HubInv, NEW c \in Caller, UNCHANGED crowd,
           \/ \E o \in Order :
                 \/ CreateOrder(c, o) \/ CancelOrder(c, o) \/ OpenOrder(c, o)
                 \/ \E delivered \in BOOLEAN : UpdateOrderStatus(c, o, delivered)
           \/ \E i \in Item : EditItem(c, i)
    PROVE  HubInv' /\ Grows /\ UNCHANGED <<hubVars, clientVars>>
<1> DEFINE Fine(x, things) ==
              /\ x \in Announcements /\ x.things # <<>>
              /\ x.version = None => Len(x.things) = 1
              /\ \A j \in DOMAIN x.things :
                    /\ x.things[j] \in things
                    /\ x.version = None \/ x.version = db[x.things[j]] + 1
           Goal == HubInv' /\ Grows /\ UNCHANGED <<hubVars, clientVars>>
<1>0. /\ \A t \in Thing : db[t] + 1 \in Nat
      /\ \A o \in Order : db[Row("ORDER_STATUS", o)] \in Nat
  <2>1. MaxVersion \in Nat /\ db \in [Thing -> 0 .. MaxVersion]
    BY LiveAssumption DEF HubInv, TypeInv, LiveTypeOK
  <2>2. \A o \in Order : Row("ORDER_STATUS", o) \in Thing
    BY DEF Thing, Kind
  <2> QED BY <2>1, <2>2
<1>1. ASSUME NEW t \in Thing, NEW things \in SUBSET Thing, t \in things,
             NEW n, n = None \/ n = db[t] + 1
      PROVE  Fine(Announcement(<<t>>, n), things)
  <2>1. n \in Nat \cup {None}
    BY <1>0, <1>1
  <2>2. /\ Announcement(<<t>>, n) \in Announcements
        /\ Announcement(<<t>>, n).things = <<t>> /\ Announcement(<<t>>, n).version = n
    BY <2>1 DEF Announcement, Announcements
  <2> QED BY <1>1, <2>2
<1>2. ASSUME NEW things \in SUBSET Thing, NEW x, Fine(x, things), Begin(c, things, <<x>>),
             Balanced(things)
      PROVE  Goal
  <2> DEFINE script == <<x>>
  <2>1. /\ script \in Seq(Announcements) /\ script # <<>>
        /\ \A i \in DOMAIN script : script[i] = x
    BY <1>2
  <2>2. Begin(c, things, script)
    BY <1>2
  <2> HIDE DEF script
  <2> QED BY <1>2, <2>1, <2>2, BeginHub
<1>3. ASSUME NEW things \in SUBSET Thing, NEW x, NEW y, Fine(x, things), Fine(y, things),
             Begin(c, things, <<x, y>>), Balanced(things)
      PROVE  Goal
  <2> DEFINE script == <<x, y>>
  <2>1. /\ script \in Seq(Announcements) /\ script # <<>>
        /\ \A i \in DOMAIN script : script[i] = x \/ script[i] = y
    BY <1>3
  <2>2. Begin(c, things, script)
    BY <1>3
  <2> HIDE DEF script
  <2> QED BY <1>3, <2>1, <2>2, BeginHub
<1>4. /\ Menu \in Thing /\ \A i \in Item : Stock(i) \in Thing
      /\ \A o \in Order : /\ ItemOf[o] \in Item /\ Own(o) \in Thing
                          /\ \A kind \in Kind : Row(kind, o) \in Thing
      /\ {"ORDER_CREATED", "ORDER_STATUS", "ORDER_SEEN"} \subseteq Kind
  BY LiveAssumption DEF Thing, OnMenu, Kind
<1>same. \A o \in Order : db[Row("ORDER_STATUS", o)] = db[Own(o)]
  BY DEF HubInv, CallInv, Together
<1> HIDE DEF Fine, Goal
<1>5. ASSUME NEW o \in Order, CreateOrder(c, o)
      PROVE  Goal
  <2> DEFINE row == Row("ORDER_CREATED", o)
             left == Stock(ItemOf[o])
             created == Announcement(<<row>>, 1)
             stock == Announcement(<<left>>, None)
             things == {row, left}
  <2>1. row \in Thing /\ left \in Thing
    BY <1>4
  <2>2. db[row] + 1 \in Nat /\ ~(db[row] > 0) /\ db[row] \in Nat
    <3>1. ~(db[row] > 0)
      BY <1>5 DEF CreateOrder, IsPlaced
    <3>2. MaxVersion \in Nat /\ db \in [Thing -> 0 .. MaxVersion]
      BY LiveAssumption DEF HubInv, TypeInv, LiveTypeOK
    <3> HIDE DEF row
    <3> QED BY <2>1, <3>1, <3>2
  <2>3. Begin(c, things, <<created>>) \/ Begin(c, things, <<created, stock>>)
    BY <1>5 DEF CreateOrder
  <2>b. Balanced(things)
    BY <1>4, ThingsDiffer DEF Balanced
  <2> HIDE DEF row, left
  <2>4. things \in SUBSET Thing /\ row \in things /\ left \in things /\ 1 = db[row] + 1
    BY <2>1, <2>2
  <2> HIDE DEF things
  <2>5. Fine(created, things) /\ Fine(stock, things)
    BY <1>1, <2>1, <2>4
  <2> HIDE DEF created, stock
  <2> QED BY <1>2, <1>3, <2>b, <2>3, <2>4, <2>5
<1>6. ASSUME NEW o \in Order, NEW things \in SUBSET Thing, StatusOf(o) \subseteq things,
             db[Row("ORDER_STATUS", o)] = db[Own(o)]
      PROVE  Fine(Status(o), things)
  <2> DEFINE row == Row("ORDER_STATUS", o)
             own == Own(o)
  <2>1. row \in things /\ own \in things /\ row \in Thing /\ own \in Thing
    BY <1>4, <1>6 DEF StatusOf
  <2>2. db[own] + 1 \in Nat /\ db[row] = db[own]
    BY <1>0, <1>6, <2>1
  <2>3. Status(o) = [things |-> <<row, own>>, version |-> db[own] + 1]
    BY DEF Status, Announcement
  <2> HIDE DEF row, own
  <2>4. /\ Status(o) \in Announcements /\ Status(o).things = <<row, own>>
        /\ Status(o).version = db[own] + 1
    BY <2>1, <2>2, <2>3 DEF Announcements
  <2>5. \A j \in DOMAIN <<row, own>> : <<row, own>>[j] = row \/ <<row, own>>[j] = own
    OBVIOUS
  <2>6. db[own] + 1 # None
    BY <2>2, LiveAssumption
  <2> QED BY <2>1, <2>2, <2>4, <2>5, <2>6 DEF Fine
<1>7. ASSUME NEW o \in Order, CancelOrder(c, o)
      PROVE  Goal
  <2> DEFINE things == StatusOf(o) \cup {Stock(ItemOf[o])}
  <2>1. Begin(c, things, <<Status(o)>>)
    BY <1>7 DEF CancelOrder
  <2>2. things \in SUBSET Thing /\ StatusOf(o) \subseteq things
    BY <1>4 DEF StatusOf
  <2>b. Balanced(things)
    BY <1>4, ThingsDiffer DEF Balanced, StatusOf
  <2> HIDE DEF things
  <2> QED BY <1>2, <1>6, <1>same, <2>b, <2>1, <2>2
<1>8. ASSUME NEW o \in Order, NEW delivered \in BOOLEAN, UpdateOrderStatus(c, o, delivered)
      PROVE  Goal
  <2> DEFINE left == Stock(ItemOf[o])
             stock == Announcement(<<left>>, db[left] + 1)
             things == StatusOf(o) \cup {left}
             few == StatusOf(o)
  <2>1. left \in Thing /\ few \subseteq Thing /\ StatusOf(o) \subseteq few
    BY <1>4 DEF StatusOf
  <2>2. Begin(c, things, <<Status(o), stock>>) \/ Begin(c, few, <<Status(o)>>)
    BY <1>8 DEF UpdateOrderStatus
  <2>b. Balanced(things) /\ Balanced(few)
    BY <1>4, ThingsDiffer DEF Balanced, StatusOf
  <2> HIDE DEF left, few
  <2>3. things \in SUBSET Thing /\ left \in things /\ StatusOf(o) \subseteq things
    BY <2>1 DEF few
  <2> HIDE DEF things
  <2>4. Fine(stock, things) /\ Fine(Status(o), things) /\ Fine(Status(o), few)
    BY <1>1, <1>6, <1>same, <2>1, <2>3
  <2> HIDE DEF stock
  <2> QED BY <1>2, <1>3, <2>b, <2>1, <2>2, <2>3, <2>4
<1>9. ASSUME NEW o \in Order, OpenOrder(c, o)
      PROVE  Goal
  <2> DEFINE row == Row("ORDER_SEEN", o)
             things == {row}
  <2>1. row \in Thing /\ Begin(c, things, <<Announcement(<<row>>, db[row] + 1)>>)
    BY <1>4, <1>9 DEF OpenOrder
  <2>b. Balanced(things)
    BY ThingsDiffer DEF Balanced
  <2> HIDE DEF row
  <2>2. things \in SUBSET Thing /\ row \in things
    BY <2>1
  <2> HIDE DEF things
  <2>3. Fine(Announcement(<<row>>, db[row] + 1), things)
    BY <1>1, <2>1, <2>2
  <2> QED BY <1>2, <2>b, <2>1, <2>2, <2>3
<1>10. ASSUME NEW i \in Item, EditItem(c, i)
       PROVE  Goal
  <2> DEFINE things == {Menu, Stock(i)}
  <2>1. things \in SUBSET Thing /\ Menu \in things /\ Menu \in Thing
    BY <1>4
  <2>2. Begin(c, things, <<Announcement(<<Menu>>, db[Menu] + 1)>>)
    BY <1>10 DEF EditItem
  <2>b. Balanced(things)
    BY ThingsDiffer DEF Balanced
  <2> HIDE DEF things
  <2>3. Fine(Announcement(<<Menu>>, db[Menu] + 1), things)
    BY <1>1, <2>1
  <2> QED BY <1>2, <2>b, <2>1, <2>2, <2>3
<1>11. Goal
  BY <1>5, <1>7, <1>8, <1>9, <1>10
<1> QED BY <1>11 DEF Goal

LEMMA ReadStockHub ==
    ASSUME HubInv, NEW c \in Caller, ReadStock(c), UNCHANGED crowd
    PROVE  HubInv' /\ Grows /\ UNCHANGED <<hubVars, clientVars>>
<1> DEFINE me == call[c]
           first == me.script[1]
           read == [first EXCEPT !.version = db[first.things[1]]]
           script == [me.script EXCEPT ![1] = read]
           r == [me EXCEPT !.script = script]
<1>1. /\ At(c, "emit") /\ Goes(c, r)
      /\ UNCHANGED <<db, hubVars, clientVars, breaks>>
  BY DEF ReadStock
<1>0. first.version = None
  BY DEF ReadStock
<1>2. /\ me \in Emitting /\ me.script \in Seq(Announcements) /\ me.script # <<>>
      /\ 1 \in DOMAIN me.script
      /\ first \in Announcements /\ Truthful(first, db)
  BY <1>1, CallsAre DEF HubInv
<1>3. \A i \in DOMAIN me.script : Truthful(me.script[i], db)
  BY <1>1 DEF HubInv, CallInv
<1>4. Grows
  BY <1>1, Steady
<1>5. /\ first.things # <<>> /\ Len(first.things) = 1
      /\ db[first.things[1]] \in Nat /\ db[first.things[1]] >= 1
  <2>0. first.things # <<>> /\ Len(first.things) = 1 /\ first.things \in Seq(Thing)
    BY <1>0, <1>2 DEF Truthful, Announcements
  <2>1. first.things[1] \in Thing /\ 1 \in DOMAIN first.things /\ MaxVersion \in Nat /\ db \in [Thing -> 0 .. MaxVersion]
    BY <2>0, LiveAssumption DEF HubInv, TypeInv, LiveTypeOK
  <2>2. db[first.things[1]] \in 0 .. MaxVersion /\ db[first.things[1]] >= 1
    BY <1>2, <2>1 DEF Truthful
  <2>3. \A n \in 0 .. MaxVersion : n \in Nat
    BY <2>1
  <2> QED BY <2>0, <2>2, <2>3
<1> HIDE DEF first
<1>6. /\ read \in Announcements /\ read.things = first.things
      /\ read.version = db[first.things[1]]
  BY <1>2, <1>5 DEF Announcements
<1>7. Truthful(read, db)
  <2>1. \A n \in Nat : n >= 1 => n \in 1 .. n
    OBVIOUS
  <2> DEFINE q == first.things
  <2>2. q \in Seq(Thing) /\ q # <<>> /\ Len(q) = 1
    BY <1>2, <1>5 DEF Announcements
  <2> HIDE DEF read
  <2>3. read.things = q /\ read.version = db[q[1]] /\ db[q[1]] \in Nat /\ db[q[1]] >= 1
    BY <1>5, <1>6
  <2> HIDE DEF q
  <2>4. \A i \in DOMAIN q : i = 1
    BY <2>2
  <2> QED BY <2>1, <2>2, <2>3, <2>4 DEF Truthful
<1> HIDE DEF read
<1>8. /\ script \in Seq(Announcements) /\ script # <<>>
      /\ \A i \in DOMAIN script : i \in DOMAIN me.script /\ (script[i] = read \/ script[i] = me.script[i])
  <2> DEFINE q == me.script
  <2>1. q \in Seq(Announcements) /\ q # <<>> /\ 1 \in DOMAIN q /\ script = [q EXCEPT ![1] = read]
    BY <1>2
  <2> HIDE DEF q
  <2>2. q \in [1 .. Len(q) -> Announcements] /\ Len(q) \in Nat /\ DOMAIN q = 1 .. Len(q)
    BY <2>1
  <2>3. script \in [1 .. Len(q) -> Announcements]
    BY <1>6, <2>1, <2>2
  <2> HIDE DEF script
  <2>4. script \in Seq(Announcements) /\ DOMAIN script = DOMAIN q
    BY <2>2, <2>3
  <2>5. script # <<>>
    BY <2>1, <2>4
  <2>6. \A i \in DOMAIN q : script[i] = read \/ script[i] = q[i]
    BY <2>1
  <2> QED BY <2>4, <2>5, <2>6 DEF q
<1>9. \A i \in DOMAIN script : Truthful(script[i], db)
  BY <1>3, <1>7, <1>8
<1> HIDE DEF script
<1>10. r \in Emitting /\ r.script = script
  BY <1>2, <1>8 DEF Emitting
<1> HIDE DEF r, me
<1>11. CallInv'
  <2>1. db' = db
    BY <1>1
  <2> QED BY <1>1, <1>4, <1>8, <1>9, <1>10, <2>1, CallGoes DEF HubInv
<1> QED BY <1>1, <1>4, <1>11, HubKept

\* The tables stay, or a request ends.
LEMMA AbortsHub ==
    ASSUME HubInv, NEW c \in Caller, Aborts(c), UNCHANGED crowd
    PROVE  HubInv' /\ Grows /\ UNCHANGED <<hubVars, clientVars>>
<1>1. Goes(c, Done) /\ UNCHANGED <<db, hubVars, clientVars, breaks>>
  BY DEF Aborts
<1>2. Grows
  BY <1>1, Steady
<1>3. CallInv'
  BY <1>1, <1>2, CallGoes DEF HubInv
<1> QED BY <1>1, <1>2, <1>3, HubKept

\* What remains to be posted of an announcement, or the next one.
LEMMA PostedIs ==
    ASSUME CallInv, NEW c \in Caller, At(c, "emit"), NEW s \in Shard
    PROVE  LET r == Posted(call[c], s) IN
           r = Done \/ ( /\ r \in Emitting /\ r.script # <<>>
                         /\ \A i \in DOMAIN r.script : Truthful(r.script[i], db) )
<1> DEFINE me == call[c]
           r == Posted(me, s)
           q == me.script
<1>1. me \in Emitting /\ q \in Seq(Announcements) /\ q # <<>>
  BY CallsAre
<1>2. \A i \in DOMAIN q : Truthful(q[i], db)
  BY DEF CallInv
<1>3. CASE me.posted \cup {s} # Concerned(me.script[1])
  <2>1. r = [me EXCEPT !.posted = me.posted \cup {s}]
    BY <1>3 DEF Posted
  <2>2. r \in Emitting /\ r.script = q
    BY <1>1, <2>1 DEF Emitting
  <2> HIDE DEF r
  <2> QED BY <1>1, <1>2, <2>2 DEF r
<1>4. CASE me.posted \cup {s} = Concerned(me.script[1]) /\ Len(me.script) = 1
  BY <1>4 DEF Posted
<1>5. CASE me.posted \cup {s} = Concerned(me.script[1]) /\ Len(me.script) # 1
  <2>1. r = [me EXCEPT !.script = Tail(q), !.posted = {}]
    BY <1>5 DEF Posted
  <2>2. /\ Tail(q) \in Seq(Announcements) /\ Len(Tail(q)) = Len(q) - 1
        /\ \A i \in 1 .. Len(q) - 1 : Tail(q)[i] = q[i + 1]
    <3> HIDE DEF q
    <3> QED BY <1>1, HeadTailProperties
  <2>3. Len(q) \in Nat /\ Len(q) # 0 /\ Len(q) # 1 /\ DOMAIN q = 1 .. Len(q)
    BY <1>1, <1>5
  <2>4. Tail(q) # <<>> /\ DOMAIN Tail(q) = 1 .. Len(q) - 1
    <3> DEFINE p == Tail(q)
    <3> HIDE DEF p, q
    <3> QED BY <2>2, <2>3 DEF p
  <2>5. \A i \in DOMAIN Tail(q) : Truthful(Tail(q)[i], db)
    <3> SUFFICES ASSUME NEW i \in DOMAIN Tail(q) PROVE Truthful(Tail(q)[i], db)
      OBVIOUS
    <3>1. i + 1 \in DOMAIN q /\ Tail(q)[i] = q[i + 1]
      BY <2>2, <2>3, <2>4
    <3> QED BY <1>2, <3>1
  <2> DEFINE p == Tail(q)
  <2>6. p \in Seq(Announcements) /\ p # <<>> /\ \A i \in DOMAIN p : Truthful(p[i], db)
    BY <2>2, <2>4, <2>5
  <2>7. r = [me EXCEPT !.script = p, !.posted = {}]
    BY <2>1
  <2> HIDE DEF p
  <2>8. r \in Emitting /\ r.script = p
    <3> HIDE DEF r
    <3> QED BY <1>1, <2>6, <2>7 DEF Emitting
  <2> HIDE DEF r
  <2> QED BY <2>6, <2>8 DEF r
<1> QED BY <1>3, <1>4, <1>5

\* What is queued last on a shard is what the shard accepted last.
LEMMA EmitIs ==
    ASSUME HubInv, NEW c \in Caller, NEW s \in Shard, Emit(c, s)
    PROVE  LET now == call[c].script[1]
               ds == AsDeltas(now, s)
           IN  /\ ds \in Seq(Delta)
               /\ \A i \in DOMAIN ds : ds[i].audience \in AudiencesOf(ds[i].thing)
               /\ pending' = [pending EXCEPT ![s] = pending[s] \o ds]
               /\ accepted' = [accepted EXCEPT ![s] = accepted'[s]]
               /\ accepted'[s] \in [Thing -> 0 .. MaxVersion]
               /\ \A t \in Thing : \A a \in AudiencesOf(t) :
                     LET n == accepted'[s][t] IN
                     /\ Concerns(ds, t, a) => n <= db[t]
                     /\ ~Concerns(ds, t, a) => n = accepted[s][t]
                     /\ LastDelta(ds, t, a, n)
               /\ UNCHANGED <<db, seq, frames, clientVars, breaks>>
<1> DEFINE now == call[c].script[1]
           ds == AsDeltas(now, s)
           told(t) == \E i \in DOMAIN ds : ds[i].thing = t
           value(t) == IF told(t) THEN now.version ELSE accepted[s][t]
<1>0. MaxVersion \in Nat /\ db \in [Thing -> 0 .. MaxVersion]
      /\ accepted \in [Shard -> [Thing -> 0 .. MaxVersion]]
  BY LiveAssumption DEF HubInv, TypeInv, LiveTypeOK
<1>1. /\ At(c, "emit") /\ now.version # None
      /\ pending' = [pending EXCEPT ![s] = pending[s] \o ds]
      /\ accepted' = [accepted EXCEPT ![s] = [t \in Thing |-> value(t)]]
      /\ UNCHANGED <<db, seq, frames, clientVars, breaks>>
  BY DEF Emit
<1>2. now \in Announcements /\ Truthful(now, db)
  BY <1>1, CallsAre DEF HubInv
<1> HIDE DEF now
<1>3. /\ \A j \in DOMAIN now.things :
            now.things[j] \in Thing /\ now.version <= db[now.things[j]]
      /\ now.version \in 1 .. MaxVersion
  <2>1. now.things \in Seq(Thing) /\ now.things # <<>>
    BY <1>2 DEF Announcements, Truthful
  <2>2. \A j \in DOMAIN now.things : now.version \in 1 .. db[now.things[j]]
    BY <1>1, <1>2 DEF Truthful
  <2>3. ASSUME NEW j \in DOMAIN now.things
        PROVE  /\ now.things[j] \in Thing /\ now.version <= db[now.things[j]]
               /\ now.version \in 1 .. MaxVersion
    <3>1. PICK t \in Thing : t = now.things[j]
      BY <2>1
    <3>2. db[t] \in 0 .. MaxVersion /\ now.version \in 1 .. db[t]
      BY <1>0, <2>2, <3>1
    <3>3. now.version <= db[t] /\ now.version \in 1 .. MaxVersion
      BY <1>0, <3>2
    <3> QED BY <3>1, <3>3
  <2>4. 1 \in DOMAIN now.things
    <3> DEFINE q == now.things
    <3> HIDE DEF q
    <3>1. q \in Seq(Thing) /\ q # <<>>
      BY <2>1 DEF q
    <3>2. 1 \in DOMAIN q
      BY <3>1
    <3> QED BY <3>2 DEF q
  <2> QED BY <2>3, <2>4
<1>4. /\ ds \in Seq(Delta)
      /\ \A i \in DOMAIN ds :
            /\ ds[i].version = now.version
            /\ ds[i].audience \in AudiencesOf(ds[i].thing)
            /\ \E j \in DOMAIN now.things : ds[i].thing = now.things[j]
  BY <1>2, <1>3, DeltasAre
<1> HIDE DEF ds
<1>6. ASSUME NEW t \in Thing, NEW a \in AudiencesOf(t)
      PROVE  Concerns(ds, t, a) <=> told(t)
  <2>1. \A i \in DOMAIN ds : ds[i].thing = t => ds[i].audience = a
    BY <1>4, OneAudience
  <2> QED BY <2>1 DEF Concerns, DeltaAbout
<1>7. /\ accepted'[s] = [t \in Thing |-> value(t)]
      /\ accepted' = [accepted EXCEPT ![s] = accepted'[s]]
  BY <1>0, <1>1
<1>8. ASSUME NEW t \in Thing
      PROVE  accepted'[s][t] = value(t)
  <2> HIDE DEF value
  <2> QED BY <1>7
<1>9. accepted'[s] \in [Thing -> 0 .. MaxVersion]
  <2>1. now.version \in 0 .. MaxVersion
    BY <1>0, <1>3
  <2>2. \A t \in Thing : value(t) \in 0 .. MaxVersion
    BY <1>0, <2>1
  <2> HIDE DEF value
  <2> QED BY <1>7, <2>2
<1>10. ASSUME NEW t \in Thing, NEW a \in AudiencesOf(t)
       PROVE  /\ Concerns(ds, t, a) => accepted'[s][t] <= db[t]
              /\ ~Concerns(ds, t, a) => accepted'[s][t] = accepted[s][t]
              /\ LastDelta(ds, t, a, accepted'[s][t])
  <2>1. CASE told(t)
    <3>1. accepted'[s][t] = now.version /\ Concerns(ds, t, a)
      BY <1>6, <1>8, <2>1
    <3>2. now.version <= db[t]
      BY <1>3, <1>4, <2>1
    <3>3. LastDelta(ds, t, a, now.version)
      BY <1>4 DEF LastDelta
    <3> QED BY <3>1, <3>2, <3>3
  <2>2. CASE ~told(t)
    <3>1. accepted'[s][t] = accepted[s][t] /\ ~Concerns(ds, t, a)
      BY <1>6, <1>8, <2>2
    <3>2. \A n : LastDelta(ds, t, a, n)
      BY <3>1 DEF Concerns, LastDelta
    <3> QED BY <3>1, <3>2
  <2> QED BY <2>1, <2>2
<1> QED BY <1>1, <1>4, <1>7, <1>9, <1>10 DEF now, ds

LEMMA EmitHub ==
    ASSUME HubInv, NEW c \in Caller, NEW s \in Shard, Emit(c, s), UNCHANGED crowd
    PROVE  HubInv'
<1> DEFINE ds == AsDeltas(call[c].script[1], s)
<1>1. /\ ds \in Seq(Delta)
      /\ \A i \in DOMAIN ds : ds[i].audience \in AudiencesOf(ds[i].thing)
      /\ pending' = [pending EXCEPT ![s] = pending[s] \o ds]
      /\ accepted' = [accepted EXCEPT ![s] = accepted'[s]]
      /\ accepted'[s] \in [Thing -> 0 .. MaxVersion]
      /\ \A t \in Thing : \A a \in AudiencesOf(t) :
            /\ Concerns(ds, t, a) => accepted'[s][t] <= db[t]
            /\ ~Concerns(ds, t, a) => accepted'[s][t] = accepted[s][t]
            /\ LastDelta(ds, t, a, accepted'[s][t])
      /\ UNCHANGED <<db, seq, frames, clientVars, breaks>>
  BY EmitIs
<1> HIDE DEF ds
<1>2. pending[s] \in Seq(Delta) /\ pending[s] \o ds \in Seq(Delta)
  BY <1>1 DEF HubInv, TypeInv
<1> DEFINE q == pending[s] \o ds
<1>3. pending' = [pending EXCEPT ![s] = q] /\ q \in Seq(Delta)
  BY <1>1, <1>2
<1> HIDE DEF q
<1>4. pending' \in [Shard -> Seq(Delta)] /\ pending'[s] = q
      /\ \A u \in Shard : u # s => pending'[u] = pending[u]
  BY <1>3 DEF HubInv, TypeInv
<1>5. accepted' \in [Shard -> [Thing -> 0 .. MaxVersion]]
      /\ \A u \in Shard : u # s => accepted'[u] = accepted[u]
  BY <1>1 DEF HubInv, TypeInv, LiveTypeOK
<1>6. TypeInv'
  <2>1. \A u \in Shard : \A i \in DOMAIN pending'[u] : pending'[u][i] \in Delta
    BY <1>4
  <2>2. UNCHANGED <<db, seq, frames, clientVars, breaks, crowd>>
    BY <1>1
  <2> QED BY <1>4, <1>5, <2>1, <2>2 DEF HubInv, TypeInv, LiveTypeOK, clientVars
<1>7. Grows
  BY <1>1, Steady
<1>8. CallInv'
  <2> DEFINE r == Posted(call[c], s)
  <2>1. At(c, "emit") /\ Goes(c, r) /\ db' = db
    BY <1>1 DEF Emit
  <2>2. r = Done \/ ( /\ r \in Emitting /\ r.script # <<>>
                      /\ \A i \in DOMAIN r.script : Truthful(r.script[i], db) )
    BY <2>1, PostedIs DEF HubInv
  <2> HIDE DEF r
  <2> QED BY <1>7, <2>1, <2>2, CallGoes DEF HubInv
<1>9. ShardInv(s)'
  <2>0. ShardInv(s)
    BY DEF HubInv
  <2>1. \A i \in DOMAIN q : q[i].audience \in AudiencesOf(q[i].thing)
    <3>1. /\ Len(q) = Len(pending[s]) + Len(ds)
          /\ \A i \in 1 .. Len(pending[s]) + Len(ds) :
                q[i] = IF i <= Len(pending[s]) THEN pending[s][i] ELSE ds[i - Len(pending[s])]
      BY <1>1, <1>2, ConcatProperties DEF q
    <3>2. /\ Len(pending[s]) \in Nat /\ Len(ds) \in Nat /\ DOMAIN ds = 1 .. Len(ds)
          /\ DOMAIN pending[s] = 1 .. Len(pending[s]) /\ DOMAIN q = 1 .. Len(q)
      BY <1>1, <1>2, <1>3
    <3>3. \A i \in DOMAIN q : \/ i \in DOMAIN pending[s] /\ q[i] = pending[s][i]
                              \/ i - Len(pending[s]) \in DOMAIN ds /\ q[i] = ds[i - Len(pending[s])]
      BY <3>1, <3>2
    <3> QED BY <1>1, <2>0, <3>3 DEF ShardInv
  <2>2. frames'[s] = frames[s] /\ db' = db
    BY <1>1
  <2>3. ASSUME NEW t \in Thing, NEW a \in AudiencesOf(t)
        PROVE  /\ accepted'[s][t] <= db[t]
               /\ LastDelta(q, t, a, accepted'[s][t])
               /\ Concerns(q, t, a) \/ LastFrame(frames[s], t, a, accepted'[s][t])
    <3> DEFINE n == accepted'[s][t]
    <3>1. /\ accepted[s][t] <= db[t]
          /\ LastDelta(pending[s], t, a, accepted[s][t])
          /\ Concerns(pending[s], t, a) \/ LastFrame(frames[s], t, a, accepted[s][t])
      BY <2>0 DEF ShardInv
    <3>2. /\ Concerns(ds, t, a) => n <= db[t]
          /\ ~Concerns(ds, t, a) => n = accepted[s][t]
          /\ LastDelta(ds, t, a, n)
      BY <1>1
    <3> HIDE DEF n
    <3>3. Concerns(ds, t, a) \/ LastDelta(pending[s], t, a, n)
      BY <3>1, <3>2
    <3>4. /\ LastDelta(q, t, a, n)
          /\ Concerns(q, t, a) <=> Concerns(pending[s], t, a) \/ Concerns(ds, t, a)
      BY <1>1, <1>2, <3>2, <3>3, LastDeltaAppended DEF q
    <3> QED BY <3>1, <3>2, <3>4 DEF n
  <2> QED BY <1>4, <2>0, <2>1, <2>2, <2>3 DEF ShardInv
<1>10. ASSUME NEW u \in Shard, u # s
       PROVE  ShardInv(u)'
  <2>1. ShardInv(u) /\ pending'[u] = pending[u] /\ accepted'[u] = accepted[u]
        /\ frames' = frames /\ db' = db
    BY <1>1, <1>4, <1>5, <1>10 DEF HubInv
  <2> QED BY <2>1 DEF ShardInv
<1> QED BY <1>6, <1>8, <1>9, <1>10 DEF HubInv

\* What a flush builds says what the shard accepted last, to those it is for.
LEMMA BuiltSays ==
    ASSUME HubInv, NEW s \in Shard
    PROVE  LET built == GroupEmitItems(pending[s], seq[s]) IN
           /\ \A n \in DOMAIN built : Fits(built[n])
           /\ \A t \in Thing : \A a \in AudiencesOf(t) :
                 /\ LastFrame(built, t, a, accepted[s][t])
                 /\ Concerns(pending[s], t, a) => Tells(built, t, a)
<1> DEFINE built == GroupEmitItems(pending[s], seq[s])
<1>1. /\ pending[s] \in Seq(Delta) /\ seq[s] \in Nat
      /\ \A i \in DOMAIN pending[s] :
            pending[s][i].audience \in AudiencesOf(pending[s][i].thing)
      /\ \A t \in Thing : \A a \in AudiencesOf(t) : LastDelta(pending[s], t, a, accepted[s][t])
  BY FramesAre DEF HubInv, ShardInv
<1>2. /\ \A n \in DOMAIN built, t \in Thing :
            built[n].news[t] > 0 => Concerns(pending[s], t, built[n].audience)
      /\ \A t \in Thing : \A a \in AudiencesOf(t) :
            /\ Concerns(pending[s], t, a) => Tells(built, t, a)
            /\ \A x : LastDelta(pending[s], t, a, x) => LastFrame(built, t, a, x)
  BY <1>1, BuiltIs, OneAudience
<1> HIDE DEF built
<1>3. \A n \in DOMAIN built : Fits(built[n])
  BY <1>1, <1>2 DEF Fits, Concerns, DeltaAbout
<1> QED BY <1>1, <1>2, <1>3 DEF built

LEMMA FlushHub ==
    ASSUME HubInv, NEW s \in Shard, Flush(s), UNCHANGED crowd
    PROVE  HubInv'
<1> DEFINE built == GroupEmitItems(pending[s], seq[s])
<1>0. TypeInv
  BY DEF HubInv
<1>1. /\ built \in Seq(Frame) /\ Increasing(built)
      /\ pending' = [pending EXCEPT ![s] = <<>>]
      /\ seq' = [seq EXCEPT ![s] = seq[s] + Len(built)]
      /\ frames' = [frames EXCEPT ![s] = frames'[s]]
      /\ frames'[s] \in Seq(Frame) /\ Len(frames'[s]) <= MaxFrames
      /\ Len(frames'[s]) <= seq'[s]
      /\ \A i \in DOMAIN frames'[s] :
            /\ frames'[s][i].id = seq'[s] - Len(frames'[s]) + i
            /\ \/ \E j \in DOMAIN frames[s] : frames'[s][i] = frames[s][j]
               \/ \E n \in DOMAIN built : frames'[s][i] = built[n]
      /\ \A t, a, x : LastFrame(frames[s] \o built, t, a, x) => LastFrame(frames'[s], t, a, x)
  BY <1>0, FlushIs
<1>2. /\ wire' = [v \in Viewer |-> IF conn[v] /\ ShardForConnection(v) = s
                                   THEN wire[v] \o For(v, built) ELSE wire[v]]
      /\ UNCHANGED <<db, accepted, conn, cursor, shows, doubt, former, breaks, call>>
  BY DEF Flush
<1>3. /\ \A n \in DOMAIN built : Fits(built[n])
      /\ \A t \in Thing : \A a \in AudiencesOf(t) :
            /\ LastFrame(built, t, a, accepted[s][t])
            /\ Concerns(pending[s], t, a) => Tells(built, t, a)
  BY BuiltSays
<1> HIDE DEF built
<1>4. wire' \in [Viewer -> Seq(Message)]
  <2>1. ASSUME NEW v \in Viewer
        PROVE  wire[v] \in Seq(Message) /\ wire[v] \o For(v, built) \in Seq(Message)
    <3>1. wire[v] \in Seq(Message)
      BY <1>0 DEF TypeInv
    <3>2. For(v, built) \in Seq(Message)
      BY <1>1, ForIs
    <3> QED BY <3>1, <3>2
  <2> QED BY <1>2, <2>1
<1>5. /\ pending' \in [Shard -> Seq(Delta)] /\ pending'[s] = <<>>
      /\ seq' \in [Shard -> Nat] /\ frames' \in [Shard -> Seq(Frame)]
      /\ \A u \in Shard : u # s => /\ pending'[u] = pending[u] /\ seq'[u] = seq[u]
                                   /\ frames'[u] = frames[u]
  <2>1. seq[s] + Len(built) \in Nat
    <3>1. seq[s] \in Nat /\ Len(built) \in Nat
      BY <1>0, <1>1 DEF TypeInv
    <3> QED BY <3>1
  <2> DEFINE kept == frames'[s]
             n == seq[s] + Len(built)
  <2>2. /\ pending' = [pending EXCEPT ![s] = <<>>] /\ <<>> \in Seq(Delta)
        /\ seq' = [seq EXCEPT ![s] = n] /\ n \in Nat
        /\ frames' = [frames EXCEPT ![s] = kept] /\ kept \in Seq(Frame)
    BY <1>1, <2>1
  <2> HIDE DEF kept, n
  <2> QED BY <1>0, <2>2 DEF TypeInv
<1>6. LiveTypeOK'
  <2>1. \A u \in Shard :
          /\ \A i \in DOMAIN pending'[u] : pending'[u][i] \in Delta
          /\ Len(frames'[u]) <= MaxFrames
          /\ \A i \in DOMAIN frames'[u] : frames'[u][i] \in Frame
                  /\ frames'[u][i].id = seq'[u] - Len(frames'[u]) + i
    <3> SUFFICES ASSUME NEW u \in Shard
                 PROVE  /\ \A i \in DOMAIN pending'[u] : pending'[u][i] \in Delta
                        /\ Len(frames'[u]) <= MaxFrames
                        /\ \A i \in DOMAIN frames'[u] : frames'[u][i] \in Frame
                                /\ frames'[u][i].id = seq'[u] - Len(frames'[u]) + i
      OBVIOUS
    <3>1. CASE u = s
      BY <1>1, <1>5, <3>1
    <3>2. CASE u # s
      BY <1>0, <1>5, <3>2 DEF TypeInv, LiveTypeOK
    <3> QED BY <3>1, <3>2
  <2>2. \A v \in Viewer : \A i \in DOMAIN wire'[v] : wire'[v][i] \in Message
    BY <1>4
  <2>3. UNCHANGED <<db, accepted, conn, cursor, shows, doubt, former, breaks, call, crowd>>
    BY <1>2
  <2> QED BY <1>0, <2>1, <2>2, <2>3 DEF TypeInv, LiveTypeOK
<1>7. TypeInv'
  <2>1. \A u \in Shard : Len(frames'[u]) <= seq'[u]
    BY <1>0, <1>1, <1>5 DEF TypeInv
  <2> QED BY <1>4, <1>5, <1>6, <2>1 DEF TypeInv
<1>8. ShardInv(s)'
  <2>0. ShardInv(s)
    BY DEF HubInv
  <2>1. frames[s] \in Seq(Frame)
    BY <1>0 DEF TypeInv
  <2>2. ASSUME NEW i \in DOMAIN frames'[s]
        PROVE  Fits(frames'[s][i])
    BY <1>1, <1>3, <2>0 DEF ShardInv
  <2>3. ASSUME NEW t \in Thing, NEW a \in AudiencesOf(t)
        PROVE  LastFrame(frames'[s], t, a, accepted[s][t])
    <3>1. LastFrame(built, t, a, accepted[s][t])
          /\ (Concerns(pending[s], t, a) => Tells(built, t, a))
      BY <1>3
    <3>2. Concerns(pending[s], t, a) \/ LastFrame(frames[s], t, a, accepted[s][t])
      BY <2>0 DEF ShardInv
    <3>3. LastFrame(frames[s] \o built, t, a, accepted[s][t])
      BY <1>1, <2>1, <3>1, <3>2, LastFrameAppended
    <3> QED BY <1>1, <3>3
  <2>4. \A t, a, n : LastDelta(<<>>, t, a, n)
    BY DEF LastDelta
  <2>5. pending'[s] = <<>> /\ accepted' = accepted /\ db' = db
    BY <1>2, <1>5
  <2>6. \A i \in DOMAIN pending'[s] :
            pending'[s][i].audience \in AudiencesOf(pending'[s][i].thing)
    BY <2>5
  <2> QED BY <2>0, <2>2, <2>3, <2>4, <2>5, <2>6 DEF ShardInv
<1>9. ASSUME NEW u \in Shard, u # s
      PROVE  ShardInv(u)'
  <2>1. ShardInv(u) /\ pending'[u] = pending[u] /\ frames'[u] = frames[u]
        /\ accepted' = accepted /\ db' = db
    BY <1>2, <1>5, <1>9 DEF HubInv
  <2> QED BY <2>1 DEF ShardInv
<1>10. CallInv'
  <2>1. call' = call /\ db' = db
    BY <1>2
  <2> QED BY <2>1 DEF HubInv, CallInv, Together, At
<1> QED BY <1>7, <1>8, <1>9, <1>10 DEF HubInv

-----------------------------------------------------------------------------
(* The streams.                                                             *)

LEMMA HelloIs ==
    ASSUME TypeInv, NEW s \in Shard
    PROVE  /\ Hello(s) \in Message /\ SyncRequired(s) \in Message
           /\ Hello(s).kind = "HELLO" /\ SyncRequired(s).kind = "SYNC_REQUIRED"
           /\ Hello(s).id = seq[s] /\ SyncRequired(s).id = seq[s]
           /\ Hello(s).news = Nothing /\ SyncRequired(s).news = Nothing
           /\ \A t \in Thing : \A a : ~About(Hello(s), t, a) /\ ~About(SyncRequired(s), t, a)
<1>1. seq[s] \in Nat
  BY FramesAre
<1>2. Nothing \in Content
  <2>1. MaxVersion \in Nat
    BY LiveAssumption
  <2> QED BY <2>1 DEF Nothing, Content
<1>3. ALL \in Audience
  BY DEF Audience
<1>4. \A t \in Thing : Nothing[t] = 0
  BY DEF Nothing
<1> QED BY <1>1, <1>2, <1>3, <1>4 DEF Hello, SyncRequired, Message, About

\* What a stream starts with.
LEMMA BacklogIs ==
    ASSUME TypeInv, NEW v \in Viewer, NEW s \in Shard
    PROVE  LET w == BuildConnectBacklog(v, s) IN
           /\ w \in Seq(Message) /\ Shape(w) /\ w # <<>> /\ w[1].kind = "HELLO"
           /\ \A i \in DOMAIN w :
                 /\ w[i].id <= seq[s]
                 /\ w[i].kind = "frame" =>
                       /\ w[i].audience \in Entitled(v) /\ w[i].id > cursor[v]
                       /\ \E j \in DOMAIN frames[s] :
                             /\ w[i].id = frames[s][j].id
                             /\ w[i].audience = frames[s][j].audience
                             /\ w[i].news = frames[s][j].news
                 /\ w[i].kind = "SYNC_REQUIRED" => Expired(v, s)
           /\ \A t \in Thing, a \in Entitled(v) :
                 /\ \A x : LastFrame(frames[s], t, a, x) => LastFrame(w, t, a, x)
                 /\ \/ cursor[v] = NoCursor
                    \/ \E i \in DOMAIN w : w[i].kind = "SYNC_REQUIRED"
                    \/ (\E j \in DOMAIN frames[s] :
                           About(frames[s][j], t, a) /\ frames[s][j].id > cursor[v])
                          => Tells(w, t, a)
           /\ cursor[v] # NoCursor /\ Expired(v, s) =>
                 \E i \in DOMAIN w : w[i].kind = "SYNC_REQUIRED"
<1> DEFINE w == BuildConnectBacklog(v, s)
           h == Hello(s)
           y == SyncRequired(s)
<1>1. /\ h \in Message /\ y \in Message /\ h.kind = "HELLO" /\ y.kind = "SYNC_REQUIRED"
      /\ h.id = seq[s] /\ y.id = seq[s] /\ h.news = Nothing /\ y.news = Nothing
      /\ \A t \in Thing : \A a : ~About(h, t, a) /\ ~About(y, t, a)
  BY HelloIs
<1>2. /\ seq[s] \in Nat /\ frames[s] \in Seq(Frame) /\ Increasing(frames[s])
      /\ First(s) \in Nat
      /\ \A i \in DOMAIN frames[s] : frames[s][i].id \in First(s) .. seq[s]
  BY FramesAre
<1>3. cursor[v] \in Int
  BY DEF TypeInv, LiveTypeOK, NoCursor
<1> HIDE DEF h, y
<1>4. /\ <<h>> \in Seq(Message) /\ Shape(<<h>>) /\ Len(<<h>>) = 1
      /\ DOMAIN <<h>> = {1} /\ <<h>>[1] = h
  <2>1. <<h>> \in Seq(Message) /\ DOMAIN <<h>> = {1} /\ <<h>>[1] = h /\ Len(<<h>>) = 1
    BY <1>1
  <2> QED BY <1>1, <2>1 DEF Shape
<1>5. CASE cursor[v] = NoCursor
  <2>1. w = <<h>>
    BY <1>5 DEF BuildConnectBacklog, h
  <2>2. \A t \in Thing, a \in Entitled(v) : \A x : LastFrame(w, t, a, x)
    BY <1>1, <1>4, <2>1 DEF LastFrame
  <2> HIDE DEF w
  <2>3. \A i \in DOMAIN w : w[i] = h
    BY <1>4, <2>1
  <2>4. seq[s] <= seq[s]
    BY <1>2
  <2> QED BY <1>1, <1>4, <1>5, <2>1, <2>2, <2>3, <2>4 DEF w
<1>6. CASE cursor[v] # NoCursor /\ Expired(v, s)
  <2>1. w = <<h, y>>
    BY <1>6 DEF BuildConnectBacklog, h, y
  <2> HIDE DEF w
  <2>2. w \in Seq(Message) /\ DOMAIN w = {1, 2} /\ w[1] = h /\ w[2] = y /\ w # <<>>
    BY <1>1, <2>1
  <2>3. Shape(w)
    BY <1>1, <2>2 DEF Shape
  <2>4. \A t \in Thing, a \in Entitled(v) : \A x : LastFrame(w, t, a, x)
    BY <1>1, <2>2 DEF LastFrame
  <2>5. seq[s] <= seq[s]
    BY <1>2
  <2> QED BY <1>1, <1>6, <2>2, <2>3, <2>4, <2>5 DEF w
<1>7. CASE cursor[v] # NoCursor /\ ~Expired(v, s)
  <2> DEFINE r == Chosen(frames[s], {i \in DOMAIN frames[s] : frames[s][i].id > cursor[v]})
             ms == For(v, r)
  <2>1. w = <<h>> \o ms
    BY <1>7 DEF BuildConnectBacklog, h
  <2>2. /\ r \in Seq(Frame) /\ Increasing(r)
        /\ \A k \in DOMAIN r : r[k].id > cursor[v] /\ \E i \in DOMAIN frames[s] : r[k] = frames[s][i]
        /\ \A i \in DOMAIN frames[s] : frames[s][i].id > cursor[v] =>
              \E k \in DOMAIN r : r[k] = frames[s][i]
        /\ \A t, a, x : LastFrame(frames[s], t, a, x) => LastFrame(r, t, a, x)
    BY <1>2, <1>3, ReplayIs
  <2> HIDE DEF r
  <2>3. /\ ms \in Seq(Message) /\ Increasing(ms)
        /\ \A n \in DOMAIN ms :
              /\ ms[n].kind = "frame" /\ ms[n].audience \in Entitled(v)
              /\ \E i \in DOMAIN r : /\ ms[n].id = r[i].id
                                     /\ ms[n].audience = r[i].audience
                                     /\ ms[n].news = r[i].news
        /\ \A t \in Thing, a \in Entitled(v) :
              /\ Tells(r, t, a) <=> Tells(ms, t, a)
              /\ \A x : LastFrame(r, t, a, x) => LastFrame(ms, t, a, x)
    BY <2>2, ForIs
  <2> HIDE DEF ms, w
  <2>4. \A j \in DOMAIN ms : ms[j].kind = "frame"
    BY <2>3
  <2>5. \A i \in DOMAIN <<h>>, j \in DOMAIN ms : <<h>>[i].kind = "frame" => <<h>>[i].id < ms[j].id
    BY <1>1, <1>4
  <2>6. /\ w \in Seq(Message) /\ Shape(w) /\ Len(w) = Len(<<h>>) + Len(ms)
        /\ \A i \in DOMAIN <<h>> : i \in DOMAIN w /\ w[i] = <<h>>[i]
        /\ \A i \in DOMAIN w : \/ i \in DOMAIN <<h>>
                               \/ \E j \in DOMAIN ms : i = Len(<<h>>) + j
        /\ \A j \in DOMAIN ms : Len(<<h>>) + j \in DOMAIN w /\ w[Len(<<h>>) + j] = ms[j]
    BY <1>4, <2>1, <2>3, <2>4, <2>5, ShapeAppended
  <2>7. w # <<>> /\ w[1] = h /\ 1 \in DOMAIN w
    BY <1>4, <2>6
  <2>8. ASSUME NEW i \in DOMAIN w
        PROVE  w[i] = h \/ \E j \in DOMAIN ms : w[i] = ms[j]
    BY <1>4, <2>6
  <2>9. ASSUME NEW j \in DOMAIN ms
        PROVE  /\ ms[j].id <= seq[s] /\ ms[j].id > cursor[v] /\ ms[j].audience \in Entitled(v)
               /\ \E i \in DOMAIN frames[s] : /\ ms[j].id = frames[s][i].id
                                              /\ ms[j].audience = frames[s][i].audience
                                              /\ ms[j].news = frames[s][i].news
    <3>1. PICK k \in DOMAIN r : ms[j].id = r[k].id /\ ms[j].audience = r[k].audience
                                /\ ms[j].news = r[k].news
      BY <2>3
    <3>2. PICK i \in DOMAIN frames[s] : r[k] = frames[s][i]
      BY <2>2
    <3>3. frames[s][i].id \in First(s) .. seq[s]
      BY <1>2
    <3>4. ms[j].id <= seq[s]
      BY <1>2, <3>1, <3>2, <3>3
    <3> QED BY <2>2, <2>3, <3>1, <3>2, <3>4
  <2>10. ASSUME NEW i \in DOMAIN w
         PROVE  /\ w[i].id <= seq[s]
                /\ w[i].kind = "frame" =>
                      /\ w[i].audience \in Entitled(v) /\ w[i].id > cursor[v]
                      /\ \E j \in DOMAIN frames[s] :
                            /\ w[i].id = frames[s][j].id
                            /\ w[i].audience = frames[s][j].audience
                            /\ w[i].news = frames[s][j].news
                /\ w[i].kind # "SYNC_REQUIRED"
    <3>1. CASE w[i] = h
      <4>1. seq[s] <= seq[s]
        BY <1>2
      <4> QED BY <1>1, <3>1, <4>1
    <3>2. ASSUME NEW j \in DOMAIN ms, w[i] = ms[j]
          PROVE  /\ w[i].id <= seq[s]
                 /\ w[i].kind = "frame" =>
                       /\ w[i].audience \in Entitled(v) /\ w[i].id > cursor[v]
                       /\ \E k \in DOMAIN frames[s] :
                             /\ w[i].id = frames[s][k].id
                             /\ w[i].audience = frames[s][k].audience
                             /\ w[i].news = frames[s][k].news
                 /\ w[i].kind # "SYNC_REQUIRED"
      BY <2>4, <2>9, <3>2
    <3> QED BY <2>8, <3>1, <3>2
  <2>11. ASSUME NEW t \in Thing, NEW a \in Entitled(v)
         PROVE  /\ \A x : LastFrame(frames[s], t, a, x) => LastFrame(w, t, a, x)
                /\ (\E j \in DOMAIN frames[s] :
                       About(frames[s][j], t, a) /\ frames[s][j].id > cursor[v])
                      => Tells(w, t, a)
    <3>1. \A x : LastFrame(<<h>>, t, a, x)
      BY <1>1, <1>4 DEF LastFrame
    <3>2. ASSUME NEW x, LastFrame(ms, t, a, x)
          PROVE  LastFrame(w, t, a, x) /\ (Tells(ms, t, a) => Tells(w, t, a))
      BY <1>4, <2>1, <2>3, <3>1, <3>2, LastFrameAppended
    <3>3. Tells(ms, t, a) => Tells(w, t, a)
      BY <2>6 DEF Tells
    <3>4. ASSUME NEW j \in DOMAIN frames[s], About(frames[s][j], t, a), frames[s][j].id > cursor[v]
          PROVE  Tells(w, t, a)
      <4>1. Tells(r, t, a)
        BY <2>2, <3>4 DEF Tells
      <4> QED BY <2>3, <3>3, <4>1
    <3> QED BY <2>2, <2>3, <3>2, <3>4
  <2> QED BY <1>1, <1>7, <2>6, <2>7, <2>10, <2>11 DEF w
<1> QED BY <1>5, <1>6, <1>7

\* Nothing of the tables, the shards or the requests changes.
LEMMA ScreensKeep ==
    ASSUME HubInv, UNCHANGED <<db, hubVars, call>>, TypeInv'
    PROVE  HubInv'
<1>1. pending' = pending /\ frames' = frames /\ accepted' = accepted /\ db' = db /\ call' = call
  BY DEF hubVars
<1>2. CallInv'
  BY <1>1 DEF HubInv, CallInv, Together, At
<1>3. \A s \in Shard : ShardInv(s)'
  BY <1>1 DEF HubInv, ShardInv
<1> QED BY <1>2, <1>3 DEF HubInv

LEMMA ConnectHub ==
    ASSUME HubInv, NEW v \in Viewer, Connect(v), UNCHANGED crowd
    PROVE  HubInv'
<1> DEFINE w == BuildConnectBacklog(v, ShardForConnection(v))
<1>1. /\ conn' = [conn EXCEPT ![v] = TRUE] /\ wire' = [wire EXCEPT ![v] = w]
      /\ doubt' \subseteq doubt \cup {v}
      /\ UNCHANGED <<db, hubVars, cursor, shows, former, breaks, call>>
  BY DEF Connect
<1>2. w \in Seq(Message)
  <2>1. ShardForConnection(v) \in Shard
    BY KitchensIs
  <2> QED BY <2>1, BacklogIs DEF HubInv
<1> HIDE DEF w
<1>3. wire' \in [Viewer -> Seq(Message)]
  BY <1>1, <1>2 DEF HubInv, TypeInv
<1>4. conn' \in [Viewer -> BOOLEAN]
  BY <1>1 DEF HubInv, TypeInv, LiveTypeOK
<1>5. TypeInv'
  <2>1. \A u \in Viewer : \A i \in DOMAIN wire'[u] : wire'[u][i] \in Message
    BY <1>3
  <2>2. doubt' \subseteq Viewer
    BY <1>1 DEF HubInv, TypeInv, LiveTypeOK
  <2> QED BY <1>1, <1>3, <1>4, <2>1, <2>2 DEF HubInv, TypeInv, LiveTypeOK, hubVars
<1> QED BY <1>1, <1>5, ScreensKeep

\* The first message of a stream is taken from it.
LEMMA ReceiveIs ==
    ASSUME TypeInv, NEW v \in Viewer, Receive(v)
    PROVE  LET m == wire[v][1]
               fetches == m.kind = "SYNC_REQUIRED" \/ cursor[v] = NoCursor
           IN  /\ wire[v] # <<>> /\ m \in Message
               /\ wire' = [wire EXCEPT ![v] = Tail(wire[v])]
               /\ cursor' = [cursor EXCEPT ![v] = m.id]
               /\ \A u \in Viewer : u # v => shows'[u] = shows[u]
               /\ \A t \in Thing :
                     shows'[v][t] = IF fetches \/ (t \in OnMenu /\ m.news[Menu] > 0) THEN db[t]
                                    ELSE IF m.news[t] > 0 THEN m.news[t] ELSE shows[v][t]
               /\ shows' \in [Viewer -> [Thing -> 0 .. MaxVersion]]
               /\ doubt' = IF fetches THEN doubt \ {v} ELSE doubt
               /\ former' = former \ {v}
               /\ UNCHANGED <<db, hubVars, conn, breaks, call>>
<1> DEFINE m == wire[v][1]
           fetches == m.kind = "SYNC_REQUIRED" \/ cursor[v] = NoCursor
           value(t) == IF fetches \/ (t \in OnMenu /\ m.news[Menu] > 0) THEN db[t]
                       ELSE IF m.news[t] > 0 THEN m.news[t] ELSE shows[v][t]
<1>1. wire[v] # <<>> /\ wire[v] \in Seq(Message)
  BY DEF Receive, TypeInv
<1>2. Head(wire[v]) = m /\ m \in Message
  BY <1>1
<1>3. /\ wire' = [wire EXCEPT ![v] = Tail(wire[v])]
      /\ cursor' = [cursor EXCEPT ![v] = m.id]
      /\ shows' = [shows EXCEPT ![v] = [t \in Thing |-> value(t)]]
      /\ doubt' = IF fetches THEN doubt \ {v} ELSE doubt
      /\ former' = former \ {v}
      /\ UNCHANGED <<db, hubVars, conn, breaks, call>>
  BY <1>2 DEF Receive, Patched
<1>4. \A t \in Thing : value(t) \in 0 .. MaxVersion
  <2>1. m.news \in [Thing -> 0 .. MaxVersion]
    BY <1>2 DEF Message, Content
  <2> HIDE DEF m
  <2>2. db \in [Thing -> 0 .. MaxVersion] /\ shows[v] \in [Thing -> 0 .. MaxVersion]
    BY DEF TypeInv, LiveTypeOK
  <2> QED BY <2>1, <2>2
<1>5. shows \in [Viewer -> [Thing -> 0 .. MaxVersion]]
  BY DEF TypeInv, LiveTypeOK
<1> HIDE DEF value
<1>6. shows' \in [Viewer -> [Thing -> 0 .. MaxVersion]]
      /\ (\A u \in Viewer : u # v => shows'[u] = shows[u])
      /\ \A t \in Thing : shows'[v][t] = value(t)
  BY <1>3, <1>4, <1>5
<1> QED BY <1>1, <1>2, <1>3, <1>6 DEF value

LEMMA ReceiveHub ==
    ASSUME HubInv, NEW v \in Viewer, Receive(v), UNCHANGED crowd
    PROVE  HubInv'
<1>0. TypeInv
  BY DEF HubInv
<1>1. /\ wire[v] # <<>> /\ wire[v][1] \in Message
      /\ wire' = [wire EXCEPT ![v] = Tail(wire[v])]
      /\ cursor' = [cursor EXCEPT ![v] = wire[v][1].id]
      /\ shows' \in [Viewer -> [Thing -> 0 .. MaxVersion]]
      /\ doubt' \subseteq doubt /\ former' \subseteq former
      /\ UNCHANGED <<db, hubVars, conn, breaks, call>>
  BY <1>0, ReceiveIs
<1>2. wire' \in [Viewer -> Seq(Message)]
  <2> DEFINE w == Tail(wire[v])
  <2>1. w \in Seq(Message)
    BY <1>0, <1>1 DEF TypeInv
  <2>2. wire' = [wire EXCEPT ![v] = w]
    BY <1>1
  <2> HIDE DEF w
  <2> QED BY <1>0, <2>1, <2>2 DEF TypeInv
<1>3. cursor' \in [Viewer -> Nat \cup {NoCursor}]
  <2>1. wire[v][1].id \in Nat
    BY <1>1 DEF Message
  <2> QED BY <1>0, <1>1, <2>1 DEF TypeInv, LiveTypeOK
<1>4. TypeInv'
  <2>1. \A u \in Viewer : \A i \in DOMAIN wire'[u] : wire'[u][i] \in Message
    BY <1>2
  <2>2. doubt' \subseteq Viewer /\ former' \subseteq Viewer
    BY <1>0, <1>1 DEF TypeInv, LiveTypeOK
  <2> QED BY <1>0, <1>1, <1>2, <1>3, <2>1, <2>2 DEF TypeInv, LiveTypeOK, hubVars
<1> QED BY <1>1, <1>4, ScreensKeep

LEMMA LoseHub ==
    ASSUME HubInv, NEW v \in Viewer, Lose(v), UNCHANGED crowd
    PROVE  HubInv'
<1>0. TypeInv
  BY DEF HubInv
<1>1. /\ breaks < MaxBreaks /\ breaks' = breaks + 1
      /\ conn' = [conn EXCEPT ![v] = FALSE] /\ wire' = [wire EXCEPT ![v] = <<>>]
      /\ doubt' \subseteq doubt \cup {v}
      /\ UNCHANGED <<db, hubVars, cursor, shows, former, call>>
  BY DEF Lose
<1>2. wire' \in [Viewer -> Seq(Message)] /\ conn' \in [Viewer -> BOOLEAN]
  BY <1>0, <1>1 DEF TypeInv, LiveTypeOK
<1>3. breaks' \in 0 .. MaxBreaks
  <2>1. MaxBreaks \in Nat /\ breaks \in 0 .. MaxBreaks
    BY <1>0, LiveAssumption DEF TypeInv, LiveTypeOK
  <2> QED BY <1>1, <2>1
<1>4. TypeInv'
  <2>1. \A u \in Viewer : \A i \in DOMAIN wire'[u] : wire'[u][i] \in Message
    BY <1>2
  <2>2. doubt' \subseteq Viewer
    BY <1>0, <1>1 DEF TypeInv, LiveTypeOK
  <2> QED BY <1>0, <1>1, <1>2, <1>3, <2>1, <2>2 DEF TypeInv, LiveTypeOK, hubVars
<1> QED BY <1>1, <1>4, ScreensKeep

\* A shard that has just started.
LEMMA EmptyShard ==
    ASSUME NEW S, NEW t, NEW a, NEW n
    PROVE  LastDelta(<<>>, t, a, n) /\ LastFrame(<<>>, t, a, n) /\ Len(<<>>) = 0
           /\ <<>> \in Seq(S) /\ \A i \in DOMAIN <<>> : FALSE
BY DEF LastDelta, LastFrame

LEMMA InitHub == Init => HubInv
<1> SUFFICES ASSUME Init PROVE HubInv
  OBVIOUS
<1>0. MaxVersion \in Nat \ {0} /\ MaxBreaks \in Nat /\ MaxFrames \in Nat
  BY LiveAssumption
<1>1. TypeInv
  <2>1. Nothing \in [Thing -> 0 .. MaxVersion]
    BY <1>0 DEF Nothing
  <2>2. NoneAccepted \in [Shard -> [Thing -> 0 .. MaxVersion]]
    BY <1>0 DEF NoneAccepted, Nothing
  <2>3. pending \in [Shard -> Seq(Delta)] /\ frames \in [Shard -> Seq(Frame)]
        /\ seq \in [Shard -> Nat] /\ wire \in [Viewer -> Seq(Message)]
    BY DEF Init
  <2>4. \A s \in Shard : pending[s] = <<>> /\ frames[s] = <<>> /\ seq[s] = 0
    BY DEF Init
  <2>5. \A v \in Viewer : wire[v] = <<>>
    BY DEF Init
  <2>6. LiveTypeOK
    <3>0. PICK orders \in SUBSET Order : db = Placed(orders)
      BY DEF Init
    <3>1. /\ db \in [Thing -> 0 .. MaxVersion]
          /\ accepted \in [Shard -> [Thing -> 0 .. MaxVersion]]
          /\ shows \in [Viewer -> [Thing -> 0 .. MaxVersion]]
      BY <1>0, <2>1, <2>2, <3>0 DEF Init, Placed
    <3>2. /\ conn \in [Viewer -> BOOLEAN] /\ cursor \in [Viewer -> Nat \cup {NoCursor}]
          /\ doubt \subseteq Viewer /\ former \subseteq Viewer
          /\ breaks \in 0 .. MaxBreaks /\ crowd \in Crowds
      BY <1>0 DEF Init
    <3>3. \A s \in Shard :
            /\ \A i \in DOMAIN pending[s] : pending[s][i] \in Delta
            /\ Len(frames[s]) <= MaxFrames
            /\ \A i \in DOMAIN frames[s] : frames[s][i] \in Frame
                    /\ frames[s][i].id = seq[s] - Len(frames[s]) + i
      <4> SUFFICES ASSUME NEW s \in Shard
                   PROVE  /\ \A i \in DOMAIN pending[s] : FALSE
                          /\ Len(frames[s]) <= MaxFrames
                          /\ \A i \in DOMAIN frames[s] : FALSE
        OBVIOUS
      <4>1. Len(frames[s]) = 0
        BY <2>4, EmptyShard
      <4> QED BY <1>0, <2>4, <4>1
    <3>4. \A v \in Viewer : \A i \in DOMAIN wire[v] : wire[v][i] \in Message
      BY <2>5
    <3> QED BY <3>1, <3>2, <3>3, <3>4 DEF LiveTypeOK
  <2> QED BY <2>3, <2>4, <2>6 DEF TypeInv
<1>2. CallInv
  <2>1. \A c \in Caller : call[c] = Idle
    BY DEF Init
  <2>2. call \in [Caller -> {Idle, Done} \cup Emitting]
    BY DEF Init
  <2>3. PICK orders \in SUBSET Order : db = Placed(orders)
    BY DEF Init
  <2>4. ASSUME NEW o \in Order
        PROVE  db[Row("ORDER_STATUS", o)] = 0 /\ db[Own(o)] = 0
    BY <2>3, ThingsDiffer DEF Placed
  <2> QED BY <2>1, <2>2, <2>4 DEF CallInv, Together, At, Idle
<1>3. ASSUME NEW s \in Shard PROVE ShardInv(s)
  <2>1. pending[s] = <<>> /\ frames[s] = <<>>
        /\ \A t \in Thing : \A a \in AudiencesOf(t) : accepted[s][t] = 0
    BY DEF Init, NoneAccepted, Nothing
  <2>2. \A t \in Thing : 0 <= db[t]
    BY DEF Init, Placed
  <2> QED BY <2>1, <2>2, EmptyShard DEF ShardInv
<1> QED BY <1>1, <1>2, <1>3 DEF HubInv

LEMMA RestartHub ==
    ASSUME HubInv, Restart, UNCHANGED crowd
    PROVE  HubInv'
<1>0. TypeInv /\ CallInv /\ MaxVersion \in Nat /\ MaxBreaks \in Nat /\ MaxFrames \in Nat
  BY LiveAssumption DEF HubInv
<1>1. /\ breaks < MaxBreaks /\ breaks' = breaks + 1
      /\ pending' = [s \in Shard |-> <<>>] /\ seq' = [s \in Shard |-> 0]
      /\ frames' = [s \in Shard |-> <<>>] /\ accepted' = NoneAccepted
      /\ conn' = [v \in Viewer |-> FALSE] /\ wire' = [v \in Viewer |-> <<>>]
      /\ doubt' \subseteq doubt \cup Viewer /\ former' \subseteq Viewer
      /\ call' = [c \in Caller |-> IF At(c, "emit") THEN Done ELSE call[c]]
      /\ UNCHANGED <<db, cursor, shows>>
  BY DEF Restart
<1>2. TypeInv'
  <2>1. accepted' \in [Shard -> [Thing -> 0 .. MaxVersion]]
    BY <1>0, <1>1 DEF NoneAccepted, Nothing
  <2>2. pending' \in [Shard -> Seq(Delta)] /\ frames' \in [Shard -> Seq(Frame)]
        /\ seq' \in [Shard -> Nat] /\ wire' \in [Viewer -> Seq(Message)]
    BY <1>1
  <2>3. \A s \in Shard : pending'[s] = <<>> /\ frames'[s] = <<>> /\ seq'[s] = 0
    BY <1>1
  <2>4. \A v \in Viewer : wire'[v] = <<>>
    BY <1>1
  <2>5. /\ breaks' \in 0 .. MaxBreaks /\ conn' \in [Viewer -> BOOLEAN]
        /\ doubt' \subseteq Viewer /\ former' \subseteq Viewer
    BY <1>0, <1>1 DEF TypeInv, LiveTypeOK
  <2>6. /\ db' \in [Thing -> 0 .. MaxVersion]
        /\ cursor' \in [Viewer -> Nat \cup {NoCursor}]
        /\ shows' \in [Viewer -> [Thing -> 0 .. MaxVersion]] /\ crowd' \in Crowds
    BY <1>0, <1>1 DEF TypeInv, LiveTypeOK
  <2>7. LiveTypeOK'
    <3>3. \A s \in Shard :
            /\ \A i \in DOMAIN pending'[s] : pending'[s][i] \in Delta
            /\ Len(frames'[s]) <= MaxFrames
            /\ \A i \in DOMAIN frames'[s] : frames'[s][i] \in Frame
                    /\ frames'[s][i].id = seq'[s] - Len(frames'[s]) + i
      <4> SUFFICES ASSUME NEW s \in Shard
                   PROVE  /\ \A i \in DOMAIN pending'[s] : FALSE
                          /\ Len(frames'[s]) <= MaxFrames
                          /\ \A i \in DOMAIN frames'[s] : FALSE
        OBVIOUS
      <4>1. Len(frames'[s]) = 0
        BY <2>3, EmptyShard
      <4> QED BY <1>0, <2>3, <4>1
    <3>4. \A v \in Viewer : \A i \in DOMAIN wire'[v] : wire'[v][i] \in Message
      BY <2>4
    <3> QED BY <2>1, <2>5, <2>6, <3>3, <3>4 DEF LiveTypeOK
  <2> QED BY <2>2, <2>3, <2>7 DEF TypeInv
<1>3. CallInv'
  <2>1. call' \in [Caller -> {Idle, Done} \cup Emitting]
    BY <1>0, <1>1 DEF CallInv
  <2>2. \A c \in Caller : call'[c].stage # "emit"
    BY <1>1 DEF At, Done
  <2>3. Together'
    BY <1>0, <1>1 DEF CallInv, Together
  <2> QED BY <2>1, <2>2, <2>3 DEF CallInv, At
<1>4. ASSUME NEW s \in Shard PROVE ShardInv(s)'
  <2>1. pending'[s] = <<>> /\ frames'[s] = <<>>
        /\ \A t \in Thing : \A a \in AudiencesOf(t) : accepted'[s][t] = 0
    BY <1>1 DEF NoneAccepted, Nothing
  <2>2. \A t \in Thing : 0 <= db'[t]
    <3>1. \A t \in Thing : db'[t] \in 0 .. MaxVersion
      BY <1>0, <1>1 DEF TypeInv, LiveTypeOK
    <3> QED BY <1>0, <3>1
  <2> QED BY <2>1, <2>2, EmptyShard DEF ShardInv
<1> QED BY <1>2, <1>3, <1>4 DEF HubInv

\* The next-state relation, step by step.
LEMMA NextIs ==
    ASSUME Next
    PROVE  /\ UNCHANGED crowd
           /\ \/ \E c \in Caller :
                    \/ \E o \in Order :
                          \/ CreateOrder(c, o) \/ CancelOrder(c, o) \/ OpenOrder(c, o)
                          \/ \E delivered \in BOOLEAN : UpdateOrderStatus(c, o, delivered)
                    \/ \E i \in Item : EditItem(c, i)
              \/ \E c \in Caller : ReadStock(c) \/ Aborts(c) \/ \E s \in Shard : Emit(c, s)
              \/ \E s \in Shard : Flush(s)
              \/ \E v \in crowd : Connect(v) \/ Receive(v) \/ Lose(v)
              \/ Restart
BY DEF Next, Routes, Screen

LEMMA CrowdIs ==
    ASSUME TypeInv
    PROVE  crowd \subseteq Viewer
BY LiveAssumption DEF TypeInv, LiveTypeOK

LEMMA NextHub ==
    ASSUME HubInv, [Next]_vars
    PROVE  HubInv'
<1>1. CASE UNCHANGED vars
  <2>1. TypeInv'
    BY <1>1 DEF HubInv, TypeInv, LiveTypeOK, vars, hubVars, clientVars
  <2> QED BY <1>1, <2>1, ScreensKeep DEF vars
<1>2. CASE Next
  <2>1. UNCHANGED crowd
    BY <1>2, NextIs
  <2>2. ASSUME NEW c \in Caller,
               \/ \E o \in Order :
                     \/ CreateOrder(c, o) \/ CancelOrder(c, o) \/ OpenOrder(c, o)
                     \/ \E delivered \in BOOLEAN : UpdateOrderStatus(c, o, delivered)
               \/ \E i \in Item : EditItem(c, i)
        PROVE  HubInv'
    BY <2>1, <2>2, RouteHub
  <2>3. ASSUME NEW c \in Caller, ReadStock(c) \/ Aborts(c) \/ \E s \in Shard : Emit(c, s)
        PROVE  HubInv'
    BY <2>1, <2>3, ReadStockHub, AbortsHub, EmitHub
  <2>4. ASSUME NEW v \in crowd, Connect(v) \/ Receive(v) \/ Lose(v)
        PROVE  HubInv'
    <3>1. v \in Viewer
      BY CrowdIs DEF HubInv
    <3> QED BY <2>1, <2>4, <3>1, ConnectHub, ReceiveHub, LoseHub
  <2> QED BY <1>2, <2>1, <2>2, <2>3, <2>4, NextIs, FlushHub, RestartHub
<1> QED BY <1>1, <1>2

\* The hub's memory and the streams keep their shape, frames are retained up to
\* the limit and numbered without a gap, whatever is lost or restarted.
THEOREM LiveTypes == Spec => []LiveTypeOK
<1>1. Init => HubInv
  BY InitHub
<1>2. HubInv /\ [Next]_vars => HubInv'
  BY NextHub
<1>3. HubInv => LiveTypeOK
  BY DEF HubInv, TypeInv
<1> QED BY <1>1, <1>2, <1>3, PTL DEF Spec

-----------------------------------------------------------------------------
(* The screens.                                                             *)

\* The stream of a screen that neither receives nor is written to, on a shard
\* that at most queues something.
LEMMA ViewKept ==
    ASSUME NEW v \in Viewer, NEW s \in Shard, s = ShardForConnection(v), WireInv(v),
           frames'[s] = frames[s], seq'[s] = seq[s],
           wire'[v] = wire[v], conn'[v] = conn[v], cursor'[v] = cursor[v],
           shows'[v] = shows[v], v \in former' <=> v \in former,
           \A t \in Thing : \A a \in Entitled(v) \cap AudiencesOf(t) :
              \/ Concerns(pending'[s], t, a)
              \/ /\ ~Concerns(pending[s], t, a)
                 /\ accepted'[s][t] = accepted[s][t]
    PROVE  WireInv(v)' /\ (LinkOf(v) => LinkOf(v)')
<1>1. First(s)' = First(s)
  BY DEF First
<1>2. \A m : Retained(m, s) <=> Retained(m, s)'
  BY <1>1 DEF Retained
<1>3. Resumes(v)' <=> Resumes(v)
  BY DEF Resumes
<1>4. FetchPending(v)' <=> FetchPending(v)
  BY DEF FetchPending
<1>5. WireInv(v)'
  <2>1. \A t \in Thing : \A a \in Entitled(v) \cap AudiencesOf(t) :
            \/ Concerns(pending'[s], t, a)
            \/ LastFrame(wire'[v], t, a, accepted'[s][t])
    BY DEF WireInv
  <2>2. \A i \in DOMAIN wire'[v] :
          /\ wire'[v][i].id <= seq'[s]
          /\ wire'[v][i].kind = "frame" =>
                /\ wire'[v][i].audience \in Entitled(v)
                /\ Fits(wire'[v][i]) /\ Retained(wire[v][i], s)'
                /\ Resumes(v)' => cursor'[v] < wire'[v][i].id
          /\ wire'[v][i].kind = "SYNC_REQUIRED" /\ Resumes(v)' => cursor'[v] + 1 < First(s)'
    BY <1>1, <1>2, <1>3 DEF WireInv
  <2>3. /\ Shape(wire'[v]) /\ (~conn'[v] => wire'[v] = <<>>)
        /\ v \notin former' => cursor'[v] <= seq'[s]
        /\ wire'[v] # <<>> /\ wire'[v][1].kind = "SYNC_REQUIRED" => wire'[v][1].id <= cursor'[v]
    BY DEF WireInv
  <2> QED BY <2>1, <2>2, <2>3 DEF WireInv, Retained
<1>6. ASSUME LinkOf(v) PROVE LinkOf(v)'
  <2>1. ASSUME NEW t \in Thing, NEW a \in Entitled(v) \cap AudiencesOf(t)
        PROVE  /\ Linked(v, s, t, a) => Linked(v, s, t, a)'
               /\ Catchable(v, s, t, a) => Catchable(v, s, t, a)'
    BY <1>1, <1>4 DEF Linked, Catchable
  <2> QED BY <1>6, <2>1 DEF LinkOf
<1> QED BY <1>5, <1>6

\* What a flush does to those of its shard: what was retained stays so or gets
\* too old, and those connected are written what they are entitled to.
Delivers(v, s, ms) ==
    /\ Increasing(ms)
    /\ \A j \in DOMAIN ms :
          /\ ms[j].kind = "frame" /\ ms[j].id \in seq[s] + 1 .. seq'[s]
          /\ ms[j].audience \in Entitled(v) /\ Fits(ms[j]) /\ Retained(ms[j], s)'
    /\ \A t \in Thing : \A a \in Entitled(v) \cap AudiencesOf(t) :
          /\ LastFrame(ms, t, a, accepted[s][t])
          /\ Concerns(pending[s], t, a) => Tells(ms, t, a)
          /\ Concerns(pending[s], t, a) =>
                \/ \E i \in DOMAIN frames'[s] :
                      About(frames'[s][i], t, a) /\ frames'[s][i].id > seq[s]
                \/ seq[s] + 1 < First(s)'
    /\ seq[s] \in Nat /\ seq'[s] \in Nat /\ seq[s] <= seq'[s]
    /\ First(s) \in Nat /\ First(s)' \in Nat /\ First(s) <= First(s)'
    /\ \A m \in Message : Retained(m, s) => Retained(m, s)'
    /\ \A j \in DOMAIN frames[s] :
          \/ \E i \in DOMAIN frames'[s] : frames'[s][i] = frames[s][j]
          \/ frames[s][j].id < First(s)' /\ frames[s][j].id \in Nat
    /\ wire'[v] = IF conn[v] THEN wire[v] \o ms ELSE wire[v]
    /\ pending'[s] = <<>>

LEMMA FlushedTo ==
    ASSUME HubInv, NEW v \in Viewer, NEW s \in Shard, s = ShardForConnection(v), Flush(s)
    PROVE  \E ms \in Seq(Message) : Delivers(v, s, ms)
<1> DEFINE built == GroupEmitItems(pending[s], seq[s])
<1>0. TypeInv
  BY DEF HubInv
<1>1. /\ built \in Seq(Frame) /\ Increasing(built)
      /\ \A n \in DOMAIN built : built[n].id \in seq[s] + 1 .. seq[s] + Len(built)
      /\ pending' = [pending EXCEPT ![s] = <<>>]
      /\ seq' = [seq EXCEPT ![s] = seq[s] + Len(built)]
      /\ First(s)' \in Nat /\ First(s) <= First(s)'
      /\ \A j \in DOMAIN frames[s] : \/ \E i \in DOMAIN frames'[s] : frames'[s][i] = frames[s][j]
                                     \/ frames[s][j].id < First(s)'
      /\ \A n \in DOMAIN built : \/ \E i \in DOMAIN frames'[s] : frames'[s][i] = built[n]
                                 \/ built[n].id < First(s)'
  BY <1>0, FlushIs
<1>2. wire' = [u \in Viewer |-> IF conn[u] /\ ShardForConnection(u) = s
                                THEN wire[u] \o For(u, built) ELSE wire[u]]
  BY DEF Flush
<1>3. /\ \A n \in DOMAIN built : Fits(built[n])
      /\ \A t \in Thing : \A a \in AudiencesOf(t) :
            /\ LastFrame(built, t, a, accepted[s][t])
            /\ Concerns(pending[s], t, a) => Tells(built, t, a)
  BY BuiltSays
<1>told. PICK ms \in Seq(Message) : ms = For(v, built)
  BY <1>1, ForIs
<1> HIDE DEF built
<1>4. /\ ms \in Seq(Message) /\ Increasing(ms)
      /\ \A n \in DOMAIN ms :
            /\ ms[n].kind = "frame" /\ ms[n].audience \in Entitled(v)
            /\ \E i \in DOMAIN built : /\ ms[n].id = built[i].id
                                       /\ ms[n].audience = built[i].audience
                                       /\ ms[n].news = built[i].news
      /\ \A t \in Thing : \A a \in Entitled(v) \cap AudiencesOf(t) :
            /\ Tells(built, t, a) <=> Tells(ms, t, a)
            /\ \A x : LastFrame(built, t, a, x) => LastFrame(ms, t, a, x)
  BY <1>1, <1>told, ForIs
<1>5. wire'[v] = IF conn[v] THEN wire[v] \o ms ELSE wire[v]
  BY <1>2, <1>told
<1>6. /\ seq[s] \in Nat /\ First(s) \in Nat /\ Len(built) \in Nat
      /\ seq'[s] = seq[s] + Len(built) /\ pending'[s] = <<>>
      /\ \A j \in DOMAIN frames[s] : frames[s][j].id \in First(s) .. seq[s]
  BY <1>0, <1>1, FramesAre DEF TypeInv
<1>7. seq'[s] \in Nat /\ seq[s] <= seq'[s]
  <2>1. \A m, n \in Nat : m + n \in Nat /\ m <= m + n
    OBVIOUS
  <2> QED BY <1>6, <2>1
<1>8. ASSUME NEW m \in Message, Retained(m, s)
      PROVE  Retained(m, s)'
  <2>0. m.id \in Nat
    BY DEF Message
  <2>1. CASE m.id < First(s)
    <3>1. m.id < First(s)'
      BY <1>1, <1>6, <2>0, <2>1
    <3> QED BY <3>1 DEF Retained
  <2>2. ASSUME NEW j \in DOMAIN frames[s], frames[s][j].id = m.id,
               frames[s][j].audience = m.audience, frames[s][j].news = m.news
        PROVE  Retained(m, s)'
    <3>1. \/ \E i \in DOMAIN frames'[s] : frames'[s][i] = frames[s][j]
          \/ frames[s][j].id < First(s)'
      BY <1>1
    <3> QED BY <2>2, <3>1 DEF Retained
  <2> QED BY <1>8, <2>1, <2>2 DEF Retained
<1>9. ASSUME NEW n \in DOMAIN ms
      PROVE  /\ ms[n].id \in seq[s] + 1 .. seq'[s] /\ Fits(ms[n]) /\ Retained(ms[n], s)'
  <2>1. PICK i \in DOMAIN built : /\ ms[n].id = built[i].id
                                  /\ ms[n].audience = built[i].audience
                                  /\ ms[n].news = built[i].news
    BY <1>4
  <2>2. ms[n].id \in seq[s] + 1 .. seq'[s]
    BY <1>1, <1>6, <2>1
  <2>3. Fits(ms[n])
    BY <1>3, <2>1 DEF Fits
  <2>4. Retained(ms[n], s)'
    <3>1. (\E k \in DOMAIN frames'[s] : frames'[s][k] = built[i]) \/ built[i].id < First(s)'
      BY <1>1
    <3>2. CASE built[i].id < First(s)'
      <4>1. ms[n].id < First(s)'
        BY <2>1, <3>2
      <4> QED BY <4>1 DEF Retained
    <3>3. ASSUME NEW k \in DOMAIN frames'[s], frames'[s][k] = built[i]
          PROVE  Retained(ms[n], s)'
      BY <2>1, <3>3 DEF Retained
    <3> QED BY <3>1, <3>2, <3>3
  <2> QED BY <2>2, <2>3, <2>4
<1>10. ASSUME NEW t \in Thing, NEW a \in Entitled(v) \cap AudiencesOf(t)
       PROVE  /\ LastFrame(ms, t, a, accepted[s][t])
              /\ Concerns(pending[s], t, a) => Tells(ms, t, a)
              /\ Concerns(pending[s], t, a) =>
                    \/ \E i \in DOMAIN frames'[s] :
                          About(frames'[s][i], t, a) /\ frames'[s][i].id > seq[s]
                    \/ seq[s] + 1 < First(s)'
  <2>0. a \in Audience
    BY EntitledIs
  <2>1. /\ LastFrame(ms, t, a, accepted[s][t])
        /\ Concerns(pending[s], t, a) => Tells(ms, t, a)
    BY <1>3, <1>4, <2>0
  <2>2. ASSUME Concerns(pending[s], t, a)
        PROVE  \/ \E i \in DOMAIN frames'[s] :
                     About(frames'[s][i], t, a) /\ frames'[s][i].id > seq[s]
               \/ seq[s] + 1 < First(s)'
    <3>1. PICK n \in DOMAIN built : About(built[n], t, a)
      BY <1>3, <2>0, <2>2 DEF Tells
    <3>2. built[n].id \in Nat /\ built[n].id > seq[s] /\ built[n].id >= seq[s] + 1
      BY <1>1, <1>6
    <3>3. CASE built[n].id < First(s)'
      <4>1. seq[s] + 1 < First(s)'
        BY <1>1, <1>6, <3>2, <3>3
      <4> QED BY <4>1
    <3>4. ASSUME NEW k \in DOMAIN frames'[s], frames'[s][k] = built[n]
          PROVE  \E i \in DOMAIN frames'[s] :
                     About(frames'[s][i], t, a) /\ frames'[s][i].id > seq[s]
      BY <3>1, <3>2, <3>4
    <3> QED BY <1>1, <3>3, <3>4
  <2> QED BY <2>1, <2>2
<1>11. \A j \in DOMAIN frames[s] :
          \/ \E i \in DOMAIN frames'[s] : frames'[s][i] = frames[s][j]
          \/ frames[s][j].id < First(s)' /\ frames[s][j].id \in Nat
  <2>1. \A j \in DOMAIN frames[s] : frames[s][j].id \in Nat
    BY <1>6
  <2> QED BY <1>1, <2>1
<1>12. \A j \in DOMAIN ms : ms[j].kind = "frame" /\ ms[j].audience \in Entitled(v)
  BY <1>4
<1> QED BY <1>1, <1>4, <1>5, <1>6, <1>7, <1>8, <1>9, <1>10, <1>11, <1>12 DEF Delivers

LEMMA FlushView ==
    ASSUME HubInv, HubInv', NEW v \in Viewer, NEW s \in Shard, s = ShardForConnection(v),
           Flush(s), WireInv(v)
    PROVE  WireInv(v)' /\ (LinkOf(v) => LinkOf(v)')
<1>0. /\ conn' = conn /\ cursor' = cursor /\ shows' = shows /\ former' = former
      /\ accepted' = accepted
  BY DEF Flush
<1>written. PICK ms \in Seq(Message) : Delivers(v, s, ms)
  BY FlushedTo
<1>1. /\ Increasing(ms)
      /\ \A j \in DOMAIN ms :
            /\ ms[j].kind = "frame" /\ ms[j].id \in seq[s] + 1 .. seq'[s]
            /\ ms[j].audience \in Entitled(v) /\ Fits(ms[j]) /\ Retained(ms[j], s)'
      /\ \A t \in Thing : \A a \in Entitled(v) \cap AudiencesOf(t) :
            /\ LastFrame(ms, t, a, accepted[s][t])
            /\ Concerns(pending[s], t, a) => Tells(ms, t, a)
            /\ Concerns(pending[s], t, a) =>
                  \/ \E i \in DOMAIN frames'[s] :
                        About(frames'[s][i], t, a) /\ frames'[s][i].id > seq[s]
                  \/ seq[s] + 1 < First(s)'
      /\ seq[s] \in Nat /\ seq'[s] \in Nat /\ seq[s] <= seq'[s]
      /\ First(s) \in Nat /\ First(s)' \in Nat /\ First(s) <= First(s)'
      /\ \A m \in Message : Retained(m, s) => Retained(m, s)'
      /\ \A j \in DOMAIN frames[s] :
            \/ \E i \in DOMAIN frames'[s] : frames'[s][i] = frames[s][j]
            \/ frames[s][j].id < First(s)' /\ frames[s][j].id \in Nat
      /\ wire'[v] = IF conn[v] THEN wire[v] \o ms ELSE wire[v]
      /\ pending'[s] = <<>>
  BY <1>written DEF Delivers
<1>2. PICK w \in Seq(Message) : w = wire[v]
  BY DEF HubInv, TypeInv
<1>3. /\ Shape(w) /\ (~conn[v] => w = <<>>)
      /\ v \notin former => cursor[v] <= seq[s]
      /\ w # <<>> /\ w[1].kind = "SYNC_REQUIRED" => w[1].id <= cursor[v]
      /\ \A i \in DOMAIN w :
            /\ w[i].id <= seq[s]
            /\ w[i].kind = "frame" =>
                  /\ w[i].audience \in Entitled(v)
                  /\ Fits(w[i]) /\ Retained(w[i], s)
                  /\ Resumes(v) => cursor[v] < w[i].id
            /\ w[i].kind = "SYNC_REQUIRED" /\ Resumes(v) => cursor[v] + 1 < First(s)
      /\ \A t \in Thing : \A a \in Entitled(v) \cap AudiencesOf(t) :
            \/ Concerns(pending[s], t, a)
            \/ LastFrame(w, t, a, accepted[s][t])
  BY <1>2 DEF WireInv
<1>4. cursor[v] \in Int
  BY DEF HubInv, TypeInv, LiveTypeOK, NoCursor
<1>5. \A i \in DOMAIN w : w[i] \in Message /\ w[i].id \in Nat
  <2>1. \A m \in Message : m.id \in Nat
    BY DEF Message
  <2>2. \A i \in DOMAIN w : w[i] \in Message
    OBVIOUS
  <2> QED BY <2>1, <2>2
<1>6. /\ \A i \in DOMAIN w, j \in DOMAIN ms : w[i].id < ms[j].id
      /\ \A j \in DOMAIN ms : ms[j].id <= seq'[s]
  BY <1>1, <1>3, <1>5
<1>7. v \notin former => cursor[v] <= seq'[s]
  BY <1>1, <1>3, <1>4
<1>8. CASE conn[v]
  <2> DEFINE r == w \o ms
  <2>1. wire'[v] = r
    BY <1>1, <1>2, <1>8
  <2>2. /\ r \in Seq(Message) /\ Shape(r) /\ Len(r) = Len(w) + Len(ms)
        /\ \A i \in DOMAIN w : i \in DOMAIN r /\ r[i] = w[i]
        /\ \A j \in DOMAIN ms : Len(w) + j \in DOMAIN r /\ r[Len(w) + j] = ms[j]
        /\ \A i \in DOMAIN r : \/ i \in DOMAIN w
                               \/ \E j \in DOMAIN ms : i = Len(w) + j
    BY <1>1, <1>3, <1>6, ShapeAppended
  <2>3. ASSUME NEW t \in Thing, NEW a \in Entitled(v) \cap AudiencesOf(t)
        PROVE  /\ LastFrame(r, t, a, accepted[s][t])
               /\ Tells(r, t, a) <=> Tells(w, t, a) \/ Tells(ms, t, a)
    <3>1. LastFrame(ms, t, a, accepted[s][t])
          /\ (Tells(ms, t, a) \/ LastFrame(w, t, a, accepted[s][t]))
      BY <1>1, <1>3
    <3> QED BY <3>1, LastFrameAppended
  <2> HIDE DEF r
  <2>4. \A i \in DOMAIN r : \/ i \in DOMAIN w /\ r[i] = w[i]
                            \/ \E j \in DOMAIN ms : r[i] = ms[j] /\ i = Len(w) + j
    BY <2>2
  <2>5. w = <<>> => Len(w) = 0
    OBVIOUS
  <2>6. r # <<>> /\ r[1].kind # "frame" => w # <<>> /\ r[1] = w[1]
    <3> SUFFICES ASSUME r # <<>>, r[1].kind # "frame" PROVE w # <<>> /\ r[1] = w[1]
      OBVIOUS
    <3>1. 1 \in DOMAIN r
      BY <2>2
    <3>2. 1 \in DOMAIN w /\ r[1] = w[1]
      BY <1>1, <2>4, <3>1
    <3> QED BY <3>2
  <2>7. Resumes(v)' => Resumes(v)
    BY <1>0, <1>2, <2>1, <2>6 DEF Resumes
  <2>8. Resumes(v) => cursor[v] <= seq[s]
    BY <1>3 DEF Resumes
  <2>9. ASSUME NEW i \in DOMAIN r
        PROVE  /\ r[i].id <= seq'[s]
               /\ r[i].kind = "frame" =>
                     /\ r[i].audience \in Entitled(v)
                     /\ Fits(r[i])
                     /\ Resumes(v)' => cursor[v] < r[i].id
               /\ r[i].kind = "SYNC_REQUIRED" /\ Resumes(v)' => cursor[v] + 1 < First(s)'
    <3>1. CASE i \in DOMAIN w /\ r[i] = w[i]
      BY <1>1, <1>3, <1>4, <1>5, <2>7, <3>1
    <3>2. ASSUME NEW j \in DOMAIN ms, r[i] = ms[j]
          PROVE  /\ r[i].id <= seq'[s] /\ r[i].kind = "frame"
                 /\ r[i].audience \in Entitled(v) /\ Fits(r[i])
                 /\ Resumes(v)' => cursor[v] < r[i].id
      BY <1>1, <1>4, <1>6, <2>7, <2>8, <3>2
    <3> QED BY <2>4, <3>1, <3>2
  <2>10. ASSUME NEW m \in Message, NEW i \in DOMAIN r, m = r[i], m.kind = "frame"
         PROVE  Retained(m, s)'
    <3>1. CASE i \in DOMAIN w /\ r[i] = w[i]
      <4>1. Retained(m, s)
        BY <1>3, <2>10, <3>1
      <4> QED BY <1>1, <4>1
    <3>2. ASSUME NEW j \in DOMAIN ms, r[i] = ms[j]
          PROVE  Retained(m, s)'
      <4>1. m = ms[j]
        BY <2>10, <3>2
      <4> QED BY <1>1, <4>1
    <3> QED BY <2>4, <3>1, <3>2
  <2>11. WireInv(v)'
    <3>1. /\ Shape(wire'[v]) /\ (~conn'[v] => wire'[v] = <<>>)
          /\ v \notin former' => cursor'[v] <= seq'[s]
          /\ wire'[v] # <<>> /\ wire'[v][1].kind = "SYNC_REQUIRED" => wire'[v][1].id <= cursor'[v]
      BY <1>0, <1>3, <1>7, <1>8, <2>1, <2>2, <2>6
    <3>2. \A i \in DOMAIN wire'[v] :
            /\ wire'[v][i].id <= seq'[s]
            /\ wire'[v][i].kind = "frame" =>
                  /\ wire'[v][i].audience \in Entitled(v) /\ Fits(wire'[v][i])
                  /\ Resumes(v)' => cursor'[v] < wire'[v][i].id
            /\ wire'[v][i].kind = "SYNC_REQUIRED" /\ Resumes(v)' => cursor'[v] + 1 < First(s)'
      BY <1>0, <2>1, <2>9
    <3>3. \A i \in DOMAIN wire'[v] : wire'[v][i].kind = "frame" => Retained(wire[v][i], s)'
      <4> SUFFICES ASSUME NEW i \in DOMAIN r, r[i].kind = "frame"
                   PROVE  Retained(wire[v][i], s)'
        BY <2>1
      <4>1. PICK m \in Message : m = r[i]
        BY <2>2
      <4>2. Retained(m, s)' /\ m = wire'[v][i]
        BY <2>1, <2>10, <4>1
      <4> QED BY <4>2 DEF Retained
    <3>4. \A t \in Thing : \A a \in Entitled(v) \cap AudiencesOf(t) : LastFrame(wire'[v], t, a, accepted'[s][t])
      BY <1>0, <2>1, <2>3
    <3> QED BY <3>1, <3>2, <3>3, <3>4 DEF WireInv, Retained
  <2>12. ASSUME LinkOf(v) PROVE LinkOf(v)'
    <3> SUFFICES ASSUME NEW t \in Thing, NEW a \in Entitled(v) \cap AudiencesOf(t) PROVE Linked(v, s, t, a)'
      BY <1>0, <1>8 DEF LinkOf
    <3>1. Linked(v, s, t, a)
      BY <1>8, <2>12 DEF LinkOf
    <3>2. FetchPending(v) => FetchPending(v)'
      <4> SUFFICES ASSUME FetchPending(v) PROVE FetchPending(v)'
        OBVIOUS
      <4>1. w # <<>> /\ (cursor[v] = NoCursor \/ \E i \in DOMAIN w : w[i].kind = "SYNC_REQUIRED")
        BY <1>2 DEF FetchPending
      <4>2. 1 \in DOMAIN w
        BY <4>1
      <4>3. r # <<>>
        BY <2>2, <4>2
      <4> QED BY <1>0, <2>1, <2>2, <4>1, <4>3 DEF FetchPending
    <3>3. Concerns(pending[s], t, a) \/ Tells(w, t, a) => Tells(wire'[v], t, a)
      BY <1>1, <2>1, <2>3
    <3> QED BY <1>0, <1>2, <3>1, <3>2, <3>3 DEF Linked
  <2> QED BY <2>11, <2>12
<1>9. CASE ~conn[v]
  <2>1. wire'[v] = <<>> /\ \A i \in DOMAIN wire'[v] : FALSE
    BY <1>1, <1>2, <1>3, <1>9
  <2>2. WireInv(v)'
    <3>1. Shape(<<>>) /\ \A t, a, n : LastFrame(<<>>, t, a, n)
      BY DEF Shape, LastFrame
    <3> QED BY <1>0, <1>7, <1>9, <2>1, <3>1 DEF WireInv
  <2>3. ASSUME LinkOf(v) PROVE LinkOf(v)'
    <3> SUFFICES ASSUME v \notin former, cursor[v] # NoCursor,
                        NEW t \in Thing, NEW a \in Entitled(v) \cap AudiencesOf(t)
                 PROVE  Catchable(v, s, t, a)'
      BY <1>0, <1>9 DEF LinkOf
    <3>1. Catchable(v, s, t, a)
      BY <1>9, <2>3 DEF LinkOf
    <3>2. cursor[v] <= seq[s]
      BY <1>3
    <3>3. CASE Concerns(pending[s], t, a)
      <4>1. CASE seq[s] + 1 < First(s)'
        <5>1. cursor[v] + 1 < First(s)'
          BY <1>1, <1>4, <3>2, <4>1
        <5> QED BY <1>0, <5>1 DEF Catchable
      <4>2. ASSUME NEW i \in DOMAIN frames'[s], About(frames'[s][i], t, a), frames'[s][i].id > seq[s]
            PROVE  Catchable(v, s, t, a)'
        <5>1. frames'[s][i].id \in Int
          <6>1. frames'[s][i] \in Frame
            BY DEF HubInv, TypeInv, LiveTypeOK
          <6> QED BY <6>1 DEF Frame
        <5>2. frames'[s][i].id > cursor[v]
          BY <1>1, <1>4, <3>2, <4>2, <5>1
        <5> QED BY <1>0, <4>2, <5>2 DEF Catchable
      <4> QED BY <1>1, <3>3, <4>1, <4>2
    <3>4. ASSUME NEW j \in DOMAIN frames[s], About(frames[s][j], t, a), frames[s][j].id > cursor[v]
          PROVE  Catchable(v, s, t, a)'
      <4>1. CASE frames[s][j].id < First(s)' /\ frames[s][j].id \in Nat
        <5>1. cursor[v] + 1 < First(s)'
          BY <1>1, <1>4, <3>4, <4>1
        <5> QED BY <1>0, <5>1 DEF Catchable
      <4>2. ASSUME NEW i \in DOMAIN frames'[s], frames'[s][i] = frames[s][j]
            PROVE  Catchable(v, s, t, a)'
        BY <1>0, <3>4, <4>2 DEF Catchable
      <4> QED BY <1>1, <4>1, <4>2
    <3>5. CASE cursor[v] + 1 < First(s)
      <4>1. cursor[v] + 1 < First(s)'
        BY <1>1, <1>4, <3>5
      <4> QED BY <1>0, <4>1 DEF Catchable
    <3>6. CASE shows[v][t] >= accepted[s][t]
      BY <1>0, <3>6 DEF Catchable
    <3> QED BY <3>1, <3>3, <3>4, <3>5, <3>6 DEF Catchable
  <2> QED BY <2>2, <2>3
<1> QED BY <1>8, <1>9

LEMMA ConnectView ==
    ASSUME HubInv, NEW v \in Viewer, Connect(v), WireInv(v), v \notin doubt => LinkOf(v)
    PROVE  WireInv(v)' /\ (v \notin doubt' => LinkOf(v)')
<1> DEFINE s == ShardForConnection(v)
<1>1. PICK w : w = BuildConnectBacklog(v, s)
  OBVIOUS
<1>2. s \in Shard
  BY KitchensIs
<1>3. /\ ~conn[v] /\ conn' = [conn EXCEPT ![v] = TRUE] /\ wire' = [wire EXCEPT ![v] = w]
      /\ doubt' = IF v \in former /\ ~Expired(v, s) THEN doubt \cup {v} ELSE doubt
      /\ UNCHANGED <<db, hubVars, cursor, shows, former, breaks, call>>
  BY <1>1 DEF Connect
<1>4. conn'[v] = TRUE /\ wire'[v] = w
  BY <1>3 DEF HubInv, TypeInv, LiveTypeOK
<1>5. /\ w \in Seq(Message) /\ Shape(w) /\ w # <<>> /\ w[1].kind = "HELLO"
      /\ \A i \in DOMAIN w :
            /\ w[i].id <= seq[s]
            /\ w[i].kind = "frame" =>
                  /\ w[i].audience \in Entitled(v) /\ w[i].id > cursor[v]
                  /\ \E j \in DOMAIN frames[s] :
                        /\ w[i].id = frames[s][j].id
                        /\ w[i].audience = frames[s][j].audience
                        /\ w[i].news = frames[s][j].news
            /\ w[i].kind = "SYNC_REQUIRED" => Expired(v, s)
      /\ \A t \in Thing : \A a \in Entitled(v) \cap AudiencesOf(t) :
            /\ \A x : LastFrame(frames[s], t, a, x) => LastFrame(w, t, a, x)
            /\ \/ cursor[v] = NoCursor
               \/ \E i \in DOMAIN w : w[i].kind = "SYNC_REQUIRED"
               \/ (\E j \in DOMAIN frames[s] :
                      About(frames[s][j], t, a) /\ frames[s][j].id > cursor[v])
                     => Tells(w, t, a)
      /\ cursor[v] # NoCursor /\ Expired(v, s) =>
            \E i \in DOMAIN w : w[i].kind = "SYNC_REQUIRED"
  <2>1. TypeInv
    BY DEF HubInv
  <2> HIDE DEF s
  <2> QED BY <1>1, <1>2, <2>1, BacklogIs
<1>6. /\ pending' = pending /\ frames' = frames /\ seq' = seq /\ accepted' = accepted
      /\ cursor' = cursor /\ shows' = shows /\ former' = former
  BY <1>3 DEF hubVars
<1>7. /\ cursor[v] \in Int /\ seq[s] \in Nat /\ First(s) \in Nat /\ Oldest(s) = First(s)
      /\ v \notin former => cursor[v] <= seq[s]
  <2>1. TypeInv
    BY DEF HubInv
  <2>2. cursor[v] \in Int
    BY <2>1 DEF TypeInv, LiveTypeOK, NoCursor
  <2>3. v \notin former => cursor[v] <= seq[s]
    BY DEF WireInv
  <2> HIDE DEF s
  <2> QED BY <1>2, <2>1, <2>2, <2>3, FramesAre
<1>8. v \notin former => (Expired(v, s) <=> cursor[v] + 1 < First(s))
  BY <1>7 DEF Expired
<1>9. First(s)' = First(s) /\ \A m : Retained(m, s) => Retained(m, s)'
  BY <1>6 DEF First, Retained
<1>10. /\ \A i \in DOMAIN frames[s] : Fits(frames[s][i])
       /\ \A t \in Thing : \A a \in AudiencesOf(t) :
             Concerns(pending[s], t, a) \/ LastFrame(frames[s], t, a, accepted[s][t])
  BY <1>2 DEF HubInv, ShardInv
<1> HIDE DEF s
<1>11. ASSUME NEW i \in DOMAIN w
       PROVE  /\ w[i].id <= seq[s]
              /\ w[i].kind = "frame" =>
                    /\ w[i].audience \in Entitled(v) /\ Fits(w[i]) /\ Retained(w[i], s)'
                    /\ cursor[v] < w[i].id
              /\ w[i].kind = "SYNC_REQUIRED" /\ v \notin former => cursor[v] + 1 < First(s)'
  <2>1. ASSUME w[i].kind = "frame"
        PROVE  w[i].audience \in Entitled(v) /\ Fits(w[i]) /\ Retained(w[i], s)' /\ cursor[v] < w[i].id
    <3>1. PICK j \in DOMAIN frames[s] : /\ w[i].id = frames[s][j].id
                                        /\ w[i].audience = frames[s][j].audience
                                        /\ w[i].news = frames[s][j].news
      BY <1>5, <2>1
    <3>2. Fits(w[i])
      BY <1>10, <3>1 DEF Fits
    <3>3. Retained(w[i], s)'
      BY <1>9, <3>1 DEF Retained
    <3>4. w[i].id \in Int
      <4>1. w[i] \in Message
        BY <1>5
      <4> QED BY <4>1 DEF Message
    <3> QED BY <1>5, <1>7, <2>1, <3>2, <3>3, <3>4
  <2> QED BY <1>5, <1>8, <1>9, <2>1
<1>12. WireInv(v)'
  <2>1. /\ Shape(wire'[v]) /\ (~conn'[v] => wire'[v] = <<>>)
        /\ v \notin former' => cursor'[v] <= seq'[s]
        /\ wire'[v] # <<>> /\ wire'[v][1].kind = "SYNC_REQUIRED" => wire'[v][1].id <= cursor'[v]
    BY <1>4, <1>5, <1>6, <1>7
  <2>2. Resumes(v)' => v \notin former
    BY <1>6 DEF Resumes
  <2>3. \A i \in DOMAIN wire'[v] :
            /\ wire'[v][i].id <= seq'[s]
            /\ wire'[v][i].kind = "frame" =>
                  /\ wire'[v][i].audience \in Entitled(v)
                  /\ Fits(wire'[v][i]) /\ Retained(wire[v][i], s)'
                  /\ Resumes(v)' => cursor'[v] < wire'[v][i].id
            /\ wire'[v][i].kind = "SYNC_REQUIRED" /\ Resumes(v)' => cursor'[v] + 1 < First(s)'
    <3> SUFFICES ASSUME NEW i \in DOMAIN w
                 PROVE  /\ w[i].id <= seq'[s]
                        /\ w[i].kind = "frame" =>
                              /\ w[i].audience \in Entitled(v)
                              /\ Fits(w[i]) /\ Retained(wire[v][i], s)'
                              /\ cursor'[v] < w[i].id
                        /\ w[i].kind = "SYNC_REQUIRED" /\ v \notin former => cursor'[v] + 1 < First(s)'
      BY <1>4, <2>2
    <3>1. Retained(w[i], s)' => Retained(wire[v][i], s)'
      BY <1>4 DEF Retained
    <3> QED BY <1>6, <1>11, <3>1
  <2>4. \A t \in Thing : \A a \in Entitled(v) \cap AudiencesOf(t) :
            \/ Concerns(pending'[s], t, a)
            \/ LastFrame(wire'[v], t, a, accepted'[s][t])
    BY <1>4, <1>5, <1>6, <1>10, EntitledIs
  <2> QED BY <2>1, <2>3, <2>4 DEF WireInv, Retained, s
<1>13. ASSUME v \notin doubt' PROVE LinkOf(v)'
  <2> SUFFICES ASSUME NEW t \in Thing, NEW a \in Entitled(v) \cap AudiencesOf(t) PROVE Linked(v, s, t, a)'
    BY <1>4 DEF LinkOf, s
  <2>1. CASE cursor[v] = NoCursor \/ \E i \in DOMAIN w : w[i].kind = "SYNC_REQUIRED"
    <3>1. FetchPending(v)'
      BY <1>4, <1>5, <1>6, <2>1 DEF FetchPending
    <3> QED BY <3>1 DEF Linked
  <2>2. CASE cursor[v] # NoCursor /\ ~ \E i \in DOMAIN w : w[i].kind = "SYNC_REQUIRED"
    <3>1. ~Expired(v, s)
      BY <1>5, <2>2
    <3>2. v \notin doubt /\ v \notin former
      BY <1>3, <1>13, <3>1
    <3>3. Catchable(v, s, t, a)
      BY <1>3, <2>2, <3>2 DEF LinkOf, s
    <3>4. ~(cursor[v] + 1 < First(s))
      BY <1>8, <3>1, <3>2
    <3>5. (\E j \in DOMAIN frames[s] : About(frames[s][j], t, a) /\ frames[s][j].id > cursor[v])
             => Tells(w, t, a)
      BY <1>5, <2>2
    <3> QED BY <1>4, <1>6, <3>3, <3>4, <3>5 DEF Linked, Catchable
  <2> QED BY <2>1, <2>2
<1> QED BY <1>12, <1>13

\* A screen receives the first message of its stream.
LEMMA ReceiveView ==
    ASSUME HubInv, NEW v \in Viewer, Receive(v), WireInv(v), v \notin doubt => LinkOf(v)
    PROVE  WireInv(v)' /\ (v \notin doubt' => LinkOf(v)')
<1> DEFINE s == ShardForConnection(v)
           fetches == wire[v][1].kind = "SYNC_REQUIRED" \/ cursor[v] = NoCursor
           Refreshed(t) == t \in OnMenu /\ wire[v][1].news[Menu] > 0
<1>0. TypeInv /\ s \in Shard
  BY KitchensIs DEF HubInv
<1>1. PICK w \in Seq(Message) : w = wire[v]
  BY <1>0 DEF TypeInv
<1>2. PICK m \in Message : m = w[1]
  BY <1>0, <1>1, ReceiveIs
<1>3. /\ w # <<>> /\ wire' = [wire EXCEPT ![v] = Tail(w)]
      /\ cursor' = [cursor EXCEPT ![v] = m.id]
      /\ \A t \in Thing : shows'[v][t] = IF fetches \/ Refreshed(t) THEN db[t]
                                         ELSE IF m.news[t] > 0 THEN m.news[t] ELSE shows[v][t]
      /\ doubt' = IF fetches THEN doubt \ {v} ELSE doubt
      /\ UNCHANGED <<db, hubVars, conn>>
  BY <1>0, <1>1, <1>2, ReceiveIs
<1>4. /\ Shape(w) /\ (~conn[v] => w = <<>>)
      /\ \A i \in DOMAIN w :
            /\ w[i].id <= seq[s]
            /\ w[i].kind = "frame" =>
                  w[i].audience \in Entitled(v) /\ Fits(w[i]) /\ Retained(w[i], s)
      /\ \A t \in Thing : \A a \in Entitled(v) \cap AudiencesOf(t) :
            \/ Concerns(pending[s], t, a)
            \/ LastFrame(w, t, a, accepted[s][t])
  BY <1>1 DEF WireInv
<1>5. PICK r \in Seq(Message) : r = Tail(w)
  BY <1>3, <1>4, TailIs
<1>6. /\ Shape(r) /\ 1 \in DOMAIN w
      /\ \A i \in DOMAIN r : i + 1 \in DOMAIN w /\ r[i] = w[i + 1]
      /\ \A j \in DOMAIN w : j > 1 => j - 1 \in DOMAIN r /\ r[j - 1] = w[j]
      /\ \A t, a, n : LastFrame(w, t, a, n) => LastFrame(r, t, a, n)
      /\ r # <<>> => r[1] = w[2] /\ 2 \in DOMAIN w
  BY <1>3, <1>4, <1>5, TailIs
<1>7. wire'[v] = r /\ cursor'[v] = m.id /\ conn'[v]
  BY <1>0, <1>3, <1>4, <1>5 DEF TypeInv, LiveTypeOK
<1>8. pending' = pending /\ frames' = frames /\ seq' = seq /\ accepted' = accepted
  BY <1>3 DEF hubVars
<1>9. First(s)' = First(s) /\ \A x : Retained(x, s) => Retained(x, s)'
  BY <1>8 DEF First, Retained
<1>10. m.id <= seq[s] /\ m.id \in Nat
  BY <1>2, <1>4, <1>6 DEF Message
<1>11. r # <<>> /\ r[1].kind # "frame" => r[1].kind = "SYNC_REQUIRED" /\ r[1].id = m.id
  <2> SUFFICES ASSUME r # <<>>, r[1].kind # "frame"
               PROVE  r[1].kind = "SYNC_REQUIRED" /\ r[1].id = m.id
    OBVIOUS
  <2>1. 2 \in DOMAIN w /\ r[1] = w[2]
    BY <1>6
  <2>2. w[2].kind = "SYNC_REQUIRED" /\ w[2].id = w[1].id
    <3>1. w[2].kind # "frame" /\ 2 > 1
      BY <2>1
    <3> QED BY <1>4, <2>1, <3>1 DEF Shape
  <2> QED BY <1>2, <2>1, <2>2
<1> HIDE DEF s, fetches, Refreshed
<1>12. WireInv(v)'
  <2>1. /\ Shape(wire'[v]) /\ (~conn'[v] => wire'[v] = <<>>)
        /\ cursor'[v] <= seq'[s]
        /\ wire'[v] # <<>> /\ wire'[v][1].kind = "SYNC_REQUIRED" => wire'[v][1].id <= cursor'[v]
    BY <1>6, <1>7, <1>8, <1>10, <1>11
  <2>2. ~Resumes(v)'
    BY <1>7, <1>11 DEF Resumes
  <2>3. \A i \in DOMAIN wire'[v] :
            /\ wire'[v][i].id <= seq'[s]
            /\ wire'[v][i].kind = "frame" =>
                  wire'[v][i].audience \in Entitled(v) /\ Fits(wire'[v][i]) /\ Retained(wire[v][i], s)'
    <3> SUFFICES ASSUME NEW i \in DOMAIN r
                 PROVE  /\ r[i].id <= seq[s]
                        /\ r[i].kind = "frame" =>
                              r[i].audience \in Entitled(v) /\ Fits(r[i]) /\ Retained(wire[v][i], s)'
      BY <1>7, <1>8
    <3>1. PICK x : x = r[i]
      OBVIOUS
    <3>2. /\ x.id <= seq[s]
          /\ x.kind = "frame" => x.audience \in Entitled(v) /\ Fits(x) /\ Retained(x, s)
      BY <1>4, <1>6, <3>1
    <3>3. x = wire'[v][i]
      BY <1>7, <3>1
    <3>4. x.kind = "frame" => Retained(x, s)'
      BY <1>9, <3>2
    <3>5. x.kind = "frame" => Retained(wire[v][i], s)'
      BY <3>3, <3>4 DEF Retained
    <3> QED BY <3>1, <3>2, <3>5
  <2>4. \A t \in Thing : \A a \in Entitled(v) \cap AudiencesOf(t) :
            \/ Concerns(pending'[s], t, a)
            \/ LastFrame(wire'[v], t, a, accepted'[s][t])
    BY <1>4, <1>6, <1>7, <1>8
  <2> QED BY <2>1, <2>2, <2>3, <2>4 DEF WireInv, Retained, s
<1>13. ASSUME v \notin doubt' PROVE LinkOf(v)'
  <2> SUFFICES ASSUME NEW t \in Thing, NEW a \in Entitled(v) \cap AudiencesOf(t) PROVE Linked(v, s, t, a)'
    BY <1>7 DEF LinkOf, s
  <2>0. a \in Audience /\ a \in AudiencesOf(t)
    BY EntitledIs
  <2>1. PICK n \in Nat : n = accepted[s][t]
    <3>1. MaxVersion \in Nat /\ accepted[s][t] \in 0 .. MaxVersion
      BY <1>0, <2>0, LiveAssumption DEF TypeInv, LiveTypeOK
    <3> QED BY <3>1
  <2>2. n <= db[t] /\ a \in AudiencesOf(t)
    BY <1>0, <2>0, <2>1 DEF HubInv, ShardInv
  <2>3. CASE fetches \/ Refreshed(t)
    <3>1. shows'[v][t] = db[t]
      BY <1>3, <2>3
    <3>2. db[t] \in Nat
      BY <1>0, LiveAssumption DEF TypeInv, LiveTypeOK
    <3> QED BY <1>8, <2>1, <2>2, <3>1, <3>2 DEF Linked
  <2>4. CASE ~fetches /\ ~Refreshed(t)
    <3>1. Linked(v, s, t, a)
      BY <1>3, <1>4, <1>13, <2>4 DEF LinkOf, s
    <3>2. CASE Concerns(pending[s], t, a)
      BY <1>8, <3>2 DEF Linked
    <3>3. CASE FetchPending(v)
      <4>1. PICK i \in DOMAIN w : w[i].kind = "SYNC_REQUIRED"
        BY <1>1, <2>4, <3>3 DEF FetchPending, fetches
      <4>2. i > 1
        BY <1>1, <2>4, <4>1 DEF fetches
      <4>3. i - 1 \in DOMAIN r /\ r[i - 1].kind = "SYNC_REQUIRED"
        BY <1>6, <4>1, <4>2
      <4>4. r # <<>>
        BY <4>3
      <4>5. FetchPending(v)'
        BY <1>7, <4>3, <4>4 DEF FetchPending
      <4> QED BY <4>5 DEF Linked
    <3>4. CASE Tells(r, t, a)
      BY <1>7, <3>4 DEF Linked
    <3>5. CASE ~Concerns(pending[s], t, a) /\ ~Tells(r, t, a) /\ About(m, t, a)
      <4>1. LastFrame(w, t, a, n)
        BY <1>4, <2>1, <3>5
      <4>2. \A j \in DOMAIN w : j > 1 => ~About(w[j], t, a)
        BY <1>6, <3>5 DEF Tells
      <4>3. m.news[t] = n
        BY <1>2, <1>6, <3>5, <4>1, <4>2 DEF LastFrame
      <4>4. shows'[v][t] = n
        BY <1>3, <2>4, <3>5, <4>3 DEF About
      <4> QED BY <1>8, <2>1, <4>4 DEF Linked
    <3>6. Tells(w, t, a) => Tells(r, t, a) \/ About(m, t, a)
      BY <1>2, <1>6 DEF Tells
    <3>7. CASE /\ ~Concerns(pending[s], t, a) /\ ~Tells(r, t, a) /\ ~About(m, t, a)
               /\ shows[v][t] >= n
      <4>1. m.news[t] \in Nat
        <5>1. MaxVersion \in Nat /\ m.news \in Content
          BY LiveAssumption DEF Message
        <5> QED BY <5>1 DEF Content
      <4>2. CASE m.news[t] = 0
        <5>1. shows'[v][t] = shows[v][t]
          BY <1>3, <2>4, <4>2
        <5> QED BY <1>8, <2>1, <3>7, <5>1 DEF Linked
      <4>3. CASE m.news[t] > 0
        <5>1. m.kind = "frame"
          <6>1. m.kind # "frame" => m.news = Nothing
            BY <1>2, <1>4, <1>6 DEF Shape
          <6> QED BY <4>3, <6>1 DEF Nothing
        <5>2. m.audience \in Entitled(v) \cap AudiencesOf(t)
          BY <1>2, <1>4, <1>6, <4>3, <5>1 DEF Fits
        <5>3. a # m.audience
          BY <3>7, <4>3 DEF About
        <5> QED BY <2>2, <5>2, <5>3, OneAudience
      <4> QED BY <4>1, <4>2, <4>3
    <3> QED BY <1>1, <2>1, <3>1, <3>2, <3>3, <3>4, <3>5, <3>6, <3>7 DEF Linked
  <2> QED BY <2>3, <2>4
<1> QED BY <1>12, <1>13

\* A stream is cut with all that is on its way: unless a replay or
\* SYNC_REQUIRED was lost behind HELLO, the cursor asks for what was lost.
LEMMA LoseView ==
    ASSUME HubInv, NEW v \in Viewer, Lose(v), WireInv(v), v \notin doubt => LinkOf(v)
    PROVE  WireInv(v)' /\ (v \notin doubt' => LinkOf(v)')
<1> DEFINE s == ShardForConnection(v)
<1>0. TypeInv
  BY DEF HubInv
<1>1. PICK w \in Seq(Message) : w = wire[v]
  BY <1>0 DEF TypeInv
<1>2. /\ conn[v] /\ conn' = [conn EXCEPT ![v] = FALSE] /\ wire' = [wire EXCEPT ![v] = <<>>]
      /\ doubt' = IF BehindHello(v) THEN doubt \cup {v} ELSE doubt
      /\ UNCHANGED <<hubVars, cursor, shows, former>>
  BY DEF Lose
<1>3. conn'[v] = FALSE /\ wire'[v] = <<>>
  BY <1>0, <1>2 DEF TypeInv, LiveTypeOK
<1>4. pending' = pending /\ frames' = frames /\ seq' = seq /\ accepted' = accepted
  BY <1>2 DEF hubVars
<1>5. First(s)' = First(s)
  BY <1>4 DEF First
<1>6. /\ Shape(w)
      /\ v \notin former => cursor[v] <= seq[s]
      /\ w # <<>> /\ w[1].kind = "SYNC_REQUIRED" => w[1].id <= cursor[v]
      /\ \A i \in DOMAIN w :
            /\ w[i].kind = "frame" =>
                  Retained(w[i], s) /\ (Resumes(v) => cursor[v] < w[i].id)
            /\ w[i].kind = "SYNC_REQUIRED" /\ Resumes(v) => cursor[v] + 1 < First(s)
  BY <1>1 DEF WireInv
<1>7. WireInv(v)'
  <2>1. Shape(<<>>) /\ (\A t, a, n : LastFrame(<<>>, t, a, n)) /\ \A i \in DOMAIN <<>> : FALSE
    BY DEF Shape, LastFrame
  <2>2. v \notin former' => cursor'[v] <= seq'[s]
    BY <1>2, <1>4, <1>6
  <2> QED BY <1>3, <2>1, <2>2 DEF WireInv
<1>8. ASSUME v \notin doubt' PROVE LinkOf(v)'
  <2> SUFFICES ASSUME v \notin former, cursor[v] # NoCursor, NEW t \in Thing, NEW a \in Entitled(v) \cap AudiencesOf(t)
               PROVE  Catchable(v, s, t, a)'
    BY <1>2, <1>3 DEF LinkOf
  <2>1. v \notin doubt /\ ~BehindHello(v)
    BY <1>2, <1>8
  <2>2. Linked(v, s, t, a)
    BY <1>2, <2>1 DEF LinkOf
  <2> HIDE DEF s
  <2>3. cursor[v] \in Int /\ First(s) \in Int /\ \A m \in Message : m.id \in Int
    <3>1. s \in Shard
      BY KitchensIs DEF s
    <3>2. seq[s] \in Int /\ Len(frames[s]) \in Int
      BY <1>0, <3>1 DEF TypeInv
    <3> QED BY <1>0, <3>2 DEF TypeInv, LiveTypeOK, NoCursor, First, Message
  <2>4. ASSUME w # <<>>
        PROVE  /\ 1 \in DOMAIN w /\ w[1] \in Message
               /\ w[1].id > cursor[v] /\ w[1].kind # "SYNC_REQUIRED"
               /\ w[1].kind = "HELLO" => Resumes(v)
    <3>1. 1 \in DOMAIN w /\ w[1] \in Message /\ Head(w) = w[1]
      BY <2>4
    <3>2. w[1].id > cursor[v]
      BY <1>1, <2>1, <2>3, <2>4, <3>1 DEF BehindHello
    <3> QED BY <1>1, <1>6, <2>3, <2>4, <3>1, <3>2 DEF Resumes
  <2>5. ASSUME NEW i \in DOMAIN w PROVE w # <<>> /\ w[i] \in Message /\ i \in Nat \ {0}
    OBVIOUS
  <2>6. ASSUME NEW i \in DOMAIN w, About(w[i], t, a)
        PROVE  Catchable(v, s, t, a)'
    <3>1. w[i].kind = "frame"
      <4>1. w[i].kind # "frame" => w[i].news = Nothing
        BY <1>6 DEF Shape
      <4> QED BY <2>6, <4>1 DEF About, Nothing
    <3>2. cursor[v] < w[i].id
      <4>1. CASE i = 1
        BY <2>3, <2>4, <2>5, <4>1
      <4>2. CASE i # 1 /\ w[1].kind = "frame"
        <5>1. w[1].id < w[i].id
          BY <1>6, <2>5, <3>1, <4>2 DEF Shape
        <5> QED BY <2>3, <2>4, <2>5, <5>1
      <4>3. CASE w[1].kind = "HELLO"
        BY <1>6, <2>4, <2>5, <3>1, <4>3
      <4> QED BY <2>4, <2>5, <4>1, <4>2, <4>3 DEF Message
    <3>3. CASE w[i].id < First(s)
      <4>1. cursor[v] + 1 < First(s)
        BY <2>3, <2>5, <3>2, <3>3
      <4> QED BY <1>2, <1>5, <4>1 DEF Catchable
    <3>4. ASSUME NEW j \in DOMAIN frames[s], frames[s][j].id = w[i].id,
                 frames[s][j].audience = w[i].audience, frames[s][j].news = w[i].news
          PROVE  Catchable(v, s, t, a)'
      <4>1. About(frames[s][j], t, a) /\ frames[s][j].id > cursor[v]
        BY <2>3, <2>5, <2>6, <3>2, <3>4 DEF About
      <4> QED BY <1>2, <1>4, <4>1 DEF Catchable
    <3>5. Retained(w[i], s)
      BY <1>6, <3>1
    <3> QED BY <3>3, <3>4, <3>5 DEF Retained
  <2>7. CASE FetchPending(v)
    <3>1. PICK i \in DOMAIN w : w[i].kind = "SYNC_REQUIRED"
      BY <1>1, <2>7 DEF FetchPending
    <3>2. i > 1
      BY <2>4, <2>5, <3>1
    <3>3. w[1].kind = "HELLO"
      BY <1>6, <3>1, <3>2 DEF Shape
    <3>4. cursor[v] + 1 < First(s)
      BY <1>6, <2>4, <2>5, <3>1, <3>3
    <3> QED BY <1>2, <1>5, <3>4 DEF Catchable
  <2> QED BY <1>1, <1>2, <1>4, <2>2, <2>6, <2>7 DEF Linked, Catchable, Tells
<1> QED BY <1>7, <1>8

\* After a restart no stream is open, and every cursor is of the former life.
LEMMA RestartView ==
    ASSUME HubInv, NEW v \in Viewer, Restart
    PROVE  WireInv(v)' /\ LinkOf(v)'
<1> DEFINE s == ShardForConnection(v)
<1>0. TypeInv /\ s \in Shard
  BY KitchensIs DEF HubInv
<1>1. /\ conn'[v] = FALSE /\ wire'[v] = <<>> /\ seq'[s] = 0 /\ cursor' = cursor
      /\ former' = {u \in Viewer : cursor[u] # NoCursor}
  BY <1>0 DEF Restart
<1>2. v \notin former' => cursor'[v] = NoCursor
  BY <1>1
<1>3. v \notin former' => cursor'[v] <= seq'[s]
  BY <1>1, <1>2 DEF NoCursor
<1>4. Shape(<<>>) /\ (\A t, a, n : LastFrame(<<>>, t, a, n)) /\ \A i \in DOMAIN <<>> : FALSE
  BY DEF Shape, LastFrame
<1>5. WireInv(v)'
  BY <1>1, <1>3, <1>4 DEF WireInv
<1>6. LinkOf(v)'
  BY <1>1, <1>2 DEF LinkOf
<1> QED BY <1>5, <1>6

\* A step that leaves a screen, its stream and its shard alone.
LEMMA ViewAside ==
    ASSUME NEW v \in Viewer, NEW s \in Shard, s = ShardForConnection(v), WireInv(v),
           frames'[s] = frames[s], seq'[s] = seq[s],
           pending'[s] = pending[s], accepted'[s] = accepted[s],
           wire'[v] = wire[v], conn'[v] = conn[v], cursor'[v] = cursor[v],
           shows'[v] = shows[v], v \in former' <=> v \in former
    PROVE  WireInv(v)' /\ (LinkOf(v) => LinkOf(v)')
<1>1. \A t \in Thing : \A a \in Entitled(v) \cap AudiencesOf(t) :
         \/ Concerns(pending'[s], t, a)
         \/ /\ ~Concerns(pending[s], t, a)
            /\ accepted'[s][t] = accepted[s][t]
  OBVIOUS
<1> QED BY <1>1, ViewKept

\* What a request announces is queued for the screen, or is none of its shard's.
LEMMA EmitView ==
    ASSUME HubInv, NEW c \in Caller, NEW e \in Shard, Emit(c, e),
           NEW v \in Viewer, WireInv(v)
    PROVE  WireInv(v)' /\ (LinkOf(v) => LinkOf(v)')
<1> DEFINE ds == AsDeltas(call[c].script[1], e)
<1>1. PICK s \in Shard : s = ShardForConnection(v)
  BY KitchensIs
<1>2. /\ ds \in Seq(Delta)
      /\ \A i \in DOMAIN ds : ds[i].audience \in AudiencesOf(ds[i].thing)
      /\ pending' = [pending EXCEPT ![e] = pending[e] \o ds]
      /\ accepted' = [accepted EXCEPT ![e] = accepted'[e]]
      /\ accepted'[e] \in [Thing -> 0 .. MaxVersion]
      /\ \A t \in Thing : \A a \in AudiencesOf(t) :
            /\ Concerns(ds, t, a) => accepted'[e][t] <= db[t]
            /\ ~Concerns(ds, t, a) => accepted'[e][t] = accepted[e][t]
            /\ LastDelta(ds, t, a, accepted'[e][t])
      /\ UNCHANGED <<db, seq, frames, clientVars, breaks>>
  BY EmitIs
<1> HIDE DEF ds
<1>3. /\ pending \in [Shard -> Seq(Delta)]
      /\ accepted \in [Shard -> [Thing -> 0 .. MaxVersion]]
  BY DEF HubInv, TypeInv, LiveTypeOK
<1>4. ASSUME NEW t \in Thing, NEW a \in Entitled(v) \cap AudiencesOf(t)
      PROVE  \/ Concerns(pending'[s], t, a)
             \/ /\ ~Concerns(pending[s], t, a)
                /\ accepted'[s][t] = accepted[s][t]
  <2>0. a \in Audience
    BY EntitledIs
  <2>1. CASE e = s
    <3>1. pending'[s] = pending[s] \o ds
      BY <1>2, <1>3, <2>1
    <3>2. PICK n : n = accepted'[s][t]
      OBVIOUS
    <3>3. LastDelta(ds, t, a, n) /\ (~Concerns(ds, t, a) => n = accepted[s][t])
      BY <1>2, <2>0, <2>1, <3>2
    <3>4. LastDelta(pending[s], t, a, accepted[s][t])
      BY <2>0 DEF HubInv, ShardInv
    <3>5. Concerns(pending[s] \o ds, t, a) <=> Concerns(pending[s], t, a) \/ Concerns(ds, t, a)
      <4>1. pending[s] \in Seq(Delta)
        BY <1>3
      <4> QED BY <1>2, <3>3, <3>4, <4>1, LastDeltaAppended
    <3> QED BY <3>1, <3>2, <3>3, <3>5
  <2>2. CASE e # s
    <3>1. pending'[s] = pending[s] /\ accepted'[s] = accepted[s]
      BY <1>2, <1>3, <2>2
    <3> QED BY <3>1
  <2> QED BY <2>1, <2>2
<1>5. frames' = frames /\ seq' = seq /\ UNCHANGED clientVars
  BY <1>2
<1> QED BY <1>1, <1>4, <1>5, ViewKept DEF clientVars

\* Screens of other shards are not written to.
LEMMA FlushAside ==
    ASSUME HubInv, NEW e \in Shard, Flush(e),
           NEW v \in Viewer, e # ShardForConnection(v), WireInv(v)
    PROVE  WireInv(v)' /\ (LinkOf(v) => LinkOf(v)')
<1>1. PICK s \in Shard : s = ShardForConnection(v)
  BY KitchensIs
<1>2. TypeInv
  BY DEF HubInv
<1>3. /\ pending' = [pending EXCEPT ![e] = <<>>]
      /\ seq' = [seq EXCEPT ![e] = seq'[e]] /\ frames' = [frames EXCEPT ![e] = frames'[e]]
  <2>1. \E n : seq' = [seq EXCEPT ![e] = n]
    BY DEF Flush
  <2> QED BY <1>2, <2>1, FlushIs DEF TypeInv
<1>4. pending'[s] = pending[s] /\ seq'[s] = seq[s] /\ frames'[s] = frames[s]
  BY <1>1, <1>2, <1>3 DEF TypeInv
<1>5. wire'[v] = wire[v] /\ UNCHANGED <<accepted, conn, cursor, shows, former>>
  BY DEF Flush
<1> QED BY <1>1, <1>4, <1>5, ViewAside

\* What another screen does.
LEMMA OtherView ==
    ASSUME HubInv, NEW u \in Viewer, Connect(u) \/ Receive(u) \/ Lose(u),
           NEW v \in Viewer, v # u, WireInv(v)
    PROVE  WireInv(v)' /\ (LinkOf(v) => LinkOf(v)') /\ (v \in doubt => v \in doubt')
<1>1. PICK s \in Shard : s = ShardForConnection(v)
  BY KitchensIs
<1>2. TypeInv
  BY DEF HubInv
<1>3. /\ UNCHANGED hubVars
      /\ wire'[v] = wire[v] /\ conn'[v] = conn[v] /\ cursor'[v] = cursor[v]
      /\ shows'[v] = shows[v] /\ (v \in former' <=> v \in former)
      /\ v \in doubt => v \in doubt'
  <2>1. CASE Connect(u)
    BY <1>2, <2>1 DEF Connect, TypeInv, LiveTypeOK
  <2>2. CASE Lose(u)
    BY <1>2, <2>2 DEF Lose, TypeInv, LiveTypeOK
  <2>3. CASE Receive(u)
    <3>1. /\ wire' = [wire EXCEPT ![u] = Tail(wire[u])]
          /\ cursor' = [cursor EXCEPT ![u] = wire[u][1].id]
          /\ shows'[v] = shows[v] /\ UNCHANGED <<hubVars, conn>>
          /\ (v \in former' <=> v \in former) /\ (v \in doubt => v \in doubt')
      BY <1>2, <2>3, ReceiveIs
    <3> QED BY <1>2, <3>1 DEF TypeInv, LiveTypeOK
  <2> QED BY <2>1, <2>2, <2>3
<1> QED BY <1>1, <1>3, ViewAside DEF hubVars

LEMMA InitView ==
    ASSUME Init, NEW v \in Viewer
    PROVE  WireInv(v) /\ LinkOf(v)
<1> DEFINE s == ShardForConnection(v)
<1>1. s \in Shard
  BY KitchensIs
<1>2. /\ conn[v] = FALSE /\ wire[v] = <<>> /\ cursor[v] = NoCursor /\ seq[s] = 0
  BY <1>1 DEF Init
<1>3. Shape(<<>>) /\ (\A t, a, n : LastFrame(<<>>, t, a, n)) /\ \A i \in DOMAIN <<>> : FALSE
  BY DEF Shape, LastFrame
<1>4. cursor[v] <= seq[s]
  BY <1>2 DEF NoCursor
<1>5. WireInv(v)
  BY <1>2, <1>3, <1>4 DEF WireInv
<1>6. LinkOf(v)
  BY <1>2 DEF LinkOf
<1> QED BY <1>5, <1>6

LEMMA NextView ==
    ASSUME HubInv, [Next]_vars, NEW v \in Viewer, WireInv(v), v \notin doubt => LinkOf(v)
    PROVE  WireInv(v)' /\ (v \notin doubt' => LinkOf(v)')
<1>0. TypeInv /\ HubInv'
  BY NextHub DEF HubInv
<1>1. PICK s \in Shard : s = ShardForConnection(v)
  BY KitchensIs
<1>2. CASE UNCHANGED <<hubVars, clientVars>>
  BY <1>1, <1>2, ViewAside DEF hubVars, clientVars
<1>3. CASE Next
  <2>1. UNCHANGED crowd
    BY <1>3, NextIs
  <2>2. ASSUME NEW c \in Caller,
               \/ \E o \in Order :
                     \/ CreateOrder(c, o) \/ CancelOrder(c, o) \/ OpenOrder(c, o)
                     \/ \E delivered \in BOOLEAN : UpdateOrderStatus(c, o, delivered)
               \/ \E i \in Item : EditItem(c, i)
        PROVE  UNCHANGED <<hubVars, clientVars>>
    BY <2>1, <2>2, RouteHub
  <2>3. ASSUME NEW c \in Caller, ReadStock(c) \/ Aborts(c)
        PROVE  UNCHANGED <<hubVars, clientVars>>
    BY <2>1, <2>3, ReadStockHub, AbortsHub
  <2>4. ASSUME NEW c \in Caller, NEW e \in Shard, Emit(c, e)
        PROVE  WireInv(v)' /\ (v \notin doubt' => LinkOf(v)')
    <3>1. doubt' = doubt
      BY <2>4 DEF Emit, clientVars
    <3> QED BY <2>4, <3>1, EmitView
  <2>5. ASSUME NEW e \in Shard, Flush(e)
        PROVE  WireInv(v)' /\ (v \notin doubt' => LinkOf(v)')
    <3>1. doubt' = doubt
      BY <2>5 DEF Flush
    <3>2. CASE e = s
      BY <1>0, <1>1, <2>5, <3>1, <3>2, FlushView
    <3>3. CASE e # s
      BY <1>1, <2>5, <3>1, <3>3, FlushAside
    <3> QED BY <3>2, <3>3
  <2>6. ASSUME NEW u \in crowd, Connect(u) \/ Receive(u) \/ Lose(u)
        PROVE  WireInv(v)' /\ (v \notin doubt' => LinkOf(v)')
    <3>1. u \in Viewer
      BY <1>0, CrowdIs
    <3>2. CASE u = v
      BY <2>6, <3>2, ConnectView, ReceiveView, LoseView
    <3>3. CASE u # v
      BY <2>6, <3>1, <3>3, OtherView
    <3> QED BY <3>2, <3>3
  <2> QED BY <1>2, <1>3, <2>2, <2>3, <2>4, <2>5, <2>6, NextIs, RestartView
<1> QED BY <1>2, <1>3 DEF vars

LEMMA InitIInv == Init => IInv
BY InitHub, InitView DEF IInv

LEMMA NextIInv == IInv /\ [Next]_vars => IInv'
<1> SUFFICES ASSUME IInv, [Next]_vars PROVE IInv'
  OBVIOUS
<1>1. HubInv'
  BY NextHub DEF IInv
<1>2. ASSUME NEW v \in Viewer PROVE WireInv(v)' /\ (v \notin doubt' => LinkOf(v)')
  <2>1. HubInv /\ WireInv(v) /\ (v \notin doubt => LinkOf(v))
    BY DEF IInv
  <2> QED BY <2>1, NextView
<1> QED BY <1>1, <1>2 DEF IInv

\* Frames arrive in the order of their numbers, replayed or live, and only on
\* the streams of those entitled to them.
THEOREM LiveFrames == Spec => []FramesForViewer
<1>1. IInv => FramesForViewer
  <2> SUFFICES ASSUME IInv, NEW v \in Viewer, NEW i \in DOMAIN wire[v], wire[v][i].kind = "frame"
               PROVE  /\ wire[v][i].audience \in Entitled(v)
                      /\ \A j \in 1 .. i - 1 :
                            wire[v][j].kind = "frame" => wire[v][j].id < wire[v][i].id
    BY DEF FramesForViewer
  <2>1. WireInv(v)
    BY DEF IInv
  <2> QED BY <2>1 DEF WireInv, Shape
<1> QED BY <1>1, InitIInv, NextIInv, PTL DEF Spec

\* A screen with nothing on its way is not behind what its shard accepted,
\* whatever was coalesced, replayed, pruned or cut in between.
THEOREM LiveScreens == Spec => []ShowsWhatWasAccepted
<1>1. IInv => ShowsWhatWasAccepted
  <2> SUFFICES ASSUME IInv, NEW v \in Viewer \ doubt, NEW s, s = ShardForConnection(v),
                      Quiet(v, s), NEW t \in Thing, AudienceFor(t) \in Entitled(v)
               PROVE  shows[v][t] >= accepted[s][t]
    BY DEF ShowsWhatWasAccepted
  <2>1. conn[v] /\ wire[v] = <<>> /\ pending[s] = <<>>
    BY DEF Quiet
  <2>2. LinkOf(v)
    BY DEF IInv
  <2>3. PICK a \in Entitled(v) \cap AudiencesOf(t) : Linked(v, s, t, a)
    BY <2>1, <2>2 DEF LinkOf, AudiencesOf
  <2> QED BY <2>1, <2>3 DEF Linked, Concerns, Tells, FetchPending
<1> QED BY <1>1, InitIInv, NextIInv, PTL DEF Spec
=============================================================================
