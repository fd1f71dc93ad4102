--------------------------- MODULE EventsHubProofs ---------------------------
(***************************************************************************)
(* Proofs about EventsHub for any set of changes, audiences and clients:   *)
(* the storage and the connections keep their shape, frames travel in      *)
(* order, and the shard implements EventFeed.                              *)
(***************************************************************************)
EXTENDS EventsHub, SelectionsProofs, SequenceTheorems, TLAPS

-----------------------------------------------------------------------------
(* The inductive invariant.                                                 *)

\* A change is queued, being stored, or stored: never two of these at once.
QueueInv ==
    /\ Elements(pending) \subseteq emitted /\ Elements(taken) \subseteq emitted
    /\ Elements(pending) \cap logged = {} /\ Elements(taken) \cap logged = {}
    /\ Elements(pending) \cap Elements(taken) = {}
    /\ step # "store" => taken = <<>>
    /\ step # "prune" => fresh = <<>>

Increasing(frames) ==
    \A i, j \in DOMAIN frames : i < j => frames[i].id < frames[j].id

\* The frames retained are numbered in their order, each is of one audience, and
\* what the alarm handler is about to fan out is among them.
LogInv ==
    /\ Increasing(log)
    /\ \A i \in DOMAIN log :
          /\ log[i].id <= seq
          /\ \A ch \in log[i].changes : AudienceOf[ch] = log[i].audience
    /\ Increasing(fresh)
    /\ \A i \in DOMAIN fresh : \E j \in DOMAIN log : log[j] = fresh[i]

\* A message that makes the client fetch everything.
Fetches(m) == m.kind # "frame" /\ ~m.resumed

\* A frame on its way is retained still, or too old for any replay.
RetainedIn(frames, oldest, m) ==
    \/ \E i \in DOMAIN frames : frames[i].id = m.id /\ frames[i].changes = m.changes
    \/ m.id < oldest

Retained(m) == RetainedIn(log, Oldest, m)

\* What follows the head of a connection is frames, or SYNC_REQUIRED behind a
\* HELLO that does not resume; a HELLO that resumes has only frames behind it
\* that the client has not seen.
WireShape(c) ==
    \A i \in DOMAIN wire[c] :
        /\ wire[c][i].id <= seq
        /\ wire[c][i].kind = "frame" => Retained(wire[c][i])
        /\ i > 1 /\ wire[c][i].kind # "frame" =>
              i = 2 /\ Fetches(wire[c][1]) /\ Fetches(wire[c][2])
        /\ wire[c][1].kind # "frame" /\ ~Fetches(wire[c][1]) =>
              cursor[c] <= wire[c][1].id /\ (i > 1 => cursor[c] < wire[c][i].id)

\* Nothing a client has seen or is being sent is as new as what is to be fanned
\* out.
ClientOrder(c) ==
    /\ conn[c] = "off" => wire[c] = <<>>
    /\ cursor[c] <= seq
    /\ WireShape(c)
    /\ \A i, j \in DOMAIN wire[c] :
          i < j /\ wire[c][i].kind = "frame" /\ wire[c][j].kind = "frame"
              => wire[c][i].id < wire[c][j].id
    /\ \A k \in DOMAIN fresh :
          /\ cursor[c] < fresh[k].id
          /\ \A i \in DOMAIN wire[c] : wire[c][i].id < fresh[k].id

OrderInv == \A c \in Client : ClientOrder(c)

Missing(c) == (logged \cap Wants(c)) \ knows[c]

\* A client that presents n is replayed ch, or told that n is too old.
StoredIn(frames, oldest, ch, n) ==
    \/ \E i \in DOMAIN frames : frames[i].id > n /\ ch \in frames[i].changes
    \/ n + 1 < oldest

Stored(ch, n) == StoredIn(log, Oldest, ch, n)

FetchPending(c) == \E i \in DOMAIN wire[c] : Fetches(wire[c][i])

\* The number that the client will present once it has received everything.
Last(c) == IF wire[c] = <<>> THEN cursor[c] ELSE wire[c][Len(wire[c])].id

\* What a connected client lacks is on its way, about to be fanned out to it, or
\* will be replayed because the stream has ended.
Linked(c) ==
    \A ch \in Missing(c) :
        \/ \E i \in DOMAIN wire[c] : wire[c][i].kind = "frame" /\ ch \in wire[c][i].changes
        \/ conn[c] = "open" /\ \E k \in DOMAIN fresh : ch \in fresh[k].changes
        \/ conn[c] \in {"closed", "lost"} /\ Stored(ch, Last(c))

\* What a client lacks that is away, or about to fetch, is there for its cursor.
Catchable(c) == cursor[c] # NoCursor => \A ch \in Missing(c) : Stored(ch, cursor[c])

LinkOf(c) == IF conn[c] # "off" /\ ~FetchPending(c) THEN Linked(c) ELSE Catchable(c)

LinkInv == \A c \in Client \ doubt : LinkOf(c)

HubInv == TypeOK /\ QueueInv /\ LogInv
IInv == HubInv /\ OrderInv /\ LinkInv

-----------------------------------------------------------------------------
(* What the operators of the hub return.                                    *)

LEMMA LeadsIs ==
    ASSUME NEW q \in Seq(Change)
    PROVE  /\ Leads(q) \in Seq(Change)
           /\ \A ch \in Elements(q) : \E n \in DOMAIN Leads(q) :
                 AudienceOf[Leads(q)[n]] = AudienceOf[ch]
<1> DEFINE I == {i \in DOMAIN q : FirstOfAudience(q, i)}
<1>1. I \in SUBSET DOMAIN q
  OBVIOUS
<1>2. /\ Chosen(q, I) \in Seq(Change)
      /\ \A i \in I : \E n \in 1 .. Len(Chosen(q, I)) : Chosen(q, I)[n] = q[i]
  <2> HIDE DEF I
  <2> QED BY <1>1, ChosenIs
<1>3. ASSUME NEW ch \in Elements(q)
      PROVE  \E i \in I : AudienceOf[q[i]] = AudienceOf[ch]
  <2> DEFINE J == {i \in DOMAIN q : AudienceOf[q[i]] = AudienceOf[ch]}
  <2>1. J \in SUBSET Int /\ J \in SUBSET (1 .. Len(q)) /\ J # {} /\ Len(q) \in Nat
    BY DEF Elements
  <2>2. IsFiniteSet(J)
    <3> HIDE DEF J
    <3>1. IsFiniteSet(1 .. Len(q))
      BY <2>1, FS_Interval
    <3> QED BY <2>1, <3>1, FS_Subset
  <2>3. PICK i \in J : \A j \in J : i <= j
    <3> HIDE DEF J
    <3> QED BY <2>1, <2>2, FirstAndLast
  <2>4. ASSUME NEW j \in 1 .. (i - 1)
        PROVE  AudienceOf[q[j]] # AudienceOf[q[i]]
    <3>1. i \in 1 .. Len(q) /\ Len(q) \in Nat /\ DOMAIN q = 1 .. Len(q)
      OBVIOUS
    <3>2. j \in 1 .. Len(q) /\ ~(i <= j)
      BY <3>1
    <3> QED BY <2>3, <3>1, <3>2
  <2>5. FirstOfAudience(q, i)
    BY <2>4 DEF FirstOfAudience
  <2> QED BY <2>5
<1>4. Leads(q) = Chosen(q, I)
  BY DEF Leads
<1> HIDE DEF I
<1>5. DOMAIN Chosen(q, I) = 1 .. Len(Chosen(q, I))
  BY <1>2
<1>6. ASSUME NEW ch \in Elements(q)
      PROVE  \E n \in DOMAIN Chosen(q, I) : AudienceOf[Chosen(q, I)[n]] = AudienceOf[ch]
  <2>1. PICK i \in I : AudienceOf[q[i]] = AudienceOf[ch]
    BY <1>3
  <2>2. PICK n \in 1 .. Len(Chosen(q, I)) : Chosen(q, I)[n] = q[i]
    BY <1>2
  <2> QED BY <1>5, <2>1, <2>2
<1> QED BY <1>2, <1>4, <1>6

\* The frames made of a queue are numbered from the last number on, each holds
\* changes of one audience, and every change is in one.
LEMMA GroupIs ==
    ASSUME NEW q \in Seq(Change), NEW last \in Nat
    PROVE  LET built == GroupEmitItems(q, last) IN
           /\ built \in Seq(Frame)
           /\ \A n \in DOMAIN built :
                 /\ built[n].id = last + n
                 /\ \A ch \in built[n].changes : AudienceOf[ch] = built[n].audience
           /\ \A ch \in Elements(q) : \E n \in DOMAIN built : ch \in built[n].changes
<1> DEFINE leads == Leads(q)
           built == GroupEmitItems(q, last)
<1>1. /\ leads \in Seq(Change)
      /\ \A ch \in Elements(q) : \E n \in DOMAIN leads :
            AudienceOf[leads[n]] = AudienceOf[ch]
  BY LeadsIs
<1>2. built = [n \in DOMAIN leads |->
          [id |-> last + n, audience |-> AudienceOf[leads[n]],
           changes |-> {ch \in Elements(q) : AudienceOf[ch] = AudienceOf[leads[n]]}]]
  BY DEF GroupEmitItems
<1> HIDE DEF leads, built
<1>3. Elements(q) \in SUBSET Change
  BY DEF Elements
<1>4. ASSUME NEW n \in DOMAIN leads
      PROVE  /\ built[n] \in Frame
             /\ built[n].id = last + n
             /\ built[n].changes =
                   {ch \in Elements(q) : AudienceOf[ch] = AudienceOf[leads[n]]}
             /\ built[n].audience = AudienceOf[leads[n]]
  BY <1>1, <1>2, <1>3, HubAssumption DEF Frame
<1>5. built \in Seq(Frame) /\ DOMAIN built = DOMAIN leads
  <2>1. Len(leads) \in Nat /\ DOMAIN leads = 1 .. Len(leads)
    BY <1>1
  <2>2. DOMAIN built = 1 .. Len(leads)
    BY <1>2, <2>1
  <2>3. built \in [1 .. Len(leads) -> Frame]
    BY <1>2, <1>4, <2>1, <2>2
  <2> QED BY <2>1, <2>2, <2>3
<1>6. \A ch \in Elements(q) : \E n \in DOMAIN built : ch \in built[n].changes
  BY <1>1, <1>4, <1>5
<1>7. \A n \in DOMAIN built : /\ built[n].id = last + n
                             /\ \A ch \in built[n].changes : AudienceOf[ch] = built[n].audience
  BY <1>4, <1>5
<1> QED BY <1>5, <1>6, <1>7 DEF built

\* What is chosen of frames in order is in order.
LEMMA ChosenInOrder ==
    ASSUME NEW q \in Seq(Frame), NEW I \in SUBSET DOMAIN q, Increasing(q)
    PROVE  /\ Chosen(q, I) \in Seq(Frame)
           /\ Increasing(Chosen(q, I))
           /\ \A n \in DOMAIN Chosen(q, I) : \E i \in I : Chosen(q, I)[n] = q[i]
           /\ \A i \in I : \E n \in DOMAIN Chosen(q, I) : Chosen(q, I)[n] = q[i]
<1> DEFINE r == Chosen(q, I)
<1>1. /\ r \in Seq(Frame)
      /\ \A n \in 1 .. Len(r) : Nth(I, n) \in I /\ r[n] = q[Nth(I, n)]
      /\ \A m, n \in 1 .. Len(r) : m < n => Nth(I, m) < Nth(I, n)
      /\ \A i \in I : \E n \in 1 .. Len(r) : r[n] = q[i]
  BY ChosenIs
<1> HIDE DEF r
<1>2. DOMAIN r = 1 .. Len(r)
  BY <1>1
<1>3. ASSUME NEW m \in DOMAIN r, NEW n \in DOMAIN r, m < n
      PROVE  r[m].id < r[n].id
  <2>1. /\ Nth(I, m) \in DOMAIN q /\ Nth(I, n) \in DOMAIN q /\ Nth(I, m) < Nth(I, n)
        /\ r[m] = q[Nth(I, m)] /\ r[n] = q[Nth(I, n)]
    BY <1>1, <1>2, <1>3
  <2> QED BY <2>1 DEF Increasing
<1>4. Increasing(r)
  BY <1>3 DEF Increasing
<1> QED BY <1>1, <1>2, <1>4 DEF r

LEMMA ForIs ==
    ASSUME NEW c \in Client, NEW q \in Seq(Frame), Increasing(q)
    PROVE  LET ms == For(c, q) IN
           /\ ms \in Seq(Message)
           /\ Increasing(ms)
           /\ \A n \in DOMAIN ms : \E i \in DOMAIN q : ms[n] = AsMessage(q[i])
           /\ \A i \in DOMAIN q : q[i].audience \in Watches[c] =>
                 \E n \in DOMAIN ms : ms[n] = AsMessage(q[i])
<1> DEFINE I == {i \in DOMAIN q : q[i].audience \in Watches[c]}
           r == Chosen(q, I)
           ms == For(c, q)
<1>1. I \in SUBSET DOMAIN q
  OBVIOUS
<1>2. /\ r \in Seq(Frame) /\ Increasing(r)
      /\ \A n \in DOMAIN r : \E i \in I : r[n] = q[i]
      /\ \A i \in I : \E n \in DOMAIN r : r[n] = q[i]
  <2> HIDE DEF I
  <2> QED BY <1>1, ChosenInOrder
<1>3. ms = [n \in DOMAIN r |-> AsMessage(r[n])]
  BY DEF For
<1> HIDE DEF r, ms
<1>4. \A f \in Frame : AsMessage(f) \in Message /\ AsMessage(f).id = f.id
  BY DEF AsMessage, Frame, Message
<1>5. Len(r) \in Nat /\ DOMAIN r = 1 .. Len(r)
  BY <1>2
<1>6. DOMAIN ms = DOMAIN r /\ \A n \in DOMAIN r : ms[n] = AsMessage(r[n])
  BY <1>3
<1>7. ms \in Seq(Message)
  <2>1. ms \in [1 .. Len(r) -> Message]
    BY <1>2, <1>3, <1>4, <1>5
  <2> QED BY <1>5, <2>1
<1>8. Increasing(ms)
  <2>1. \A n \in DOMAIN r : ms[n].id = r[n].id
    BY <1>2, <1>4, <1>6
  <2> QED BY <1>2, <1>6, <2>1 DEF Increasing
<1>9. \A n \in DOMAIN ms : \E i \in DOMAIN q : ms[n] = AsMessage(q[i])
  BY <1>2, <1>6
<1>10. \A i \in DOMAIN q : q[i].audience \in Watches[c] =>
          \E n \in DOMAIN ms : ms[n] = AsMessage(q[i])
  BY <1>2, <1>6
<1> QED BY <1>7, <1>8, <1>9, <1>10 DEF ms

\* What a client's connection holds after a write: what was there, then as much
\* of the messages as the limit allows.
LEMMA WrittenIs ==
    ASSUME NEW c \in Client, NEW q \in Seq(Message), NEW ms \in Seq(Message),
           c \in Sse => Len(q) <= MaxQueued
    PROVE  LET w == Written(c, q, ms) IN
           /\ w \in Seq(Message)
           /\ c \in Sse => Len(w) <= MaxQueued
           /\ Len(q) <= Len(w) /\ Len(w) <= Len(q) + Len(ms)
           /\ \A i \in 1 .. Len(q) : w[i] = q[i]
           /\ \A i \in Len(q) + 1 .. Len(w) :
                 i - Len(q) \in 1 .. Len(ms) /\ w[i] = ms[i - Len(q)]
           /\ AfterWrite(c, q, ms) = "open" => Len(w) = Len(q) + Len(ms)
           /\ AfterWrite(c, q, ms) # "open" =>
                 AfterWrite(c, q, ms) = "closed" /\ Len(w) = MaxQueued
<1> DEFINE all == q \o ms
           w == Written(c, q, ms)
<1>1. Len(q) \in Nat /\ Len(ms) \in Nat
  OBVIOUS
<1>2. /\ all \in Seq(Message) /\ Len(all) = Len(q) + Len(ms)
      /\ \A i \in 1 .. Len(all) : all[i] = IF i <= Len(q) THEN q[i] ELSE ms[i - Len(q)]
  BY ConcatProperties
<1> HIDE DEF all
<1>3. CASE c \in Sse /\ Len(all) > MaxQueued
  <2>1. w = SubSeq(all, 1, MaxQueued)
    BY <1>3 DEF Written, all
  <2>2. MaxQueued \in Nat /\ MaxQueued >= 2
    BY HubAssumption
  <2>3. /\ w \in Seq(Message) /\ Len(w) = MaxQueued
        /\ \A i \in 1 .. MaxQueued : w[i] = all[i]
    <3>1. 1 \in 1 .. Len(all) + 1 /\ MaxQueued \in 1 - 1 .. Len(all)
      BY <1>1, <1>2, <1>3, <2>2
    <3> QED BY <1>2, <2>1, <2>2, <3>1, SubSeqProperties
  <2>4. AfterWrite(c, q, ms) = "closed"
    BY <1>2, <1>3 DEF AfterWrite
  <2> HIDE DEF w
  <2> QED BY <1>1, <1>2, <1>3, <2>2, <2>3, <2>4 DEF w
<1>4. CASE ~(c \in Sse /\ Len(all) > MaxQueued)
  <2>1. w = all
    BY <1>4 DEF Written, all
  <2>2. AfterWrite(c, q, ms) = "open"
    BY <1>2, <1>4 DEF AfterWrite
  <2>3. c \in Sse => Len(all) <= MaxQueued
    BY <1>1, <1>2, <1>4, HubAssumption
  <2> HIDE DEF w
  <2> QED BY <1>1, <1>2, <2>1, <2>2, <2>3 DEF w
<1> QED BY <1>3, <1>4

\* Pruning drops the oldest frames.
LEMMA PruneIs ==
    ASSUME NEW q \in Seq(Frame), Increasing(q), aged \in Nat
    PROVE  /\ Prune(q) \in Seq(Frame)
           /\ Increasing(Prune(q))
           /\ \A n \in DOMAIN Prune(q) : \E i \in DOMAIN q : Prune(q)[n] = q[i]
           /\ \A i \in DOMAIN q :
                 \/ \E n \in DOMAIN Prune(q) : Prune(q)[n] = q[i]
                 \/ \A n \in DOMAIN Prune(q) : q[i].id < Prune(q)[n].id
<1> DEFINE overflow == IF Len(q) > MaxFrames THEN Len(q) - MaxFrames ELSE 0
           I == {i \in overflow + 1 .. Len(q) : q[i].id > aged}
<1>1. overflow \in Nat /\ Len(q) \in Nat /\ DOMAIN q = 1 .. Len(q)
  BY HubAssumption
<1>2. Prune(q) = Chosen(q, I)
  BY DEF Prune
<1> HIDE DEF overflow
<1>3. I \in SUBSET DOMAIN q
  BY <1>1
<1>4. /\ Chosen(q, I) \in Seq(Frame) /\ Increasing(Chosen(q, I))
      /\ \A n \in DOMAIN Chosen(q, I) : \E i \in I : Chosen(q, I)[n] = q[i]
      /\ \A i \in I : \E n \in DOMAIN Chosen(q, I) : Chosen(q, I)[n] = q[i]
  <2> HIDE DEF I
  <2> QED BY <1>3, ChosenInOrder
<1>5. ASSUME NEW i \in DOMAIN q, NEW k \in I, i \notin I
      PROVE  q[i].id < q[k].id
  <2>1. k \in DOMAIN q /\ q[i].id \in Nat /\ q[k].id \in Nat
    <3>1. k \in DOMAIN q /\ q[i] \in Frame /\ q[k] \in Frame
      BY <1>3
    <3> QED BY <3>1 DEF Frame
  <2>2. CASE i <= overflow
    BY <1>1, <2>1, <2>2 DEF Increasing
  <2>3. CASE q[i].id <= aged
    BY <2>1, <2>3
  <2> QED BY <1>1, <1>5, <2>1, <2>2, <2>3
<1> HIDE DEF I
<1> QED BY <1>2, <1>3, <1>4, <1>5

\* What a client that connects is sent.
LEMMA BacklogIs ==
    ASSUME NEW c \in Client, TypeOK, Increasing(log)
    PROVE  LET b == ConnectBacklog(c) IN
           /\ b \in Seq(Message) /\ Len(b) > 0
           /\ b[1].kind # "frame" /\ b[1].id = seq
           /\ \/ /\ cursor[c] = NoCursor \/ Expired(c)
                 /\ Fetches(b[1])
                 /\ Len(b) <= 2
                 /\ Len(b) = 2 => b[2].kind # "frame" /\ b[2].id = seq /\ Fetches(b[2])
              \/ /\ cursor[c] # NoCursor /\ ~Expired(c)
                 /\ ~Fetches(b[1])
                 /\ \A i, j \in 2 .. Len(b) : i < j => b[i].id < b[j].id
                 /\ \A i \in 2 .. Len(b) : \E k \in DOMAIN log :
                       b[i] = AsMessage(log[k]) /\ log[k].id > cursor[c]
                 /\ \A k \in DOMAIN log :
                       log[k].id > cursor[c] /\ log[k].audience \in Watches[c] =>
                           \E i \in 2 .. Len(b) : b[i] = AsMessage(log[k])
<1> DEFINE b == ConnectBacklog(c)
           I == {i \in DOMAIN log : log[i].id > cursor[c]}
           ms == For(c, Chosen(log, I))
<1>0. seq \in Nat /\ log \in Seq(Frame)
  BY DEF TypeOK
<1> DEFINE fresher == Hello(FALSE)
           resumes == Hello(TRUE)
<1>1. /\ fresher \in Message /\ fresher.kind # "frame" /\ fresher.id = seq
      /\ resumes \in Message /\ resumes.kind # "frame" /\ resumes.id = seq
  BY <1>0 DEF Hello, Message
<1>2. /\ SyncRequired \in Message /\ SyncRequired.kind # "frame"
      /\ SyncRequired.id = seq
  BY <1>0 DEF SyncRequired, Message
<1>3. Fetches(fresher) /\ Fetches(SyncRequired) /\ ~Fetches(resumes)
  <2>1. fresher.resumed = FALSE /\ resumes.resumed = TRUE /\ SyncRequired.resumed = FALSE
    BY DEF Hello, SyncRequired
  <2> HIDE DEF fresher, resumes
  <2> QED BY <1>1, <1>2, <2>1, Zenon DEF Fetches
<1>4. CASE cursor[c] = NoCursor
  <2>1. b = <<fresher>>
    BY <1>4 DEF ConnectBacklog
  <2> HIDE DEF b, fresher
  <2>2. b \in Seq(Message) /\ Len(b) = 1 /\ b[1] = fresher
    BY <1>1, <2>1
  <2> QED BY <1>1, <1>3, <1>4, <2>2 DEF b
<1>5. CASE cursor[c] # NoCursor /\ Expired(c)
  <2>1. b = <<fresher, SyncRequired>>
    BY <1>5 DEF ConnectBacklog
  <2> HIDE DEF b, fresher
  <2>2. b \in Seq(Message) /\ Len(b) = 2 /\ b[1] = fresher /\ b[2] = SyncRequired
    BY <1>1, <1>2, <2>1
  <2> QED BY <1>1, <1>2, <1>3, <1>5, <2>2 DEF b
<1>6. CASE cursor[c] # NoCursor /\ ~Expired(c)
  <2>1. b = <<resumes>> \o ms
    BY <1>6 DEF ConnectBacklog
  <2> HIDE DEF resumes
  <2>2. /\ Chosen(log, I) \in Seq(Frame) /\ Increasing(Chosen(log, I))
        /\ \A n \in DOMAIN Chosen(log, I) : \E i \in I : Chosen(log, I)[n] = log[i]
        /\ \A i \in I : \E n \in DOMAIN Chosen(log, I) : Chosen(log, I)[n] = log[i]
    <3>1. I \in SUBSET DOMAIN log
      OBVIOUS
    <3> HIDE DEF I
    <3> QED BY <1>0, <3>1, ChosenInOrder
  <2> DEFINE r == Chosen(log, I)
  <2>3. /\ ms \in Seq(Message) /\ Increasing(ms)
        /\ \A n \in DOMAIN ms : \E i \in DOMAIN r : ms[n] = AsMessage(r[i])
        /\ \A i \in DOMAIN r : r[i].audience \in Watches[c] =>
              \E n \in DOMAIN ms : ms[n] = AsMessage(r[i])
    <3> HIDE DEF I
    <3> QED BY <2>2, ForIs
  <2> HIDE DEF b, ms, r
  <2>4. /\ b \in Seq(Message) /\ Len(b) = 1 + Len(ms) /\ Len(ms) \in Nat
        /\ b[1] = resumes
        /\ \A n \in 1 .. Len(ms) : b[n + 1] = ms[n]
        /\ \A i \in 2 .. Len(b) : i - 1 \in 1 .. Len(ms) /\ b[i] = ms[i - 1]
    <3>1. <<resumes>> \in Seq(Message) /\ Len(<<resumes>>) = 1
          /\ <<resumes>>[1] = resumes
      BY <1>1
    <3>2. /\ b \in Seq(Message) /\ Len(b) = 1 + Len(ms) /\ Len(ms) \in Nat
          /\ \A i \in 1 .. Len(b) :
                b[i] = IF i <= 1 THEN <<resumes>>[i] ELSE ms[i - 1]
      BY <2>1, <2>3, <3>1, ConcatProperties
    <3> QED BY <3>1, <3>2
  <2>5. DOMAIN ms = 1 .. Len(ms)
    BY <2>3
  <2>6. ASSUME NEW i \in 2 .. Len(b), NEW j \in 2 .. Len(b), i < j
        PROVE  b[i].id < b[j].id
    <3>1. /\ i - 1 \in DOMAIN ms /\ b[i] = ms[i - 1]
          /\ j - 1 \in DOMAIN ms /\ b[j] = ms[j - 1]
      BY <2>4, <2>5
    <3>2. i - 1 < j - 1
      BY <2>4, <2>6
    <3>3. ms[i - 1].id < ms[j - 1].id
      BY <2>3, <3>1, <3>2 DEF Increasing
    <3> QED BY <3>1, <3>3
  <2>7. ASSUME NEW i \in 2 .. Len(b)
        PROVE  \E k \in DOMAIN log : b[i] = AsMessage(log[k]) /\ log[k].id > cursor[c]
    <3>1. i - 1 \in DOMAIN ms /\ b[i] = ms[i - 1]
      BY <2>4, <2>5
    <3>2. PICK n \in DOMAIN r : ms[i - 1] = AsMessage(r[n])
      BY <2>3, <3>1
    <3>3. PICK k \in I : r[n] = log[k]
      BY <2>2 DEF r
    <3> QED BY <3>1, <3>2, <3>3
  <2>8. ASSUME NEW k \in DOMAIN log, log[k].id > cursor[c], log[k].audience \in Watches[c]
        PROVE  \E i \in 2 .. Len(b) : b[i] = AsMessage(log[k])
    <3>1. PICK n \in DOMAIN ms : ms[n] = AsMessage(log[k])
      BY <2>2, <2>3, <2>8 DEF r
    <3> QED BY <2>4, <2>5, <3>1
  <2>9. b[1].kind # "frame" /\ b[1].id = seq /\ ~Fetches(b[1])
    BY <1>1, <1>3, <2>4
  <2> QED BY <1>6, <2>4, <2>6, <2>7, <2>8, <2>9 DEF b
<1> QED BY <1>4, <1>5, <1>6

-----------------------------------------------------------------------------
(* The storage of the hub.                                                  *)

LEMMA InitHub == Init => HubInv
<1> SUFFICES ASSUME Init
             PROVE  HubInv
  OBVIOUS
<1>1. TypeOK
  <2>1. \A S : <<>> \in Seq(S)
    OBVIOUS
  <2>2. wire \in [Client -> Seq(Message)] /\ \A c \in Sse : Len(wire[c]) <= MaxQueued
    BY <2>1, HubAssumption DEF Init
  <2>3. log \in Seq(Frame) /\ fresh \in Seq(Frame)
    BY <2>1 DEF Init
  <2>4. /\ conn \in [Client -> {"off", "open", "closed", "lost"}]
        /\ cursor \in [Client -> Nat \cup {NoCursor}]
        /\ knows \in [Client -> SUBSET Change]
    BY DEF Init
  <2>5. pending \in Seq(Change) /\ taken \in Seq(Change)
    BY <2>1 DEF Init
  <2>6. seq \in Nat /\ aged \in 0..seq /\ breaks \in 0..MaxBreaks
    BY HubAssumption DEF Init
  <2> QED BY <2>2, <2>3, <2>4, <2>5, <2>6 DEF Init, TypeOK
<1>2. QueueInv
  BY DEF Init, QueueInv, Elements
<1>3. LogInv
  BY DEF Init, LogInv, Increasing
<1> QED BY <1>1, <1>2, <1>3 DEF HubInv

\* What the storing of the frames does to the log.
LEMMA StoreIs ==
    ASSUME HubInv, FlushStore
    PROVE  /\ fresh' \in Seq(Frame) /\ Increasing(fresh')
           /\ log' = log \o fresh' /\ log' \in Seq(Frame) /\ Increasing(log')
           /\ seq' = seq + Len(fresh')
           /\ \A k \in DOMAIN fresh' :
                 /\ fresh'[k].id = seq + k
                 /\ \A ch \in fresh'[k].changes : AudienceOf[ch] = fresh'[k].audience
           /\ \A ch \in Elements(taken) : \E k \in DOMAIN fresh' : ch \in fresh'[k].changes
           /\ \A i \in DOMAIN log : i \in DOMAIN log' /\ log'[i] = log[i]
           /\ \A k \in DOMAIN fresh' : \E i \in DOMAIN log' : log'[i] = fresh'[k]
           /\ \A i \in DOMAIN log' :
                 (i \in DOMAIN log /\ log'[i] = log[i])
                    \/ \E k \in DOMAIN fresh' : log'[i] = fresh'[k]
<1>1. /\ seq \in Nat /\ taken \in Seq(Change) /\ log \in Seq(Frame)
      /\ Increasing(log) /\ \A i \in DOMAIN log : log[i].id <= seq
  BY DEF HubInv, TypeOK, LogInv
<1>2. /\ fresh' = GroupEmitItems(taken, seq) /\ log' = log \o fresh'
      /\ seq' = seq + Len(fresh')
  BY DEF FlushStore
<1>3. /\ fresh' \in Seq(Frame)
      /\ \A k \in DOMAIN fresh' :
            /\ fresh'[k].id = seq + k
            /\ \A ch \in fresh'[k].changes : AudienceOf[ch] = fresh'[k].audience
      /\ \A ch \in Elements(taken) : \E k \in DOMAIN fresh' : ch \in fresh'[k].changes
  BY <1>1, <1>2, GroupIs
<1>4. /\ DOMAIN fresh' = 1 .. Len(fresh') /\ Len(fresh') \in Nat
      /\ DOMAIN log = 1 .. Len(log) /\ Len(log) \in Nat
  BY <1>1, <1>3
<1>5. Increasing(fresh')
  BY <1>1, <1>3, <1>4 DEF Increasing
<1>6. /\ log' \in Seq(Frame) /\ Len(log') = Len(log) + Len(fresh')
      /\ \A i \in 1 .. Len(log') :
            log'[i] = IF i <= Len(log) THEN log[i] ELSE fresh'[i - Len(log)]
  BY <1>1, <1>2, <1>3, ConcatProperties
<1>7. DOMAIN log' = 1 .. Len(log) + Len(fresh')
  BY <1>6
<1>8. \A i \in DOMAIN log : i \in DOMAIN log' /\ log'[i] = log[i]
  BY <1>4, <1>6, <1>7
<1>9. ASSUME NEW k \in DOMAIN fresh'
      PROVE  \E i \in DOMAIN log' : log'[i] = fresh'[k]
  <2>1. Len(log) + k \in 1 .. Len(log') /\ ~(Len(log) + k <= Len(log))
        /\ Len(log) + k - Len(log) = k
    BY <1>4, <1>6
  <2>2. log'[Len(log) + k] = fresh'[k]
    BY <1>6, <2>1
  <2> QED BY <1>6, <1>7, <2>1, <2>2
<1>10. ASSUME NEW i \in DOMAIN log'
       PROVE  \/ i \in DOMAIN log /\ log'[i] = log[i]
              \/ \E k \in DOMAIN fresh' : log'[i] = fresh'[k] /\ i = Len(log) + k
  <2>1. i \in 1 .. Len(log') /\ i \in Int
    BY <1>4, <1>6, <1>7
  <2>2. CASE i <= Len(log)
    BY <1>4, <1>6, <2>1, <2>2
  <2>3. CASE ~(i <= Len(log))
    <3>1. i - Len(log) \in DOMAIN fresh' /\ i = Len(log) + (i - Len(log))
      BY <1>4, <1>6, <2>1, <2>3
    <3> QED BY <1>6, <2>1, <2>3, <3>1
  <2> QED BY <2>2, <2>3
<1>11. ASSUME NEW i \in DOMAIN log', NEW j \in DOMAIN log', i < j
       PROVE  log'[i].id < log'[j].id
  <2>1. /\ i \in Int /\ j \in Int
        /\ \A n \in DOMAIN log : n \in Int /\ n <= Len(log) /\ log[n].id \in Nat
    <3>1. \A n \in DOMAIN log : log[n] \in Frame
      BY <1>1
    <3> QED BY <1>4, <1>6, <1>7, <3>1 DEF Frame
  <2>2. CASE j \in DOMAIN log /\ log'[j] = log[j]
    <3>1. i \in DOMAIN log /\ log'[i] = log[i]
      BY <1>4, <1>6, <1>7, <1>11, <2>1, <2>2
    <3> QED BY <1>1, <1>11, <2>2, <3>1 DEF Increasing
  <2>3. CASE \E k \in DOMAIN fresh' : log'[j] = fresh'[k] /\ j = Len(log) + k
    <3>1. PICK k \in DOMAIN fresh' : log'[j] = fresh'[k] /\ j = Len(log) + k
      BY <2>3
    <3>2. CASE i \in DOMAIN log /\ log'[i] = log[i]
      <4>1. log[i].id <= seq /\ fresh'[k].id = seq + k /\ k \in Nat /\ k > 0
        BY <1>1, <1>3, <1>4, <3>2
      <4> QED BY <1>1, <2>1, <3>1, <3>2, <4>1
    <3>3. CASE \E n \in DOMAIN fresh' : log'[i] = fresh'[n] /\ i = Len(log) + n
      <4>1. PICK n \in DOMAIN fresh' : log'[i] = fresh'[n] /\ i = Len(log) + n
        BY <3>3
      <4>2. n < k
        BY <1>4, <1>11, <3>1, <4>1
      <4> QED BY <1>5, <3>1, <4>1, <4>2 DEF Increasing
    <3> QED BY <1>10, <3>2, <3>3
  <2> QED BY <1>10, <2>2, <2>3
<1>12. Increasing(log')
  BY <1>11 DEF Increasing
<1> QED BY <1>2, <1>3, <1>5, <1>6, <1>8, <1>9, <1>10, <1>12

\* What fanning out does to a client's connection.
LEMMA DeliverIs ==
    ASSUME HubInv, FlushDeliver, NEW c \in Client
    PROVE  LET ms == For(c, fresh) IN
           /\ ms \in Seq(Message) /\ Increasing(ms)
           /\ \A n \in DOMAIN ms : \E k \in DOMAIN fresh : ms[n] = AsMessage(fresh[k])
           /\ \A k \in DOMAIN fresh : fresh[k].audience \in Watches[c] =>
                 \E n \in DOMAIN ms : ms[n] = AsMessage(fresh[k])
           /\ wire'[c] \in Seq(Message)
           /\ c \in Sse => Len(wire'[c]) <= MaxQueued
           /\ \/ conn[c] # "open" /\ conn'[c] = conn[c] /\ wire'[c] = wire[c]
              \/ /\ conn[c] = "open" /\ conn'[c] \in {"open", "closed"}
                 /\ Len(wire[c]) <= Len(wire'[c])
                 /\ Len(wire'[c]) <= Len(wire[c]) + Len(ms)
                 /\ \A i \in 1 .. Len(wire[c]) : wire'[c][i] = wire[c][i]
                 /\ \A i \in Len(wire[c]) + 1 .. Len(wire'[c]) :
                       /\ i - Len(wire[c]) \in 1 .. Len(ms)
                       /\ wire'[c][i] = ms[i - Len(wire[c])]
                 /\ conn'[c] = "open" => Len(wire'[c]) = Len(wire[c]) + Len(ms)
                 /\ conn'[c] = "closed" => Len(wire'[c]) >= 2
<1> DEFINE ms == For(c, fresh)
<1>1. /\ fresh \in Seq(Frame) /\ Increasing(fresh) /\ wire[c] \in Seq(Message)
      /\ c \in Sse => Len(wire[c]) <= MaxQueued
  BY DEF HubInv, TypeOK, LogInv
<1>2. /\ ms \in Seq(Message) /\ Increasing(ms)
      /\ \A n \in DOMAIN ms : \E k \in DOMAIN fresh : ms[n] = AsMessage(fresh[k])
      /\ \A k \in DOMAIN fresh : fresh[k].audience \in Watches[c] =>
            \E n \in DOMAIN ms : ms[n] = AsMessage(fresh[k])
  BY <1>1, ForIs
<1>3. /\ conn[c] = "open" => /\ wire'[c] = Written(c, wire[c], ms)
                             /\ conn'[c] = AfterWrite(c, wire[c], ms)
      /\ conn[c] # "open" => wire'[c] = wire[c] /\ conn'[c] = conn[c]
  BY DEF FlushDeliver
<1> HIDE DEF ms
<1>4. CASE conn[c] # "open"
  BY <1>1, <1>2, <1>3, <1>4 DEF ms
<1>5. CASE conn[c] = "open"
  <2> DEFINE w == Written(c, wire[c], ms)
             after == AfterWrite(c, wire[c], ms)
  <2>1. /\ w \in Seq(Message)
        /\ c \in Sse => Len(w) <= MaxQueued
        /\ Len(wire[c]) <= Len(w) /\ Len(w) <= Len(wire[c]) + Len(ms)
        /\ \A i \in 1 .. Len(wire[c]) : w[i] = wire[c][i]
        /\ \A i \in Len(wire[c]) + 1 .. Len(w) :
              i - Len(wire[c]) \in 1 .. Len(ms) /\ w[i] = ms[i - Len(wire[c])]
        /\ after = "open" => Len(w) = Len(wire[c]) + Len(ms)
        /\ after # "open" => after = "closed" /\ Len(w) = MaxQueued
    BY <1>1, <1>2, WrittenIs
  <2>2. MaxQueued >= 2
    BY HubAssumption
  <2> HIDE DEF w, after
  <2>3. wire'[c] = w /\ conn'[c] = after
    BY <1>3, <1>5 DEF w, after
  <2> QED BY <1>2, <1>5, <2>1, <2>2, <2>3 DEF ms
<1> QED BY <1>4, <1>5

\* What a connection begins with.
LEMMA ConnectIs ==
    ASSUME HubInv, NEW c \in Client, Connect(c)
    PROVE  LET b == ConnectBacklog(c) IN
           /\ b \in Seq(Message) /\ Len(b) > 0
           /\ wire'[c] \in Seq(Message)
           /\ c \in Sse => Len(wire'[c]) <= MaxQueued
           /\ Len(wire'[c]) <= Len(b) /\ Len(wire'[c]) > 0
           /\ \A i \in 1 .. Len(wire'[c]) : i \in 1 .. Len(b) /\ wire'[c][i] = b[i]
           /\ conn'[c] \in {"open", "closed"}
           /\ conn'[c] = "open" => Len(wire'[c]) = Len(b)
           /\ conn'[c] = "closed" => Len(wire'[c]) >= 2
           /\ \A d \in Client \ {c} : wire'[d] = wire[d] /\ conn'[d] = conn[d]
<1> DEFINE b == ConnectBacklog(c)
           w == Written(c, <<>>, b)
           after == AfterWrite(c, <<>>, b)
<1>1. b \in Seq(Message) /\ Len(b) > 0
  BY BacklogIs DEF HubInv, LogInv
<1>2. /\ wire'[c] = w /\ conn'[c] = after
      /\ \A d \in Client \ {c} : wire'[d] = wire[d] /\ conn'[d] = conn[d]
  BY DEF Connect, HubInv, TypeOK
<1> HIDE DEF b
<1>3. /\ w \in Seq(Message)
      /\ c \in Sse => Len(w) <= MaxQueued
      /\ Len(<<>>) <= Len(w) /\ Len(w) <= Len(<<>>) + Len(b)
      /\ \A i \in Len(<<>>) + 1 .. Len(w) :
            i - Len(<<>>) \in 1 .. Len(b) /\ w[i] = b[i - Len(<<>>)]
      /\ after = "open" => Len(w) = Len(<<>>) + Len(b)
      /\ after # "open" => after = "closed" /\ Len(w) = MaxQueued
  <2>1. <<>> \in Seq(Message) /\ (c \in Sse => Len(<<>>) <= MaxQueued)
    BY HubAssumption
  <2> HIDE DEF w, after
  <2> QED BY <1>1, <2>1, WrittenIs DEF w, after
<1>4. MaxQueued >= 2 /\ Len(<<>>) = 0
  BY HubAssumption
<1> HIDE DEF w, after
<1>5. Len(w) \in Nat /\ Len(b) \in Nat
  BY <1>1, <1>3
<1>6. \A i \in 1 .. Len(w) : i \in 1 .. Len(b) /\ w[i] = b[i]
  BY <1>3, <1>4, <1>5
<1>7. Len(w) > 0
  BY <1>1, <1>3, <1>4, <1>5
<1> QED BY <1>1, <1>2, <1>3, <1>4, <1>5, <1>6, <1>7 DEF b

\* What receiving a message does.
LEMMA ReceiveIs ==
    ASSUME HubInv, NEW c \in Client, Receive(c)
    PROVE  /\ Len(wire[c]) \in Nat /\ Len(wire[c]) > 0
           /\ wire[c][1] \in Message
           /\ wire'[c] \in Seq(Message) /\ Len(wire'[c]) = Len(wire[c]) - 1
           /\ \A i \in DOMAIN wire'[c] :
                 i + 1 \in DOMAIN wire[c] /\ wire'[c][i] = wire[c][i + 1]
           /\ cursor'[c] = wire[c][1].id
           /\ Fetches(wire[c][1]) =>
                 knows'[c] = knows[c] \cup emitted /\ doubt' = doubt \ {c}
           /\ ~Fetches(wire[c][1]) =>
                 knows'[c] = knows[c] \cup wire[c][1].changes /\ doubt' = doubt
           /\ UNCHANGED <<hubVars, conn, breaks>>
           /\ \A d \in Client \ {c} :
                 wire'[d] = wire[d] /\ cursor'[d] = cursor[d] /\ knows'[d] = knows[d]
<1>1. wire[c] \in Seq(Message) /\ wire[c] # <<>>
  BY DEF Receive, HubInv, TypeOK
<1>2. /\ Len(wire[c]) \in Nat /\ Len(wire[c]) > 0 /\ wire[c][1] \in Message
      /\ Head(wire[c]) = wire[c][1]
      /\ Tail(wire[c]) \in Seq(Message) /\ Len(Tail(wire[c])) = Len(wire[c]) - 1
      /\ \A i \in 1 .. Len(Tail(wire[c])) : Tail(wire[c])[i] = wire[c][i + 1]
  BY <1>1, HeadTailProperties
<1>3. /\ wire'[c] = Tail(wire[c]) /\ cursor'[c] = wire[c][1].id
      /\ \A d \in Client \ {c} :
            wire'[d] = wire[d] /\ cursor'[d] = cursor[d] /\ knows'[d] = knows[d]
      /\ UNCHANGED <<hubVars, conn, breaks>>
  BY <1>2 DEF Receive, HubInv, TypeOK
<1>4. CASE Fetches(wire[c][1])
  <2>1. Head(wire[c]).kind # "frame" /\ ~Head(wire[c]).resumed
    BY <1>2, <1>4, Zenon DEF Fetches
  <2> QED BY <1>2, <1>3, <1>4, <2>1 DEF Receive, HubInv, TypeOK
<1>5. CASE ~Fetches(wire[c][1])
  <2>1. ~(Head(wire[c]).kind # "frame" /\ ~Head(wire[c]).resumed)
    BY <1>2, <1>5, Zenon DEF Fetches
  <2> QED BY <1>2, <1>3, <1>5, <2>1 DEF Receive, HubInv, TypeOK
<1> QED BY <1>4, <1>5

\* Where the clients' part of the type invariant is kept.
LEMMA ClientTypes ==
    ASSUME HubInv, NEW c \in Client, ClientStep(c) \/ Lose(c)
    PROVE  TypeOK' /\ UNCHANGED hubVars
<1> USE DEF HubInv, TypeOK
<1>1. CASE Connect(c)
  <2>1. UNCHANGED <<hubVars, cursor, knows, doubt, breaks>>
    BY <1>1 DEF Connect
  <2>2. /\ wire' \in [Client -> Seq(Message)]
        /\ conn' \in [Client -> {"off", "open", "closed", "lost"}]
    <3>1. /\ wire' = [wire EXCEPT ![c] = wire'[c]]
          /\ conn' = [conn EXCEPT ![c] = conn'[c]]
      BY <1>1 DEF Connect
    <3>2. wire'[c] \in Seq(Message) /\ conn'[c] \in {"open", "closed"}
      BY <1>1, ConnectIs
    <3> QED BY <3>1, <3>2
  <2>3. \A d \in Sse : Len(wire'[d]) <= MaxQueued
    BY <1>1, ConnectIs, HubAssumption
  <2> QED BY <2>1, <2>2, <2>3 DEF hubVars
<1>2. CASE Receive(c)
  <2> DEFINE w == wire'[c]
             k == knows'[c]
             n == cursor'[c]
  <2>1. /\ UNCHANGED <<hubVars, conn, breaks>>
        /\ wire[c][1] \in Message /\ wire'[c] \in Seq(Message)
        /\ Len(wire'[c]) = Len(wire[c]) - 1 /\ Len(wire[c]) \in Nat
        /\ cursor'[c] = wire[c][1].id
        /\ \A d \in Client \ {c} : wire'[d] = wire[d]
    BY <1>2, ReceiveIs
  <2>2. /\ wire' = [wire EXCEPT ![c] = w]
        /\ cursor' = [cursor EXCEPT ![c] = n]
        /\ knows' = [knows EXCEPT ![c] = k]
    BY <1>2 DEF Receive
  <2>3. k \in SUBSET Change /\ doubt' \subseteq Client
    <3>1. \/ k = knows[c] \cup emitted /\ doubt' = doubt \ {c}
          \/ k = knows[c] \cup wire[c][1].changes /\ doubt' = doubt
      BY <1>2, ReceiveIs
    <3>2. wire[c][1].changes \in SUBSET Change
      BY <2>1 DEF Message
    <3> QED BY <3>1, <3>2
  <2>4. n \in Nat
    BY <2>1 DEF Message
  <2>5. ASSUME NEW d \in Sse
        PROVE  Len(wire'[d]) <= MaxQueued
    <3>1. d \in Client /\ MaxQueued \in Nat /\ Len(wire[d]) <= MaxQueued
      BY HubAssumption
    <3>2. CASE d = c
      BY <2>1, <3>1, <3>2
    <3>3. CASE d # c
      BY <2>1, <3>1, <3>3
    <3> QED BY <3>2, <3>3
  <2> HIDE DEF w, k, n
  <2>6. /\ wire' \in [Client -> Seq(Message)]
        /\ cursor' \in [Client -> Nat \cup {NoCursor}]
        /\ knows' \in [Client -> SUBSET Change]
    <3>1. w \in Seq(Message)
      BY <2>1 DEF w
    <3> QED BY <2>2, <2>3, <2>4, <3>1
  <2> QED BY <2>1, <2>3, <2>5, <2>6 DEF hubVars
<1>3. ASSUME Leave(c), breaks' \in 0..MaxBreaks
      PROVE  TypeOK' /\ UNCHANGED hubVars
  <2>1. UNCHANGED <<hubVars, cursor, knows>> /\ doubt' \subseteq Client
    BY <1>3 DEF Leave
  <2>2. /\ wire' \in [Client -> Seq(Message)]
        /\ \A d \in Sse : Len(wire'[d]) <= MaxQueued
    <3>1. <<>> \in Seq(Message) /\ Len(<<>>) <= MaxQueued
      BY HubAssumption
    <3> QED BY <1>3, <3>1, HubAssumption DEF Leave
  <2>3. conn' \in [Client -> {"off", "open", "closed", "lost"}]
    BY <1>3 DEF Leave
  <2> QED BY <1>3, <2>1, <2>2, <2>3 DEF hubVars
<1>4. CASE NoticeClose(c)
  BY <1>3, <1>4 DEF NoticeClose
<1>5. CASE Lose(c)
  <2>1. breaks' \in 0..MaxBreaks
    BY <1>5, HubAssumption DEF Lose
  <2> QED BY <1>3, <1>5, <2>1 DEF Lose
<1> QED BY <1>1, <1>2, <1>4, <1>5 DEF ClientStep

\* What the log of a shard becomes: a frame goes only once it is older than any
\* frame that stays.
LogStep ==
    /\ seq <= seq' /\ Oldest <= Oldest'
    /\ \A i \in DOMAIN log :
          \/ \E j \in DOMAIN log' : log'[j] = log[i]
          \/ log[i].id < Oldest'

LEMMA SameLog ==
    ASSUME HubInv, UNCHANGED <<log, seq>>
    PROVE  LogStep
<1>1. seq \in Nat /\ Oldest' = Oldest
  BY DEF HubInv, TypeOK, Oldest
<1>2. Oldest \in Nat
  <2>1. CASE log = <<>>
    BY <1>1, <2>1 DEF Oldest
  <2>2. CASE log # <<>>
    <3>1. log[1] \in Frame
      BY <2>2 DEF HubInv, TypeOK
    <3> QED BY <2>2, <3>1 DEF Oldest, Frame
  <2> QED BY <2>1, <2>2
<1> QED BY <1>1, <1>2 DEF LogStep

\* The steps of the shard.
LEMMA EmitHub ==
    ASSUME HubInv, NEW ch \in Change, NEW queued \in BOOLEAN, Emit(ch, queued)
    PROVE  HubInv' /\ LogStep
<1> USE DEF HubInv
<1>1. /\ pending' = pending \/ pending' = Append(pending, ch)
      /\ emitted' = emitted \cup {ch} /\ ch \notin emitted
      /\ pending \in Seq(Change) /\ taken \in Seq(Change)
  BY DEF Emit, TypeOK
<1>2. pending' \in Seq(Change) /\ Elements(pending') \subseteq Elements(pending) \cup {ch}
  <2>1. CASE pending' = pending
    BY <1>1, <2>1
  <2>2. CASE pending' = Append(pending, ch)
    BY <1>1, <2>2, AppendProperties DEF Elements
  <2> QED BY <1>1, <2>1, <2>2
<1>3. TypeOK'
  BY <1>1, <1>2 DEF Emit, TypeOK, clientVars
<1>4. QueueInv'
  <2>1. /\ step = "idle" /\ step' \in {"idle", "arm"}
        /\ UNCHANGED <<logged, taken, fresh>>
    BY DEF Emit
  <2>2. Elements(taken)' = Elements(taken) /\ Elements(taken) = {}
    BY <2>1 DEF QueueInv, Elements
  <2>3. logged \subseteq emitted /\ Elements(pending)' = Elements(pending')
    BY DEF TypeOK, Elements
  <2> QED BY <1>1, <1>2, <2>1, <2>2, <2>3 DEF QueueInv
<1>5. LogInv'
  BY DEF Emit, LogInv, Increasing
<1>6. LogStep
  BY SameLog DEF Emit
<1> QED BY <1>3, <1>4, <1>5, <1>6

LEMMA ArmHub ==
    ASSUME HubInv, Arm \/ ArmFails
    PROVE  HubInv' /\ LogStep
<1> USE DEF HubInv
<1>1. /\ step = "arm" /\ step' = "idle" /\ alarm' \in BOOLEAN
      /\ UNCHANGED <<emitted, pending, seq, log, aged, logged, taken, fresh>>
      /\ UNCHANGED <<conn, wire, cursor, knows, doubt, breaks>>
  BY DEF Arm, ArmFails, TypeOK, clientVars
<1>2. TypeOK'
  BY <1>1 DEF TypeOK
<1>3. QueueInv' /\ LogInv'
  BY <1>1 DEF QueueInv, LogInv, Elements, Increasing
<1>4. LogStep
  BY <1>1, SameLog
<1> QED BY <1>2, <1>3, <1>4

LEMMA TakeHub ==
    ASSUME HubInv, FlushTake
    PROVE  HubInv' /\ LogStep
<1> USE DEF HubInv
<1>1. TypeOK'
  BY DEF FlushTake, TypeOK, clientVars
<1>2. QueueInv'
  BY DEF FlushTake, QueueInv, Elements
<1>3. LogInv'
  BY DEF FlushTake, LogInv, Increasing
<1>4. LogStep
  BY SameLog DEF FlushTake
<1> QED BY <1>1, <1>2, <1>3, <1>4

LEMMA StoreHub ==
    ASSUME HubInv, FlushStore
    PROVE  HubInv' /\ LogStep
<1> USE DEF HubInv
<1>1. /\ fresh' \in Seq(Frame) /\ Increasing(fresh')
      /\ log' \in Seq(Frame) /\ Increasing(log') /\ log' = log \o fresh'
      /\ seq' = seq + Len(fresh') /\ Len(fresh') \in Nat
      /\ DOMAIN fresh' = 1 .. Len(fresh')
      /\ seq \in Nat /\ log \in Seq(Frame)
  BY StoreIs DEF TypeOK
<1>2. TypeOK'
  <2>1. Elements(taken) \subseteq emitted /\ aged \in 0 .. seq'
    BY <1>1 DEF TypeOK, QueueInv
  <2> QED BY <1>1, <2>1 DEF FlushStore, TypeOK, clientVars
<1>3. QueueInv'
  BY DEF FlushStore, QueueInv, Elements
<1>4. LogInv'
  <2>1. ASSUME NEW i \in DOMAIN log'
        PROVE  /\ log'[i].id <= seq'
               /\ \A ch \in log'[i].changes : AudienceOf[ch] = log'[i].audience
    <3>1. CASE i \in DOMAIN log /\ log'[i] = log[i]
      <4>1. log[i] \in Frame
        BY <1>1, <3>1
      <4>2. log[i].id \in Nat /\ log[i].id <= seq
        BY <3>1, <4>1 DEF LogInv, Frame
      <4> QED BY <1>1, <3>1, <4>2 DEF LogInv
    <3>2. CASE \E k \in DOMAIN fresh' : log'[i] = fresh'[k]
      <4>1. PICK k \in DOMAIN fresh' : log'[i] = fresh'[k]
        BY <3>2
      <4>2. /\ fresh'[k].id = seq + k
            /\ \A ch \in fresh'[k].changes : AudienceOf[ch] = fresh'[k].audience
        BY StoreIs
      <4> QED BY <1>1, <4>1, <4>2
    <3> QED BY <3>1, <3>2, StoreIs
  <2>2. \A i \in DOMAIN fresh' : \E j \in DOMAIN log' : log'[j] = fresh'[i]
    BY StoreIs
  <2>3. Increasing(log)' /\ Increasing(fresh)'
    BY <1>1 DEF Increasing
  <2> QED BY <2>1, <2>2, <2>3 DEF LogInv
<1>5. LogStep
  <2>1. \A i \in DOMAIN log : \E j \in DOMAIN log' : log'[j] = log[i]
    BY StoreIs
  <2>2. Oldest' = Oldest /\ Oldest \in Nat
    <3>1. CASE log # <<>>
      <4>1. 1 \in DOMAIN log /\ log' # <<>> /\ log'[1] = log[1] /\ log[1] \in Frame
        <5>1. 1 \in DOMAIN log
          BY <1>1, <3>1
        <5>2. 1 \in DOMAIN log' /\ log'[1] = log[1]
          BY <5>1, StoreIs
        <5> QED BY <1>1, <5>1, <5>2
      <4> QED BY <3>1, <4>1 DEF Oldest, Frame
    <3>2. CASE log = <<>> /\ fresh' = <<>>
      <4>1. log' = <<>> /\ seq' = seq
        BY <1>1, <3>2
      <4> QED BY <1>1, <3>2, <4>1 DEF Oldest
    <3>3. CASE log = <<>> /\ fresh' # <<>>
      <4>1. log' = fresh'
        BY <1>1, <3>3
      <4>2. 1 \in DOMAIN fresh' /\ fresh'[1].id = seq + 1
        <5>1. 1 \in DOMAIN fresh'
          BY <1>1, <3>3
        <5> QED BY <5>1, StoreIs
      <4> QED BY <1>1, <3>3, <4>1, <4>2 DEF Oldest
    <3> QED BY <3>1, <3>2, <3>3
  <2> QED BY <1>1, <2>1, <2>2 DEF LogStep
<1> QED BY <1>2, <1>3, <1>4, <1>5

LEMMA DeliverHub ==
    ASSUME HubInv, FlushDeliver
    PROVE  HubInv' /\ LogStep
<1> USE DEF HubInv
<1>0. log \in Seq(Frame) /\ Increasing(log) /\ aged \in Nat /\ seq \in Nat
  BY DEF TypeOK, LogInv
<1>1. /\ log' \in Seq(Frame) /\ Increasing(log')
      /\ \A n \in DOMAIN log' : \E i \in DOMAIN log : log'[n] = log[i]
      /\ \A i \in DOMAIN log :
            \/ \E n \in DOMAIN log' : log'[n] = log[i]
            \/ \A n \in DOMAIN log' : log[i].id < log'[n].id
  BY <1>0, PruneIs DEF FlushDeliver
<1>2. TypeOK'
  <2>1. /\ wire' \in [Client -> Seq(Message)]
        /\ conn' \in [Client -> {"off", "open", "closed", "lost"}]
    <3>1. \A c \in Client : /\ wire'[c] \in Seq(Message)
                            /\ conn'[c] = conn[c] \/ conn'[c] \in {"open", "closed"}
      BY DeliverIs
    <3>2. \E f, g : wire' = [c \in Client |-> f[c]] /\ conn' = [c \in Client |-> g[c]]
      <4>1. wire' = [c \in Client |-> wire'[c]] /\ conn' = [c \in Client |-> conn'[c]]
        BY DEF FlushDeliver
      <4> QED BY <4>1
    <3> QED BY <3>1, <3>2 DEF TypeOK
  <2>2. \A c \in Sse : Len(wire'[c]) <= MaxQueued
    BY DeliverIs, HubAssumption
  <2>3. UNCHANGED <<emitted, pending, seq, aged, logged, taken, cursor, knows, doubt, breaks>>
        /\ fresh' = <<>> /\ step' = "idle" /\ alarm' \in BOOLEAN
    BY DEF FlushDeliver, Rearm
  <2> QED BY <1>1, <2>1, <2>2, <2>3 DEF TypeOK
<1>3. QueueInv'
  BY DEF FlushDeliver, QueueInv, Elements
<1>4. LogInv'
  <2>1. fresh' = <<>> /\ seq' = seq
    BY DEF FlushDeliver
  <2>2. \A i \in DOMAIN log' :
          /\ log'[i].id <= seq
          /\ \A ch \in log'[i].changes : AudienceOf[ch] = log'[i].audience
    BY <1>1 DEF LogInv
  <2>3. Increasing(log)'
    BY <1>1 DEF Increasing
  <2> QED BY <2>1, <2>2, <2>3 DEF LogInv, Increasing
<1>5. LogStep
  <2>1. seq' = seq
    BY DEF FlushDeliver
  <2>2. /\ \A i \in DOMAIN log : log[i].id \in Nat /\ log[i].id <= seq
        /\ \A n \in DOMAIN log' : log'[n].id \in Nat
    <3>1. /\ \A i \in DOMAIN log : log[i] \in Frame
          /\ \A n \in DOMAIN log' : log'[n] \in Frame
      BY <1>0, <1>1
    <3> QED BY <3>1 DEF Frame, LogInv
  <2>3. CASE log' = <<>>
    <3>1. Oldest' = seq + 1
      BY <2>1, <2>3 DEF Oldest
    <3>2. Oldest <= seq + 1
      BY <1>0, <2>2 DEF Oldest
    <3> QED BY <1>0, <2>1, <2>2, <3>1, <3>2 DEF LogStep
  <2>4. CASE log' # <<>>
    <3>1. 1 \in DOMAIN log' /\ Oldest' = log'[1].id
      BY <1>1, <2>4 DEF Oldest
    <3>2. PICK i \in DOMAIN log : log'[1] = log[i]
      BY <1>1, <3>1
    <3>3. log # <<>> /\ 1 \in DOMAIN log /\ (i = 1 \/ 1 < i)
      BY <1>0, <3>2
    <3>4. Oldest <= Oldest'
      BY <1>0, <2>2, <3>1, <3>2, <3>3 DEF Oldest, Increasing
    <3> QED BY <1>0, <1>1, <2>1, <3>1, <3>4 DEF LogStep
  <2> QED BY <2>3, <2>4
<1> QED BY <1>2, <1>3, <1>4, <1>5

LEMMA FailsHub ==
    ASSUME HubInv, FlushFails \/ Reset \/ Age
    PROVE  HubInv' /\ LogStep
<1> USE DEF HubInv
<1>1. UNCHANGED <<log, seq, logged, emitted, pending>>
  BY DEF FlushFails, Reset, Age
<1>2. TypeOK'
  <2>1. CASE FlushFails
    BY <2>1 DEF FlushFails, Rearm, TypeOK
  <2>2. CASE Reset
    <3>1. conn' \in [Client -> {"off", "open", "closed", "lost"}]
      BY <2>2 DEF Reset, TypeOK
    <3>2. breaks' \in 0 .. MaxBreaks
      BY <2>2, HubAssumption DEF Reset, TypeOK
    <3>3. <<>> \in Seq(Change) /\ <<>> \in Seq(Frame)
      OBVIOUS
    <3> QED BY <2>2, <3>1, <3>2, <3>3 DEF Reset, TypeOK
  <2>3. CASE Age
    BY <2>3 DEF Age, TypeOK, clientVars
  <2> QED BY <2>1, <2>2, <2>3
<1>3. QueueInv'
  <2>1. CASE Age
    BY <2>1 DEF Age, QueueInv, Elements
  <2>2. CASE FlushFails \/ Reset
    <3>1. taken' = <<>> /\ fresh' = <<>>
      BY <2>2 DEF FlushFails, Reset
    <3> QED BY <1>1, <3>1 DEF QueueInv, Elements
  <2> QED BY <2>1, <2>2
<1>4. LogInv'
  <2>1. fresh' = fresh \/ fresh' = <<>>
    BY DEF FlushFails, Reset, Age
  <2> QED BY <1>1, <2>1 DEF LogInv, Increasing
<1>5. LogStep
  BY <1>1, SameLog
<1> QED BY <1>2, <1>3, <1>4, <1>5

LEMMA NextHub ==
    ASSUME HubInv, [Next]_vars
    PROVE  HubInv' /\ LogStep
<1>1. ASSUME NEW c \in Client, ClientStep(c) \/ Lose(c)
      PROVE  HubInv' /\ LogStep
  <2>1. TypeOK' /\ UNCHANGED hubVars
    BY <1>1, ClientTypes
  <2>2. QueueInv' /\ LogInv'
    BY <2>1 DEF HubInv, QueueInv, LogInv, hubVars, Elements, Increasing
  <2>3. LogStep
    BY <2>1, SameLog DEF hubVars
  <2> QED BY <2>1, <2>2, <2>3 DEF HubInv
<1>2. CASE UNCHANGED vars
  <2>1. LogStep
    BY <1>2, SameLog DEF vars, hubVars
  <2>2. TypeOK'
    BY <1>2 DEF HubInv, TypeOK, vars, hubVars, clientVars
  <2>3. QueueInv' /\ LogInv'
    BY <1>2 DEF HubInv, QueueInv, LogInv, vars, hubVars, Elements, Increasing
  <2> QED BY <2>1, <2>2, <2>3 DEF HubInv
<1>3. CASE Next
  BY <1>1, <1>3, EmitHub, ArmHub, TakeHub, StoreHub, DeliverHub, FailsHub DEF Next, Flush
<1> QED BY <1>2, <1>3

\* The storage and the connections keep their shape, whatever is lost or reset.
THEOREM HubTypes == Spec => []TypeOK
<1>1. Init => HubInv
  BY InitHub
<1>2. HubInv /\ [Next]_vars => HubInv'
  BY NextHub
<1>3. HubInv => TypeOK
  BY DEF HubInv
<1> QED BY <1>1, <1>2, <1>3, PTL DEF Spec

-----------------------------------------------------------------------------
(* What is on its way.                                                      *)

LEMMA OldestIs ==
    ASSUME TypeOK
    PROVE  Oldest \in Nat /\ seq \in Nat
<1>1. CASE log = <<>>
  BY <1>1 DEF TypeOK, Oldest
<1>2. CASE log # <<>>
  <2>1. log[1] \in Frame
    BY <1>2 DEF TypeOK
  <2> QED BY <1>2, <2>1 DEF TypeOK, Oldest, Frame
<1> QED BY <1>1, <1>2

LEMMA NextOldestIs ==
    ASSUME TypeOK'
    PROVE  Oldest' \in Nat /\ seq' \in Nat
<1>0. seq' \in Nat
  BY DEF TypeOK
<1>1. CASE log' = <<>>
  <2>1. \A n \in Nat : n + 1 \in Nat
    OBVIOUS
  <2> QED BY <1>0, <1>1, <2>1 DEF Oldest
<1>2. CASE log' # <<>>
  <2>1. log'[1] \in Frame
    BY <1>2 DEF TypeOK
  <2> QED BY <1>0, <1>2, <2>1 DEF Oldest, Frame
<1> QED BY <1>0, <1>1, <1>2

\* What is retained stays so, or gets too old.
LEMMA RetainedStays ==
    ASSUME TypeOK, TypeOK', LogStep
    PROVE  \A m \in Message : Retained(m) => RetainedIn(log', Oldest', m)
<1> SUFFICES ASSUME NEW m \in Message, Retained(m)
             PROVE  RetainedIn(log', Oldest', m)
  OBVIOUS
<1>1. Oldest \in Nat /\ Oldest' \in Nat /\ Oldest <= Oldest' /\ m.id \in Nat
  BY OldestIs, NextOldestIs DEF LogStep, Message
<1>2. CASE m.id < Oldest
  BY <1>1, <1>2 DEF RetainedIn
<1>3. CASE \E i \in DOMAIN log : log[i].id = m.id /\ log[i].changes = m.changes
  <2>1. PICK i \in DOMAIN log : log[i].id = m.id /\ log[i].changes = m.changes
    BY <1>3
  <2>2. (\E j \in DOMAIN log' : log'[j] = log[i]) \/ log[i].id < Oldest'
    BY DEF LogStep
  <2> QED BY <2>1, <2>2 DEF RetainedIn
<1> QED BY <1>2, <1>3 DEF Retained, RetainedIn

\* A client that neither receives nor is written to.
LEMMA OrderOfOthers ==
    ASSUME HubInv, TypeOK', LogStep, OrderInv, NEW c \in Client,
           wire'[c] = wire[c] \/ wire'[c] = <<>>, cursor'[c] = cursor[c],
           conn'[c] = "off" => conn[c] = "off" \/ wire'[c] = <<>>,
           \A k \in DOMAIN fresh' :
               (k \in DOMAIN fresh /\ fresh'[k] = fresh[k]) \/ fresh'[k].id > seq
    PROVE  ClientOrder(c)'
<1>1. ClientOrder(c) /\ TypeOK
  BY DEF OrderInv, HubInv
<1>2. /\ seq \in Nat /\ seq' \in Nat /\ seq <= seq'
      /\ cursor[c] \in Int /\ cursor[c] <= seq
  BY <1>1, OldestIs, NextOldestIs DEF TypeOK, LogStep, ClientOrder, NoCursor
<1>3. \A i \in DOMAIN wire[c] : wire[c][i] \in Message /\ wire[c][i].id \in Nat
  <2>1. \A i \in DOMAIN wire[c] : wire[c][i] \in Message
    BY <1>1 DEF TypeOK
  <2> QED BY <2>1 DEF Message
<1>4. CASE wire'[c] = <<>>
  <2>1. WireShape(c)'
    BY <1>4 DEF WireShape
  <2>2. \A k \in DOMAIN fresh' : cursor[c] < fresh'[k].id
    <3>1. \A k \in DOMAIN fresh' : fresh'[k] \in Frame
      BY DEF TypeOK
    <3>2. \A k \in DOMAIN fresh' : fresh'[k].id \in Nat
      BY <3>1 DEF Frame
    <3> QED BY <1>1, <1>2, <3>2 DEF ClientOrder
  <2> QED BY <1>2, <1>4, <2>1, <2>2 DEF ClientOrder
<1>5. CASE wire'[c] = wire[c]
  <2>1. WireShape(c)'
    <3>1. ASSUME NEW i \in DOMAIN wire[c]
          PROVE  /\ wire[c][i].id <= seq'
                 /\ wire[c][i].kind = "frame" => RetainedIn(log', Oldest', wire[c][i])
      BY <1>1, <1>2, <1>3, RetainedStays DEF ClientOrder, WireShape
    <3> QED BY <1>1, <1>5, <3>1 DEF ClientOrder, WireShape, Retained
  <2>2. ASSUME NEW k \in DOMAIN fresh'
        PROVE  /\ cursor[c] < fresh'[k].id
               /\ \A i \in DOMAIN wire[c] : wire[c][i].id < fresh'[k].id
    <3>1. fresh'[k] \in Frame
      BY DEF TypeOK
    <3>2. fresh'[k].id \in Nat
      BY <3>1 DEF Frame
    <3> QED BY <1>1, <1>2, <1>3, <3>2 DEF ClientOrder, WireShape
  <2>3. conn'[c] = "off" => wire'[c] = <<>>
    BY <1>1, <1>5 DEF ClientOrder
  <2> QED BY <1>1, <1>2, <1>5, <2>1, <2>2, <2>3 DEF ClientOrder
<1> QED BY <1>4, <1>5

LEMMA OrderOfDelivered ==
    ASSUME HubInv, TypeOK', LogStep, OrderInv, NEW c \in Client, FlushDeliver
    PROVE  ClientOrder(c)'
<1>1. ClientOrder(c) /\ TypeOK /\ cursor'[c] = cursor[c] /\ fresh' = <<>> /\ seq' = seq
  BY DEF OrderInv, HubInv, FlushDeliver
<1>2. CASE conn[c] # "open"
  <2>1. wire'[c] = wire[c] /\ conn'[c] = conn[c]
    BY <1>2, DeliverIs
  <2> QED BY <1>1, <2>1, OrderOfOthers
<1>3. CASE conn[c] = "open"
  <2> DEFINE q == wire[c]
             w == wire'[c]
             n == Len(wire[c])
  <2>1. /\ q \in Seq(Message) /\ w \in Seq(Message) /\ n \in Nat
        /\ DOMAIN q = 1 .. n /\ DOMAIN w = 1 .. Len(w) /\ n <= Len(w)
        /\ Len(w) \in Nat
        /\ conn'[c] # "off"
        /\ \A i \in 1 .. n : w[i] = q[i]
    <3>1. /\ w \in Seq(Message) /\ n <= Len(w) /\ conn'[c] \in {"open", "closed"}
          /\ \A i \in 1 .. n : w[i] = q[i]
      BY <1>3, DeliverIs
    <3>2. q \in Seq(Message) /\ n = Len(q)
      BY <1>1 DEF TypeOK
    <3> HIDE DEF q, w, n
    <3> QED BY <3>1, <3>2
  <2>2. ASSUME NEW i \in n + 1 .. Len(w)
        PROVE  \E k \in DOMAIN fresh : w[i] = AsMessage(fresh[k])
    <3>1. i - n \in 1 .. Len(For(c, fresh)) /\ w[i] = For(c, fresh)[i - n]
          /\ For(c, fresh) \in Seq(Message)
          /\ \A m \in DOMAIN For(c, fresh) : \E k \in DOMAIN fresh :
                For(c, fresh)[m] = AsMessage(fresh[k])
      BY <1>3, DeliverIs
    <3>2. i - n \in DOMAIN For(c, fresh)
      BY <3>1
    <3> QED BY <3>1, <3>2
  <2>3. \A i, j \in n + 1 .. Len(w) : i < j => w[i].id < w[j].id
    <3> DEFINE ms == For(c, fresh)
    <3>1. /\ ms \in Seq(Message) /\ Increasing(ms)
          /\ \A i \in n + 1 .. Len(w) : i - n \in 1 .. Len(ms) /\ w[i] = ms[i - n]
      BY <1>3, DeliverIs
    <3> HIDE DEF ms, w, n
    <3>2. DOMAIN ms = 1 .. Len(ms)
      BY <3>1
    <3> SUFFICES ASSUME NEW i \in n + 1 .. Len(w), NEW j \in n + 1 .. Len(w), i < j
                 PROVE  w[i].id < w[j].id
      OBVIOUS
    <3>3. i - n < j - n
      BY <2>1
    <3> QED BY <3>1, <3>2, <3>3 DEF Increasing
  <2>4. ASSUME NEW k \in DOMAIN fresh
        PROVE  LET m == AsMessage(fresh[k]) IN
               /\ m \in Message /\ m.kind = "frame"
               /\ m.id = fresh[k].id /\ m.id \in Nat /\ m.id <= seq
               /\ Retained(m)
    <3>1. PICK j \in DOMAIN log : log[j] = fresh[k]
      BY DEF HubInv, LogInv
    <3>2. fresh[k] \in Frame /\ log[j].id <= seq
      BY <1>1 DEF TypeOK, HubInv, LogInv
    <3> QED BY <3>1, <3>2 DEF AsMessage, Frame, Message, Retained, RetainedIn
  <2>5. /\ \A i \in 1 .. n : q[i] \in Message /\ q[i].id \in Nat
        /\ cursor[c] \in Int /\ seq \in Nat
    <3>1. \A i \in 1 .. n : q[i] \in Message
      BY <2>1
    <3>2. \A m \in Message : m.id \in Nat
      BY DEF Message
    <3>3. cursor[c] \in Int
      BY <1>1 DEF TypeOK, NoCursor
    <3> QED BY <1>1, <3>1, <3>2, <3>3, OldestIs
  <2>6. ASSUME NEW i \in n + 1 .. Len(w)
        PROVE  /\ w[i] \in Message /\ w[i].kind = "frame" /\ w[i].id \in Nat
               /\ w[i].id <= seq /\ Retained(w[i]) /\ cursor[c] < w[i].id
               /\ \A j \in 1 .. n : w[j].id < w[i].id
    <3>1. PICK k \in DOMAIN fresh : w[i] = AsMessage(fresh[k])
      BY <2>2
    <3>2. cursor[c] < fresh[k].id /\ \A j \in 1 .. n : q[j].id < fresh[k].id
      BY <1>1, <2>1 DEF ClientOrder
    <3> QED BY <2>1, <2>4, <3>1, <3>2
  <2> HIDE DEF q, w, n
  <2>7. ASSUME NEW i \in DOMAIN w
        PROVE  /\ w[i].id <= seq
               /\ w[i].kind = "frame" => RetainedIn(log', Oldest', w[i])
               /\ i > 1 /\ w[i].kind # "frame" => i = 2 /\ Fetches(w[1]) /\ Fetches(w[2])
               /\ w[1].kind # "frame" /\ ~Fetches(w[1]) =>
                     cursor[c] <= w[1].id /\ (i > 1 => cursor[c] < w[i].id)
    <3>0. i \in 1 .. n \/ i \in n + 1 .. Len(w)
      BY <2>1
    <3>1. CASE i \in 1 .. n
      <4>1. /\ q[i].id <= seq
            /\ q[i].kind = "frame" => Retained(q[i])
            /\ i > 1 /\ q[i].kind # "frame" => i = 2 /\ Fetches(q[1]) /\ Fetches(q[2])
            /\ q[1].kind # "frame" /\ ~Fetches(q[1]) =>
                  cursor[c] <= q[1].id /\ (i > 1 => cursor[c] < q[i].id)
        BY <1>1, <2>1, <3>1 DEF ClientOrder, WireShape, q
      <4>2. w[i] = q[i] /\ w[1] = q[1] /\ (i = 2 => w[2] = q[2])
        BY <2>1, <3>1
      <4>3. w[i].kind = "frame" => RetainedIn(log', Oldest', w[i])
        BY <1>1, <2>5, <3>1, <4>1, <4>2, RetainedStays
      <4> QED BY <4>1, <4>2, <4>3
    <3>2. CASE i \in n + 1 .. Len(w)
      <4>1. RetainedIn(log', Oldest', w[i])
        BY <1>1, <2>6, <3>2, RetainedStays
      <4>2. CASE n = 0
        <5>1. w[1].kind = "frame"
          BY <2>1, <2>6, <3>2, <4>2
        <5> QED BY <2>6, <3>2, <4>1, <5>1
      <4>3. CASE n > 0
        <5>1. 1 \in 1 .. n /\ w[1] = q[1]
          BY <2>1, <4>3
        <5>2. q[1].kind # "frame" /\ ~Fetches(q[1]) => cursor[c] <= q[1].id
          BY <1>1, <2>1, <5>1 DEF ClientOrder, WireShape, q
        <5> QED BY <2>6, <3>2, <4>1, <5>1, <5>2
      <4> QED BY <2>1, <4>2, <4>3
    <3> QED BY <3>0, <3>1, <3>2
  <2>8. WireShape(c)'
    BY <1>1, <2>7 DEF WireShape, Retained, w
  <2>9. ASSUME NEW i \in DOMAIN w, NEW j \in DOMAIN w, i < j,
               w[i].kind = "frame", w[j].kind = "frame"
        PROVE  w[i].id < w[j].id
    <3>1. CASE j \in 1 .. n
      <4>1. i \in 1 .. n /\ w[i] = q[i] /\ w[j] = q[j]
        BY <2>1, <2>9, <3>1
      <4> QED BY <1>1, <2>1, <2>9, <3>1, <4>1 DEF ClientOrder, q
    <3>2. CASE j \in n + 1 .. Len(w)
      <4>1. i \in 1 .. n \/ i \in n + 1 .. Len(w)
        BY <2>1
      <4> QED BY <2>3, <2>6, <2>9, <3>2, <4>1
    <3> QED BY <2>1, <3>1, <3>2
  <2>10. cursor'[c] <= seq' /\ conn'[c] # "off"
    BY <1>1, <2>1 DEF ClientOrder
  <2> QED BY <1>1, <2>8, <2>9, <2>10 DEF ClientOrder, w
<1> QED BY <1>2, <1>3

LEMMA OrderOfConnected ==
    ASSUME HubInv, OrderInv, NEW c \in Client, Connect(c)
    PROVE  ClientOrder(c)'
<1> DEFINE b == ConnectBacklog(c)
           w == wire'[c]
<1>1. /\ ClientOrder(c) /\ TypeOK /\ Increasing(log) /\ step = "idle"
      /\ UNCHANGED <<hubVars, cursor>>
  BY DEF OrderInv, HubInv, LogInv, Connect
<1>2. log' = log /\ seq' = seq /\ cursor' = cursor /\ fresh' = <<>> /\ Oldest' = Oldest
  BY <1>1 DEF hubVars, HubInv, QueueInv, Oldest
<1>3. /\ w \in Seq(Message) /\ conn'[c] # "off" /\ Len(w) > 0
      /\ \A i \in 1 .. Len(w) : i \in 1 .. Len(b) /\ w[i] = b[i]
      /\ b \in Seq(Message)
  BY ConnectIs
<1>4. /\ b[1].kind # "frame" /\ b[1].id = seq
      /\ \/ /\ Fetches(b[1])
            /\ Len(b) <= 2
            /\ Len(b) = 2 => b[2].kind # "frame" /\ b[2].id = seq /\ Fetches(b[2])
         \/ /\ ~Fetches(b[1])
            /\ \A i, j \in 2 .. Len(b) : i < j => b[i].id < b[j].id
            /\ \A i \in 2 .. Len(b) : \E k \in DOMAIN log :
                  b[i] = AsMessage(log[k]) /\ log[k].id > cursor[c]
  BY <1>1, BacklogIs
<1> HIDE DEF b, w
<1>5. /\ Len(w) \in Nat /\ Len(b) \in Nat /\ DOMAIN w = 1 .. Len(w)
      /\ seq \in Nat /\ cursor[c] \in Int /\ cursor[c] <= seq
  BY <1>1, <1>3, OldestIs DEF ClientOrder, TypeOK, NoCursor
<1>6. ASSUME NEW k \in DOMAIN log
      PROVE  LET m == AsMessage(log[k]) IN
             m.kind = "frame" /\ m.id = log[k].id /\ m.id <= seq /\ Retained(m)
  BY <1>1 DEF AsMessage, Retained, RetainedIn, HubInv, LogInv
<1>7. 1 \in DOMAIN w /\ w[1] = b[1]
  BY <1>3, <1>5
<1>8. CASE Fetches(b[1])
  <2>1. ASSUME NEW i \in DOMAIN w
        PROVE  w[i].kind # "frame" /\ w[i].id = seq /\ (i = 1 \/ (i = 2 /\ Fetches(w[i])))
    <3>0. i \in 1 .. Len(b) /\ Len(b) <= 2
      BY <1>3, <1>4, <1>5, <1>8
    <3>1. i = 1 \/ (i = 2 /\ Len(b) = 2)
      <4>1. \A n \in Nat : n <= 2 => \A k \in 1 .. n : k = 1 \/ (k = 2 /\ n = 2)
        OBVIOUS
      <4> QED BY <1>5, <3>0, <4>1
    <3> QED BY <1>3, <1>4, <1>5, <1>8, <3>1
  <2>2. WireShape(c)'
    BY <1>2, <1>5, <1>7, <1>8, <2>1 DEF WireShape, w
  <2> QED BY <1>2, <1>3, <1>5, <2>1, <2>2 DEF ClientOrder, w
<1>9. CASE ~Fetches(b[1])
  <2>1. ASSUME NEW i \in DOMAIN w, i > 1
        PROVE  /\ w[i].kind = "frame" /\ w[i].id <= seq /\ cursor[c] < w[i].id
               /\ Retained(w[i])
    <3>1. i \in 2 .. Len(b) /\ w[i] = b[i]
      BY <1>3, <1>5, <2>1
    <3>2. PICK k \in DOMAIN log : b[i] = AsMessage(log[k]) /\ log[k].id > cursor[c]
      BY <1>4, <1>9, <3>1
    <3>3. log[k] \in Frame
      BY <1>1 DEF TypeOK
    <3>4. log[k].id \in Nat
      BY <3>3 DEF Frame
    <3> QED BY <1>5, <1>6, <3>1, <3>2, <3>4
  <2>2. \A i \in DOMAIN w : i = 1 \/ i > 1
    BY <1>5
  <2>3. WireShape(c)'
    <3>1. \A i \in DOMAIN w : i > 1 => RetainedIn(log', Oldest', w[i])
      BY <1>2, <2>1 DEF Retained
    <3> QED BY <1>2, <1>4, <1>5, <1>7, <2>1, <2>2, <3>1 DEF WireShape, Retained, w
  <2>4. \A i, j \in DOMAIN w :
           i < j /\ w[i].kind = "frame" /\ w[j].kind = "frame" => w[i].id < w[j].id
    BY <1>3, <1>4, <1>5, <1>7, <1>9, <2>2
  <2> QED BY <1>2, <1>3, <1>5, <2>3, <2>4 DEF ClientOrder, w
<1> QED BY <1>8, <1>9

LEMMA OrderOfReceived ==
    ASSUME HubInv, OrderInv, NEW c \in Client, Receive(c)
    PROVE  ClientOrder(c)'
<1> DEFINE q == wire[c]
           w == wire'[c]
<1>1. /\ ClientOrder(c) /\ TypeOK
      /\ UNCHANGED hubVars /\ conn' = conn
      /\ cursor'[c] = q[1].id
      /\ Len(q) \in Nat /\ Len(q) > 0 /\ w \in Seq(Message) /\ Len(w) = Len(q) - 1
      /\ \A i \in DOMAIN w : i + 1 \in DOMAIN q /\ w[i] = q[i + 1]
      /\ q \in Seq(Message)
  BY ReceiveIs DEF OrderInv, HubInv, TypeOK
<1>2. log' = log /\ seq' = seq /\ fresh' = fresh /\ Oldest' = Oldest
  BY <1>1 DEF hubVars, Oldest
<1>3. DOMAIN w = 1 .. Len(w) /\ DOMAIN q = 1 .. Len(q) /\ 1 \in DOMAIN q
  BY <1>1
<1>4. /\ conn[c] # "off"
      /\ \A i \in DOMAIN q :
            /\ q[i].id <= seq
            /\ q[i].kind = "frame" => Retained(q[i])
            /\ i > 1 /\ q[i].kind # "frame" => i = 2 /\ Fetches(q[2])
      /\ \A i, j \in DOMAIN q :
            i < j /\ q[i].kind = "frame" /\ q[j].kind = "frame" => q[i].id < q[j].id
      /\ \A k \in DOMAIN fresh : \A i \in DOMAIN q : q[i].id < fresh[k].id
  <2>1. q # <<>>
    BY <1>1
  <2> QED BY <1>1, <2>1 DEF ClientOrder, WireShape
<1> HIDE DEF q, w
<1>5. ASSUME NEW i \in DOMAIN w
      PROVE  /\ w[i].id <= seq
             /\ w[i].kind = "frame" => RetainedIn(log', Oldest', w[i])
             /\ w[i].kind # "frame" => i = 1 /\ Fetches(w[1])
  <2>1. i + 1 \in DOMAIN q /\ w[i] = q[i + 1] /\ i + 1 > 1
    BY <1>1, <1>3
  <2>2. i + 1 = 2 => i = 1
    BY <1>1, <1>3
  <2> QED BY <1>2, <1>4, <2>1, <2>2 DEF Retained
<1>6. \A i \in DOMAIN w : 1 \in DOMAIN w /\ (i = 1 \/ i > 1)
  BY <1>1, <1>3
<1>7. WireShape(c)'
  BY <1>2, <1>5, <1>6 DEF WireShape, Retained, w
<1>8. ASSUME NEW i \in DOMAIN w, NEW j \in DOMAIN w, i < j,
             w[i].kind = "frame", w[j].kind = "frame"
      PROVE  w[i].id < w[j].id
  <2>1. i + 1 \in DOMAIN q /\ j + 1 \in DOMAIN q /\ i + 1 < j + 1
        /\ w[i] = q[i + 1] /\ w[j] = q[j + 1]
    BY <1>1, <1>3, <1>8
  <2> QED BY <1>4, <1>8, <2>1
<1>9. \A k \in DOMAIN fresh' :
        cursor'[c] < fresh'[k].id /\ \A i \in DOMAIN w : w[i].id < fresh'[k].id
  BY <1>1, <1>2, <1>3, <1>4
<1>10. cursor'[c] <= seq' /\ conn'[c] # "off"
  BY <1>1, <1>2, <1>3, <1>4
<1> QED BY <1>7, <1>8, <1>9, <1>10 DEF ClientOrder, w

LEMMA InitOrder == Init => OrderInv
<1> SUFFICES ASSUME Init, NEW c \in Client
             PROVE  ClientOrder(c)
  BY DEF OrderInv
<1> QED BY DEF Init, ClientOrder, WireShape, NoCursor

LEMMA NextOrder ==
    ASSUME HubInv, OrderInv, [Next]_vars
    PROVE  OrderInv'
<1> SUFFICES ASSUME NEW c \in Client
             PROVE  ClientOrder(c)'
  BY DEF OrderInv
<1>1. HubInv' /\ TypeOK' /\ LogStep /\ TypeOK
  BY NextHub DEF HubInv
<1>2. ASSUME UNCHANGED clientVars, fresh' = fresh \/ fresh' = <<>>
      PROVE  ClientOrder(c)'
  BY <1>1, <1>2, OrderOfOthers DEF clientVars
<1>3. CASE \/ \E ch \in Change, queued \in BOOLEAN : Emit(ch, queued)
           \/ Arm \/ ArmFails
  BY <1>2, <1>3 DEF Emit, Arm, ArmFails
<1>4. CASE FlushTake
  BY <1>2, <1>4 DEF FlushTake
<1>5. CASE FlushStore
  <2>1. \A k \in DOMAIN fresh' : fresh'[k].id > seq
    <3>1. /\ fresh' \in Seq(Frame) /\ \A k \in DOMAIN fresh' : fresh'[k].id = seq + k
      BY <1>5, StoreIs
    <3>2. DOMAIN fresh' = 1 .. Len(fresh') /\ Len(fresh') \in Nat /\ seq \in Nat
      BY <1>1, <3>1, OldestIs
    <3> QED BY <3>1, <3>2
  <2> QED BY <1>1, <1>5, <2>1, OrderOfOthers DEF FlushStore, clientVars
<1>6. CASE FlushDeliver
  BY <1>1, <1>6, OrderOfDelivered
<1>7. CASE FlushFails \/ Reset \/ Age
  <2>1. /\ wire' = wire /\ cursor' = cursor /\ (fresh' = fresh \/ fresh' = <<>>)
        /\ conn'[c] = "off" => conn[c] = "off"
    BY <1>1, <1>7 DEF FlushFails, Reset, Age, clientVars, TypeOK
  <2> QED BY <1>1, <2>1, OrderOfOthers
<1>8. ASSUME NEW d \in Client, Connect(d)
      PROVE  ClientOrder(c)'
  <2>1. CASE d = c
    BY <1>8, <2>1, OrderOfConnected
  <2>2. CASE d # c
    <3>1. wire'[c] = wire[c] /\ conn'[c] = conn[c] /\ cursor'[c] = cursor[c] /\ fresh' = fresh
      BY <1>8, <2>2, ConnectIs DEF Connect, hubVars
    <3> QED BY <1>1, <3>1, OrderOfOthers
  <2> QED BY <2>1, <2>2
<1>9. ASSUME NEW d \in Client, Receive(d)
      PROVE  ClientOrder(c)'
  <2>1. CASE d = c
    BY <1>9, <2>1, OrderOfReceived
  <2>2. CASE d # c
    <3>1. wire'[c] = wire[c] /\ conn'[c] = conn[c] /\ cursor'[c] = cursor[c] /\ fresh' = fresh
      BY <1>9, <2>2, ReceiveIs DEF hubVars
    <3> QED BY <1>1, <3>1, OrderOfOthers
  <2> QED BY <2>1, <2>2
<1>10. ASSUME NEW d \in Client, Leave(d)
       PROVE  ClientOrder(c)'
  <2>1. /\ cursor'[c] = cursor[c] /\ fresh' = fresh
        /\ IF d = c THEN wire'[c] = <<>> ELSE wire'[c] = wire[c] /\ conn'[c] = conn[c]
    BY <1>1, <1>10 DEF Leave, TypeOK, hubVars
  <2> QED BY <1>1, <2>1, OrderOfOthers
<1>11. CASE UNCHANGED vars
  BY <1>2, <1>11 DEF vars, hubVars
<1> QED
  BY <1>3, <1>4, <1>5, <1>6, <1>7, <1>8, <1>9, <1>10, <1>11
  DEF Next, Flush, ClientStep, NoticeClose, Lose

\* Frames travel in the order of their numbers and none travels twice, however
\* replays, live frames, drops and resets interleave.
THEOREM HubFramesInOrder == Spec => []FramesInOrder
<1>1. Init => HubInv /\ OrderInv
  BY InitHub, InitOrder
<1>2. HubInv /\ OrderInv /\ [Next]_vars => (HubInv /\ OrderInv)'
  BY NextHub, NextOrder
<1>3. OrderInv => FramesInOrder
  BY DEF OrderInv, ClientOrder, FramesInOrder
<1> QED BY <1>1, <1>2, <1>3, PTL DEF Spec

-----------------------------------------------------------------------------
(* What a client lacks.                                                     *)

LEMMA StoredStays ==
    ASSUME TypeOK, TypeOK', LogStep
    PROVE  \A ch : \A n \in Int : Stored(ch, n) => StoredIn(log', Oldest', ch, n)
<1> SUFFICES ASSUME NEW ch, NEW n \in Int, Stored(ch, n)
             PROVE  StoredIn(log', Oldest', ch, n)
  OBVIOUS
<1>1. Oldest \in Nat /\ Oldest' \in Nat /\ Oldest <= Oldest'
  BY OldestIs, NextOldestIs DEF LogStep
<1>2. CASE n + 1 < Oldest
  BY <1>1, <1>2 DEF StoredIn
<1>3. CASE \E i \in DOMAIN log : log[i].id > n /\ ch \in log[i].changes
  <2>1. PICK i \in DOMAIN log : log[i].id > n /\ ch \in log[i].changes
    BY <1>3
  <2>2. log[i] \in Frame
    BY DEF TypeOK
  <2>3. log[i].id \in Nat
    BY <2>2 DEF Frame
  <2>4. (\E j \in DOMAIN log' : log'[j] = log[i]) \/ log[i].id < Oldest'
    BY DEF LogStep
  <2> QED BY <1>1, <2>1, <2>3, <2>4 DEF StoredIn
<1> QED BY <1>2, <1>3 DEF Stored, StoredIn

\* Who asks for more is sent more.
LEMMA StoredBefore ==
    ASSUME TypeOK, NEW ch, NEW n \in Int, NEW m \in Int, m <= n, Stored(ch, n)
    PROVE  Stored(ch, m)
<1>1. Oldest \in Nat /\ \A i \in DOMAIN log : log[i].id \in Nat
  <2>1. \A i \in DOMAIN log : log[i] \in Frame
    BY DEF TypeOK
  <2> QED BY <2>1, OldestIs DEF Frame
<1> QED BY <1>1 DEF Stored, StoredIn

\* A change that a client wants is in frames that are sent to it.
LEMMA WantedIsSent ==
    ASSUME HubInv, NEW c \in Client, NEW ch \in Wants(c)
    PROVE  /\ \A i \in DOMAIN log : ch \in log[i].changes => log[i].audience \in Watches[c]
           /\ \A k \in DOMAIN fresh :
                 ch \in fresh[k].changes =>
                     /\ fresh[k].audience \in Watches[c]
                     /\ \E i \in DOMAIN log : log[i] = fresh[k]
<1>1. \A i \in DOMAIN log : ch \in log[i].changes => log[i].audience \in Watches[c]
  BY DEF HubInv, LogInv, Wants
<1>2. \A k \in DOMAIN fresh : \E i \in DOMAIN log : log[i] = fresh[k]
  BY DEF HubInv, LogInv
<1> QED BY <1>1, <1>2

LEMMA FetchIsNoFrame == \A m : Fetches(m) => m.kind # "frame"
  BY Zenon DEF Fetches

\* What numbers the messages and the cursors have.
LEMMA NumbersAre ==
    ASSUME TypeOK, NEW c \in Client
    PROVE  /\ cursor[c] \in Int /\ Last(c) \in Int
           /\ wire[c] \in Seq(Message) /\ DOMAIN wire[c] = 1 .. Len(wire[c])
           /\ Len(wire[c]) \in Nat
           /\ \A i \in DOMAIN wire[c] : wire[c][i] \in Message /\ wire[c][i].id \in Nat
           /\ \A k \in DOMAIN fresh : fresh[k] \in Frame /\ fresh[k].id \in Nat
           /\ \A i \in DOMAIN log : log[i] \in Frame /\ log[i].id \in Nat
           /\ wire[c] # <<>> => /\ Len(wire[c]) \in DOMAIN wire[c] /\ 1 \in DOMAIN wire[c]
                                /\ Last(c) = wire[c][Len(wire[c])].id
           /\ wire[c] = <<>> => Last(c) = cursor[c]
<1>1. /\ cursor[c] \in Int /\ wire[c] \in Seq(Message)
      /\ fresh \in Seq(Frame) /\ log \in Seq(Frame)
  BY DEF TypeOK, NoCursor
<1>2. /\ DOMAIN wire[c] = 1 .. Len(wire[c]) /\ Len(wire[c]) \in Nat
      /\ \A i \in DOMAIN wire[c] : wire[c][i] \in Message
      /\ wire[c] # <<>> => Len(wire[c]) \in DOMAIN wire[c] /\ 1 \in DOMAIN wire[c]
      /\ \A k \in DOMAIN fresh : fresh[k] \in Frame
      /\ \A i \in DOMAIN log : log[i] \in Frame
  BY <1>1
<1>3. (\A m \in Message : m.id \in Nat) /\ (\A f \in Frame : f.id \in Nat)
  BY DEF Message, Frame
<1>4. /\ wire[c] # <<>> => Last(c) = wire[c][Len(wire[c])].id
      /\ wire[c] = <<>> => Last(c) = cursor[c]
  BY DEF Last
<1>5. Last(c) \in Int
  BY <1>1, <1>2, <1>3, <1>4
<1> QED BY <1>1, <1>2, <1>3, <1>4, <1>5

\* A client whose connection ends finds what it lacks when it connects again,
\* unless it ends behind a HELLO that announced more than it brought.
LEMMA LinkedIsCatchable ==
    ASSUME HubInv, OrderInv, NEW c \in Client,
           Linked(c), ~FetchPending(c), ~BeforeReplay(c)
    PROVE  Catchable(c)
<1> SUFFICES ASSUME NEW ch \in Missing(c)
             PROVE  Stored(ch, cursor[c])
  BY DEF Catchable
<1> DEFINE q == wire[c]
<1>0. TypeOK /\ ClientOrder(c) /\ ch \in Wants(c)
  BY DEF HubInv, OrderInv, Missing
<1>1. /\ cursor[c] \in Int /\ Last(c) \in Int
      /\ q \in Seq(Message) /\ DOMAIN q = 1 .. Len(q) /\ Len(q) \in Nat
      /\ \A i \in DOMAIN q : q[i] \in Message /\ q[i].id \in Nat
      /\ \A k \in DOMAIN fresh : fresh[k].id \in Nat
      /\ q # <<>> => /\ Len(q) \in DOMAIN q /\ 1 \in DOMAIN q /\ Last(c) = q[Len(q)].id
      /\ q = <<>> => Last(c) = cursor[c]
      /\ Oldest \in Nat
  BY <1>0, NumbersAre, OldestIs
<1>2. ASSUME NEW i \in DOMAIN q
      PROVE  /\ cursor[c] <= q[i].id
             /\ q[i].kind = "frame" => cursor[c] < q[i].id
  <2>1. 1 \in DOMAIN q /\ q # <<>> /\ q[1].id \in Int /\ q[i].id \in Int /\ (i = 1 \/ i > 1)
        /\ Head(q) = q[1]
    BY <1>1
  <2>2. CASE q[1].kind = "frame"
    <3>1. cursor[c] < q[1].id
      BY <1>1, <2>1, <2>2 DEF BeforeReplay
    <3>2. i > 1 => q[i].kind = "frame"
      <4>1. i > 1 /\ q[i].kind # "frame" => Fetches(q[1])
        BY <1>0 DEF ClientOrder, WireShape
      <4> QED BY <2>2, <4>1, FetchIsNoFrame
    <3>3. i > 1 => q[1].id < q[i].id
      BY <1>0, <2>1, <2>2, <3>2 DEF ClientOrder
    <3> QED BY <1>1, <2>1, <3>1, <3>3
  <2>3. CASE q[1].kind # "frame"
    <3>1. ~Fetches(q[1])
      BY <2>1 DEF FetchPending
    <3>2. cursor[c] <= q[1].id /\ (i > 1 => cursor[c] < q[i].id)
      BY <1>0, <2>3, <3>1 DEF ClientOrder, WireShape
    <3> QED BY <1>1, <2>1, <2>3, <3>2
  <2> QED BY <2>2, <2>3
<1>3. CASE \E i \in DOMAIN q : q[i].kind = "frame" /\ ch \in q[i].changes
  <2>1. PICK i \in DOMAIN q : q[i].kind = "frame" /\ ch \in q[i].changes
    BY <1>3
  <2>2. Retained(q[i]) /\ cursor[c] < q[i].id /\ q[i].id \in Nat
    BY <1>0, <1>1, <1>2, <2>1 DEF ClientOrder, WireShape
  <2>3. CASE q[i].id < Oldest
    BY <1>1, <2>2, <2>3 DEF Stored, StoredIn
  <2>4. CASE \E j \in DOMAIN log : log[j].id = q[i].id /\ log[j].changes = q[i].changes
    BY <1>1, <2>1, <2>2, <2>4 DEF Stored, StoredIn
  <2> QED BY <2>2, <2>3, <2>4 DEF Retained, RetainedIn
<1>4. CASE \E k \in DOMAIN fresh : ch \in fresh[k].changes
  <2>1. PICK k \in DOMAIN fresh : ch \in fresh[k].changes
    BY <1>4
  <2>2. PICK i \in DOMAIN log : log[i] = fresh[k]
    BY <1>0, <2>1, WantedIsSent
  <2>3. cursor[c] < fresh[k].id /\ fresh[k].id \in Nat
    BY <1>0, <1>1 DEF ClientOrder
  <2> QED BY <1>1, <2>1, <2>2, <2>3 DEF Stored, StoredIn
<1>5. CASE Stored(ch, Last(c))
  <2>1. cursor[c] <= Last(c)
    BY <1>1, <1>2
  <2> QED BY <1>0, <1>1, <1>5, <2>1, StoredBefore
<1> QED BY <1>3, <1>4, <1>5 DEF Linked

\* A client whose connection, cursor and wants a step leaves alone.
LEMMA LinkOfOthers ==
    ASSUME HubInv, TypeOK', LogStep, NEW c \in Client, LinkOf(c),
           conn'[c] = conn[c], wire'[c] = wire[c], cursor'[c] = cursor[c],
           knows'[c] = knows[c], logged' = logged,
           \/ fresh' = fresh
           \/ conn[c] # "open"
           \/ For(c, fresh) = <<>>
    PROVE  LinkOf(c)'
<1>1. TypeOK /\ cursor[c] \in Int /\ Last(c) \in Int
  BY NumbersAre DEF HubInv
<1>2. Missing(c)' = Missing(c) /\ Last(c)' = Last(c) /\ (FetchPending(c)' <=> FetchPending(c))
  BY DEF Missing, Last, FetchPending
<1>3. Catchable(c) => Catchable(c)'
  BY <1>1, <1>2, StoredStays DEF Catchable, Stored
<1>4. Linked(c) => Linked(c)'
  <2> SUFFICES ASSUME Linked(c), NEW ch \in Missing(c)
               PROVE  \/ \E i \in DOMAIN wire[c] : wire[c][i].kind = "frame" /\ ch \in wire[c][i].changes
                      \/ conn[c] = "open" /\ \E k \in DOMAIN fresh' : ch \in fresh'[k].changes
                      \/ conn[c] \in {"closed", "lost"} /\ StoredIn(log', Oldest', ch, Last(c))
    BY <1>2 DEF Linked, Stored
  <2>1. CASE conn[c] \in {"closed", "lost"} /\ Stored(ch, Last(c))
    BY <1>1, <2>1, StoredStays
  <2>2. CASE conn[c] = "open" /\ \E k \in DOMAIN fresh : ch \in fresh[k].changes
    <3>1. CASE fresh' = fresh
      BY <2>2, <3>1
    <3>2. CASE For(c, fresh) = <<>>
      <4>1. PICK k \in DOMAIN fresh : ch \in fresh[k].changes
        BY <2>2
      <4>2. fresh[k].audience \in Watches[c]
        BY <4>1, WantedIsSent DEF Missing
      <4>3. \E n \in DOMAIN For(c, fresh) : For(c, fresh)[n] = AsMessage(fresh[k])
        <5>1. fresh \in Seq(Frame) /\ Increasing(fresh)
          BY DEF HubInv, TypeOK, LogInv
        <5> QED BY <4>2, <5>1, ForIs
      <4> QED BY <3>2, <4>3
    <3> QED BY <2>2, <3>1, <3>2
  <2> QED BY <2>1, <2>2 DEF Linked
<1> QED BY <1>2, <1>3, <1>4 DEF LinkOf

LEMMA LinkOfStored ==
    ASSUME HubInv, TypeOK', LogStep, OrderInv, NEW c \in Client, LinkOf(c), FlushStore
    PROVE  LinkOf(c)'
<1>1. /\ TypeOK /\ cursor[c] \in Int /\ Last(c) \in Int
      /\ conn[c] \in {"off", "open", "closed", "lost"}
  BY NumbersAre DEF HubInv, TypeOK
<1>2. /\ conn' = conn /\ wire' = wire /\ cursor' = cursor /\ knows' = knows
      /\ logged' = logged \cup Elements(taken) /\ fresh = <<>>
  BY DEF FlushStore, clientVars, HubInv, QueueInv
<1>3. Last(c)' = Last(c) /\ (FetchPending(c)' <=> FetchPending(c))
  BY <1>2 DEF Last, FetchPending
<1>4. Last(c) <= seq /\ cursor[c] <= seq /\ seq \in Nat
  <2>1. ClientOrder(c)
    BY DEF OrderInv
  <2> QED BY <1>1, <2>1, NumbersAre, OldestIs DEF ClientOrder, WireShape
<1>5. ASSUME NEW ch \in Elements(taken)
      PROVE  /\ \E k \in DOMAIN fresh' : ch \in fresh'[k].changes
             /\ \A n \in Int : n <= seq => StoredIn(log', Oldest', ch, n)
  <2>1. PICK k \in DOMAIN fresh' : ch \in fresh'[k].changes
    BY StoreIs
  <2>2. /\ fresh'[k].id = seq + k /\ k \in Nat /\ k > 0
        /\ \E i \in DOMAIN log' : log'[i] = fresh'[k]
    <3>1. fresh' \in Seq(Frame)
      BY StoreIs
    <3> QED BY <3>1, StoreIs
  <2>3. \A n \in Int : n <= seq => fresh'[k].id > n
    BY <1>4, <2>2
  <2> QED BY <2>1, <2>2, <2>3 DEF StoredIn
<1>6. Catchable(c) => Catchable(c)'
  <2> SUFFICES ASSUME Catchable(c), cursor[c] # NoCursor, NEW ch,
                      ch \in (logged' \cap Wants(c)) \ knows'[c]
               PROVE  StoredIn(log', Oldest', ch, cursor[c])
    BY <1>2 DEF Catchable, Missing, Stored
  <2>1. CASE ch \in Elements(taken)
    BY <1>1, <1>4, <1>5, <2>1
  <2>2. CASE ch \in Missing(c)
    BY <1>1, <2>2, StoredStays DEF Catchable
  <2> QED BY <1>2, <2>1, <2>2 DEF Missing
<1>7. Linked(c) /\ conn[c] # "off" => Linked(c)'
  <2> SUFFICES ASSUME Linked(c), conn[c] # "off", NEW ch,
                      ch \in (logged' \cap Wants(c)) \ knows'[c]
               PROVE  \/ \E i \in DOMAIN wire[c] : wire[c][i].kind = "frame" /\ ch \in wire[c][i].changes
                      \/ conn[c] = "open" /\ \E k \in DOMAIN fresh' : ch \in fresh'[k].changes
                      \/ conn[c] \in {"closed", "lost"} /\ StoredIn(log', Oldest', ch, Last(c))
    BY <1>2, <1>3 DEF Linked, Missing, Stored
  <2>1. CASE ch \in Elements(taken)
    BY <1>1, <1>4, <1>5, <2>1
  <2>2. CASE ch \in Missing(c)
    BY <1>1, <1>2, <2>2, StoredStays DEF Linked
  <2> QED BY <1>2, <2>1, <2>2 DEF Missing
<1> QED BY <1>2, <1>3, <1>6, <1>7 DEF LinkOf

LEMMA LinkOfDelivered ==
    ASSUME HubInv, TypeOK', LogStep, OrderInv, NEW c \in Client, LinkOf(c), FlushDeliver
    PROVE  LinkOf(c)'
<1>1. cursor' = cursor /\ knows' = knows /\ logged' = logged /\ TypeOK
  BY DEF FlushDeliver, HubInv
<1>2. CASE conn[c] # "open"
  <2>1. wire'[c] = wire[c] /\ conn'[c] = conn[c]
    BY <1>2, DeliverIs
  <2> QED BY <1>1, <1>2, <2>1, LinkOfOthers
<1>3. CASE conn[c] = "open"
  <2> DEFINE q == wire[c]
             w == wire'[c]
             n == Len(wire[c])
             ms == For(c, fresh)
  <2>1. /\ ms \in Seq(Message) /\ Increasing(ms)
        /\ \A m \in DOMAIN ms : \E k \in DOMAIN fresh : ms[m] = AsMessage(fresh[k])
        /\ \A k \in DOMAIN fresh : fresh[k].audience \in Watches[c] =>
              \E m \in DOMAIN ms : ms[m] = AsMessage(fresh[k])
        /\ w \in Seq(Message)
        /\ conn'[c] \in {"open", "closed"}
        /\ n <= Len(w) /\ Len(w) <= n + Len(ms)
        /\ \A i \in 1 .. n : w[i] = q[i]
        /\ \A i \in n + 1 .. Len(w) : i - n \in 1 .. Len(ms) /\ w[i] = ms[i - n]
        /\ conn'[c] = "open" => Len(w) = n + Len(ms)
        /\ conn'[c] = "closed" => Len(w) >= 2
    BY <1>3, DeliverIs
  <2>2. /\ cursor[c] \in Int /\ q \in Seq(Message) /\ n \in Nat /\ DOMAIN q = 1 .. n
        /\ \A i \in DOMAIN q : q[i].id \in Nat
        /\ \A k \in DOMAIN fresh : fresh[k] \in Frame /\ fresh[k].id \in Nat
    BY <1>1, NumbersAre
  <2>3. \A k \in DOMAIN fresh : /\ AsMessage(fresh[k]).kind = "frame"
                                /\ AsMessage(fresh[k]).id = fresh[k].id
                                /\ AsMessage(fresh[k]).changes = fresh[k].changes
    BY DEF AsMessage
  <2>4. \A i \in DOMAIN q : \A k \in DOMAIN fresh : q[i].id < fresh[k].id
    BY DEF OrderInv, ClientOrder
  <2> HIDE DEF q, w, n, ms
  <2>5. /\ Len(w) \in Nat /\ Len(ms) \in Nat
        /\ DOMAIN w = 1 .. Len(w) /\ DOMAIN ms = 1 .. Len(ms)
    BY <2>1
  <2>11. n <= Len(w)
    BY <2>1
  <2>12. /\ \A i \in 1 .. n : w[i] = q[i]
         /\ \A i \in n + 1 .. Len(w) : i - n \in 1 .. Len(ms) /\ w[i] = ms[i - n]
    BY <2>1
  <2>13. \A i \in DOMAIN q : i \in DOMAIN w /\ w[i] = q[i]
    <3>1. \A i \in 1 .. n : i \in 1 .. Len(w)
      BY <2>2, <2>5, <2>11
    <3> QED BY <2>2, <2>5, <2>12, <3>1
  <2>14. \A i \in DOMAIN w : i \in DOMAIN q \/ i \in n + 1 .. Len(w)
    BY <2>2, <2>5
  <2>6. (\E i \in DOMAIN w : Fetches(w[i])) <=> (\E i \in DOMAIN q : Fetches(q[i]))
    <3>2. ASSUME NEW i \in DOMAIN w, i \notin DOMAIN q
          PROVE  w[i].kind = "frame"
      <4>1. i \in n + 1 .. Len(w)
        BY <2>14, <3>2
      <4>2. i - n \in DOMAIN ms /\ w[i] = ms[i - n]
        BY <2>5, <2>12, <4>1
      <4>3. PICK k \in DOMAIN fresh : ms[i - n] = AsMessage(fresh[k])
        BY <2>1, <4>2
      <4> QED BY <2>3, <4>2, <4>3
    <3> QED BY <2>13, <3>2, FetchIsNoFrame
  <2>7. Missing(c)' = Missing(c) /\ (FetchPending(c)' <=> FetchPending(c))
    BY <1>1, <2>6 DEF Missing, FetchPending, q, w
  <2>8. Catchable(c) => Catchable(c)'
    BY <1>1, <2>2, <2>7, StoredStays DEF Catchable, Stored
  <2>9. ASSUME Linked(c), NEW ch \in Missing(c)
        PROVE  \/ \E i \in DOMAIN w : w[i].kind = "frame" /\ ch \in w[i].changes
               \/ conn'[c] = "closed" /\ StoredIn(log', Oldest', ch, w[Len(w)].id) /\ w # <<>>
    <3>1. CASE \E i \in DOMAIN q : q[i].kind = "frame" /\ ch \in q[i].changes
      <4> QED BY <2>13, <3>1
    <3>2. CASE \E k \in DOMAIN fresh : ch \in fresh[k].changes
      <4>1. PICK k \in DOMAIN fresh : ch \in fresh[k].changes
        BY <3>2
      <4>2. /\ fresh[k].audience \in Watches[c]
            /\ \E i \in DOMAIN log : log[i] = fresh[k]
        BY <4>1, WantedIsSent DEF Missing
      <4>3. PICK m \in DOMAIN ms : ms[m] = AsMessage(fresh[k])
        BY <2>1, <4>2
      <4>4. m \in Int /\ m >= 1 /\ m <= Len(ms)
        BY <2>5
      <4>5. CASE n + m <= Len(w)
        <5>1. n + m \in n + 1 .. Len(w) /\ n + m - n = m /\ n + m \in DOMAIN w
          BY <2>2, <2>5, <4>4, <4>5
        <5>2. w[n + m] = ms[m]
          BY <2>2, <2>12, <4>4, <5>1
        <5> QED BY <2>3, <4>1, <4>3, <5>1, <5>2
      <4>6. CASE ~(n + m <= Len(w))
        <5>1. conn'[c] = "closed" /\ Len(w) >= 2 /\ w # <<>>
          BY <2>1, <2>2, <2>5, <4>4, <4>6
        <5>2. w[Len(w)].id < fresh[k].id /\ w[Len(w)].id \in Nat
          <6>1. CASE Len(w) \in 1 .. n
            <7>1. w[Len(w)] = q[Len(w)] /\ Len(w) \in DOMAIN q
              BY <2>1, <2>2, <6>1
            <7> QED BY <2>2, <2>4, <7>1
          <6>2. CASE Len(w) \in n + 1 .. Len(w)
            <7>0. /\ Len(w) - n \in DOMAIN ms /\ w[Len(w)] = ms[Len(w) - n]
              BY <2>5, <2>12, <6>2
            <7>1. /\ Len(w) - n \in DOMAIN ms /\ w[Len(w)] = ms[Len(w) - n]
                  /\ Len(w) - n < m
              BY <2>2, <2>5, <4>4, <4>6, <7>0
            <7>2. ms[Len(w) - n].id < ms[m].id
              BY <2>1, <7>1 DEF Increasing
            <7>3. PICK j \in DOMAIN fresh : ms[Len(w) - n] = AsMessage(fresh[j])
              BY <2>1, <7>1
            <7> QED BY <2>2, <2>3, <4>3, <7>1, <7>2, <7>3
          <6> QED BY <2>2, <2>5, <5>1, <6>1, <6>2
        <5>3. Stored(ch, w[Len(w)].id)
          BY <4>1, <4>2, <5>2 DEF Stored, StoredIn
        <5> QED BY <1>1, <5>1, <5>2, <5>3, StoredStays
      <4> QED BY <4>5, <4>6
    <3> QED BY <1>3, <2>9, <3>1, <3>2 DEF Linked, q
  <2>10. Linked(c) => Linked(c)'
    <3> SUFFICES ASSUME Linked(c), NEW ch \in Missing(c)
                 PROVE  \/ \E i \in DOMAIN w : w[i].kind = "frame" /\ ch \in w[i].changes
                        \/ conn'[c] = "closed" /\ Stored(ch, Last(c))'
      BY <2>7 DEF Linked, w
    <3>1. w # <<>> => Last(c)' = w[Len(w)].id
      BY DEF Last, w
    <3> QED BY <2>9, <3>1 DEF Stored
  <2> QED BY <1>3, <2>1, <2>7, <2>8, <2>10 DEF LinkOf
<1> QED BY <1>2, <1>3

LEMMA LinkOfConnected ==
    ASSUME HubInv, OrderInv, NEW c \in Client, LinkOf(c), Connect(c)
    PROVE  LinkOf(c)'
<1> DEFINE b == ConnectBacklog(c)
           w == wire'[c]
<1>1. /\ TypeOK /\ Increasing(log) /\ conn[c] = "off" /\ step = "idle"
      /\ UNCHANGED <<hubVars, cursor, knows>>
  BY DEF HubInv, LogInv, Connect
<1>2. /\ log' = log /\ cursor' = cursor /\ Oldest' = Oldest
      /\ Missing(c)' = Missing(c)
  BY <1>1 DEF hubVars, Oldest, Missing
<1>3. Catchable(c)
  BY <1>1 DEF LinkOf
<1>4. Catchable(c)'
  BY <1>2, <1>3 DEF Catchable, Stored
<1>5. /\ w \in Seq(Message) /\ b \in Seq(Message) /\ Len(w) > 0 /\ Len(w) <= Len(b)
      /\ \A i \in 1 .. Len(w) : i \in 1 .. Len(b) /\ w[i] = b[i]
      /\ conn'[c] \in {"open", "closed"}
      /\ conn'[c] = "open" => Len(w) = Len(b)
      /\ conn'[c] = "closed" => Len(w) >= 2
  BY ConnectIs
<1>6. \/ Fetches(b[1])
      \/ /\ cursor[c] # NoCursor /\ ~Expired(c)
         /\ \A i, j \in 2 .. Len(b) : i < j => b[i].id < b[j].id
         /\ \A k \in DOMAIN log :
               log[k].id > cursor[c] /\ log[k].audience \in Watches[c] =>
                   \E i \in 2 .. Len(b) : b[i] = AsMessage(log[k])
  BY <1>1, BacklogIs
<1> HIDE DEF b, w
<1>7. /\ Len(w) \in Nat /\ Len(b) \in Nat /\ DOMAIN w = 1 .. Len(w)
      /\ 1 \in DOMAIN w /\ w[1] = b[1] /\ w # <<>>
  BY <1>5
<1>8. CASE Fetches(b[1])
  BY <1>4, <1>7, <1>8 DEF LinkOf, FetchPending, w
<1>9. CASE /\ cursor[c] # NoCursor /\ ~Expired(c)
           /\ \A i, j \in 2 .. Len(b) : i < j => b[i].id < b[j].id
           /\ \A k \in DOMAIN log :
                 log[k].id > cursor[c] /\ log[k].audience \in Watches[c] =>
                     \E i \in 2 .. Len(b) : b[i] = AsMessage(log[k])
  <2> SUFFICES ASSUME NEW ch \in Missing(c)
               PROVE  \/ \E i \in DOMAIN w : w[i].kind = "frame" /\ ch \in w[i].changes
                      \/ conn'[c] = "closed" /\ StoredIn(log', Oldest', ch, w[Len(w)].id)
    <3>1. Last(c)' = w[Len(w)].id
      BY <1>7 DEF Last, w
    <3> QED BY <1>2, <1>4, <3>1 DEF LinkOf, Linked, Stored, w
  <2>1. Stored(ch, cursor[c]) /\ ~(cursor[c] + 1 < Oldest)
    BY <1>3, <1>9 DEF Catchable, Expired
  <2>2. PICK k \in DOMAIN log : log[k].id > cursor[c] /\ ch \in log[k].changes
    BY <2>1 DEF Stored, StoredIn
  <2>3. PICK i \in 2 .. Len(b) : b[i] = AsMessage(log[k])
    BY <1>9, <2>2, WantedIsSent DEF Missing
  <2>4. /\ AsMessage(log[k]).kind = "frame" /\ AsMessage(log[k]).id = log[k].id
        /\ AsMessage(log[k]).changes = log[k].changes
    BY DEF AsMessage
  <2>5. CASE i <= Len(w)
    <3>1. i \in DOMAIN w /\ w[i] = b[i]
      BY <1>5, <1>7, <2>5
    <3> QED BY <2>2, <2>3, <2>4, <3>1
  <2>6. CASE ~(i <= Len(w))
    <3>1. conn'[c] = "closed" /\ Len(w) \in 2 .. Len(b) /\ Len(w) < i
          /\ w[Len(w)] = b[Len(w)]
      BY <1>5, <1>7, <2>6
    <3>2. w[Len(w)].id < log[k].id
      BY <1>9, <2>3, <2>4, <3>1
    <3>3. w[Len(w)].id \in Nat /\ log[k].id \in Nat
      <4>1. w[Len(w)] \in Message /\ log[k] \in Frame
        BY <1>1, <1>5, <1>7 DEF TypeOK
      <4> QED BY <4>1 DEF Message, Frame
    <3> QED BY <1>2, <2>2, <3>1, <3>2, <3>3 DEF StoredIn
  <2> QED BY <2>5, <2>6
<1> QED BY <1>6, <1>8, <1>9

LEMMA LinkOfReceived ==
    ASSUME HubInv, OrderInv, LinkInv, NEW c \in Client, Receive(c), c \notin doubt'
    PROVE  LinkOf(c)'
<1> DEFINE q == wire[c]
           w == wire'[c]
<1>1. /\ TypeOK /\ ClientOrder(c)
      /\ UNCHANGED hubVars /\ conn' = conn /\ cursor'[c] = q[1].id
      /\ Len(q) \in Nat /\ Len(q) > 0 /\ w \in Seq(Message) /\ Len(w) = Len(q) - 1
      /\ \A i \in DOMAIN w : i + 1 \in DOMAIN q /\ w[i] = q[i + 1]
      /\ q \in Seq(Message)
  BY ReceiveIs DEF OrderInv, HubInv, TypeOK
<1>2. log' = log /\ fresh' = fresh /\ Oldest' = Oldest /\ logged' = logged
  BY <1>1 DEF hubVars, Oldest
<1>3. CASE Fetches(q[1])
  <2>1. knows'[c] = knows[c] \cup emitted /\ logged \subseteq emitted
    BY <1>1, <1>3, ReceiveIs DEF TypeOK
  <2>2. Missing(c)' = {}
    BY <1>2, <2>1 DEF Missing
  <2> QED BY <2>2 DEF LinkOf, Linked, Catchable
<1>4. CASE ~Fetches(q[1])
  <2>1. doubt' = doubt /\ knows'[c] = knows[c] \cup q[1].changes
    BY <1>4, ReceiveIs
  <2>2. /\ DOMAIN q = 1 .. Len(q) /\ DOMAIN w = 1 .. Len(w) /\ 1 \in DOMAIN q
        /\ q # <<>> /\ Len(w) \in Nat
    BY <1>1
  <2>3. conn[c] # "off" /\ \A i \in DOMAIN q : i > 1 /\ q[i].kind # "frame" => Fetches(q[1])
    BY <1>1, <2>2 DEF ClientOrder, WireShape
  <2>4. \A i \in DOMAIN q : i = 1 \/ i > 1
    BY <2>2
  <2>5. ~ \E i \in DOMAIN q : Fetches(q[i])
    BY <1>4, <2>3, <2>4, FetchIsNoFrame
  <2>6. Linked(c)
    BY <2>1, <2>3, <2>5 DEF LinkInv, LinkOf, FetchPending
  <2>7. Last(c)' = Last(c)
    <3>1. Last(c) = q[Len(q)].id
      BY <2>2 DEF Last
    <3>2. CASE w = <<>>
      <4>1. Len(q) = 1
        BY <1>1, <3>2
      <4>2. Last(c)' = cursor'[c]
        BY <3>2 DEF Last
      <4> QED BY <1>1, <3>1, <4>1, <4>2
    <3>3. CASE w # <<>>
      <4>1. Len(w) \in DOMAIN w /\ Len(w) + 1 = Len(q)
        <5>1. Len(w) # 0
          BY <1>1, <3>3
        <5>2. Len(w) = Len(q) - 1 /\ Len(q) \in Nat
          BY <1>1
        <5> HIDE DEF q, w
        <5> QED BY <2>2, <5>1, <5>2
      <4>2. w[Len(w)] = q[Len(q)]
        BY <1>1, <4>1
      <4>3. Last(c)' = w[Len(w)].id
        BY <3>3 DEF Last
      <4> QED BY <3>1, <4>2, <4>3
    <3> QED BY <3>2, <3>3
  <2>8. ~FetchPending(c)'
    BY <1>1, <2>5 DEF FetchPending
  <2>9. ASSUME NEW ch, ch \in (logged' \cap Wants(c)) \ knows'[c]
        PROVE  \/ \E i \in DOMAIN w : w[i].kind = "frame" /\ ch \in w[i].changes
               \/ conn[c] = "open" /\ \E k \in DOMAIN fresh : ch \in fresh[k].changes
               \/ conn[c] \in {"closed", "lost"} /\ Stored(ch, Last(c))
    <3>1. ch \in Missing(c) /\ ch \notin q[1].changes
      BY <1>2, <2>1, <2>9 DEF Missing
    <3>2. CASE \E i \in DOMAIN q : q[i].kind = "frame" /\ ch \in q[i].changes
      <4>1. PICK i \in DOMAIN q : q[i].kind = "frame" /\ ch \in q[i].changes
        BY <3>2
      <4>2. i # 1
        BY <3>1, <4>1
      <4>3. i - 1 \in DOMAIN w /\ i - 1 + 1 = i
        BY <1>1, <2>2, <4>2
      <4>4. w[i - 1] = q[i]
        BY <1>1, <4>3
      <4> QED BY <4>1, <4>3, <4>4
    <3> QED BY <2>6, <3>1, <3>2 DEF Linked
  <2>10. Linked(c)'
    BY <1>1, <1>2, <2>7, <2>9 DEF Linked, Missing, Stored
  <2> QED BY <1>1, <2>3, <2>8, <2>10 DEF LinkOf
<1> QED BY <1>3, <1>4

LEMMA LinkOfLeft ==
    ASSUME HubInv, OrderInv, LinkInv, NEW c \in Client, Leave(c), c \notin doubt'
    PROVE  LinkOf(c)'
<1>1. /\ conn'[c] = "off" /\ wire'[c] = <<>> /\ UNCHANGED <<hubVars, cursor, knows>>
      /\ c \notin doubt /\ ~BeforeReplay(c)
  BY DEF Leave, HubInv, TypeOK
<1>2. LinkOf(c)
  BY <1>1 DEF LinkInv
<1>3. Catchable(c)
  <2>1. CASE conn[c] # "off" /\ ~FetchPending(c)
    BY <1>1, <1>2, <2>1, LinkedIsCatchable DEF LinkOf
  <2>2. CASE ~(conn[c] # "off" /\ ~FetchPending(c))
    BY <1>2, <2>2 DEF LinkOf
  <2> QED BY <2>1, <2>2
<1>4. Catchable(c)'
  BY <1>1, <1>3 DEF Catchable, Missing, Stored, Oldest, hubVars
<1> QED BY <1>1, <1>4 DEF LinkOf

\* Resetting the object ends the open connections, with what is on their way.
LEMMA LinkOfReset ==
    ASSUME HubInv, TypeOK', LogStep, OrderInv, NEW c \in Client, LinkOf(c), Reset
    PROVE  LinkOf(c)'
<1>1. /\ wire' = wire /\ cursor' = cursor /\ knows' = knows /\ logged' = logged
      /\ conn[c] \in {"off", "open", "closed", "lost"}
      /\ conn'[c] = IF conn[c] \in {"open", "closed"} THEN "lost" ELSE conn[c]
      /\ TypeOK
  BY DEF Reset, HubInv, TypeOK
<1>2. Missing(c)' = Missing(c) /\ Last(c)' = Last(c) /\ (FetchPending(c)' <=> FetchPending(c))
  BY <1>1 DEF Missing, Last, FetchPending
<1>3. cursor[c] \in Int /\ Last(c) \in Int
  BY <1>1, NumbersAre
<1>4. Catchable(c) => Catchable(c)'
  BY <1>1, <1>2, <1>3, StoredStays DEF Catchable, Stored
<1>5. Linked(c) /\ conn[c] # "off" => Linked(c)'
  <2> SUFFICES ASSUME Linked(c), conn[c] # "off", NEW ch \in Missing(c)
               PROVE  \/ \E i \in DOMAIN wire[c] : wire[c][i].kind = "frame" /\ ch \in wire[c][i].changes
                      \/ Stored(ch, Last(c))
    BY <1>1, <1>2, <1>3, StoredStays DEF Linked, Stored
  <2>1. ASSUME NEW k \in DOMAIN fresh, ch \in fresh[k].changes
        PROVE  Stored(ch, Last(c))
    <3>1. PICK i \in DOMAIN log : log[i] = fresh[k]
      BY <2>1, WantedIsSent DEF Missing
    <3>2. Last(c) < fresh[k].id
      BY <1>1, NumbersAre DEF OrderInv, ClientOrder
    <3> QED BY <1>1, <2>1, <3>1, <3>2, NumbersAre DEF Stored, StoredIn
  <2> QED BY <2>1 DEF Linked
<1> QED BY <1>1, <1>2, <1>4, <1>5 DEF LinkOf

LEMMA InitLink == Init => LinkInv
<1> SUFFICES ASSUME Init, NEW c \in Client
             PROVE  LinkOf(c)
  BY DEF LinkInv
<1> QED BY DEF Init, LinkOf, Catchable

LEMMA NextLink ==
    ASSUME HubInv, OrderInv, LinkInv, [Next]_vars
    PROVE  LinkInv'
<1> SUFFICES ASSUME NEW c \in Client, c \notin doubt'
             PROVE  LinkOf(c)'
  BY DEF LinkInv
<1>1. TypeOK' /\ LogStep /\ TypeOK
  BY NextHub DEF HubInv
<1>2. ASSUME UNCHANGED clientVars, logged' = logged, fresh' = fresh
      PROVE  LinkOf(c)'
  BY <1>1, <1>2, LinkOfOthers DEF clientVars, LinkInv
<1>3. CASE \/ \E ch \in Change, queued \in BOOLEAN : Emit(ch, queued)
           \/ Arm \/ ArmFails
  BY <1>2, <1>3 DEF Emit, Arm, ArmFails
<1>4. CASE FlushTake
  BY <1>2, <1>4 DEF FlushTake
<1>5. CASE FlushStore
  BY <1>1, <1>5, LinkOfStored DEF LinkInv, FlushStore, clientVars
<1>6. CASE FlushDeliver
  BY <1>1, <1>6, LinkOfDelivered DEF LinkInv, FlushDeliver
<1>7. CASE FlushFails
  <2>1. /\ UNCHANGED <<conn, wire, cursor, knows, logged>>
        /\ c \notin doubt /\ (conn[c] # "open" \/ For(c, fresh) = <<>>)
    BY <1>7 DEF FlushFails
  <2> QED BY <1>1, <2>1, LinkOfOthers DEF LinkInv
<1>8. CASE Reset
  BY <1>1, <1>8, LinkOfReset DEF LinkInv, Reset
<1>9. CASE Age
  BY <1>2, <1>9 DEF Age
<1>10. ASSUME NEW d \in Client, Connect(d)
       PROVE  LinkOf(c)'
  <2>1. CASE d = c
    BY <1>10, <2>1, LinkOfConnected DEF LinkInv, Connect
  <2>2. CASE d # c
    <3>1. /\ wire'[c] = wire[c] /\ conn'[c] = conn[c] /\ cursor' = cursor /\ knows' = knows
          /\ fresh' = fresh /\ logged' = logged /\ doubt' = doubt
      BY <1>10, <2>2, ConnectIs DEF Connect, hubVars
    <3> QED BY <1>1, <3>1, LinkOfOthers DEF LinkInv
  <2> QED BY <2>1, <2>2
<1>11. ASSUME NEW d \in Client, Receive(d)
       PROVE  LinkOf(c)'
  <2>1. CASE d = c
    BY <1>11, <2>1, LinkOfReceived
  <2>2. CASE d # c
    <3>1. /\ wire'[c] = wire[c] /\ conn' = conn /\ cursor'[c] = cursor[c]
          /\ knows'[c] = knows[c] /\ fresh' = fresh /\ logged' = logged
      BY <1>11, <2>2, ReceiveIs DEF hubVars
    <3>2. c \notin doubt
      BY <1>11, <2>2 DEF Receive
    <3> QED BY <1>1, <3>1, <3>2, LinkOfOthers DEF LinkInv
  <2> QED BY <2>1, <2>2
<1>12. ASSUME NEW d \in Client, Leave(d)
       PROVE  LinkOf(c)'
  <2>1. CASE d = c
    BY <1>12, <2>1, LinkOfLeft
  <2>2. CASE d # c
    <3>1. /\ wire'[c] = wire[c] /\ conn'[c] = conn[c] /\ cursor' = cursor /\ knows' = knows
          /\ fresh' = fresh /\ logged' = logged /\ c \notin doubt
      BY <1>1, <1>12, <2>2 DEF Leave, TypeOK, hubVars
    <3> QED BY <1>1, <3>1, LinkOfOthers DEF LinkInv
  <2> QED BY <2>1, <2>2
<1>13. CASE UNCHANGED vars
  BY <1>2, <1>13 DEF vars, hubVars
<1> QED
  BY <1>3, <1>4, <1>5, <1>6, <1>7, <1>8, <1>9, <1>10, <1>11, <1>12, <1>13
  DEF Next, Flush, ClientStep, NoticeClose, Lose

-----------------------------------------------------------------------------
(* The feed.                                                                *)

LEMMA InitFeed == Init => Feed!Init
<1> SUFFICES ASSUME Init
             PROVE  Feed!Init
  OBVIOUS
<1> QED BY DEF Init, Feed!Init, Owed, Current

LEMMA NextFeed ==
    ASSUME IInv, IInv', [Next]_vars
    PROVE  [Feed!Next]_(Feed!vars)
<1>1. TypeOK /\ QueueInv
  BY DEF IInv, HubInv
<1>2. Owed = [c \in Client |-> (logged \cap Wants(c)) \ knows[c]]
      /\ Owed' = [c \in Client |-> (logged' \cap Wants(c)) \ knows'[c]]
  BY DEF Owed
<1>3. \A c \in Client : c \in Current' => Owed'[c] = {}
  <2> SUFFICES ASSUME NEW c \in Client, c \in Current'
               PROVE  Owed'[c] = {}
    OBVIOUS
  <2>1. c \notin doubt' /\ conn'[c] = "open" /\ wire'[c] = <<>> /\ step' # "prune"
    BY DEF Current
  <2>2. LinkOf(c)' /\ fresh' = <<>>
    BY <2>1 DEF IInv, LinkInv, HubInv, QueueInv
  <2>3. Linked(c)'
    BY <2>1, <2>2 DEF LinkOf, FetchPending
  <2>4. Missing(c)' = {}
    BY <2>1, <2>2, <2>3 DEF Linked
  <2> QED BY <1>2, <2>4 DEF Missing
<1>4. Current' \subseteq Client
  BY DEF Current
\* Whoever believes to be up to date after the step is.
<1>5. Feed!Honest
  BY <1>3, <1>4 DEF Feed!Honest
<1>6. CASE FlushStore
  <2>1. /\ logged' = logged \cup Elements(taken) /\ knows' = knows
        /\ Elements(taken) \cap logged = {} /\ Elements(taken) \in SUBSET Change
    BY <1>1, <1>6 DEF FlushStore, clientVars, QueueInv, TypeOK
  <2>2. \A c \in Client : /\ Owed[c] \subseteq Owed'[c]
                          /\ Owed'[c] \subseteq Owed[c] \cup (Elements(taken) \cap Wants(c))
    BY <1>2, <2>1
  <2>3. DOMAIN Owed' = Client
    BY <1>2
  <2>4. Feed!Publish(Elements(taken))
    BY <2>1, <2>2, <2>3 DEF Feed!Publish
  <2> QED BY <1>4, <1>5, <2>1, <2>4 DEF Feed!Next
<1>7. ASSUME NEW d \in Client, Receive(d)
      PROVE  Feed!Next
  <2>1. /\ logged' = logged
        /\ \A c \in Client \ {d} : knows'[c] = knows[c]
        /\ knows[d] \subseteq knows'[d]
    BY <1>7, ReceiveIs DEF hubVars, IInv
  <2> DEFINE rest == (logged' \cap Wants(d)) \ knows'[d]
  <2>2. rest \in SUBSET Owed[d]
    BY <1>2, <2>1
  <2>3. Owed' = [Owed EXCEPT ![d] = rest]
    BY <1>2, <2>1
  <2>4. Feed!Learn(d)
    BY <2>1, <2>2, <2>3 DEF Feed!Learn
  <2> QED BY <1>4, <1>5, <2>4 DEF Feed!Next
<1>8. ASSUME logged' = logged, knows' = knows
      PROVE  Feed!Next
  <2>1. Owed' = Owed
    BY <1>2, <1>8
  <2> QED BY <1>4, <1>5, <1>8, <2>1 DEF Feed!Next, Feed!Reconnect
<1>9. FlushStore \/ (\E d \in Client : Receive(d)) \/ (logged' = logged /\ knows' = knows)
  <2>1. ASSUME NEW d \in Client, Leave(d) \/ Connect(d)
        PROVE  logged' = logged /\ knows' = knows
    BY <2>1 DEF Leave, Connect, hubVars
  <2>2. CASE Next
    BY <2>1, <2>2
    DEF Next, Flush, ClientStep, NoticeClose, Lose, Emit, Arm, ArmFails, FlushTake, FlushDeliver,
        FlushFails, Reset, Age, clientVars
  <2>3. CASE UNCHANGED vars
    BY <2>3 DEF vars, hubVars, clientVars
  <2> QED BY <2>2, <2>3
<1> QED BY <1>6, <1>7, <1>8, <1>9

\* The shard implements the feed: whoever is connected with nothing on its way
\* has missed nothing it watches, however frames are coalesced, replayed, pruned
\* or dropped, and whatever is reset; unless it is counted as in doubt.
THEOREM HubImplementsFeed == Spec => ImplementsFeed
<1>1. Init => IInv
  BY InitHub, InitOrder, InitLink DEF IInv
<1>2. IInv /\ [Next]_vars => IInv'
  BY NextHub, NextOrder, NextLink DEF IInv
<1>3. Init => Feed!Init
  BY InitFeed
<1>4. IInv /\ IInv' /\ [Next]_vars => [Feed!Next]_(Feed!vars)
  BY NextFeed
<1> QED BY <1>1, <1>2, <1>3, <1>4, PTL DEF Spec, ImplementsFeed, Feed!Spec
=============================================================================
