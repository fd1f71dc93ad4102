----------------------------- MODULE EventFeed -----------------------------
(***************************************************************************)
(* What a live feed promises its clients, whatever carries it: a client is *)
(* owed every published change it asked for until it has learnt of it, and *)
(* is current only when it is owed nothing.                                *)
(***************************************************************************)
CONSTANTS
    Change,     \* what happens in the canteen
    Client,
    Wanted      \* [Client -> SUBSET Change]

VARIABLES
    published,  \* set of Change: accepted by the feed for good
    owed,       \* [Client -> set of Change]
    current     \* set of Client that may believe to be up to date

vars == <<published, owed, current>>

Init ==
    /\ published = {}
    /\ owed = [c \in Client |-> {}]
    /\ current = {}

\* Whoever is current after a step is owed nothing then.
Honest == \A c \in current' : owed'[c] = {}

Publish(changes) ==
    /\ changes \cap published = {}
    /\ published' = published \cup changes
    /\ \A c \in Client :
           /\ owed[c] \subseteq owed'[c]
           /\ owed'[c] \subseteq owed[c] \cup (changes \cap Wanted[c])
    /\ DOMAIN owed' = Client

\* A client learns of some of what it is owed, from the feed or by fetching.
Learn(c) ==
    /\ \E rest \in SUBSET owed[c] : owed' = [owed EXCEPT ![c] = rest]
    /\ UNCHANGED published

\* Connections come and go: nobody is owed less for it.
Reconnect == UNCHANGED <<published, owed>>

Next ==
    /\ \/ \E changes \in SUBSET Change : Publish(changes)
       \/ \E c \in Client : Learn(c)
       \/ Reconnect
    /\ current' \subseteq Client
    /\ Honest

Spec == Init /\ [][Next]_vars
=============================================================================
