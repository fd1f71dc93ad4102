--------------------------- MODULE StockRequests ----------------------------
(***************************************************************************)
(* Students ask for a sold-out item and are told on Telegram when it is    *)
(* back; the linking of a student's Telegram chat.  The items are those of *)
(* Catalog, whose requests run beside these.                               *)
(***************************************************************************)
EXTENDS Catalog

CONSTANTS
    Student,      \* those of the school that may ask
    Chat,         \* Telegram chats
    ToMenu,       \* bound: the callers that edit the menu
    ToNotices     \* bound: those that ask, restock and link chats

Waiting == [item : Item, student : Student]

ASSUME StockRequestsAssumption ==
    /\ None \notin Chat
    /\ ToMenu \cup ToNotices = Caller
    /\ \A t \in FirstTables :
          /\ t.waiting \subseteq Waiting
          /\ t.chat \in [Student -> Chat \cup {None}]
          /\ \A r, s \in Student : r # s => t.chat[r] # t.chat[s] \/ t.chat[r] = None

VARIABLES
    waiting,   \* StockRequest rows
    chat,      \* [Student -> telegramChatId]
    code       \* students with a telegramLinkCode that has not expired

noticeVars == <<waiting, chat, code>>
vars == <<catalogVars, noticeVars, call>>

NoticeCall ==
    [stage : {"ask"}, item : Item, student : Student]
    \cup [stage : {"round"}, item : Item]
    \cup [stage : {"sending"}, item : Item, asked : SUBSET Student,
          reachable : SUBSET Student, sent : SUBSET Student, refused : SUBSET Student]
    \cup [stage : {"drawCode", "unlink"}, student : Student]
    \cup [stage : {"found", "link"}, student : Student, chat : Chat]

MenuTypeOK ==
    /\ CatalogTypeOK
    /\ waiting \subseteq Waiting
    /\ chat \in [Student -> Chat \cup {None}]
    /\ code \subseteq Student
    /\ \A c \in Caller :
          call[c].stage \in {m.stage : m \in NoticeCall} => call[c] \in NoticeCall

Init ==
    /\ \E t \in FirstTables :
          CatalogInit(t) /\ waiting = t.waiting /\ chat = t.chat
    /\ call = [c \in Caller |-> Idle]
    /\ code = {s \in Student : chat[s] = None}   \* each has asked for one

(***************************************************************************)
(* stockRequestService                                                     *)
(***************************************************************************)

\* Only what is on the menu, switched on and sold out can be asked for.
RequestItem(c) ==
    \E s \in Student, i \in OnMenu :
        /\ item[i].isAvailable /\ item[i].stock = 0
        /\ Begins(c, [stage |-> "ask", item |-> i, student |-> s])
        /\ UNCHANGED <<catalogVars, noticeVars>>

CreateStockRequest(c) ==
    /\ At(c, "ask")
    /\ Goes(c, Done)
    /\ waiting' = waiting \cup {[item |-> call[c].item, student |-> call[c].student]}
    /\ UNCHANGED <<catalogVars, chat, code>>

Requesters(i) == {s \in Student : [item |-> i, student |-> s] \in waiting}

NotifyRestocked(c) ==
    \E i \in OnMenu :
        /\ Begins(c, [stage |-> "round", item |-> i])
        /\ UNCHANGED <<catalogVars, noticeVars>>

\* Who asked, and of those who has a chat.
FindRequesters(c) ==
    LET asked == Requesters(call[c].item)
    IN  /\ At(c, "round")
        /\ Goes(c, IF asked = {} THEN Done ELSE
               [stage |-> "sending", item |-> call[c].item, asked |-> asked,
                reachable |-> {s \in asked : chat[s] # None}, sent |-> {}, refused |-> {}])
        /\ UNCHANGED <<catalogVars, noticeVars>>

\* A message that is refused does not keep the others from theirs.  Without the
\* bot's token none is sent, which leaves the state that refusing all of them does.
SendRestocked(c) ==
    LET me == call[c]
    IN  /\ At(c, "sending")
        /\ \E s \in me.reachable \ (me.sent \cup me.refused) :
              \/ Goes(c, [me EXCEPT !.sent = @ \cup {s}])
              \/ Goes(c, [me EXCEPT !.refused = @ \cup {s}])
        /\ UNCHANGED <<catalogVars, noticeVars>>

\* Mutant: the first refusal ends the loop.
ClearAfterRefusal(c) ==
    LET me == call[c]
    IN  /\ At(c, "sending")
        /\ me.refused # {} \/ me.reachable \subseteq me.sent
        /\ Goes(c, Done)
        /\ waiting' = {w \in waiting : w.item # me.item}
        /\ UNCHANGED <<catalogVars, chat, code>>

\* Mutant: only who was reached is cleared.
ClearReached(c) ==
    LET me == call[c]
    IN  /\ At(c, "sending")
        /\ me.reachable \subseteq me.sent \cup me.refused
        /\ Goes(c, Done)
        /\ waiting' = {w \in waiting : w.item # me.item \/ w.student \notin me.sent}
        /\ UNCHANGED <<catalogVars, chat, code>>

\* Every request for the item goes, also one made since they were read.
ClearStockRequests(c) ==
    LET me == call[c]
    IN  /\ At(c, "sending")
        /\ me.reachable \subseteq me.sent \cup me.refused
        /\ Goes(c, Done)
        /\ waiting' = {w \in waiting : w.item # me.item}
        /\ UNCHANGED <<catalogVars, chat, code>>

(***************************************************************************)
(* telegramService                                                         *)
(***************************************************************************)
StartTelegramLink(c) ==
    \E s \in Student :
        /\ chat[s] = None
        /\ Begins(c, [stage |-> "drawCode", student |-> s])
        /\ UNCHANGED <<catalogVars, noticeVars>>

\* A fresh code, which takes the place of an earlier one.
StoreLinkCode(c) ==
    /\ At(c, "drawCode")
    /\ Goes(c, Done)
    /\ code' = code \cup {call[c].student}
    /\ UNCHANGED <<catalogVars, waiting, chat>>

UnlinkTelegram(c) ==
    \E s \in Student :
        /\ chat[s] # None
        /\ Begins(c, [stage |-> "unlink", student |-> s])
        /\ UNCHANGED <<catalogVars, noticeVars>>

\* Mutant: the chat id is blanked, not set to null.
UnlinkBlank(c) ==
    /\ At(c, "unlink")
    /\ Goes(c, Done)
    /\ chat' = [chat EXCEPT ![call[c].student] = ""]
    /\ code' = code \ {call[c].student}
    /\ UNCHANGED <<catalogVars, waiting>>

Unlink(c) ==
    LET s == call[c].student
    IN  /\ At(c, "unlink")
        /\ Goes(c, Done)
        /\ chat' = [chat EXCEPT ![s] = None]
        /\ code' = code \ {s}
        /\ UNCHANGED <<catalogVars, waiting>>

\* A chat sends /start with a code, once or, redelivered, several times.
HandleTelegramUpdate(c) ==
    \E h \in Chat, s \in code :
        /\ Begins(c, [stage |-> "found", student |-> s, chat |-> h])
        /\ UNCHANGED <<catalogVars, noticeVars>>

ChatTaken(h, s) == \E t \in Student \ {s} : chat[t] = h

CheckChat(c) ==
    LET me == call[c]
    IN  /\ At(c, "found")
        /\ Goes(c, IF ChatTaken(me.chat, me.student) THEN Done
                   ELSE [me EXCEPT !.stage = "link"])
        /\ UNCHANGED <<catalogVars, noticeVars>>

\* Mutant: neither the lookup nor the unique index is there.
LinkChatUnchecked(c) ==
    /\ At(c, "link")
    /\ Goes(c, Done)
    /\ chat' = [chat EXCEPT ![call[c].student] = call[c].chat]
    /\ code' = code \ {call[c].student}
    /\ UNCHANGED <<catalogVars, waiting>>

\* telegramChatId is unique: the second of two such updates is an error.
LinkChat(c) ==
    LET me == call[c]
    IN  /\ At(c, "link")
        /\ Goes(c, Done)
        /\ IF ChatTaken(me.chat, me.student)
           THEN UNCHANGED <<chat, code>>
           ELSE /\ chat' = [chat EXCEPT ![me.student] = me.chat]
                /\ code' = code \ {me.student}
        /\ UNCHANGED <<catalogVars, waiting>>

\* LINK_TTL_MS passes.
LinkExpires ==
    \E s \in code :
        /\ code' = code \ {s}
        /\ UNCHANGED <<catalogVars, waiting, chat, call>>

Notify(c) == FindRequesters(c) \/ SendRestocked(c) \/ ClearStockRequests(c)

StockRequestRoutes(c) ==
    RequestItem(c) \/ CreateStockRequest(c) \/ NotifyRestocked(c) \/ Notify(c)

TelegramRoutes(c) ==
    \/ StartTelegramLink(c) \/ StoreLinkCode(c) \/ UnlinkTelegram(c) \/ Unlink(c)
    \/ HandleTelegramUpdate(c) \/ CheckChat(c) \/ LinkChat(c)

Next ==
    \/ \E c \in ToMenu : CatalogNext(c) /\ UNCHANGED noticeVars
    \/ \E c \in ToNotices : StockRequestRoutes(c) \/ TelegramRoutes(c)
    \/ LinkExpires

Spec == Init /\ [][Next]_vars

\* A worker that has begun a round goes on with it.
FairSpec == Spec /\ \A c \in Caller : WF_vars(Notify(c))

(***************************************************************************)
(* Properties                                                              *)
(***************************************************************************)

\* However many chats and codes are on their way to the webhook, a chat ends
\* up with one student at most.
OneStudentPerChat == \A s, t \in Student : s # t /\ chat[s] # None => chat[s] # chat[t]

\* stockRequestService.ts:112: nobody loses a request that a round found to a
\* refusal of somebody before them: a request that goes was answered, could
\* not be, or came after the round had looked.
Answered(c, w) ==
    /\ At(c, "sending") /\ call[c].item = w.item
    /\ w.student \in call[c].reachable => w.student \in call[c].sent \cup call[c].refused

NobodyBehindIsDropped ==
    [][\A w \in waiting \ waiting' : \E c \in Caller : Answered(c, w) /\ call'[c] = Done]_vars

\* stockRequestService.ts:107: a round that has begun discharges everybody it
\* found waiting, whether or not they can be reached.
RoundsDischarge ==
    \A c \in Caller, i \in Item, s \in Student :
        (At(c, "sending") /\ call[c].item = i /\ s \in call[c].asked)
            ~> ([item |-> i, student |-> s] \notin waiting)
=============================================================================
