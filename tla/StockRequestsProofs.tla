------------------------ MODULE StockRequestsProofs -------------------------
(***************************************************************************)
(* Proofs about Catalog and StockRequests for any number of items,         *)
(* categories, students, chats and requests: types, a hash for bytes that  *)
(* are there, archived categories, one student per chat, answered requests.*)
(***************************************************************************)
EXTENDS StockRequests, TLAPS

-----------------------------------------------------------------------------
(* The inductive invariant.                                                 *)

Calls == {Idle, Done} \cup CatalogCall \cup NoticeCall

MenuTypes ==
    /\ category \in [Category -> CategoryRow]
    /\ item \in [Item -> ItemRow]
    /\ image \in [Item -> Picture \cup {None}]
    /\ lock \in [Item -> Caller \cup {None}]
    /\ call \in [Caller -> Calls]
    /\ waiting \subseteq Waiting
    /\ chat \in [Student -> Chat \cup {None}]
    /\ code \subseteq Student

\* A row that was never inserted has no picture.
PicturesOfRows == \A i \in Item : item[i].state = "none" => image[i] = None

\* Stages of a request that has read an item, and of a transaction that holds it.
Working == {"update", "archiveItem", "put", "clear", "upsert", "stamp", "drop", "unstamp"}
Holding == {"upsert", "stamp", "drop", "unstamp"}

\* The item that was read is there, the transaction has its lock, and what its
\* DELETE found is still the case.
Sound(c) ==
    /\ call[c].stage \in Working => item[call[c].item].state # "none"
    /\ call[c].stage \in Holding => lock[call[c].item] = c
    /\ call[c].stage = "unstamp" => (call[c].found <=> image[call[c].item] # None)

MenuInv ==
    /\ MenuTypes
    /\ HashMatchesBytes
    /\ PicturesOfRows
    /\ \A c \in Caller : Sound(c)
    /\ OneStudentPerChat

(* What a step can do. *)

OneCall(c) == Goes(c, call'[c]) /\ call'[c] \in Calls

\* Rows stay, and an edit leaves a row's hash alone.
RowsKept ==
    \A i \in Item :
        /\ item[i].state # "none" => item'[i].state # "none"
        /\ \/ item'[i].hash = item[i].hash
           \/ item[i].state = "none" /\ item'[i].hash = None

Keeps(c) ==
    \/ Stray' \subseteq Stray
    \/ call[c].stage \in {"insertItem", "update"} /\ call'[c] # call[c]

\* A request that holds no lock.
EditStep(c) ==
    /\ OneCall(c)
    /\ category' \in [Category -> CategoryRow]
    /\ item' \in [Item -> ItemRow]
    /\ RowsKept /\ Keeps(c)
    /\ call'[c].stage \notin Holding
    /\ call'[c].stage \in Working => item[call'[c].item].state # "none"
    /\ UNCHANGED <<image, lock, noticeVars>>

LockStep(c) ==
    /\ OneCall(c)
    /\ call'[c].item \in Item /\ lock[call'[c].item] = None
    /\ item[call'[c].item].state # "none"
    /\ call'[c].stage \in {"upsert", "drop"}
    /\ lock' = [lock EXCEPT ![call'[c].item] = c]
    /\ UNCHANGED <<category, item, image, noticeVars>>

\* Between the lock and the commit.
HeldStep(c) ==
    /\ OneCall(c)
    /\ call[c].stage \in Holding /\ call'[c].stage \in {"stamp", "unstamp"}
    /\ call[c].item \in Item /\ call'[c].item = call[c].item
    /\ call'[c].stage = "unstamp" => (call'[c].found <=> image[call[c].item] # None)
    /\ UNCHANGED <<catalogVars, noticeVars>>

CommitStep(c) ==
    /\ call[c].stage \in Holding /\ call[c].item \in Item
    /\ \E bytes \in Picture \cup {None} : Commit(c, bytes, bytes)
    /\ UNCHANGED noticeVars

\* A request of the other module.
NoticeStep(c) ==
    /\ OneCall(c)
    /\ call'[c].stage \notin Working
    /\ waiting' \subseteq Waiting /\ code' \subseteq Student
    /\ \A w \in waiting \ waiting' : Answered(c, w) /\ call'[c] = Done
    /\ \/ UNCHANGED chat
       \/ \E s \in Student, h \in Chat \cup {None} :
             /\ h = None \/ ~ChatTaken(h, s)
             /\ chat' = [chat EXCEPT ![s] = h]
    /\ UNCHANGED catalogVars

-----------------------------------------------------------------------------
(* Each statement is such a step.                                           *)

\* The stages that a record of each shape can be in.
LEMMA Shapes ==
    ASSUME NEW m \in Calls
    PROVE  /\ m.stage \in {"archiveCategory", "bulk", "insertItem"} =>
                 m.category \in Category /\ m.board \in Board
           /\ m.stage \in Working => m.item \in Item
           /\ m.stage = "stamp" => m.bytes \in Picture
           /\ m.stage = "unstamp" => m.found \in BOOLEAN
           /\ m.stage \in {"ask", "round", "sending"} => m.item \in Item
           /\ m.stage \in {"ask", "drawCode", "unlink", "found", "link"} => m.student \in Student
           /\ m.stage \in {"found", "link"} => m.chat \in Chat
BY DEF Calls, Idle, Done, CatalogCall, NoticeCall, Working

LEMMA ReadCategorySteps ==
    ASSUME MenuInv, NEW c \in Caller, UNCHANGED noticeVars,
           NEW stage \in {"archiveCategory", "bulk", "insertItem"}, ReadCategory(c, stage)
    PROVE  EditStep(c)
<1>1. PICK k \in Listed : Begins(c, [stage |-> stage, category |-> k,
                                     board |-> category[k].board])
  BY DEF ReadCategory
<1>2. k \in Category /\ category[k].board \in Board
  BY DEF Listed, MenuInv, MenuTypes, CategoryRow
<1>3. [stage |-> stage, category |-> k, board |-> category[k].board] \in Calls
  BY <1>2 DEF Calls, CatalogCall
<1>4. call'[c] = [stage |-> stage, category |-> k, board |-> category[k].board]
  BY <1>1 DEF Begins, Goes, MenuInv, MenuTypes
<1>5. UNCHANGED catalogVars
  BY DEF ReadCategory
<1>6. OneCall(c)
  BY <1>1, <1>3, <1>4 DEF OneCall, Begins, Goes
<1>7. RowsKept /\ Keeps(c)
  BY <1>5 DEF RowsKept, Keeps, catalogVars, Stray, OnMenu
<1> QED
  BY <1>4, <1>5, <1>6, <1>7 DEF EditStep, catalogVars, Working, Holding, MenuInv, MenuTypes

LEMMA ReadItemSteps ==
    ASSUME MenuInv, NEW c \in Caller, UNCHANGED noticeVars,
           NEW stage \in {"update", "archiveItem", "put", "clear"}, ReadMenuItem(c, stage)
    PROVE  EditStep(c)
<1>1. PICK i \in OnMenu : Begins(c, [stage |-> stage, item |-> i])
  BY DEF ReadMenuItem
<1>2. i \in Item /\ item[i].state # "none"
  BY DEF OnMenu
<1>3. [stage |-> stage, item |-> i] \in Calls
  BY <1>2 DEF Calls, CatalogCall
<1>4. call'[c] = [stage |-> stage, item |-> i]
  BY <1>1 DEF Begins, Goes, MenuInv, MenuTypes
<1>5. UNCHANGED catalogVars
  BY DEF ReadMenuItem
<1>6. OneCall(c)
  BY <1>1, <1>3, <1>4 DEF OneCall, Begins, Goes
<1>7. RowsKept /\ Keeps(c)
  BY <1>5 DEF RowsKept, Keeps, catalogVars, Stray, OnMenu
<1> QED
  BY <1>2, <1>4, <1>5, <1>6, <1>7 DEF EditStep, catalogVars, Working, Holding, MenuInv, MenuTypes

\* A request that ends.
LEMMA Ends ==
    ASSUME MenuInv, NEW c \in Caller, Goes(c, Done)
    PROVE  /\ OneCall(c) /\ call'[c] = Done
           /\ call'[c].stage \notin Working /\ call'[c].stage \notin Holding
BY DEF MenuInv, MenuTypes, Goes, OneCall, Calls, Done, Working, Holding

LEMMA EditMenuSteps ==
    ASSUME MenuInv, NEW c \in Caller, UNCHANGED noticeVars, EditMenu(c)
    PROVE  EditStep(c)
<1> USE DEF MenuInv
<1>0. /\ category \in [Category -> CategoryRow] /\ item \in [Item -> ItemRow]
      /\ call[c] \in Calls
  BY DEF MenuTypes
<1>1. CASE CreateCategory(c)
  <2>1. PICK a \in Admin, k \in Category :
            /\ category[k].state = "none"
            /\ category' = [category EXCEPT ![k] = [state |-> "listed", board |-> Home[a]]]
    BY <1>1 DEF CreateCategory
  <2>2. Home[a] \in Board
    BY CatalogAssumption
  <2>3. category' \in [Category -> CategoryRow]
    BY <1>0, <2>1, <2>2 DEF CategoryRow
  <2>4. UNCHANGED <<item, image, lock>> /\ Goes(c, Done)
    BY <1>1 DEF CreateCategory, Begins
  <2>5. Keeps(c)
    BY <1>0, <2>1, <2>4 DEF Keeps, Stray, OnMenu
  <2> QED
    BY <1>0, <2>3, <2>4, <2>5, Ends DEF EditStep, RowsKept
<1>2. CASE DeleteCategory(c) \/ BulkUpdateCategoryItems(c) \/ CreateMenuItem(c)
  BY <1>2, ReadCategorySteps DEF DeleteCategory, BulkUpdateCategoryItems, CreateMenuItem
<1>3. CASE UpdateMenuItem(c) \/ DeleteMenuItem(c)
  BY <1>3, ReadItemSteps DEF UpdateMenuItem, DeleteMenuItem
<1>4. CASE ArchiveCategoryWithItems(c)
  <2> DEFINE k == call[c].category
  <2>1. Goes(c, Done) /\ UNCHANGED <<image, lock>> /\ k \in Category
    BY <1>0, <1>4, Shapes DEF ArchiveCategoryWithItems, At
  <2>2. CASE k \in Listed
    <3>1. /\ category' = [category EXCEPT ![k].state = "archived"]
          /\ item' = [i \in Item |-> IF i \in Within(k)
                                     THEN [item[i] EXCEPT !.state = "archived"] ELSE item[i]]
      BY <1>4, <2>2 DEF ArchiveCategoryWithItems, UpdateMenuItems
    <3>2. category' \in [Category -> CategoryRow]
      BY <1>0, <2>1, <3>1 DEF CategoryRow
    <3>3. \A i \in Item : /\ item'[i] \in ItemRow
                          /\ item'[i].hash = item[i].hash
                          /\ item'[i].category = item[i].category
                          /\ \/ item'[i].state = item[i].state
                             \/ item[i].state = "onMenu" /\ item'[i].state = "archived"
      BY <1>0, <3>1 DEF ItemRow, Within, OnMenu
    <3>4. item' \in [Item -> ItemRow] /\ RowsKept
      BY <3>1, <3>3 DEF RowsKept
    <3>5. \A i \in OnMenu' : i \in OnMenu /\ item[i].category # k
      <4> SUFFICES ASSUME NEW i \in Item, item'[i].state = "onMenu"
                   PROVE  item[i].state = "onMenu" /\ item[i].category # k
        BY DEF OnMenu
      <4>1. CASE i \in Within(k)
        <5>1. item'[i] = [item[i] EXCEPT !.state = "archived"]
          BY <3>1, <4>1
        <5> QED BY <1>0, <5>1 DEF ItemRow
      <4>2. CASE i \notin Within(k)
        BY <3>1, <4>2 DEF Within, OnMenu
      <4> QED BY <4>1, <4>2
    <3>6. Keeps(c)
      BY <1>0, <2>1, <3>1, <3>3, <3>5 DEF Keeps, Stray, OnMenu, ItemRow, CategoryRow
    <3> QED
      BY <2>1, <3>2, <3>4, <3>6, Ends DEF EditStep
  <2>3. CASE k \notin Listed
    <3>1. UNCHANGED <<category, item>>
      BY <1>4, <2>3 DEF ArchiveCategoryWithItems
    <3> QED
      BY <1>0, <2>1, <3>1, Ends DEF EditStep, RowsKept, Keeps, Stray, OnMenu
  <2> QED BY <2>2, <2>3
<1>5. CASE UpdateMenuItemsByCategory(c)
  <2>1. PICK available \in BOOLEAN, stock \in 0 .. 1 :
            item' = [i \in Item |-> IF i \in Within(call[c].category)
                        THEN [item[i] EXCEPT !.isAvailable = available, !.stock = stock]
                        ELSE item[i]]
    BY <1>5 DEF UpdateMenuItemsByCategory, UpdateMenuItems
  <2>2. \A i \in Item : /\ item'[i] \in ItemRow
                        /\ item'[i].hash = item[i].hash
                        /\ item'[i].category = item[i].category
                        /\ item'[i].state = item[i].state
    BY <1>0, <2>1 DEF ItemRow
  <2>3. item' \in [Item -> ItemRow] /\ RowsKept
    BY <2>1, <2>2 DEF RowsKept
  <2>4. Goes(c, Done) /\ UNCHANGED <<category, image, lock>>
    BY <1>5 DEF UpdateMenuItemsByCategory
  <2>5. Keeps(c)
    BY <2>2, <2>4 DEF Keeps, Stray, OnMenu
  <2> QED
    BY <1>0, <2>3, <2>4, <2>5, Ends DEF EditStep
<1>6. CASE InsertMenuItem(c)
  <2>1. PICK i \in Item, stock \in 0 .. 1 :
            /\ item[i].state = "none"
            /\ item' = [item EXCEPT ![i] =
                 [state |-> "onMenu", category |-> call[c].category,
                  school |-> SchoolOf[call[c].board],
                  isAvailable |-> TRUE, stock |-> stock, hash |-> None]]
    BY <1>6 DEF InsertMenuItem
  <2>2. /\ Goes(c, Done) /\ UNCHANGED <<category, image, lock>>
        /\ call[c].stage = "insertItem"
    BY <1>6 DEF InsertMenuItem, At
  <2>3. call[c].category \in Category /\ SchoolOf[call[c].board] \in School
    BY <1>0, <2>2, Shapes DEF School
  <2>4. item' \in [Item -> ItemRow]
    BY <1>0, <2>1, <2>3 DEF ItemRow
  <2>5. RowsKept
    BY <1>0, <2>1 DEF RowsKept
  <2>6. Keeps(c)
    BY <2>2, Ends DEF Keeps, Done
  <2> QED
    BY <1>0, <2>2, <2>4, <2>5, <2>6, Ends DEF EditStep
<1>7. CASE UpdateMenuItemWrite(c)
  <2>1. PICK available \in BOOLEAN, stock \in 0 .. 1, k \in Category :
            UpdateMenuItems({call[c].item},
                [i \in Item |-> [item[i] EXCEPT !.isAvailable = available,
                                                !.stock = stock, !.category = k]])
    BY <1>7 DEF UpdateMenuItemWrite
  <2>2. \A i \in Item : /\ item'[i] \in ItemRow
                        /\ item'[i].hash = item[i].hash
                        /\ item'[i].state = item[i].state
    <3> SUFFICES ASSUME NEW i \in Item
                 PROVE  /\ item'[i] \in ItemRow
                        /\ item'[i].hash = item[i].hash
                        /\ item'[i].state = item[i].state
      OBVIOUS
    <3>1. \/ item'[i] = item[i]
          \/ item'[i] = [item[i] EXCEPT !.isAvailable = available,
                                        !.stock = stock, !.category = k]
      BY <2>1 DEF UpdateMenuItems
    <3>2. item[i] \in ItemRow
      BY <1>0
    <3> QED BY <3>1, <3>2 DEF ItemRow
  <2>3. item' \in [Item -> ItemRow] /\ RowsKept
    BY <2>1, <2>2 DEF RowsKept, UpdateMenuItems
  <2>4. /\ Goes(c, Done) /\ UNCHANGED <<category, image, lock>>
        /\ call[c].stage = "update"
    BY <1>7 DEF UpdateMenuItemWrite, At
  <2>5. Keeps(c)
    BY <2>4, Ends DEF Keeps, Done
  <2> QED
    BY <1>0, <2>3, <2>4, <2>5, Ends DEF EditStep
<1>8. CASE ArchiveMenuItem(c)
  <2>1. item' = [i \in Item |-> IF i \in {call[c].item} \cap OnMenu
                     THEN [item[i] EXCEPT !.state = "archived"] ELSE item[i]]
    BY <1>8 DEF ArchiveMenuItem, UpdateMenuItems
  <2>2. \A i \in Item : /\ item'[i] \in ItemRow
                        /\ item'[i].hash = item[i].hash
                        /\ item'[i].category = item[i].category
                        /\ \/ item'[i].state = item[i].state
                           \/ item[i].state = "onMenu" /\ item'[i].state = "archived"
    BY <1>0, <2>1 DEF ItemRow, OnMenu
  <2>3. item' \in [Item -> ItemRow] /\ RowsKept
    BY <2>1, <2>2 DEF RowsKept
  <2>4. Goes(c, Done) /\ UNCHANGED <<category, image, lock>>
    BY <1>8 DEF ArchiveMenuItem
  <2>5. Keeps(c)
    BY <2>2, <2>4 DEF Keeps, Stray, OnMenu
  <2> QED
    BY <1>0, <2>3, <2>4, <2>5, Ends DEF EditStep
<1> QED
  BY <1>1, <1>2, <1>3, <1>4, <1>5, <1>6, <1>7, <1>8 DEF EditMenu

\* Pictures: the item is read, its row locked, the bytes written, the hash.
LEMMA EditImageSteps ==
    ASSUME MenuInv, NEW c \in Caller, UNCHANGED noticeVars, EditImage(c)
    PROVE  EditStep(c) \/ LockStep(c) \/ HeldStep(c) \/ CommitStep(c)
<1> USE DEF MenuInv
<1>0. call[c] \in Calls /\ call \in [Caller -> Calls]
      /\ (call[c].stage \in Working => call[c].item \in Item)
  BY Shapes DEF MenuTypes
<1>1. CASE UploadMenuItemImage(c) \/ DeleteMenuItemImage(c)
  BY <1>1, ReadItemSteps DEF UploadMenuItemImage, DeleteMenuItemImage
<1>2. ASSUME NEW from \in {"put", "clear"}, NEW next \in {"upsert", "drop"},
             LockMenuItem(c, from, next)
      PROVE  LockStep(c)
  <2> DEFINE i == call[c].item
  <2>1. i \in Item /\ item[i].state # "none" /\ lock[i] = None
        /\ lock' = [lock EXCEPT ![i] = c] /\ UNCHANGED <<category, item, image>>
        /\ Goes(c, [stage |-> next, item |-> i])
    BY <1>0, <1>2 DEF LockMenuItem, At, Working, Sound
  <2>2. [stage |-> next, item |-> i] \in Calls
    BY <2>1 DEF Calls, CatalogCall
  <2>3. call'[c] = [stage |-> next, item |-> i]
    BY <1>0, <2>1 DEF Goes
  <2> QED BY <2>1, <2>2, <2>3 DEF LockStep, OneCall
<1>3. CASE PutImage(c) \/ DeleteImage(c)
  BY <1>2, <1>3 DEF PutImage, DeleteImage
<1>4. CASE UpsertImage(c)
  <2>1. PICK bytes \in Picture :
            Goes(c, [stage |-> "stamp", item |-> call[c].item, bytes |-> bytes])
    BY <1>4 DEF UpsertImage
  <2>2. call[c].stage = "upsert" /\ call[c].item \in Item
    BY <1>0, <1>4 DEF UpsertImage, At, Working
  <2>3. [stage |-> "stamp", item |-> call[c].item, bytes |-> bytes] \in Calls
    BY <2>2 DEF Calls, CatalogCall
  <2>4. call'[c] = [stage |-> "stamp", item |-> call[c].item, bytes |-> bytes]
    BY <1>0, <2>1 DEF Goes
  <2> QED
    BY <1>4, <2>1, <2>2, <2>3, <2>4 DEF UpsertImage, HeldStep, OneCall, Holding
<1>5. CASE DropImage(c)
  <2>1. call[c].stage = "drop" /\ call[c].item \in Item
    BY <1>0, <1>5 DEF DropImage, At, Working
  <2> DEFINE next == [stage |-> "unstamp", item |-> call[c].item,
                      found |-> image[call[c].item] # None]
  <2>2. Goes(c, next)
    BY <1>5 DEF DropImage
  <2>3. next \in Calls
    BY <2>1 DEF Calls, CatalogCall
  <2>4. call'[c] = next
    BY <1>0, <2>2 DEF Goes
  <2>5. /\ call'[c].stage = "unstamp" /\ call'[c].item = call[c].item
        /\ call'[c].found = (image[call[c].item] # None)
    BY <2>4
  <2>6. OneCall(c)
    BY <2>2, <2>3, <2>4 DEF OneCall
  <2>7. UNCHANGED catalogVars
    BY <1>5 DEF DropImage
  <2> QED
    BY <2>1, <2>5, <2>6, <2>7 DEF HeldStep, Holding
<1>6. CASE StampHash(c)
  <2>1. call[c].stage = "stamp" /\ call[c].item \in Item /\ call[c].bytes \in Picture
    BY <1>0, <1>6, Shapes DEF StampHash, At, Working
  <2> QED BY <1>6, <2>1 DEF StampHash, CommitStep, Holding
<1>7. CASE UnstampHash(c)
  <2>1. call[c].stage = "unstamp" /\ call[c].item \in Item
        /\ (call[c].found <=> image[call[c].item] # None)
    BY <1>0, <1>7 DEF UnstampHash, At, Working, Sound
  <2>2. Commit(c, None, None)
    BY <1>7, <2>1 DEF UnstampHash
  <2> QED BY <2>1, <2>2 DEF CommitStep, Holding
<1> QED
  BY <1>1, <1>3, <1>4, <1>5, <1>6, <1>7 DEF EditImage

\* A step of the other module, of the shape NoticeStep gives.
LEMMA Notices ==
    ASSUME MenuInv, NEW c \in Caller, UNCHANGED catalogVars, NEW next \in Calls,
           Goes(c, next), next.stage \notin Working,
           waiting \subseteq waiting', waiting' \subseteq Waiting, code' \subseteq Student,
           \/ UNCHANGED chat
           \/ \E s \in Student, h \in Chat \cup {None} :
                 /\ h = None \/ ~ChatTaken(h, s)
                 /\ chat' = [chat EXCEPT ![s] = h]
    PROVE  NoticeStep(c)
<1>1. call'[c] = next
  BY DEF MenuInv, MenuTypes, Goes
<1>2. OneCall(c)
  BY <1>1 DEF OneCall, Goes
<1> QED
  BY <1>1, <1>2 DEF NoticeStep

LEMMA StockRequestSteps ==
    ASSUME MenuInv, NEW c \in Caller, StockRequestRoutes(c)
    PROVE  NoticeStep(c)
<1>0. /\ call[c] \in Calls /\ call \in [Caller -> Calls] /\ Done \in Calls
      /\ Done.stage \notin Working
      /\ waiting \subseteq Waiting /\ code \subseteq Student
  BY DEF MenuInv, MenuTypes, Calls, Done, Working
<1>1. CASE RequestItem(c)
  <2>1. PICK s \in Student, i \in Item :
            Goes(c, [stage |-> "ask", item |-> i, student |-> s])
    BY <1>1 DEF RequestItem, Begins, OnMenu
  <2>2. [stage |-> "ask", item |-> i, student |-> s] \in Calls
    BY DEF Calls, NoticeCall
  <2>3. UNCHANGED <<catalogVars, noticeVars>>
    BY <1>1 DEF RequestItem
  <2> QED BY <1>0, <2>1, <2>2, <2>3, Notices DEF Working, noticeVars
<1>2. CASE CreateStockRequest(c)
  <2>1. call[c].item \in Item /\ call[c].student \in Student
    BY <1>0, <1>2, Shapes DEF CreateStockRequest, At
  <2>2. waiting' \subseteq Waiting /\ waiting \subseteq waiting'
    BY <1>0, <1>2, <2>1 DEF CreateStockRequest, Waiting
  <2> QED BY <1>0, <1>2, <2>2, Notices DEF CreateStockRequest
<1>3. CASE NotifyRestocked(c)
  <2>1. PICK i \in Item : Goes(c, [stage |-> "round", item |-> i])
    BY <1>3 DEF NotifyRestocked, Begins, OnMenu
  <2>2. [stage |-> "round", item |-> i] \in Calls
    BY DEF Calls, NoticeCall
  <2>3. UNCHANGED <<catalogVars, noticeVars>>
    BY <1>3 DEF NotifyRestocked
  <2> QED BY <1>0, <2>1, <2>2, <2>3, Notices DEF Working, noticeVars
<1>4. CASE FindRequesters(c)
  <2> DEFINE asked == Requesters(call[c].item)
             round == [stage |-> "sending", item |-> call[c].item, asked |-> asked,
                       reachable |-> {s \in asked : chat[s] # None},
                       sent |-> {}, refused |-> {}]
  <2>1. call[c].item \in Item /\ asked \subseteq Student
    BY <1>0, <1>4, Shapes DEF FindRequesters, At, Requesters
  <2>2. round \in Calls /\ round.stage \notin Working
    <3> HIDE DEF asked
    <3>1. round \in NoticeCall
      BY <2>1 DEF NoticeCall
    <3> QED BY <3>1 DEF Calls, Working
  <2>3. Goes(c, Done) \/ Goes(c, round)
    BY <1>4 DEF FindRequesters
  <2>4. UNCHANGED <<catalogVars, noticeVars>>
    BY <1>4 DEF FindRequesters
  <2> HIDE DEF round
  <2> QED BY <1>0, <2>2, <2>3, <2>4, Notices DEF noticeVars
<1>5. CASE SendRestocked(c)
  <2> DEFINE me == call[c]
  <2>1. me \in [stage : {"sending"}, item : Item, asked : SUBSET Student,
                reachable : SUBSET Student, sent : SUBSET Student, refused : SUBSET Student]
    BY <1>0, <1>5 DEF SendRestocked, At, Calls, Idle, Done, CatalogCall, NoticeCall
  <2>2. PICK s \in me.reachable :
            \/ Goes(c, [me EXCEPT !.sent = @ \cup {s}])
            \/ Goes(c, [me EXCEPT !.refused = @ \cup {s}])
    BY <1>5 DEF SendRestocked
  <2>3. /\ [me EXCEPT !.sent = @ \cup {s}] \in NoticeCall
        /\ [me EXCEPT !.refused = @ \cup {s}] \in NoticeCall
        /\ [me EXCEPT !.sent = @ \cup {s}].stage = "sending"
        /\ [me EXCEPT !.refused = @ \cup {s}].stage = "sending"
    <3> HIDE DEF me
    <3> QED BY <2>1, <2>2 DEF NoticeCall
  <2>4. UNCHANGED <<catalogVars, noticeVars>>
    BY <1>5 DEF SendRestocked
  <2>5. /\ [me EXCEPT !.sent = @ \cup {s}] \in Calls
        /\ [me EXCEPT !.refused = @ \cup {s}] \in Calls
    BY <2>3 DEF Calls
  <2> QED BY <1>0, <2>2, <2>3, <2>4, <2>5, Notices DEF noticeVars, Working
<1>6. CASE ClearStockRequests(c)
  <2>1. OneCall(c) /\ call'[c] = Done
    BY <1>6, Ends DEF ClearStockRequests
  <2>2. waiting' \subseteq Waiting
    BY <1>0, <1>6 DEF ClearStockRequests
  <2>3. \A w \in waiting \ waiting' : Answered(c, w)
    BY <1>6 DEF ClearStockRequests, Answered
  <2> QED BY <1>0, <1>6, <2>1, <2>2, <2>3 DEF ClearStockRequests, NoticeStep
<1> QED
  BY <1>1, <1>2, <1>3, <1>4, <1>5, <1>6 DEF StockRequestRoutes, Notify

LEMMA TelegramSteps ==
    ASSUME MenuInv, NEW c \in Caller, TelegramRoutes(c)
    PROVE  NoticeStep(c)
<1>0. /\ call[c] \in Calls /\ call \in [Caller -> Calls] /\ Done \in Calls
      /\ Done.stage \notin Working
      /\ waiting \subseteq Waiting /\ code \subseteq Student
  BY DEF MenuInv, MenuTypes, Calls, Done, Working
<1>1. \A s \in Student, h \in Chat :
        /\ [stage |-> "drawCode", student |-> s] \in Calls
        /\ [stage |-> "unlink", student |-> s] \in Calls
        /\ [stage |-> "found", student |-> s, chat |-> h] \in Calls
        /\ [stage |-> "link", student |-> s, chat |-> h] \in Calls
  BY DEF Calls, NoticeCall
<1>2. CASE StartTelegramLink(c) \/ UnlinkTelegram(c)
  <2>1. PICK s \in Student : \/ Goes(c, [stage |-> "drawCode", student |-> s])
                             \/ Goes(c, [stage |-> "unlink", student |-> s])
    BY <1>2 DEF StartTelegramLink, UnlinkTelegram, Begins
  <2>2. UNCHANGED <<catalogVars, noticeVars>>
    BY <1>2 DEF StartTelegramLink, UnlinkTelegram
  <2>3. /\ [stage |-> "drawCode", student |-> s] \in Calls
        /\ [stage |-> "unlink", student |-> s] \in Calls
    BY DEF Calls, NoticeCall
  <2> QED BY <1>0, <2>1, <2>2, <2>3, Notices DEF Working, noticeVars
<1>3. CASE StoreLinkCode(c)
  <2>1. call[c].student \in Student
    BY <1>0, <1>3, Shapes DEF StoreLinkCode, At
  <2> QED BY <1>0, <1>3, <2>1, Notices DEF StoreLinkCode
<1>4. CASE Unlink(c)
  <2>1. call[c].student \in Student
    BY <1>0, <1>4, Shapes DEF Unlink, At
  <2> QED BY <1>0, <1>4, <2>1, Notices DEF Unlink
<1>5. CASE HandleTelegramUpdate(c)
  <2>1. PICK h \in Chat, s \in Student :
            Goes(c, [stage |-> "found", student |-> s, chat |-> h])
    BY <1>0, <1>5 DEF HandleTelegramUpdate, Begins
  <2>2. UNCHANGED <<catalogVars, noticeVars>>
    BY <1>5 DEF HandleTelegramUpdate
  <2> QED BY <1>0, <1>1, <2>1, <2>2, Notices DEF Working, noticeVars
<1>6. CASE CheckChat(c)
  <2> DEFINE me == call[c]
  <2>1. me \in [stage : {"found", "link"}, student : Student, chat : Chat]
    BY <1>0, <1>6 DEF CheckChat, At, Calls, Idle, Done, CatalogCall, NoticeCall
  <2>2. [me EXCEPT !.stage = "link"] \in Calls /\ [me EXCEPT !.stage = "link"].stage = "link"
    <3> HIDE DEF me
    <3> QED BY <2>1 DEF Calls, NoticeCall
  <2>3. Goes(c, Done) \/ Goes(c, [me EXCEPT !.stage = "link"])
    BY <1>6 DEF CheckChat
  <2>4. UNCHANGED <<catalogVars, noticeVars>>
    BY <1>6 DEF CheckChat
  <2> QED BY <1>0, <2>2, <2>3, <2>4, Notices DEF Working, noticeVars
<1>7. CASE LinkChat(c)
  <2>1. call[c].student \in Student /\ call[c].chat \in Chat
    BY <1>0, <1>7, Shapes DEF LinkChat, At
  <2> QED BY <1>0, <1>7, <2>1, Notices DEF LinkChat
<1> QED
  BY <1>2, <1>3, <1>4, <1>5, <1>6, <1>7 DEF TelegramRoutes

-----------------------------------------------------------------------------
(* Such steps keep the invariant.                                           *)

\* The requests other than c are where they were.
LEMMA OthersWait ==
    ASSUME MenuInv, NEW c \in Caller, Goes(c, call'[c])
    PROVE  \A d \in Caller \ {c} : call'[d] = call[d]
BY DEF MenuInv, MenuTypes, Goes

LEMMA EditKeepsInv ==
    ASSUME MenuInv, NEW c \in Caller, EditStep(c)
    PROVE  MenuInv'
<1> USE DEF MenuInv
<1>1. MenuTypes'
  BY DEF MenuTypes, EditStep, OneCall, Goes, noticeVars
<1>2. HashMatchesBytes' /\ PicturesOfRows'
  BY DEF HashMatchesBytes, PicturesOfRows, EditStep, RowsKept
<1>3. \A d \in Caller \ {c} : Sound(d)'
  <2> SUFFICES ASSUME NEW d \in Caller \ {c} PROVE Sound(d)'
    OBVIOUS
  <2>1. call'[d] = call[d] /\ Sound(d) /\ call[d] \in Calls
    BY OthersWait DEF EditStep, OneCall, MenuTypes
  <2>2. call[d].stage \in Working => call[d].item \in Item
    BY <2>1, Shapes
  <2> QED BY <2>1, <2>2 DEF Sound, EditStep, RowsKept
<1>4. Sound(c)'
  <2>1. call'[c] \in Calls
    BY DEF EditStep, OneCall
  <2>2. call'[c].stage \in Working => call'[c].item \in Item
    BY <2>1, Shapes
  <2> QED BY <2>2 DEF Sound, EditStep, RowsKept, Holding
<1>5. OneStudentPerChat'
  BY DEF OneStudentPerChat, EditStep, noticeVars
<1> QED BY <1>1, <1>2, <1>3, <1>4, <1>5

LEMMA LockKeepsInv ==
    ASSUME MenuInv, NEW c \in Caller, LockStep(c)
    PROVE  MenuInv'
<1> USE DEF MenuInv
<1>1. MenuTypes'
  BY DEF MenuTypes, LockStep, OneCall, Goes, noticeVars
<1>2. HashMatchesBytes' /\ PicturesOfRows' /\ OneStudentPerChat'
  BY DEF HashMatchesBytes, PicturesOfRows, OneStudentPerChat, LockStep, noticeVars
<1>3. \A d \in Caller \ {c} : Sound(d)'
  <2> SUFFICES ASSUME NEW d \in Caller \ {c} PROVE Sound(d)'
    OBVIOUS
  <2>1. call'[d] = call[d] /\ Sound(d) /\ call[d] \in Calls
    BY OthersWait DEF LockStep, OneCall, MenuTypes
  <2>2. call[d].stage \in Working => call[d].item \in Item
    BY <2>1, Shapes
  <2>3. d # None
    BY CatalogAssumption
  <2> QED BY <2>1, <2>2, <2>3 DEF Sound, LockStep, MenuTypes, Holding, Working
<1>4. Sound(c)'
  BY DEF Sound, LockStep, MenuTypes, Holding, Working
<1> QED BY <1>1, <1>2, <1>3, <1>4

LEMMA HeldKeepsInv ==
    ASSUME MenuInv, NEW c \in Caller, HeldStep(c)
    PROVE  MenuInv'
<1> USE DEF MenuInv
<1>1. MenuTypes'
  BY DEF MenuTypes, HeldStep, OneCall, Goes, noticeVars, catalogVars
<1>2. HashMatchesBytes' /\ PicturesOfRows' /\ OneStudentPerChat'
  BY DEF HashMatchesBytes, PicturesOfRows, OneStudentPerChat, HeldStep, noticeVars, catalogVars
<1>3. \A d \in Caller \ {c} : Sound(d)'
  BY OthersWait DEF Sound, HeldStep, OneCall, catalogVars
<1>4. Sound(c)'
  BY DEF Sound, HeldStep, Holding, Working, catalogVars
<1> QED BY <1>1, <1>2, <1>3, <1>4

LEMMA CommitKeepsInv ==
    ASSUME MenuInv, NEW c \in Caller, CommitStep(c)
    PROVE  MenuInv'
<1> USE DEF MenuInv
<1> DEFINE i == call[c].item
<1>1. PICK bytes \in Picture \cup {None} : Commit(c, bytes, bytes)
  BY DEF CommitStep
<1>2. /\ i \in Item /\ lock[i] = c /\ item[i].state # "none"
      /\ Goes(c, Done) /\ UNCHANGED <<category, noticeVars>>
      /\ image' = [image EXCEPT ![i] = bytes]
      /\ item' = [item EXCEPT ![i].hash = bytes]
      /\ lock' = [lock EXCEPT ![i] = None]
  BY <1>1 DEF CommitStep, Commit, Sound, Working, Holding
<1>3. \A j \in Item : /\ item'[j] \in ItemRow /\ item'[j].state = item[j].state
                      /\ item'[j].hash = IF j = i THEN bytes ELSE item[j].hash
  BY <1>2 DEF MenuTypes, ItemRow
<1>4. OneCall(c) /\ call'[c] = Done
  BY <1>2, Ends
<1>5. MenuTypes'
  BY <1>2, <1>3, <1>4 DEF MenuTypes, OneCall, Goes, noticeVars
<1>6. HashMatchesBytes' /\ PicturesOfRows' /\ OneStudentPerChat'
  BY <1>2, <1>3 DEF HashMatchesBytes, PicturesOfRows, OneStudentPerChat, MenuTypes, noticeVars
<1>7. \A d \in Caller \ {c} : Sound(d)'
  <2> SUFFICES ASSUME NEW d \in Caller \ {c} PROVE Sound(d)'
    OBVIOUS
  <2>1. call'[d] = call[d] /\ Sound(d) /\ call[d] \in Calls
    BY <1>2, OthersWait, <1>4 DEF OneCall, MenuTypes
  <2>2. call[d].stage \in Working => call[d].item \in Item
    BY <2>1, Shapes
  <2>3. call[d].stage \in Holding => call[d].item # i
    BY <1>2, <2>1 DEF Sound
  <2> QED BY <1>2, <1>3, <2>1, <2>2, <2>3 DEF Sound, MenuTypes, Working, Holding
<1>8. Sound(c)'
  BY <1>4 DEF Sound, Done, Working, Holding
<1> QED BY <1>5, <1>6, <1>7, <1>8

LEMMA NoticeKeepsInv ==
    ASSUME MenuInv, NEW c \in Caller, NoticeStep(c)
    PROVE  MenuInv'
<1> USE DEF MenuInv
<1>1. MenuTypes'
  BY DEF MenuTypes, NoticeStep, OneCall, Goes, catalogVars
<1>2. HashMatchesBytes' /\ PicturesOfRows'
  BY DEF HashMatchesBytes, PicturesOfRows, NoticeStep, catalogVars
<1>3. \A d \in Caller \ {c} : Sound(d)'
  BY OthersWait DEF Sound, NoticeStep, OneCall, catalogVars
<1>4. Sound(c)'
  BY DEF Sound, NoticeStep, Working, Holding
<1>5. OneStudentPerChat'
  BY DEF OneStudentPerChat, NoticeStep, ChatTaken, MenuTypes
<1> QED BY <1>1, <1>2, <1>3, <1>4, <1>5

-----------------------------------------------------------------------------
(* The theorems.                                                            *)

\* One step of one request, or a code that expires.
LEMMA NextSteps ==
    ASSUME MenuInv, Next
    PROVE  \/ \E c \in Caller : \/ EditStep(c) \/ LockStep(c) \/ HeldStep(c)
                                \/ CommitStep(c) \/ NoticeStep(c)
           \/ LinkExpires
<1>1. ToMenu \subseteq Caller /\ ToNotices \subseteq Caller
  BY StockRequestsAssumption
<1>2. ASSUME NEW c \in ToMenu, CatalogNext(c), UNCHANGED noticeVars
      PROVE  EditStep(c) \/ LockStep(c) \/ HeldStep(c) \/ CommitStep(c)
  BY <1>1, <1>2, EditMenuSteps, EditImageSteps DEF CatalogNext
<1>3. ASSUME NEW c \in ToNotices, StockRequestRoutes(c) \/ TelegramRoutes(c)
      PROVE  NoticeStep(c)
  BY <1>1, <1>3, StockRequestSteps, TelegramSteps
<1> QED
  BY <1>1, <1>2, <1>3 DEF Next

LEMMA Initial == Init => MenuInv
<1> SUFFICES ASSUME Init PROVE MenuInv
  OBVIOUS
<1>1. PICK t \in FirstTables : CatalogInit(t) /\ waiting = t.waiting /\ chat = t.chat
  BY DEF Init
<1>2. call = [c \in Caller |-> Idle] /\ code \subseteq Student
  BY DEF Init
<1>3. MenuTypes
  BY <1>1, <1>2, CatalogAssumption, StockRequestsAssumption DEF MenuTypes, CatalogInit, Calls
<1>4. HashMatchesBytes /\ PicturesOfRows /\ OneStudentPerChat
  BY <1>1, CatalogAssumption, StockRequestsAssumption
     DEF HashMatchesBytes, PicturesOfRows, OneStudentPerChat, CatalogInit
<1>5. \A c \in Caller : Sound(c)
  BY <1>2 DEF Sound, Idle, Working, Holding
<1> QED BY <1>3, <1>4, <1>5 DEF MenuInv

LEMMA Inductive == MenuInv /\ [Next]_vars => MenuInv'
<1> SUFFICES ASSUME MenuInv, [Next]_vars PROVE MenuInv'
  OBVIOUS
<1>1. CASE LinkExpires
  BY <1>1 DEF LinkExpires, MenuInv, MenuTypes, HashMatchesBytes, PicturesOfRows, Sound,
              OneStudentPerChat, catalogVars
<1>2. CASE UNCHANGED vars
  BY <1>2 DEF vars, MenuInv, MenuTypes, HashMatchesBytes, PicturesOfRows, Sound,
              OneStudentPerChat, catalogVars, noticeVars
<1>3. CASE Next /\ ~LinkExpires
  BY <1>3, NextSteps, EditKeepsInv, LockKeepsInv, HeldKeepsInv, CommitKeepsInv, NoticeKeepsInv
<1> QED BY <1>1, <1>2, <1>3

\* Every state of every behaviour satisfies the inductive invariant.
THEOREM MenuInvariant == Spec => []MenuInv
BY Initial, Inductive, PTL DEF Spec

\* The hash of an item's picture stands for bytes that are there, however
\* uploads and deletions of it interleave.
THEOREM HashesStandForBytes == Spec => []HashMatchesBytes
<1>1. MenuInv => HashMatchesBytes
  BY DEF MenuInv
<1> QED BY <1>1, MenuInvariant, PTL

\* A chat belongs to one student at most, however /start messages race.
THEOREM ChatsAreNotShared == Spec => []OneStudentPerChat
<1>1. MenuInv => OneStudentPerChat
  BY DEF MenuInv
<1> QED BY <1>1, MenuInvariant, PTL

\* The rows of the menu, of the requests for its items and of the linked chats
\* are of their types, and so is what a request has found out.
THEOREM MenuTypeCorrect == Spec => []MenuTypeOK
<1>1. MenuInv => MenuTypeOK
  <2>1. ASSUME NEW m \in CatalogCall
        PROVE  m.stage \in Working \cup {"archiveCategory", "bulk", "insertItem"}
    BY DEF CatalogCall, Working
  <2>2. ASSUME NEW m \in Calls, m.stage \in Working \cup {"archiveCategory", "bulk", "insertItem"}
        PROVE  m \in CatalogCall
    BY <2>2 DEF Calls, Idle, Done, NoticeCall, Working
  <2>3. MenuInv => CatalogTypeOK
    BY <2>1, <2>2 DEF MenuInv, MenuTypes, CatalogTypeOK
  <2>4. ASSUME NEW m \in NoticeCall
        PROVE  m.stage \in {"ask", "round", "sending", "drawCode", "unlink", "found", "link"}
    BY DEF NoticeCall
  <2>5. ASSUME NEW m \in Calls,
               m.stage \in {"ask", "round", "sending", "drawCode", "unlink", "found", "link"}
        PROVE  m \in NoticeCall
    BY <2>5 DEF Calls, Idle, Done, CatalogCall
  <2> QED BY <2>3, <2>4, <2>5 DEF MenuInv, MenuTypes, MenuTypeOK
<1> QED BY <1>1, MenuInvariant, PTL

\* Archiving a category leaves no item of it on the menu, unless a request
\* that looked the category or the item up before puts one there.
THEOREM ArchivesAreComplete == Spec => ArchiveLeavesNothingBehind
<1> DEFINE Complete ==
        \A i \in Stray' \ Stray :
          \E c \in Caller : /\ call[c].stage \in {"insertItem", "update"}
                            /\ call'[c] # call[c]
<1>1. MenuInv /\ [Next]_<<catalogVars, call>> => Complete
  <2> SUFFICES ASSUME MenuInv, [Next]_<<catalogVars, call>> PROVE Complete
    OBVIOUS
  <2>1. CASE UNCHANGED <<catalogVars, call>>
    BY <2>1 DEF catalogVars, Stray, OnMenu
  <2>2. CASE LinkExpires
    BY <2>2 DEF LinkExpires, catalogVars, Stray, OnMenu
  <2>3. ASSUME NEW c \in Caller, EditStep(c) PROVE Complete
    BY <2>3 DEF EditStep, Keeps
  <2>4. ASSUME NEW c \in Caller, LockStep(c) \/ HeldStep(c) \/ NoticeStep(c) PROVE Complete
    BY <2>4 DEF LockStep, HeldStep, NoticeStep, catalogVars, Stray, OnMenu
  <2>5. ASSUME NEW c \in Caller, CommitStep(c) PROVE Complete
    <3>1. \A i \in Item : item'[i].state = item[i].state /\ item'[i].category = item[i].category
      BY <2>5 DEF CommitStep, Commit, MenuInv, MenuTypes, ItemRow
    <3>2. category' = category
      BY <2>5 DEF CommitStep, Commit
    <3> QED BY <3>1, <3>2 DEF Stray, OnMenu
  <2> QED BY <2>1, <2>2, <2>3, <2>4, <2>5, NextSteps
<1>2. [Next]_vars => [Next]_<<catalogVars, call>>
  BY DEF vars
<1> QED
  BY <1>1, <1>2, MenuInvariant, PTL DEF Spec, ArchiveLeavesNothingBehind

\* A request for a sold-out item goes only with a round that has told, or
\* failed to tell, the student, cannot reach them, or did not know of them.
THEOREM RequestsAreAnswered == Spec => NobodyBehindIsDropped
<1> DEFINE AnsweredAll ==
        \A w \in waiting \ waiting' : \E c \in Caller : Answered(c, w) /\ call'[c] = Done
<1>1. MenuInv /\ [Next]_vars => AnsweredAll
  <2> SUFFICES ASSUME MenuInv, [Next]_vars PROVE AnsweredAll
    OBVIOUS
  <2>1. CASE UNCHANGED vars
    BY <2>1 DEF vars, noticeVars
  <2>2. CASE LinkExpires
    BY <2>2 DEF LinkExpires
  <2>3. ASSUME NEW c \in Caller, EditStep(c) \/ LockStep(c) \/ HeldStep(c) \/ CommitStep(c)
        PROVE  AnsweredAll
    BY <2>3 DEF EditStep, LockStep, HeldStep, CommitStep, noticeVars
  <2>4. ASSUME NEW c \in Caller, NoticeStep(c) PROVE AnsweredAll
    BY <2>4 DEF NoticeStep
  <2> QED BY <2>1, <2>2, <2>3, <2>4, NextSteps
<1> QED
  BY <1>1, MenuInvariant, PTL DEF Spec, NobodyBehindIsDropped
=============================================================================
