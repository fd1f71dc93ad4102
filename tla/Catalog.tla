------------------------------ MODULE Catalog -------------------------------
(***************************************************************************)
(* The menu as kitchen admins edit it: categories and items, archived and  *)
(* never deleted, and the pictures of the items, kept with the hash of     *)
(* their bytes.                                                            *)
(***************************************************************************)
EXTENDS Integers, FiniteSets, Requests

CONSTANTS
    Category, Item, \* row ids
    Board,          \* a kitchen of a school
    SchoolOf,       \* [Board -> school]
    Admin,
    Covers,         \* [Admin -> SUBSET Board]: kitchen (or any) and school
    Home,           \* [Admin -> Board]: where an admin's new category goes
    Picture,        \* contents of an image, known by their hash
    FirstTables,    \* set of [category, item, image, ...]: what there is to begin with
    None

School == {SchoolOf[b] : b \in Board}

CategoryRow == [state : {"none", "listed", "archived"}, board : Board]

ItemRow == [state : {"none", "onMenu", "archived"}, category : Category,
            school : School,      \* the copy of its category's school
            isAvailable : BOOLEAN,
            stock : 0 .. 1,       \* sellable portions: none, or some
            hash : Picture \cup {None}]

ASSUME CatalogAssumption ==
    /\ None \notin Picture /\ None \notin Caller
    /\ Covers \in [Admin -> SUBSET Board]
    /\ Home \in [Admin -> Board] /\ \A a \in Admin : Home[a] \in Covers[a]
    /\ \A t \in FirstTables :
          /\ t.category \in [Category -> CategoryRow]
          /\ t.item \in [Item -> ItemRow]
          /\ t.image \in [Item -> Picture \cup {None}]
          /\ \A i \in Item : /\ t.item[i].hash = t.image[i]
                             /\ t.item[i].state = "none" => t.image[i] = None

VARIABLES
    category,  \* [Category -> CategoryRow]
    item,      \* [Item -> ItemRow]
    image,     \* [Item -> Picture or None]: MenuItemImage
    lock       \* [Item -> the transaction that holds its MenuItem row, or None]

catalogVars == <<category, item, image, lock>>

CatalogCall ==
    [stage : {"archiveCategory", "bulk", "insertItem"}, category : Category, board : Board]
    \cup [stage : {"update", "archiveItem", "put", "upsert", "clear", "drop"}, item : Item]
    \cup [stage : {"stamp"}, item : Item, bytes : Picture]
    \cup [stage : {"unstamp"}, item : Item, found : BOOLEAN]

CatalogTypeOK ==
    /\ category \in [Category -> CategoryRow]
    /\ item \in [Item -> ItemRow]
    /\ image \in [Item -> Picture \cup {None}]
    /\ lock \in [Item -> Caller \cup {None}]
    /\ \A c \in Caller :
          call[c].stage \in {m.stage : m \in CatalogCall} => call[c] \in CatalogCall

CatalogInit(t) ==
    /\ category = t.category
    /\ item = t.item
    /\ image = t.image
    /\ lock = [i \in Item |-> None]

Listed == {k \in Category : category[k].state = "listed"}
OnMenu == {i \in Item : item[i].state = "onMenu"}
Within(k) == {i \in OnMenu : item[i].category = k}
BoardOf(i) == category[item[i].category].board

\* An UPDATE of a MenuItem row waits for the transaction that has locked it.
UpdateMenuItems(ids, changed) ==
    /\ \A i \in ids : lock[i] = None
    /\ item' = [i \in Item |-> IF i \in ids THEN changed[i] ELSE item[i]]

(***************************************************************************)
(* Categories                                                              *)
(***************************************************************************)
CreateCategory(c) ==
    \E a \in Admin, k \in Category :
        /\ category[k].state = "none"
        /\ Begins(c, Done)
        /\ category' = [category EXCEPT ![k] = [state |-> "listed", board |-> Home[a]]]
        /\ UNCHANGED <<item, image, lock>>

\* findCategoryById and the checks of the admin's kitchen and school.
ReadCategory(c, stage) ==
    \E a \in Admin, k \in Listed :
        /\ category[k].board \in Covers[a]
        /\ Begins(c, [stage |-> stage, category |-> k, board |-> category[k].board])
        /\ UNCHANGED catalogVars

DeleteCategory(c) == ReadCategory(c, "archiveCategory")

\* Mutant: the category alone is archived.
ArchiveCategoryOnly(c) ==
    /\ At(c, "archiveCategory")
    /\ Goes(c, Done)
    /\ category' = [category EXCEPT ![call[c].category].state = "archived"]
    /\ UNCHANGED <<item, image, lock>>

\* One transaction; the second of two such requests finds nothing to archive.
ArchiveCategoryWithItems(c) ==
    LET k == call[c].category
        archived == [i \in Item |-> [item[i] EXCEPT !.state = "archived"]]
    IN  /\ At(c, "archiveCategory")
        /\ Goes(c, Done)
        /\ IF k \in Listed
           THEN /\ category' = [category EXCEPT ![k].state = "archived"]
                /\ UpdateMenuItems(Within(k), archived)
           ELSE UNCHANGED <<category, item>>
        /\ UNCHANGED <<image, lock>>

BulkUpdateCategoryItems(c) == ReadCategory(c, "bulk")

UpdateMenuItemsByCategory(c) ==
    \E available \in BOOLEAN, stock \in 0 .. 1 :
        LET changed == [i \in Item |->
                           [item[i] EXCEPT !.isAvailable = available, !.stock = stock]]
        IN  /\ At(c, "bulk")
            /\ Goes(c, Done)
            /\ UpdateMenuItems(Within(call[c].category), changed)
            /\ UNCHANGED <<category, image, lock>>

(***************************************************************************)
(* Items                                                                   *)
(***************************************************************************)
CreateMenuItem(c) == ReadCategory(c, "insertItem")

\* The school is copied from the category that was read.
InsertMenuItem(c) ==
    LET me == call[c]
    IN  \E i \in Item, stock \in 0 .. 1 :
           /\ At(c, "insertItem")
           /\ item[i].state = "none"
           /\ Goes(c, Done)
           /\ item' = [item EXCEPT ![i] =
                 [state |-> "onMenu", category |-> me.category, school |-> SchoolOf[me.board],
                  isAvailable |-> TRUE, stock |-> stock, hash |-> None]]
           /\ UNCHANGED <<category, image, lock>>

\* findMenuItemWithCategoryKitchen and the checks of kitchen and school.
ReadMenuItem(c, stage) ==
    \E a \in Admin, i \in OnMenu :
        /\ BoardOf(i) \in Covers[a]
        /\ Begins(c, [stage |-> stage, item |-> i])
        /\ UNCHANGED catalogVars

UpdateMenuItem(c) == ReadMenuItem(c, "update")

\* The row is changed whether or not it was archived meanwhile, and moved to
\* any category that exists.
UpdateMenuItemWrite(c) ==
    \E available \in BOOLEAN, stock \in 0 .. 1, k \in Category :
        LET changed == [i \in Item |-> [item[i] EXCEPT !.isAvailable = available,
                                                       !.stock = stock, !.category = k]]
        IN  /\ At(c, "update")
            /\ category[k].state # "none"
            /\ Goes(c, Done)
            /\ UpdateMenuItems({call[c].item}, changed)
            /\ UNCHANGED <<category, image, lock>>

DeleteMenuItem(c) == ReadMenuItem(c, "archiveItem")

ArchiveMenuItem(c) ==
    LET archived == [i \in Item |-> [item[i] EXCEPT !.state = "archived"]]
    IN  /\ At(c, "archiveItem")
        /\ Goes(c, Done)
        /\ UpdateMenuItems({call[c].item} \cap OnMenu, archived)
        /\ UNCHANGED <<category, image, lock>>

(***************************************************************************)
(* Pictures: a transaction locks the item's row, changes MenuItemImage and *)
(* then the hash; nobody sees either before it commits.                    *)
(***************************************************************************)
\* Mutant: the row is read without FOR UPDATE.
ReadMenuItemRow(c, from, next) ==
    /\ At(c, from)
    /\ Goes(c, [stage |-> next, item |-> call[c].item])
    /\ UNCHANGED catalogVars

LockMenuItem(c, from, next) ==
    LET i == call[c].item
    IN  /\ At(c, from)
        /\ lock[i] = None
        /\ lock' = [lock EXCEPT ![i] = c]
        /\ Goes(c, [stage |-> next, item |-> i])
        /\ UNCHANGED <<category, item, image>>

Commit(c, bytes, hash) ==
    LET i == call[c].item
    IN  /\ Goes(c, Done)
        /\ image' = [image EXCEPT ![i] = bytes]
        /\ item' = [item EXCEPT ![i].hash = hash]
        /\ lock' = [lock EXCEPT ![i] = None]
        /\ UNCHANGED <<category>>

\* The item is read, the bytes are hashed, and only then the row is locked.
UploadMenuItemImage(c) == ReadMenuItem(c, "put")

PutImage(c) == LockMenuItem(c, "put", "upsert")

UpsertImage(c) ==
    \E bytes \in Picture :
        /\ At(c, "upsert")
        /\ Goes(c, [stage |-> "stamp", item |-> call[c].item, bytes |-> bytes])
        /\ UNCHANGED catalogVars

StampHash(c) == At(c, "stamp") /\ Commit(c, call[c].bytes, call[c].bytes)

DeleteMenuItemImage(c) == ReadMenuItem(c, "clear")

DeleteImage(c) == LockMenuItem(c, "clear", "drop")

\* The DELETE matches the row of the last commit, or no row.
DropImage(c) ==
    LET i == call[c].item
    IN  /\ At(c, "drop")
        /\ Goes(c, [stage |-> "unstamp", item |-> i, found |-> image[i] # None])
        /\ UNCHANGED catalogVars

UnstampHash(c) ==
    LET me == call[c]
    IN  /\ At(c, "unstamp")
        /\ Commit(c, IF me.found THEN None ELSE image[me.item], None)

EditMenu(c) ==
    \/ CreateCategory(c) \/ DeleteCategory(c) \/ ArchiveCategoryWithItems(c)
    \/ BulkUpdateCategoryItems(c) \/ UpdateMenuItemsByCategory(c)
    \/ CreateMenuItem(c) \/ InsertMenuItem(c)
    \/ UpdateMenuItem(c) \/ UpdateMenuItemWrite(c)
    \/ DeleteMenuItem(c) \/ ArchiveMenuItem(c)

EditImage(c) ==
    \/ UploadMenuItemImage(c) \/ PutImage(c) \/ UpsertImage(c) \/ StampHash(c)
    \/ DeleteMenuItemImage(c) \/ DeleteImage(c) \/ DropImage(c) \/ UnstampHash(c)

CatalogNext(c) == EditMenu(c) \/ EditImage(c)

(***************************************************************************)
(* Properties                                                              *)
(***************************************************************************)

\* menuItemImageRepo.ts:4: a hash stands for bytes that are there, however
\* uploads and deletions of an item's picture interleave.
HashMatchesBytes == \A i \in Item : item[i].hash = image[i]

\* An archived category keeps no item on the menu, except one that a request
\* puts there which looked the category, or the item, up before.
Stray == {i \in OnMenu : category[item[i].category].state = "archived"}
ArchiveLeavesNothingBehind ==
    [][\A i \in Stray' \ Stray :
          \E c \in Caller : /\ call[c].stage \in {"insertItem", "update"}
                            /\ call'[c] # call[c]]_<<catalogVars, call>>
=============================================================================
