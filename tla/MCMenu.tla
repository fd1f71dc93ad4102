------------------------------- MODULE MCMenu -------------------------------
(* Small instances of StockRequests over Catalog: two schools, an admin each, *)
(* one listed category with one sold-out item that two students wait for.     *)
EXTENDS StockRequests, TLC

CONSTANTS klhSnacks, drkSnacks, klhAdmin, drkAdmin, snacks, lunch, tea, cake,
          asha, ravi, chatA, chatB, photo, photo2, a, b, c1

Boards == klhSnacks :> "KLH" @@ drkSnacks :> "DRK"

OwnBoards == klhAdmin :> {klhSnacks} @@ drkAdmin :> {drkSnacks}

HomeBoard == klhAdmin :> klhSnacks @@ drkAdmin :> drkSnacks

OneCategory == snacks :> [state |-> "listed", board |-> klhSnacks]
               @@ lunch :> [state |-> "none", board |-> drkSnacks]

Offered(picture) ==
    tea :> [state |-> "onMenu", category |-> snacks, school |-> "KLH",
            isAvailable |-> TRUE, stock |-> 0, hash |-> picture]
    @@ cake :> [state |-> "none", category |-> snacks, school |-> "KLH",
                isAvailable |-> TRUE, stock |-> 0, hash |-> None]

Table(picture, chats) ==
    [category |-> OneCategory,
     item |-> Offered(picture), image |-> tea :> picture @@ cake :> None,
     chat |-> chats, waiting |-> {[item |-> tea, student |-> s] : s \in Student}]

\* A picture and both chats, or neither.
Seeds == {Table(photo, asha :> chatA @@ ravi :> chatB),
          Table(None, asha :> None @@ ravi :> None)}
=============================================================================
