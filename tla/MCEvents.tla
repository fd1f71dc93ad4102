------------------------------ MODULE MCEvents ------------------------------
(* Small instances of EventsHub: a student on SSE who watches the menu, on a *)
(* shard that also carries a kitchen's board.                                *)
EXTENDS EventsHub, TLC

CONSTANTS stock1, stock2, placed, everyone, board, student

MenuAndBoard == stock1 :> everyone @@ stock2 :> everyone @@ placed :> board

OneStudent == student :> {everyone}

\* What Selections chooses is what filter returns.
ASSUME ChosenIsFilter ==
    \A n \in 0..4 : \A q \in [1..n -> 0..2], kept \in SUBSET (0..2) :
        LET Kept(x) == x \in kept IN
        Chosen(q, {i \in DOMAIN q : q[i] \in kept}) = SelectSeq(q, Kept)
=============================================================================
