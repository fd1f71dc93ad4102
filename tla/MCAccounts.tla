----------------------------- MODULE MCAccounts -----------------------------
(* Small instances of Accounts: the superadmin, a student of the roster who  *)
(* has not yet replaced the shared password, and two free rows; a roll       *)
(* number in two spellings, another whose legacy form is a Google address.   *)
EXTENDS Accounts, TLC

CONSTANTS root, asha, new, new2, boss, low, up, roll2, address, ravi, own1, a, b, c

Superadmin == [NewStudent(boss, "KLH") EXCEPT !.role = "SUPERADMIN", !.secret = own1]

OneStudent ==
    root :> Superadmin @@ asha :> Imported(low, low, "shared")
        @@ [u \in Account \ {root, asha} |-> NoRow]

BothSessions == {[sub |-> root, iat |-> 0], [sub |-> asha, iat |-> 0]}

Lowered == [n \in Name |-> IF n = up THEN low ELSE n]

AtKlh == [n \in Name |-> IF n = roll2 THEN address ELSE None]

Created ==
    {[email |-> address, roll |-> None, role |-> "STUDENT", school |-> "DRK"],
     [email |-> address, roll |-> roll2, role |-> "ADMIN", school |-> "KLH"]}

Files == {{[email |-> address, roll |-> up], [email |-> roll2, roll |-> roll2]}}

Requests == Permutations(Caller) \cup Permutations({new, new2})

OneAddress == ravi :> address
=============================================================================
