--------------------------- MODULE AccountsProofs ---------------------------
(***************************************************************************)
(* Proofs about Accounts for any set of accounts, names, identities and    *)
(* requests: types, unique identities, kept history, revocation that       *)
(* sticks, and promotions that do not exceed what was confirmed.           *)
(***************************************************************************)
EXTENDS Accounts, FiniteSetTheorems, TLAPS

-----------------------------------------------------------------------------
(* The inductive invariant.                                                 *)

\* What a request has found out is of its type; a cutoff was computed by now;
\* the accounts a (de)activation is about are no more than were confirmed.
GoodCall(x) ==
    /\ x \in Call
    /\ x.stage \in {"change", "logout", "issue", "flip"} => x.cutoff <= clock + 1
    /\ x.stage \in {"promote", "flip"} => Cardinality(x.ids) <= x.confirmed

\* No two rows meet in a unique index.
ColumnsAreUnique == \A u, v \in Live : u # v => ~Clash(users[u], users[v])

CutoffsAreComputed == \A u \in Live : users[u].validFrom <= clock + 1

AccountsInv ==
    /\ AccountsTypeOK
    /\ \A c \in Caller : GoodCall(call[c])
    /\ CutoffsAreComputed
    /\ ColumnsAreUnique
    /\ HistoryKept

(* What a statement can do to the User table. *)

InsertsOne == \E u \in Account, row \in Row : row.validFrom = 0 /\ Insert(u, row)

InsertsMany == \E rolls \in SUBSET Name : InsertStudentsSkipDuplicates(rolls)

\* Request c writes the cutoff it has computed for the account.
Writes(c, u, cutoff) == Revokes(c, u) /\ cutoff = call[c].cutoff /\ call'[c] # call[c]

\* Only a revocation may set the cutoff back.
EditsOne(c) ==
    \E u \in Account, row \in Row :
        /\ UpdateFields(u, row)
        /\ row.validFrom <= clock + 1
        /\ row.validFrom >= users[u].validFrom \/ Writes(c, u, row.validFrom)

Switches(c) ==
    \E ids \in SUBSET Account, active \in BOOLEAN, cutoff \in Nat :
        /\ SetActiveByIds(ids, active, cutoff)
        /\ cutoff <= clock + 1
        /\ active \/ \A u \in ids : Writes(c, u, cutoff)

Deletes == \E u \in Account \ (ordered \cup audited) : users' = [users EXCEPT ![u] = Gone]

TableStep(c) ==
    users' = users \/ InsertsOne \/ InsertsMany \/ EditsOne(c) \/ Switches(c) \/ Deletes

\* What is left of a step of request c.
RestStep(c) ==
    /\ call' = [call EXCEPT ![c] = call'[c]]
    /\ GoodCall(call'[c])
    /\ tokens' \subseteq Token
    /\ ordered' \cup audited' \subseteq ordered \cup audited \cup Live
    /\ users' = users \/ UNCHANGED <<ordered, audited>>
    /\ clock' = clock

StepOK(c) == TableStep(c) /\ RestStep(c)

-----------------------------------------------------------------------------
(* Facts about rows and sets of accounts.                                   *)

LEMMA LiveRow ==
    ASSUME AccountsTypeOK
    PROVE  \A u \in Account : u \in Live <=> users[u] \in Row
BY AccountsAssumption DEF AccountsTypeOK, Live

LEMMA FiniteAccounts ==
    ASSUME NEW S \in SUBSET Account
    PROVE  IsFiniteSet(S) /\ Cardinality(S) \in Nat
BY AccountsAssumption, FS_Subset, FS_CardinalityType

LEMMA FewerAccounts ==
    ASSUME NEW S \in SUBSET Account, NEW T \in SUBSET S
    PROVE  Cardinality(T) <= Cardinality(S)
BY FiniteAccounts, FS_Subset

LEMMA NewRows ==
    ASSUME NEW n \in Name
    PROVE  /\ \A s \in School : NewStudent(n, s) \in Row /\ NewStudent(n, s).validFrom = 0
           /\ \A k \in Name, x \in Secret :
                 Imported(n, k, x) \in Row /\ Imported(n, k, x).validFrom = 0
<1>1. ASSUME NEW s \in School
      PROVE  NewStudent(n, s) \in Row /\ NewStudent(n, s).validFrom = 0
  BY DEF NewStudent, Row, Role, Secret
<1>2. ASSUME NEW k \in Name, NEW x \in Secret
      PROVE  Imported(n, k, x) \in Row /\ Imported(n, k, x).validFrom = 0
  <2>1. NewStudent(n, "KLH") \in Row /\ NewStudent(n, "KLH").validFrom = 0
    BY <1>1 DEF School
  <2> QED BY <2>1 DEF Imported, Row
<1> QED BY <1>1, <1>2

LEMMA RosterRows ==
    ASSUME NEW n \in Name
    PROVE  /\ OnRoster(n) \in Row /\ OnRoster(n).validFrom = 0
           /\ OnRoster(n).email = Username[n] /\ OnRoster(n).roll = n
           /\ OnRoster(n).google = None
<1>1. Username[n] \in Name /\ "shared" \in Secret
  BY AccountsAssumption DEF Secret
<1>2. OnRoster(n) \in Row /\ OnRoster(n).validFrom = 0
  BY <1>1, NewRows DEF OnRoster
<1> QED BY <1>2 DEF OnRoster, Imported, NewStudent

LEMMA SwitchedRow ==
    ASSUME NEW row \in Row, NEW n \in Nat
    PROVE  /\ [row EXCEPT !.active = TRUE] \in Row
           /\ [row EXCEPT !.active = FALSE, !.validFrom = n] \in Row
BY DEF Row

\* A stage that is entered with a record of its shape is good.
LEMMA Waiting ==
    /\ GoodCall(Idle) /\ GoodCall(Done)
    /\ \A a \in Account : GoodCall(Logs(a))
BY DEF GoodCall, Idle, Done, Logs, Call

\* An update that does not set the cutoff back.
LEMMA EditOfRow ==
    ASSUME NEW c, NEW u \in Account, NEW row \in Row, UpdateFields(u, row),
           row.validFrom <= clock + 1, row.validFrom >= users[u].validFrom
    PROVE  EditsOne(c)
BY DEF EditsOne

LEMMA CutoffIsNat == AccountsTypeOK => clock \in Nat /\ RevocationCutoff \in Nat
BY AccountsAssumption DEF AccountsTypeOK, RevocationCutoff

-----------------------------------------------------------------------------
(* Each statement is a good step.                                           *)

\* The requests of lib/jwt, middleware/auth and authService.
LEMMA AuthSteps ==
    ASSUME AccountsInv, NEW c \in Caller,
           RequireAuth(c) \/ LogAction(c) \/ PlaceOrder(c) \/ AuthRoutes(c)
    PROVE  StepOK(c)
<1> USE DEF AccountsInv, AccountsTypeOK, Goes, Begins, At
<1>0. call[c] \in Call /\ GoodCall(call[c])
  OBVIOUS
<1>1. CASE RequireAuth(c)
  <2>1. PICK t \in tokens :
            /\ Admitted(t)
            /\ Begins(c, [stage |-> "in", actor |-> t.sub, role |-> users[t.sub].role,
                          flagged |-> users[t.sub].mustChange])
    BY <1>1 DEF RequireAuth
  <2>2. t.sub \in Account /\ users[t.sub] \in Row
    BY <2>1, LiveRow DEF Admitted, Token
  <2>3. GoodCall([stage |-> "in", actor |-> t.sub, role |-> users[t.sub].role,
                  flagged |-> users[t.sub].mustChange])
    BY <2>2 DEF GoodCall, Call, Row
  <2> QED
    BY <1>1, <2>1, <2>3 DEF RequireAuth, StepOK, TableStep, RestStep
<1>2. CASE LogAction(c)
  BY <1>2, Waiting DEF LogAction, StepOK, TableStep, RestStep
<1>3. CASE PlaceOrder(c)
  BY <1>3, Waiting DEF PlaceOrder, StepOK, TableStep, RestStep
<1>4. CASE Login(c)
  <2>1. PICK u \in Live, school \in School :
            Begins(c, [stage |-> IF users[u].costly THEN "rehash" ELSE "admit",
                       u |-> u, row |-> users[u], school |-> school])
    <3>1. \A n \in Name : Answers(n) \subseteq Live
      BY DEF Answers, WithEmail, WithRoll
    <3> QED BY <1>4, <3>1 DEF Login
  <2>2. u \in Account /\ users[u] \in Row
    BY LiveRow DEF Live
  <2>3. GoodCall([stage |-> IF users[u].costly THEN "rehash" ELSE "admit",
                  u |-> u, row |-> users[u], school |-> school])
    BY <2>2 DEF GoodCall, Call
  <2> QED
    BY <1>4, <2>1, <2>3 DEF Login, StepOK, TableStep, RestStep
<1>5. CASE LoginRehash(c)
  <2> DEFINE me == call[c]
             row == [users[me.u] EXCEPT !.secret = me.row.secret, !.costly = FALSE]
  <2>1. me.u \in Account /\ me.row \in Row /\ me.stage = "rehash" /\ me.school \in School
    BY <1>5, <1>0 DEF LoginRehash, Call, Idle, Done
  <2>2. CASE me.u \in Live
    <3>1. users[me.u] \in Row
      BY <2>1, <2>2, LiveRow
    <3>2. row \in Row /\ row.validFrom = users[me.u].validFrom
      BY <3>1, <2>1 DEF Row
    <3>3. users[me.u].validFrom \in Nat /\ users[me.u].validFrom <= clock + 1
      BY <2>2, <3>1 DEF CutoffsAreComputed, Row
    <3>4. UpdateFields(me.u, row)
      BY <1>5, <2>2 DEF LoginRehash
    <3>5. EditsOne(c)
      <4> HIDE DEF row
      <4>1. row.validFrom <= clock + 1 /\ row.validFrom >= users[me.u].validFrom
        BY <2>1, <3>2, <3>3, <3>4
      <4> QED BY <2>1, <3>2, <3>3, <3>4, EditOfRow, <4>1
    <3>6. GoodCall([me EXCEPT !.stage = "admit"])
      <4>1. me \in [stage : {"rehash", "admit"}, u : Account, row : Row, school : School]
        BY <1>0, <2>1 DEF Call, Idle, Done
      <4> QED BY <4>1 DEF GoodCall, Call
    <3> QED
      BY <1>5, <2>2, <3>5, <3>6 DEF LoginRehash, StepOK, TableStep, RestStep
  <2>3. CASE me.u \notin Live
    BY <1>5, <2>3, Waiting DEF LoginRehash, StepOK, TableStep, RestStep
  <2> QED BY <2>2, <2>3
<1>6. CASE LoginAdmit(c)
  <2>1. call[c].u \in Account /\ clock \in Nat
    BY <1>6, <1>0, AccountsAssumption DEF LoginAdmit, Call, Idle, Done
  <2> QED
    BY <1>6, <2>1, Waiting DEF LoginAdmit, SignToken, Token, StepOK, TableStep, RestStep
<1>7. CASE ChangePassword(c)
  <2> DEFINE u == call[c].actor
  <2>1. u \in Account /\ clock \in Nat
    BY <1>7, <1>0, AccountsAssumption DEF ChangePassword, Call, Idle, Done
  <2>2. PICK new \in Own : Goes(c, [stage |-> "change", u |-> u, secret |-> new,
                                    cutoff |-> RevocationCutoff])
    BY <1>7 DEF ChangePassword
  <2>3. GoodCall([stage |-> "change", u |-> u, secret |-> new, cutoff |-> RevocationCutoff])
    BY <2>1 DEF GoodCall, Call, RevocationCutoff
  <2> QED
    BY <1>7, <2>2, <2>3 DEF ChangePassword, StepOK, TableStep, RestStep
<1>8. CASE ChangePasswordWrite(c)
  <2> DEFINE me == call[c]
             row == [users[me.u] EXCEPT !.secret = me.secret, !.costly = FALSE,
                                        !.mustChange = FALSE, !.validFrom = me.cutoff]
  <2>1. /\ me.u \in Account /\ me.secret \in Own /\ me.cutoff \in Nat
        /\ me.cutoff <= clock + 1 /\ me.stage = "change"
    BY <1>8, <1>0 DEF ChangePasswordWrite, GoodCall, Call, Idle, Done
  <2>2. CASE me.u \in Live
    <3>1. users[me.u] \in Row
      BY <2>1, <2>2, LiveRow
    <3>2. row \in Row /\ row.validFrom = me.cutoff
      BY <3>1, <2>1 DEF Row, Secret
    <3>3. call'[c] = Logs(me.u) /\ call'[c] # call[c]
      BY <1>8, <2>1, <2>2 DEF ChangePasswordWrite, Logs
    <3>4. EditsOne(c)
      BY <1>8, <2>1, <2>2, <3>2, <3>3 DEF ChangePasswordWrite, EditsOne, Writes, Revokes
    <3> QED
      BY <1>8, <2>1, <2>2, <3>4, Waiting
         DEF ChangePasswordWrite, SignToken, Token, StepOK, TableStep, RestStep
  <2>3. CASE me.u \notin Live
    BY <1>8, <2>3, Waiting DEF ChangePasswordWrite, StepOK, TableStep, RestStep
  <2> QED BY <2>2, <2>3
<1>9. CASE LogoutEverywhere(c)
  <2> DEFINE u == call[c].actor
  <2>1. u \in Account /\ clock \in Nat
    BY <1>9, <1>0, AccountsAssumption DEF LogoutEverywhere, Call, Idle, Done
  <2>2. GoodCall([stage |-> "logout", u |-> u, cutoff |-> RevocationCutoff])
    BY <2>1 DEF GoodCall, Call, RevocationCutoff
  <2> QED
    BY <1>9, <2>2 DEF LogoutEverywhere, StepOK, TableStep, RestStep
<1>12. CASE LogoutWrite(c)
  <2> DEFINE me == call[c]
             row == [users[me.u] EXCEPT !.validFrom = me.cutoff]
  <2>1. /\ me.u \in Account /\ me.cutoff \in Nat /\ me.cutoff <= clock + 1
        /\ me.stage = "logout"
    BY <1>12, <1>0 DEF LogoutWrite, GoodCall, Call, Idle, Done
  <2>2. CASE me.u \in Live
    <3>1. users[me.u] \in Row
      BY <2>1, <2>2, LiveRow
    <3>2. row \in Row /\ row.validFrom = me.cutoff
      BY <3>1, <2>1 DEF Row
    <3>3. call'[c] = Logs(me.u) /\ call'[c] # call[c]
      BY <1>12, <2>1, <2>2 DEF LogoutWrite, Logs
    <3>4. EditsOne(c)
      BY <1>12, <2>1, <2>2, <3>2, <3>3 DEF LogoutWrite, EditsOne, Writes, Revokes
    <3> QED
      BY <1>12, <2>1, <2>2, <3>4, Waiting DEF LogoutWrite, StepOK, TableStep, RestStep
  <2>3. CASE me.u \notin Live
    BY <1>12, <2>3, Waiting DEF LogoutWrite, StepOK, TableStep, RestStep
  <2> QED BY <2>2, <2>3
<1>10. CASE AdminReset(c)
  <2>1. call[c].actor \in Account
    BY <1>10, <1>0 DEF AdminReset, Serves, Call, Idle, Done
  <2>2. PICK u \in Live : Goes(c, [stage |-> "reset", u |-> u, actor |-> call[c].actor])
    BY <1>10 DEF AdminReset
  <2>3. GoodCall([stage |-> "reset", u |-> u, actor |-> call[c].actor])
    BY <2>1 DEF GoodCall, Call, Live
  <2> QED
    BY <1>10, <2>2, <2>3 DEF AdminReset, StepOK, TableStep, RestStep
<1>13. CASE AdminResetHash(c)
  <2> DEFINE me == call[c]
  <2>1. me.u \in Account /\ me.actor \in Account /\ clock \in Nat
    BY <1>13, <1>0, AccountsAssumption DEF AdminResetHash, Call, Idle, Done
  <2>2. GoodCall([stage |-> "issue", u |-> me.u, actor |-> me.actor,
                  cutoff |-> RevocationCutoff])
    BY <2>1 DEF GoodCall, Call, RevocationCutoff
  <2> QED
    BY <1>13, <2>2 DEF AdminResetHash, StepOK, TableStep, RestStep
<1>11. CASE AdminResetWrite(c)
  <2> DEFINE me == call[c]
             row == [users[me.u] EXCEPT !.secret = "issued", !.costly = FALSE,
                                     !.mustChange = TRUE, !.validFrom = me.cutoff]
  <2>1. /\ me.u \in Account /\ me.actor \in Account /\ me.cutoff \in Nat
        /\ me.cutoff <= clock + 1 /\ me.stage = "issue"
    BY <1>11, <1>0 DEF AdminResetWrite, GoodCall, Call, Idle, Done
  <2>2. CASE me.u \in Live
    <3>1. users[me.u] \in Row
      BY <2>1, <2>2, LiveRow
    <3>2. row \in Row /\ row.validFrom = me.cutoff
      BY <3>1, <2>1 DEF Row, Secret
    <3>3. call'[c] = Logs(me.actor) /\ call'[c] # call[c]
      BY <1>11, <2>1, <2>2 DEF AdminResetWrite, Logs
    <3>4. EditsOne(c)
      BY <1>11, <2>1, <2>2, <3>2, <3>3 DEF AdminResetWrite, EditsOne, Writes, Revokes
    <3> QED
      BY <1>11, <2>1, <2>2, <3>4, Waiting DEF AdminResetWrite, StepOK, TableStep, RestStep
  <2>3. CASE me.u \notin Live
    BY <1>11, <2>3, Waiting DEF AdminResetWrite, StepOK, TableStep, RestStep
  <2> QED BY <2>2, <2>3
<1> QED
  BY <1>1, <1>2, <1>3, <1>4, <1>5, <1>6, <1>7, <1>8, <1>9, <1>10, <1>11, <1>12, <1>13
     DEF AuthRoutes, SignIn

\* The requests of userAdminService and cohortService.
LEMMA AdminSteps ==
    ASSUME AccountsInv, NEW c \in Caller, SuperadminUsers(c) \/ SuperadminCohorts(c)
    PROVE  StepOK(c)
<1> USE DEF AccountsInv, AccountsTypeOK, Goes, Begins, At
<1>0. call[c] \in Call /\ GoodCall(call[c])
  OBVIOUS
<1>1. CASE CreateUser(c)
  <2>1. call[c].actor \in Account
    BY <1>1, <1>0 DEF CreateUser, Serves, Call, Idle, Done
  <2>2. PICK u \in Account, body \in Bodies :
            Insert(u, [NewStudent(body.email, body.school) EXCEPT
                          !.roll = body.roll, !.role = body.role, !.secret = "issued"])
    BY <1>1 DEF CreateUser
  <2> DEFINE row == [NewStudent(body.email, body.school) EXCEPT
                        !.roll = body.roll, !.role = body.role, !.secret = "issued"]
  <2>3. /\ body.email \in Name /\ body.school \in School /\ body.role \in Role
        /\ body.roll \in Name \cup {None}
    BY AccountsAssumption
  <2>6. /\ NewStudent(body.email, body.school) \in Row
        /\ NewStudent(body.email, body.school).validFrom = 0
    BY <2>3, NewRows
  <2>4. row \in Row /\ row.validFrom = 0
    BY <2>3, <2>6 DEF Row, Secret
  <2>5. InsertsOne
    BY <2>2, <2>4 DEF InsertsOne
  <2> QED
    BY <1>1, <2>1, <2>5, Waiting DEF CreateUser, StepOK, TableStep, RestStep
<1>2. CASE UpdateUser(c)
  <2>1. call[c].actor \in Account
    BY <1>2, <1>0 DEF UpdateUser, Serves, Call, Idle, Done
  <2>2. PICK u \in Live, r \in Appointed, s \in School, password \in {"issued", None} :
            UpdateFields(u, [users[u] EXCEPT !.role = r, !.school = s,
                !.secret = IF password = None THEN @ ELSE password,
                !.costly = @ /\ password = None])
    BY <1>2 DEF UpdateUser
  <2> DEFINE row == [users[u] EXCEPT !.role = r, !.school = s,
                !.secret = IF password = None THEN @ ELSE password,
                !.costly = @ /\ password = None]
  <2>3. u \in Account /\ users[u] \in Row
    BY LiveRow DEF Live
  <2>4. row \in Row /\ row.validFrom = users[u].validFrom
    BY <2>3, AccountsAssumption DEF Row, Secret
  <2>5. users[u].validFrom \in Nat /\ users[u].validFrom <= clock + 1
    BY <2>3 DEF CutoffsAreComputed, Row
  <2>6. EditsOne(c)
    <3> HIDE DEF row
    <3>1. row.validFrom <= clock + 1 /\ row.validFrom >= users[u].validFrom
      BY <2>4, <2>5
    <3> QED BY <2>2, <2>3, <2>4, <3>1, EditOfRow DEF row
  <2> QED
    BY <1>2, <2>1, <2>6, Waiting DEF UpdateUser, StepOK, TableStep, RestStep
<1>3. CASE DeleteUser(c)
  <2>1. call[c].actor \in Account
    BY <1>3, <1>0 DEF DeleteUser, Serves, Call, Idle, Done
  <2>2. PICK u \in Account : Goes(c, [stage |-> "delete", u |-> u, actor |-> call[c].actor])
    BY <1>3 DEF DeleteUser
  <2>3. GoodCall([stage |-> "delete", u |-> u, actor |-> call[c].actor])
    BY <2>1 DEF GoodCall, Call
  <2> QED
    BY <1>3, <2>2, <2>3 DEF DeleteUser, StepOK, TableStep, RestStep
<1>4. CASE DeleteUserWrite(c)
  <2>1. call[c].actor \in Account /\ call[c].u \in Account
    BY <1>4, <1>0 DEF DeleteUserWrite, Call, Idle, Done
  <2> QED
    BY <1>4, <2>1, Waiting DEF DeleteUserWrite, Deletes, StepOK, TableStep, RestStep
<1>9. ASSUME NEW targets \in SUBSET Account, NEW actor \in Account, NEW active \in BOOLEAN,
             NEW confirmed \in Nat, Cardinality(targets) <= confirmed
      PROVE  GoodCall(Flip(targets, actor, active, confirmed))
  <2>1. clock \in Nat
    BY AccountsAssumption
  <2>2. CASE targets = {}
    BY <2>2, Waiting DEF Flip
  <2>3. CASE targets # {}
    BY <1>9, <2>1, <2>3 DEF Flip, GoodCall, Call, RevocationCutoff
  <2> QED BY <2>2, <2>3
<1>5. CASE SetUsersActive(c)
  <2>1. call[c].actor \in Account
    BY <1>5, <1>0 DEF SetUsersActive, Serves, Call, Idle, Done
  <2>2. PICK ids \in SUBSET Account, active \in BOOLEAN, force \in BOOLEAN :
            Goes(c, Flip(Targets(ids, active, call[c].actor, force), call[c].actor,
                         active, Cardinality(ids)))
    BY <1>5 DEF SetUsersActive
  <2> DEFINE targets == Targets(ids, active, call[c].actor, force)
  <2>3. targets \in SUBSET ids
    BY DEF Targets
  <2>4. Cardinality(targets) <= Cardinality(ids) /\ Cardinality(ids) \in Nat
    BY <2>3, FewerAccounts, FiniteAccounts
  <2>5. GoodCall(Flip(targets, call[c].actor, active, Cardinality(ids)))
    <3> HIDE DEF targets
    <3> QED BY <1>9, <2>1, <2>3, <2>4
  <2> QED
    BY <1>5, <2>2, <2>5 DEF SetUsersActive, StepOK, TableStep, RestStep
<1>6. CASE SetUsersActiveWrite(c)
  <2> DEFINE me == call[c]
  <2>1. /\ me.actor \in Account /\ me.ids \in SUBSET Account /\ me.stage = "flip"
        /\ me.active \in BOOLEAN /\ me.cutoff \in Nat /\ me.cutoff <= clock + 1
    BY <1>6, <1>0 DEF SetUsersActiveWrite, GoodCall, Call, Idle, Done
  <2>2. call'[c] = Logs(me.actor) /\ call'[c] # call[c]
    BY <1>6, <2>1 DEF SetUsersActiveWrite, Logs
  <2>3. me.active \/ \A u \in me.ids : Writes(c, u, me.cutoff)
    BY <2>1, <2>2 DEF Writes, Revokes
  <2>4. Switches(c)
    BY <1>6, <2>1, <2>3 DEF SetUsersActiveWrite, Switches
  <2> QED
    BY <1>6, <2>1, <2>4, Waiting DEF SetUsersActiveWrite, StepOK, TableStep, RestStep
<1>7. CASE PromoteCohort(c)
  <2>1. call[c].actor \in Account
    BY <1>7, <1>0 DEF PromoteCohort, Serves, Call, Idle, Done
  <2>2. WouldDeactivate \in SUBSET Account
    BY DEF WouldDeactivate, Cohort, Live
  <2>3. PICK confirmed \in 0 .. Cardinality(Account) :
            /\ Cardinality(WouldDeactivate) = confirmed
            /\ Goes(c, [stage |-> "promote", actor |-> call[c].actor,
                        ids |-> WouldDeactivate, confirmed |-> confirmed])
    BY <1>7 DEF PromoteCohort
  <2>4. Cardinality(WouldDeactivate) \in Nat
    BY <2>2, FiniteAccounts
  <2>5. GoodCall([stage |-> "promote", actor |-> call[c].actor,
                  ids |-> WouldDeactivate, confirmed |-> confirmed])
    BY <2>1, <2>2, <2>3, <2>4 DEF GoodCall, Call
  <2> QED
    BY <1>7, <2>3, <2>5 DEF PromoteCohort, StepOK, TableStep, RestStep
<1>8. CASE PromoteCohortRead(c)
  <2> DEFINE me == call[c]
             targets == Targets(me.ids, FALSE, me.actor, FALSE)
  <2>1. /\ me.actor \in Account /\ me.ids \in SUBSET Account /\ me.confirmed \in Nat
        /\ Cardinality(me.ids) <= me.confirmed
    BY <1>8, <1>0 DEF PromoteCohortRead, GoodCall, Call, Idle, Done
  <2>2. targets \in SUBSET me.ids
    BY DEF Targets
  <2>3. Cardinality(targets) <= me.confirmed
    <3>1. /\ Cardinality(targets) <= Cardinality(me.ids)
          /\ Cardinality(targets) \in Nat /\ Cardinality(me.ids) \in Nat
      BY <2>1, <2>2, FewerAccounts, FiniteAccounts
    <3> HIDE DEF targets, me
    <3> QED BY <2>1, <3>1
  <2>4. GoodCall(Flip(targets, me.actor, FALSE, me.confirmed))
    <3> HIDE DEF targets
    <3> QED BY <1>9, <2>1, <2>2, <2>3
  <2> QED
    BY <1>8, <2>4, Waiting DEF PromoteCohortRead, StepOK, TableStep, RestStep
<1> QED
  BY <1>1, <1>2, <1>3, <1>4, <1>5, <1>6, <1>7, <1>8 DEF SuperadminUsers, SuperadminCohorts

\* The imports.
LEMMA ImportSteps ==
    ASSUME AccountsInv, NEW c \in Caller, StudentImports(c)
    PROVE  StepOK(c)
<1> USE DEF AccountsInv, AccountsTypeOK, Goes, Begins, At
<1>0. call[c] \in Call /\ GoodCall(call[c])
  OBVIOUS
<1>1. CASE ImportStudentRoster(c)
  <2>1. call[c].actor \in Account
    BY <1>1, <1>0 DEF ImportStudentRoster, Serves, Call, Idle, Done
  <2>2. PICK fresh \in SUBSET Name :
            Goes(c, IF fresh = {} THEN Logs(call[c].actor) ELSE
                    [stage |-> "roster", rolls |-> fresh, actor |-> call[c].actor])
    BY <1>1, AccountsAssumption DEF ImportStudentRoster
  <2>4. GoodCall([stage |-> "roster", rolls |-> fresh, actor |-> call[c].actor])
    BY <2>1 DEF GoodCall, Call
  <2> QED
    BY <1>1, <2>1, <2>2, <2>4, Waiting
       DEF ImportStudentRoster, StepOK, TableStep, RestStep
<1>2. CASE RosterInsert(c)
  <2>1. call[c].actor \in Account /\ call[c].rolls \in SUBSET Name
    BY <1>2, <1>0 DEF RosterInsert, Call, Idle, Done
  <2>2. CASE InsertStudentsSkipDuplicates(call[c].rolls) /\ Goes(c, Logs(call[c].actor))
    BY <1>2, <2>1, <2>2, Waiting DEF RosterInsert, InsertsMany, StepOK, TableStep, RestStep
  <2>3. CASE Goes(c, Done) /\ UNCHANGED users
    BY <1>2, <2>3, Waiting DEF RosterInsert, StepOK, TableStep, RestStep
  <2> QED BY <1>2, <2>2, <2>3 DEF RosterInsert
<1>4. CASE ImportStudents(c)
  <2>1. PICK fresh \in SUBSET CsvRow :
            Goes(c, IF fresh = {} THEN Done ELSE [stage |-> "csv", rows |-> fresh])
    BY <1>4, AccountsAssumption DEF ImportStudents
  <2>3. GoodCall([stage |-> "csv", rows |-> fresh])
    BY DEF GoodCall, Call
  <2> QED
    BY <1>4, <2>1, <2>3, Waiting DEF ImportStudents, StepOK, TableStep, RestStep
<1>3. CASE ImportRow(c)
  <2>1. call[c] \in [stage : {"csv"}, rows : SUBSET CsvRow]
    BY <1>3, <1>0 DEF ImportRow, Call, Idle, Done
  <2>2. PICK row \in call[c].rows :
          LET left == call[c].rows \ {row}
              student == Imported(row.email, row.roll, "issued")
          IN  \/ /\ \E u \in Account : Insert(u, student)
                 /\ Goes(c, IF left = {} THEN Done ELSE [call[c] EXCEPT !.rows = left])
              \/ /\ \E v \in Live : Clash(student, users[v])
                 /\ Goes(c, Done)
                 /\ UNCHANGED users
    BY <1>3 DEF ImportRow
  <2> DEFINE student == Imported(row.email, row.roll, "issued")
             left == call[c].rows \ {row}
             next == [call[c] EXCEPT !.rows = left]
  <2>3. row \in CsvRow /\ left \in SUBSET CsvRow
    BY <2>1
  <2>4. student \in Row /\ student.validFrom = 0
    BY <2>3, NewRows DEF CsvRow, Secret
  <2>5. GoodCall(next)
    <3>1. next \in [stage : {"csv"}, rows : SUBSET CsvRow] /\ next.stage = "csv"
      BY <2>1, <2>3
    <3> HIDE DEF next
    <3> QED BY <3>1 DEF GoodCall, Call
  <2>6. CASE \E u \in Account : Insert(u, student)
             /\ Goes(c, IF left = {} THEN Done ELSE next)
    <3>1. InsertsOne
      BY <2>4, <2>6 DEF InsertsOne
    <3> QED
      BY <1>3, <2>5, <2>6, <3>1, Waiting DEF ImportRow, StepOK, TableStep, RestStep
  <2>7. CASE Goes(c, Done) /\ UNCHANGED users
    BY <1>3, <2>7, Waiting DEF ImportRow, StepOK, TableStep, RestStep
  <2> QED BY <2>2, <2>6, <2>7
<1> QED
  BY <1>1, <1>2, <1>3, <1>4 DEF StudentImports

\* The requests of googleAuthService.
LEMMA GoogleSteps ==
    ASSUME AccountsInv, NEW c \in Caller, GoogleRoutes(c)
    PROVE  StepOK(c)
<1> USE DEF AccountsInv, AccountsTypeOK, Goes, Begins, At
<1>0. call[c] \in Call /\ GoodCall(call[c]) /\ clock \in Nat
  BY AccountsAssumption
<1>1. ASSUME NEW u \in Account, NEW row, NEW school, Welcome(c, u, row, school)
      PROVE  call' = [call EXCEPT ![c] = call'[c]] /\ GoodCall(call'[c]) /\ tokens' \subseteq Token
  BY <1>0, <1>1, Waiting DEF Welcome, SignToken, Token
<1>2. ASSUME NEW row \in Row, row.validFrom = 0, Enroll(c, row)
      PROVE  StepOK(c)
  <2>1. CASE \E u \in Account : Insert(u, row) /\ Welcome(c, u, row, row.school)
    <3>1. InsertsOne
      BY <1>2, <2>1 DEF InsertsOne
    <3> QED
      BY <1>1, <1>2, <2>1, <3>1 DEF Enroll, StepOK, TableStep, RestStep
  <2>2. CASE Goes(c, Done) /\ UNCHANGED <<users, tokens>>
    BY <1>2, <2>2, Waiting DEF Enroll, StepOK, TableStep, RestStep
  <2> QED
    BY <1>2, <2>1, <2>2 DEF Enroll
<1>3. CASE LoginWithGoogle(c)
  <2>1. PICK g \in Google :
            IF WithGoogle(g) = {}
            THEN Begins(c, [stage |-> "lookup", google |-> g]) /\ UNCHANGED tokens
            ELSE \E u \in WithGoogle(g) : Welcome(c, u, users[u], "DRK")
    BY <1>3 DEF LoginWithGoogle
  <2>2. GoodCall([stage |-> "lookup", google |-> g])
    BY DEF GoodCall, Call
  <2>3. WithGoogle(g) \subseteq Account
    BY DEF WithGoogle, Live
  <2> QED
    BY <1>1, <1>3, <2>1, <2>2, <2>3 DEF LoginWithGoogle, StepOK, TableStep, RestStep
<1>4. CASE GoogleLookup(c)
  <2> DEFINE g == call[c].google
             known == {u \in Answers(EmailOf[g]) : users[u].role = "STUDENT"}
  <2>1. g \in Google
    BY <1>4, <1>0 DEF GoogleLookup, Call, Idle, Done
  <2>2. CASE Goes(c, [stage |-> "enroll", google |-> g])
    <3>1. GoodCall([stage |-> "enroll", google |-> g])
      BY <2>1 DEF GoodCall, Call
    <3> QED
      BY <1>4, <2>2, <3>1 DEF GoogleLookup, StepOK, TableStep, RestStep
  <2>3. ASSUME NEW u \in known,
               Goes(c, IF users[u].school # "DRK" THEN Done
                       ELSE [stage |-> "link", u |-> u, google |-> g])
        PROVE  StepOK(c)
    <3>1. u \in Account
      BY DEF Answers, WithEmail, WithRoll, Live
    <3>2. GoodCall([stage |-> "link", u |-> u, google |-> g])
      BY <2>1, <3>1 DEF GoodCall, Call
    <3> QED
      BY <1>4, <2>3, <3>2, Waiting DEF GoogleLookup, StepOK, TableStep, RestStep
  <2> QED
    BY <1>4, <2>2, <2>3 DEF GoogleLookup
<1>5. CASE GoogleLink(c)
  <2> DEFINE me == call[c]
             row == [users[me.u] EXCEPT !.google = me.google]
  <2>1. me.u \in Account /\ me.google \in Google
    BY <1>5, <1>0 DEF GoogleLink, Call, Idle, Done
  <2>2. CASE me.u \in Live /\ UpdateFields(me.u, row) /\ Welcome(c, me.u, row, "DRK")
    <3>1. users[me.u] \in Row
      BY <2>1, <2>2, LiveRow
    <3>2. row \in Row /\ row.validFrom = users[me.u].validFrom
      BY <2>1, <3>1 DEF Row
    <3>3. users[me.u].validFrom \in Nat /\ users[me.u].validFrom <= clock + 1
      BY <2>2, <3>1 DEF CutoffsAreComputed, Row
    <3>4. EditsOne(c)
      <4> HIDE DEF row
      <4>1. row.validFrom <= clock + 1 /\ row.validFrom >= users[me.u].validFrom
        BY <3>2, <3>3
      <4> QED BY <2>1, <2>2, <3>2, <4>1, EditOfRow
    <3> QED
      BY <1>1, <1>5, <2>1, <2>2, <3>4 DEF GoogleLink, StepOK, TableStep, RestStep
  <2>3. CASE Goes(c, Done) /\ UNCHANGED <<users, tokens>>
    BY <1>5, <2>3, Waiting DEF GoogleLink, StepOK, TableStep, RestStep
  <2> QED
    BY <1>5, <2>2, <2>3 DEF GoogleLink
<1>6. CASE GoogleEnroll(c)
  <2> DEFINE g == call[c].google
             row == [NewStudent(EmailOf[g], "DRK") EXCEPT !.google = g]
  <2>1. g \in Google /\ EmailOf[g] \in Name
    BY <1>6, <1>0, AccountsAssumption DEF GoogleEnroll, Call, Idle, Done
  <2>2. NewStudent(EmailOf[g], "DRK") \in Row /\ NewStudent(EmailOf[g], "DRK").validFrom = 0
    BY <2>1, NewRows DEF School
  <2>3. row \in Row /\ row.validFrom = 0
    BY <2>1, <2>2 DEF Row
  <2> QED
    BY <1>2, <1>6, <2>3 DEF GoogleEnroll
<1>7. CASE StartGoogleKlhLogin(c)
  <2>1. \A g \in Google : WithGoogle(g) \subseteq Account
    BY DEF WithGoogle, Live
  <2> QED
    BY <1>1, <1>7, <2>1 DEF StartGoogleKlhLogin, StepOK, TableStep, RestStep
<1>8. CASE CompleteGoogleKlhLogin(c)
  <2>1. PICK g \in Google, n \in Usernames, own \in Own :
            Goes(c, [stage |-> "setup", google |-> g, name |-> n, secret |-> own])
    BY <1>8 DEF CompleteGoogleKlhLogin
  <2>2. GoodCall([stage |-> "setup", google |-> g, name |-> n, secret |-> own])
    BY AccountsAssumption DEF GoodCall, Call
  <2> QED
    BY <1>8, <2>1, <2>2 DEF CompleteGoogleKlhLogin, StepOK, TableStep, RestStep
<1>9. CASE GoogleKlhInsert(c)
  <2> DEFINE me == call[c]
             row == [NewStudent(me.name, "KLH") EXCEPT
                        !.google = me.google, !.secret = me.secret]
  <2>1. me.google \in Google /\ me.name \in Name /\ me.secret \in Own
    BY <1>9, <1>0 DEF GoogleKlhInsert, Call, Idle, Done
  <2>2. NewStudent(me.name, "KLH") \in Row /\ NewStudent(me.name, "KLH").validFrom = 0
    BY <2>1, NewRows DEF School
  <2>3. row \in Row /\ row.validFrom = 0
    BY <2>1, <2>2 DEF Row, Secret
  <2> QED
    BY <1>2, <1>9, <2>3 DEF GoogleKlhInsert
<1> QED
  BY <1>3, <1>4, <1>5, <1>6, <1>7, <1>8, <1>9 DEF GoogleRoutes

-----------------------------------------------------------------------------
(* What a good step keeps.                                                  *)

\* The rows of an import are new, and no two of them meet in a unique index.
LEMMA ImportedRows ==
    ASSUME AccountsTypeOK, NEW rolls \in SUBSET Name, InsertStudentsSkipDuplicates(rolls)
    PROVE  /\ users' \in [Account -> Row \cup {NoRow, Gone}]
           /\ \A u \in Account :
                \/ users'[u] = users[u]
                \/ /\ users[u] = NoRow
                   /\ \E n \in rolls : /\ users'[u] = OnRoster(n)
                                       /\ WithEmail(Username[n]) = {} /\ WithRoll(n) = {}
           /\ \A u, v \in Account :
                u # v /\ users'[u] # users[u] /\ users'[v] # users[v] =>
                    ~Clash(users'[u], users'[v])
<1> DEFINE wanted == {n \in rolls : WithEmail(Username[n]) = {}}
<1>0. PICK kept \in SUBSET wanted :
          \E place \in [kept -> {u \in Account : users[u] = NoRow}] :
            /\ \A n, m \in kept : n # m => Username[n] # Username[m] /\ place[n] # place[m]
            /\ \A n \in kept : WithRoll(n) = {}
            /\ users' = [u \in Account |->
                  IF \E n \in kept : place[n] = u
                  THEN OnRoster(CHOOSE n \in kept : place[n] = u) ELSE users[u]]
  BY DEF InsertStudentsSkipDuplicates
<1>1. PICK place \in [kept -> {u \in Account : users[u] = NoRow}] :
          /\ \A n, m \in kept : n # m => Username[n] # Username[m] /\ place[n] # place[m]
          /\ \A n \in kept : WithRoll(n) = {}
          /\ users' = [u \in Account |->
                IF \E n \in kept : place[n] = u
                THEN OnRoster(CHOOSE n \in kept : place[n] = u) ELSE users[u]]
  BY <1>0
<1>2. ASSUME NEW u \in Account
      PROVE  \/ users'[u] = users[u]
             \/ /\ users[u] = NoRow
                /\ \E n \in kept : place[n] = u /\ users'[u] = OnRoster(n)
  <2>1. CASE \E n \in kept : place[n] = u
    <3> DEFINE m == CHOOSE n \in kept : place[n] = u
    <3>1. m \in kept /\ place[m] = u
      BY <2>1
    <3>2. users'[u] = OnRoster(m)
      BY <1>1, <2>1
    <3> QED BY <1>1, <3>1, <3>2
  <2>2. CASE ~ \E n \in kept : place[n] = u
    BY <1>1, <2>2
  <2> QED BY <2>1, <2>2
<1>3. \A n \in kept : /\ n \in rolls /\ n \in Name
                      /\ WithEmail(Username[n]) = {} /\ WithRoll(n) = {}
  BY <1>1
<1>4. users' \in [Account -> Row \cup {NoRow, Gone}]
  <2>1. \A u \in Account : users'[u] \in Row \cup {NoRow, Gone}
    BY <1>2, <1>3, RosterRows DEF AccountsTypeOK
  <2> QED BY <1>1, <2>1
<1>5. ASSUME NEW u \in Account, NEW v \in Account, u # v,
             users'[u] # users[u], users'[v] # users[v]
      PROVE  ~Clash(users'[u], users'[v])
  <2>1. PICK n \in kept : place[n] = u /\ users'[u] = OnRoster(n)
    BY <1>2, <1>5
  <2>2. PICK m \in kept : place[m] = v /\ users'[v] = OnRoster(m)
    BY <1>2, <1>5
  <2>3. n # m /\ Username[n] # Username[m]
    BY <1>1, <1>5, <2>1, <2>2
  <2> QED BY <1>3, <2>1, <2>2, <2>3, RosterRows DEF Clash
<1> HIDE DEF wanted
<1>6. \A u \in Account :
        \/ users'[u] = users[u]
        \/ /\ users[u] = NoRow
           /\ \E n \in rolls : /\ users'[u] = OnRoster(n)
                               /\ WithEmail(Username[n]) = {} /\ WithRoll(n) = {}
  BY <1>2, <1>3
<1>7. \A u, v \in Account :
        u # v /\ users'[u] # users[u] /\ users'[v] # users[v] => ~Clash(users'[u], users'[v])
  BY <1>5
<1> QED
  BY ONLY <1>4, <1>6, <1>7

\* Rows are made of their types, and only a deletion takes one away.
LEMMA TableType ==
    ASSUME AccountsTypeOK, NEW c \in Caller, TableStep(c)
    PROVE  /\ users' \in [Account -> Row \cup {NoRow, Gone}]
           /\ Live \subseteq Live' \/ Deletes
<1>0. users \in [Account -> Row \cup {NoRow, Gone}] /\ clock \in Nat
  BY AccountsAssumption DEF AccountsTypeOK
<1>1. CASE users' = users
  BY <1>0, <1>1 DEF Live
<1>2. CASE InsertsOne
  BY <1>0, <1>2, AccountsAssumption DEF InsertsOne, Insert, Live
<1>3. CASE InsertsMany
  <2>1. PICK rolls \in SUBSET Name : InsertStudentsSkipDuplicates(rolls)
    BY <1>3 DEF InsertsMany
  <2>2. users' \in [Account -> Row \cup {NoRow, Gone}]
    BY <2>1, ImportedRows
  <2>3. \A u \in Account : users'[u] = users[u] \/ users[u] = NoRow
    BY <2>1, ImportedRows
  <2> QED
    BY <2>2, <2>3 DEF Live
<1>4. CASE EditsOne(c)
  BY <1>0, <1>4, AccountsAssumption DEF EditsOne, UpdateFields, Live
<1>5. CASE Switches(c)
  <2>1. PICK ids \in SUBSET Account, active \in BOOLEAN, cutoff \in Nat :
            SetActiveByIds(ids, active, cutoff)
    BY <1>5 DEF Switches
  <2>2. ASSUME NEW u \in Account
        PROVE  users'[u] = users[u] \/ (u \in Live /\ users'[u] \in Row)
    <3>1. u \in Live => users[u] \in Row
      BY LiveRow
    <3>2. users[u] \in Row => /\ [users[u] EXCEPT !.active = TRUE] \in Row
                             /\ [users[u] EXCEPT !.active = FALSE, !.validFrom = cutoff] \in Row
      BY SwitchedRow
    <3>3. CASE u \notin ids \cap Live
      BY <2>1, <3>3 DEF SetActiveByIds
    <3>4. CASE u \in ids \cap Live /\ active
      BY <2>1, <3>1, <3>2, <3>4 DEF SetActiveByIds
    <3>5. CASE u \in ids \cap Live /\ ~active
      BY <2>1, <3>1, <3>2, <3>5 DEF SetActiveByIds
    <3> QED
      BY <3>3, <3>4, <3>5
  <2>3. users' \in [Account -> Row \cup {NoRow, Gone}]
    BY <1>0, <2>1, <2>2 DEF SetActiveByIds
  <2> QED
    BY <2>2, <2>3, AccountsAssumption DEF Live
<1>6. CASE Deletes
  BY <1>0, <1>6 DEF Deletes
<1> QED
  BY <1>1, <1>2, <1>3, <1>4, <1>5, <1>6 DEF TableStep

\* No cutoff is later than what is computed now.
LEMMA CutoffsStay ==
    ASSUME AccountsInv, NEW c \in Caller, TableStep(c), clock' = clock
    PROVE  CutoffsAreComputed'
<1> SUFFICES ASSUME NEW u \in Account, users'[u] \notin {NoRow, Gone}
             PROVE  users'[u].validFrom <= clock + 1
  BY DEF CutoffsAreComputed, Live
<1>0. /\ AccountsTypeOK /\ clock \in Nat
      /\ users[u] \notin {NoRow, Gone} =>
            users[u].validFrom <= clock + 1 /\ users[u] \in Row
      /\ users \in [Account -> Row \cup {NoRow, Gone}]
  BY AccountsAssumption DEF AccountsInv, AccountsTypeOK, CutoffsAreComputed, Live
<1>1. CASE users' = users
  BY <1>0, <1>1
<1>2. CASE InsertsOne
  BY <1>0, <1>2 DEF InsertsOne, Insert
<1>3. CASE InsertsMany
  BY <1>0, <1>3, ImportedRows, RosterRows DEF InsertsMany
<1>4. CASE EditsOne(c)
  BY <1>0, <1>4 DEF EditsOne, UpdateFields
<1>5. CASE Switches(c)
  <2>1. PICK ids \in SUBSET Account, active \in BOOLEAN, cutoff \in Nat :
            SetActiveByIds(ids, active, cutoff) /\ cutoff <= clock + 1
    BY <1>5 DEF Switches
  <2>2. CASE u \notin ids \cap Live
    BY <1>0, <2>1, <2>2 DEF SetActiveByIds
  <2>3. CASE u \in ids \cap Live /\ active
    <3>1. users'[u] = [users[u] EXCEPT !.active = TRUE]
      BY <2>1, <2>3 DEF SetActiveByIds
    <3> QED BY <1>0, <2>3, <3>1 DEF Row, Live
  <2>4. CASE u \in ids \cap Live /\ ~active
    <3>1. users'[u] = [users[u] EXCEPT !.active = FALSE, !.validFrom = cutoff]
      BY <2>1, <2>4 DEF SetActiveByIds
    <3> QED BY <1>0, <2>1, <2>4, <3>1 DEF Row, Live
  <2> QED BY <2>2, <2>3, <2>4
<1>6. CASE Deletes
  BY <1>0, <1>6 DEF Deletes
<1> QED
  BY <1>1, <1>2, <1>3, <1>4, <1>5, <1>6 DEF TableStep

\* The unique indexes hold.
LEMMA ColumnsStay ==
    ASSUME AccountsInv, NEW c \in Caller, TableStep(c)
    PROVE  ColumnsAreUnique'
<1> SUFFICES ASSUME NEW u \in Account, NEW v \in Account, u # v,
                    users'[u] \notin {NoRow, Gone}, users'[v] \notin {NoRow, Gone}
             PROVE  ~Clash(users'[u], users'[v])
  BY DEF ColumnsAreUnique, Live
<1>0. /\ AccountsTypeOK
      /\ users \in [Account -> Row \cup {NoRow, Gone}]
      /\ (users[u] \notin {NoRow, Gone} /\ users[v] \notin {NoRow, Gone}) =>
            ~Clash(users[u], users[v])
  BY DEF AccountsInv, AccountsTypeOK, ColumnsAreUnique, Live
<1>1. CASE users' = users
  BY <1>0, <1>1
<1>2. CASE InsertsOne
  <2>1. PICK w \in Account, row \in Row : Insert(w, row)
    BY <1>2 DEF InsertsOne
  <2> QED
    BY <1>0, <2>1 DEF Insert, Free, Live, Clash
<1>3. CASE InsertsMany
  <2>1. PICK rolls \in SUBSET Name : InsertStudentsSkipDuplicates(rolls)
    BY <1>3 DEF InsertsMany
  <2>2. \A w \in Account :
          \/ users'[w] = users[w]
          \/ /\ users[w] = NoRow
             /\ \E n \in rolls : /\ users'[w] = OnRoster(n)
                                 /\ WithEmail(Username[n]) = {} /\ WithRoll(n) = {}
    BY <1>0, <2>1, ImportedRows
  <2>3. ASSUME NEW w \in Account, NEW x \in Account, users'[w] = users[w],
               users'[w] \notin {NoRow, Gone}, users'[x] # users[x]
        PROVE  ~Clash(users'[w], users'[x]) /\ ~Clash(users'[x], users'[w])
    <3>1. PICK n \in rolls : /\ users'[x] = OnRoster(n)
                             /\ WithEmail(Username[n]) = {} /\ WithRoll(n) = {}
      BY <2>2, <2>3
    <3>2. users[w].email # Username[n] /\ users[w].roll # n
      BY <2>3, <3>1 DEF WithEmail, WithRoll, Live
    <3>3. /\ users'[x].email = Username[n] /\ users'[x].roll = n
          /\ users'[x].google = None
      BY <3>1, RosterRows
    <3> QED BY <2>3, <3>2, <3>3 DEF Clash
  <2>4. CASE users'[u] = users[u] /\ users'[v] = users[v]
    BY <1>0, <2>4
  <2>5. CASE users'[u] = users[u] /\ users'[v] # users[v]
    BY <2>3, <2>5
  <2>6. CASE users'[u] # users[u] /\ users'[v] = users[v]
    BY <2>3, <2>6
  <2>7. CASE users'[u] # users[u] /\ users'[v] # users[v]
    BY <1>0, <2>1, <2>7, ImportedRows
  <2> QED BY <2>4, <2>5, <2>6, <2>7
<1>4. CASE EditsOne(c)
  <2>1. PICK w \in Account, row \in Row : UpdateFields(w, row)
    BY <1>4 DEF EditsOne
  <2> QED
    BY <1>0, <2>1 DEF UpdateFields, Free, Live, Clash
<1>5. CASE Switches(c)
  <2>1. PICK ids \in SUBSET Account, active \in BOOLEAN, cutoff \in Nat :
            SetActiveByIds(ids, active, cutoff)
    BY <1>5 DEF Switches
  <2>2. ASSUME NEW w \in Account, users'[w] \notin {NoRow, Gone}
        PROVE  /\ users[w] \notin {NoRow, Gone}
               /\ users'[w].email = users[w].email /\ users'[w].roll = users[w].roll
               /\ users'[w].google = users[w].google
    <3>1. CASE w \in ids \cap Live
      <4>1. users[w] \in Row
        BY <1>0, <3>1, LiveRow
      <4>2. \/ users'[w] = [users[w] EXCEPT !.active = TRUE]
            \/ users'[w] = [users[w] EXCEPT !.active = FALSE, !.validFrom = cutoff]
        BY <2>1, <3>1 DEF SetActiveByIds
      <4> QED BY <3>1, <4>1, <4>2 DEF Row, Live
    <3>2. CASE w \notin ids \cap Live
      BY <2>1, <2>2, <3>2 DEF SetActiveByIds
    <3> QED BY <3>1, <3>2
  <2> QED
    BY <1>0, <2>2 DEF Clash
<1>6. CASE Deletes
  BY <1>0, <1>6 DEF Deletes
<1> QED
  BY <1>1, <1>2, <1>3, <1>4, <1>5, <1>6 DEF TableStep

\* The cutoff of an account that stays only falls to one that a revocation had
\* computed and now writes.
LEMMA CutoffFalls ==
    ASSUME AccountsInv, NEW c \in Caller, TableStep(c), NEW u \in Account,
           users[u] \in Row, users'[u] \in Row
    PROVE  \/ users'[u].validFrom >= users[u].validFrom
           \/ Writes(c, u, users'[u].validFrom)
<1>0. /\ AccountsTypeOK
      /\ users \in [Account -> Row \cup {NoRow, Gone}]
      /\ users[u].validFrom \in Nat /\ users[u].validFrom <= clock + 1
  BY AccountsAssumption DEF AccountsInv, AccountsTypeOK, CutoffsAreComputed, Live, Row
<1>1. CASE users'[u] = users[u]
  BY <1>0, <1>1
<1>2. CASE InsertsOne
  BY <1>0, <1>1, <1>2, AccountsAssumption DEF InsertsOne, Insert
<1>3. CASE InsertsMany
  BY <1>0, <1>1, <1>3, AccountsAssumption, ImportedRows DEF InsertsMany
<1>4. CASE EditsOne(c)
  BY <1>0, <1>1, <1>4 DEF EditsOne, UpdateFields
<1>5. CASE Switches(c)
  <2>1. PICK ids \in SUBSET Account, active \in BOOLEAN, cutoff \in Nat :
            /\ SetActiveByIds(ids, active, cutoff)
            /\ active \/ \A w \in ids : Writes(c, w, cutoff)
    BY <1>5 DEF Switches
  <2>2. CASE u \notin ids \cap Live
    BY <1>1, <2>1, <2>2 DEF SetActiveByIds
  <2>3. CASE u \in ids \cap Live /\ active
    <3>1. users'[u] = [users[u] EXCEPT !.active = TRUE]
      BY <2>1, <2>3 DEF SetActiveByIds
    <3> QED BY <1>0, <3>1 DEF Row
  <2>4. CASE u \in ids \cap Live /\ ~active
    <3>1. users'[u] = [users[u] EXCEPT !.active = FALSE, !.validFrom = cutoff]
      BY <2>1, <2>4 DEF SetActiveByIds
    <3>2. users'[u].validFrom = cutoff
      BY <3>1 DEF Row
    <3> QED BY <2>1, <2>4, <3>2
  <2> QED BY <2>2, <2>3, <2>4
<1>6. CASE Deletes
  BY <1>0, <1>1, <1>6, AccountsAssumption DEF Deletes
<1> QED
  BY <1>1, <1>2, <1>3, <1>4, <1>5, <1>6 DEF TableStep

-----------------------------------------------------------------------------
(* The invariant holds.                                                     *)

LEMMA StepKeepsInv ==
    ASSUME AccountsInv, NEW c \in Caller, StepOK(c)
    PROVE  AccountsInv'
<1>0. /\ AccountsTypeOK /\ clock \in Nat /\ TableStep(c) /\ RestStep(c)
      /\ clock' = clock
  BY AccountsAssumption DEF AccountsInv, AccountsTypeOK, StepOK, RestStep
<1>1. users' \in [Account -> Row \cup {NoRow, Gone}] /\ (Live \subseteq Live' \/ Deletes)
  BY <1>0, TableType
<1>2. ordered' \cup audited' \subseteq ordered \cup audited \cup Live
      /\ ordered \cup audited \subseteq Live
  BY <1>0 DEF AccountsInv, HistoryKept, RestStep
<1>3. HistoryKept'
  <2>1. CASE Live \subseteq Live'
    BY <1>2, <2>1 DEF HistoryKept
  <2>2. CASE Deletes /\ users' # users
    <3>1. UNCHANGED <<ordered, audited>>
      BY <1>0, <2>2 DEF RestStep
    <3>2. \A u \in ordered \cup audited : u \in Account /\ users'[u] = users[u]
      BY <1>0, <1>2, <2>2 DEF Deletes, AccountsTypeOK, Live
    <3> QED BY <1>2, <3>1, <3>2 DEF HistoryKept, Live
  <2> QED BY <1>1, <2>1, <2>2 DEF Live
<1>4. (\A d \in Caller : GoodCall(call[d]))'
  <2>1. \A d \in Caller : GoodCall(call'[d])
    BY <1>0 DEF AccountsInv, AccountsTypeOK, RestStep
  <2> QED BY <1>0, <2>1 DEF GoodCall
<1>5. AccountsTypeOK'
  <2>1. ordered' \subseteq Account /\ audited' \subseteq Account /\ tokens' \subseteq Token
    BY <1>0, <1>2 DEF AccountsTypeOK, RestStep, Live
  <2>2. call' \in [Caller -> Call]
    BY <1>0 DEF AccountsTypeOK, RestStep, GoodCall
  <2> QED BY <1>0, <1>1, <2>1, <2>2 DEF AccountsTypeOK
<1>6. CutoffsAreComputed'
  BY <1>0, CutoffsStay
<1>7. ColumnsAreUnique'
  BY <1>0, ColumnsStay
<1> QED
  BY <1>3, <1>4, <1>5, <1>6, <1>7 DEF AccountsInv

LEMMA TickKeepsInv == AccountsInv /\ Tick => AccountsInv'
<1> SUFFICES ASSUME AccountsInv, Tick PROVE AccountsInv'
  OBVIOUS
<1>0. clock \in Nat /\ clock' = clock + 1 /\ clock' \in 0 .. LastSecond
      /\ UNCHANGED <<users, tokens, ordered, audited, call>>
  BY AccountsAssumption DEF AccountsInv, AccountsTypeOK, Tick
<1>1. AccountsTypeOK' /\ ColumnsAreUnique' /\ HistoryKept'
  BY <1>0 DEF AccountsInv, AccountsTypeOK, ColumnsAreUnique, HistoryKept, Live
<1>2. CutoffsAreComputed'
  <2> SUFFICES ASSUME NEW u \in Live
               PROVE  users[u].validFrom <= clock + 1 + 1
    BY <1>0 DEF CutoffsAreComputed, Live
  <2>1. users[u] \in Row
    BY LiveRow DEF AccountsInv, Live
  <2> QED BY <1>0, <2>1 DEF AccountsInv, CutoffsAreComputed, Row
<1>3. (\A c \in Caller : GoodCall(call[c]))'
  <2> SUFFICES ASSUME NEW c \in Caller PROVE GoodCall(call[c])'
    OBVIOUS
  <2>1. GoodCall(call[c]) /\ call' = call
    BY <1>0 DEF AccountsInv
  <2>2. call[c].stage \in {"change", "logout", "issue", "flip"} => call[c].cutoff \in Nat
    BY <2>1 DEF GoodCall, Call, Idle, Done
  <2> QED BY <1>0, <2>1, <2>2 DEF GoodCall
<1> QED
  BY <1>1, <1>2, <1>3 DEF AccountsInv

LEMMA InitialInv == Init => AccountsInv
<1> SUFFICES ASSUME Init PROVE AccountsInv
  OBVIOUS
<1>0. users = Seeded /\ clock = 0 /\ tokens = SeededTokens /\ ordered = {} /\ audited = {}
      /\ call = [c \in Caller |-> Idle]
  BY DEF Init
<1>1. AccountsTypeOK
  BY <1>0, AccountsAssumption DEF AccountsTypeOK, Call
<1>2. \A c \in Caller : GoodCall(call[c])
  BY <1>0, Waiting
<1>3. CutoffsAreComputed
  BY <1>0, AccountsAssumption DEF CutoffsAreComputed, Live
<1>4. ColumnsAreUnique
  BY <1>0, AccountsAssumption DEF ColumnsAreUnique, Live
<1> QED
  BY <1>0, <1>1, <1>2, <1>3, <1>4 DEF AccountsInv, HistoryKept

\* A step of the system is a tick or a good step of one request.
LEMMA NextIsOK ==
    ASSUME AccountsInv, Next
    PROVE  Tick \/ \E c \in Caller : StepOK(c)
BY AuthSteps, GoogleSteps, AdminSteps, ImportSteps DEF Next

LEMMA Inductive == AccountsInv /\ [Next]_vars => AccountsInv'
<1> SUFFICES ASSUME AccountsInv, [Next]_vars PROVE AccountsInv'
  OBVIOUS
<1>1. CASE Next
  BY <1>1, NextIsOK, StepKeepsInv, TickKeepsInv
<1>2. CASE UNCHANGED vars
  BY <1>2 DEF vars, AccountsInv, AccountsTypeOK, GoodCall, CutoffsAreComputed,
              ColumnsAreUnique, HistoryKept, Live
<1> QED
  BY <1>1, <1>2

\* Every state of every behaviour satisfies the inductive invariant.
THEOREM AccountsInvariant == Spec => []AccountsInv
BY InitialInv, Inductive, PTL DEF Spec

\* The table, the sessions and the requests in flight are what they should be.
THEOREM AccountsTypeCorrect == Spec => []AccountsTypeOK
<1>1. AccountsInv => AccountsTypeOK
  BY DEF AccountsInv
<1> QED BY <1>1, AccountsInvariant, PTL

\* A Google identity opens one account, and login finds nobody else under a roll
\* number that is its owner's username, however sign-ins, imports and edits that
\* looked first interleave with inserts.
THEOREM IdentitiesAreUnique == Spec => []OneAccountPerIdentity
<1>1. AccountsInv => OneAccountPerIdentity
  <2> SUFFICES ASSUME AccountsInv PROVE OneAccountPerIdentity
    OBVIOUS
  <2>1. \A u, v \in Live : u # v => ~Clash(users[u], users[v])
    BY DEF AccountsInv, ColumnsAreUnique
  <2>2. ASSUME NEW g \in Google, NEW u \in WithGoogle(g), NEW v \in WithGoogle(g)
        PROVE  u = v
    BY <2>1, AccountsAssumption DEF WithGoogle, Clash
  <2>3. ASSUME NEW u \in Live, users[u].email = users[u].roll
        PROVE  Answers(users[u].email) = {u}
    <3>1. users[u].email \in Name /\ users[u].roll # None
      <4>1. users[u] \in Row
        BY LiveRow DEF AccountsInv, Live
      <4> QED BY <2>3, <4>1, AccountsAssumption DEF Row
    <3>2. u \in WithEmail(users[u].email)
      BY DEF WithEmail
    <3>3. \A v \in Answers(users[u].email) : v = u
      BY <2>1, <2>3, <3>1 DEF Answers, WithEmail, WithRoll, Clash
    <3> QED BY <3>2, <3>3 DEF Answers
  <2> QED BY <2>2, <2>3 DEF OneAccountPerIdentity
<1> QED BY <1>1, AccountsInvariant, PTL

\* A row that an order or the audit log refers to is never deleted.
THEOREM HistoryIsKept == Spec => []HistoryKept
<1>1. AccountsInv => HistoryKept
  BY DEF AccountsInv
<1> QED BY <1>1, AccountsInvariant, PTL

-----------------------------------------------------------------------------
(* Action properties.                                                       *)

\* A revoked session comes back only by the write of an overlapping revocation
\* whose cutoff had been computed before the session was opened.
THEOREM RevocationIsFinal == Spec => RevocationSticks
<1> DEFINE Sticks ==
        \A t \in tokens : Revoked(t) /\ t.sub \in Live /\ t.sub \in Live' =>
          \/ Revoked(t)'
          \/ \E c \in Caller : /\ Revokes(c, t.sub) /\ call'[c] # call[c]
                               /\ call[c].cutoff <= t.iat
<1>1. AccountsInv /\ [Next]_vars => Sticks
  <2> SUFFICES ASSUME AccountsInv, [Next]_vars, NEW t \in tokens,
                      Revoked(t), t.sub \in Live, t.sub \in Live'
               PROVE  \/ Revoked(t)'
                      \/ \E c \in Caller : /\ Revokes(c, t.sub) /\ call'[c] # call[c]
                                           /\ call[c].cutoff <= t.iat
    OBVIOUS
  <2>0. AccountsInv'
    BY Inductive
  <2>1. /\ t.sub \in Account /\ t.iat \in Nat
        /\ users[t.sub] \in Row /\ users'[t.sub] \in Row
        /\ users[t.sub].validFrom \in Nat /\ users'[t.sub].validFrom \in Nat
        /\ t.iat < users[t.sub].validFrom
    <3>1. t.sub \in Account /\ t.iat \in Nat
      BY DEF AccountsInv, AccountsTypeOK, Token
    <3>2. users[t.sub] \in Row /\ users'[t.sub] \in Row
      BY <2>0, <3>1 DEF AccountsInv, AccountsTypeOK, Live
    <3> QED BY <3>1, <3>2 DEF Row, Revoked
  <2>2. CASE users' = users
    BY <2>1, <2>2 DEF Revoked
  <2>3. CASE Next /\ users' # users
    <3>1. PICK c \in Caller : TableStep(c)
      BY <2>3, NextIsOK DEF Tick, StepOK
    <3>2. CASE users'[t.sub].validFrom >= users[t.sub].validFrom
      BY <2>1, <3>2 DEF Revoked
    <3>3. CASE Writes(c, t.sub, users'[t.sub].validFrom)
      <4>1. ~(users'[t.sub].validFrom <= t.iat) => Revoked(t)'
        BY <2>1 DEF Revoked
      <4> QED BY <3>3, <4>1 DEF Writes
    <3> QED BY <2>1, <3>1, <3>2, <3>3, CutoffFalls
  <2> QED BY <2>2, <2>3 DEF vars
<1> QED
  BY <1>1, AccountsInvariant, PTL DEF Spec, RevocationSticks

\* Only the write of a (de)activation ends its request.
LEMMA OnlySwitchesEnd ==
    ASSUME AccountsInv, Next, NEW c \in Caller, call[c].stage = "flip", call'[c] # call[c]
    PROVE  SetUsersActiveWrite(c)
<1>1. PICK d \in Caller :
        \/ RequireAuth(d) \/ LogAction(d) \/ PlaceOrder(d)
        \/ AuthRoutes(d) \/ GoogleRoutes(d)
        \/ SuperadminUsers(d) \/ SuperadminCohorts(d) \/ StudentImports(d)
  BY DEF Next, Tick
<1>2. RestStep(d)
  BY <1>1, AuthSteps, GoogleSteps, AdminSteps, ImportSteps DEF StepOK
<1>3. d = c
  BY <1>2 DEF RestStep, AccountsInv, AccountsTypeOK
<1>4. ~(RequireAuth(c) \/ LogAction(c) \/ PlaceOrder(c) \/ AuthRoutes(c))
  BY DEF RequireAuth, LogAction, PlaceOrder, AuthRoutes, SignIn, Login, LoginRehash,
         LoginAdmit, ChangePassword, ChangePasswordWrite, LogoutEverywhere, LogoutWrite,
         AdminReset, AdminResetHash, AdminResetWrite, Serves, Begins, At
<1>5. ~GoogleRoutes(c)
  BY DEF GoogleRoutes, LoginWithGoogle, GoogleLookup, GoogleLink, GoogleEnroll,
         StartGoogleKlhLogin, CompleteGoogleKlhLogin, GoogleKlhInsert, Begins, At
<1>6. ~(SuperadminCohorts(c) \/ StudentImports(c))
  BY DEF SuperadminCohorts, PromoteCohort, PromoteCohortRead, StudentImports,
         ImportStudentRoster, ImportStudents, RosterInsert, ImportRow, Serves, At
<1>7. SuperadminUsers(c) => SetUsersActiveWrite(c)
  BY DEF SuperadminUsers, CreateUser, UpdateUser, DeleteUser, DeleteUserWrite,
         SetUsersActive, Serves, At
<1> QED
  BY <1>1, <1>3, <1>4, <1>5, <1>6, <1>7

\* A (de)activation or promotion never turns off more accounts than the
\* superadmin confirmed, although the accounts are read again after that.
THEOREM PromotionIsBounded == Spec => NeverMoreThanConfirmed
<1> DEFINE Bounded ==
        \A c \in Caller : call[c].stage = "flip" /\ call'[c] # call[c] =>
          Cardinality({u \in Live \cap Live' : users[u].active /\ ~users'[u].active})
             <= call[c].confirmed
<1>1. AccountsInv /\ [Next]_vars => Bounded
  <2> SUFFICES ASSUME AccountsInv, [Next]_vars, NEW c \in Caller,
                      call[c].stage = "flip", call'[c] # call[c]
               PROVE  Cardinality({u \in Live \cap Live' :
                                      users[u].active /\ ~users'[u].active})
                         <= call[c].confirmed
    OBVIOUS
  <2> DEFINE off == {u \in Live \cap Live' : users[u].active /\ ~users'[u].active}
             ids == call[c].ids
  <2>1. SetUsersActiveWrite(c)
    BY OnlySwitchesEnd DEF vars
  <2>2. /\ ids \in SUBSET Account /\ call[c].confirmed \in Nat
        /\ Cardinality(ids) <= call[c].confirmed
    <3>1. GoodCall(call[c])
      BY DEF AccountsInv
    <3> QED BY <3>1 DEF GoodCall, Call, Idle, Done
  <2>3. \A u \in Account : u \notin ids => users'[u] = users[u]
    BY <2>1 DEF SetUsersActiveWrite, SetActiveByIds
  <2>4. off \subseteq ids
    BY <2>3 DEF Live
  <2> HIDE DEF off, ids
  <2>5. Cardinality(off) <= Cardinality(ids) /\ Cardinality(off) \in Nat
        /\ Cardinality(ids) \in Nat
    BY <2>2, <2>4, FewerAccounts, FiniteAccounts
  <2>6. Cardinality(off) <= call[c].confirmed
    BY <2>2, <2>5
  <2> QED BY <2>6 DEF off
<1> QED
  BY <1>1, AccountsInvariant, PTL DEF Spec, NeverMoreThanConfirmed
=============================================================================
