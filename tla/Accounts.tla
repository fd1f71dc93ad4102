------------------------------ MODULE Accounts ------------------------------
(***************************************************************************)
(* The User table and the requests that read and write it: sign-in with a  *)
(* password or with Google, password changes and resets, revocation of     *)
(* sessions, the superadmin's edits, deletions and (de)activations, cohort *)
(* promotion and the two roster imports.                                   *)
(*                                                                         *)
(* Between two statements of a request, and while it hashes a password,    *)
(* any other request may run.  A statement is one step.  A request that is *)
(* refused changes nothing and is a step only if it had already begun.     *)
(***************************************************************************)
EXTENDS Integers, FiniteSets, Requests

CONSTANTS
    Account,      \* row ids, never used again
    Seeded,       \* [Account -> Row or NoRow]: the table before the requests
    SeededTokens, \* sessions open before them
    Name,         \* what is typed to sign in: roll numbers, usernames, addresses
    Username,     \* [Name -> Name]: usernameForRollNumber, the lower-cased form
    Legacy,       \* [Name -> Name or None]: legacyEmailForRollNumber
    Protected,    \* the names of PROTECTED_ACCOUNT_EMAILS
    Google,       \* Google identities ("sub")
    EmailOf,      \* [Google -> Name]
    Own,          \* passwords that people choose
    Appointed,    \* the roles the superadmin gives, a bound
    Bodies,       \* what createUser is asked to create, a bound
    Rosters,      \* roll numbers of a roster file, a bound
    CsvFiles,     \* rows of an import file, a bound
    Usernames,    \* what a KLH student signing up may choose, a bound
    LastSecond,   \* bound of the clock
    NoRow, Gone, None

Role == {"STUDENT", "ADMIN", "SUPERADMIN"}
School == {"KLH", "DRK"}
Secret == Own \cup {"shared", "issued", "random"}

Row == [email : Name,             \* the username; an address for staff only
        roll : Name \cup {None},  \* rollNumber, null for some
        role : Role, school : School,
        google : Google \cup {None},
        secret : Secret,          \* what passwordHash is a hash of
        costly : BOOLEAN,         \* hashed with cost 12
        mustChange : BOOLEAN, active : BOOLEAN,
        validFrom : Nat]          \* tokensValidFrom in seconds, 0 when null

\* The unique indexes on email, rollNumber and googleId; nulls are all different.
Clash(row, other) ==
    \/ row.email = other.email
    \/ row.roll = other.roll /\ row.roll # None
    \/ row.google = other.google /\ row.google # None

Token == [sub : Account, iat : Nat]

CsvRow == [email : Name, roll : Name]

ASSUME AccountsAssumption ==
    /\ NoRow \notin Row /\ Gone \notin Row /\ NoRow # Gone
    /\ None \notin Google \cup Name
    /\ IsFiniteSet(Account)
    /\ Seeded \in [Account -> Row \cup {NoRow}]
    /\ \A u \in Account : Seeded[u] # NoRow => Seeded[u].validFrom <= 1
    /\ \A u, v \in Account : u # v /\ Seeded[u] # NoRow /\ Seeded[v] # NoRow =>
          ~Clash(Seeded[u], Seeded[v])
    /\ SeededTokens \subseteq {t \in Token : t.iat = 0 /\ Seeded[t.sub] # NoRow}
    /\ Protected \subseteq Name
    /\ EmailOf \in [Google -> Name]
    /\ Username \in [Name -> Name]
    /\ Legacy \in [Name -> Name \cup {None}]
    /\ Appointed \subseteq Role
    /\ Bodies \subseteq [email : Name, roll : Name \cup {None}, role : Role, school : School]
    /\ Rosters \subseteq SUBSET Name
    /\ CsvFiles \subseteq SUBSET CsvRow
    /\ Usernames \subseteq Name
    /\ LastSecond \in Nat

VARIABLES
    users,     \* [Account -> Row, NoRow or Gone]: the User table
    clock,     \* whole seconds
    tokens,    \* sessions signed and not expired
    ordered,   \* accounts an Order row refers to
    audited    \* accounts an AuditLog row names as its actor

vars == <<users, clock, tokens, ordered, audited, call>>

Call ==
    {Idle, Done}
    \cup [stage : {"in"}, actor : Account, role : Role, flagged : BOOLEAN]
    \cup [stage : {"rehash", "admit"}, u : Account, row : Row, school : School]
    \cup [stage : {"change"}, u : Account, secret : Own, cutoff : Nat]
    \cup [stage : {"logout"}, u : Account, cutoff : Nat]
    \cup [stage : {"reset", "delete"}, u : Account, actor : Account]
    \cup [stage : {"issue"}, u : Account, actor : Account, cutoff : Nat]
    \cup [stage : {"log"}, actor : Account]
    \cup [stage : {"promote"}, actor : Account, ids : SUBSET Account, confirmed : Nat]
    \cup [stage : {"flip"}, actor : Account, ids : SUBSET Account, active : BOOLEAN,
          cutoff : Nat, confirmed : Nat]
    \cup [stage : {"roster"}, actor : Account, rolls : SUBSET Name]
    \cup [stage : {"csv"}, rows : SUBSET CsvRow]
    \cup [stage : {"lookup", "enroll"}, google : Google]
    \cup [stage : {"link"}, u : Account, google : Google]
    \cup [stage : {"setup"}, google : Google, name : Name, secret : Own]

AccountsTypeOK ==
    /\ users \in [Account -> Row \cup {NoRow, Gone}]
    /\ clock \in 0 .. LastSecond
    /\ tokens \subseteq Token
    /\ ordered \subseteq Account
    /\ audited \subseteq Account
    /\ call \in [Caller -> Call]

Init ==
    /\ users = Seeded
    /\ clock = 0
    /\ tokens = SeededTokens
    /\ ordered = {}
    /\ audited = {}
    /\ call = [c \in Caller |-> Idle]

(***************************************************************************)
(* The statements of userRepo                                              *)
(***************************************************************************)
Live == {u \in Account : users[u] \notin {NoRow, Gone}}

WithEmail(n) == {u \in Live : users[u].email = n}
WithRoll(n) == {u \in Live : users[u].roll = n}
WithGoogle(g) == {u \in Live : users[u].google = g}

\* findFirstByEmailOrRollNumber returns any one of these (LIMIT 1).
Answers(n) == WithEmail(n) \cup WithRoll(n)

\* Mutant: rollNumber is not unique.
FreeButForRoll(u, row) ==
    \A v \in Live \ {u} : ~Clash([row EXCEPT !.roll = None], users[v])
Free(u, row) == \A v \in Live \ {u} : ~Clash(row, users[v])

NewStudent(n, school) ==
    [email |-> n, roll |-> None, role |-> "STUDENT", school |-> school,
     google |-> None, secret |-> "random", costly |-> FALSE,
     mustChange |-> FALSE, active |-> TRUE, validFrom |-> 0]

\* A student whose password somebody else chose and hashed with cost 12.
Imported(email, roll, secret) ==
    [NewStudent(email, "KLH") EXCEPT !.roll = roll, !.secret = secret,
                                     !.costly = TRUE, !.mustChange = TRUE]

OnRoster(n) == Imported(Username[n], n, "shared")

Insert(u, row) ==
    /\ users[u] = NoRow
    /\ Free(u, row)
    /\ users' = [users EXCEPT ![u] = row]

\* UPDATE ... WHERE id: assertAffected refuses when the row is gone.
UpdateFields(u, row) ==
    /\ u \in Live
    /\ Free(u, row)
    /\ users' = [users EXCEPT ![u] = row]

\* Mutant: a reactivation clears the cutoff.
SetActiveAndForget(ids, active, cutoff) ==
    users' = [u \in Account |->
        IF u \notin ids \cap Live THEN users[u]
        ELSE [users[u] EXCEPT !.active = active,
                              !.validFrom = IF active THEN 0 ELSE cutoff]]
SetActiveByIds(ids, active, cutoff) ==
    users' = [u \in Account |->
        IF u \notin ids \cap Live THEN users[u]
        ELSE IF active THEN [users[u] EXCEPT !.active = TRUE]
        ELSE [users[u] EXCEPT !.active = FALSE, !.validFrom = cutoff]]

\* ON CONFLICT (email) DO NOTHING: of the usernames that are not taken, one row
\* each.  A roll number that is taken is an error, and nothing is inserted.
InsertStudentsSkipDuplicates(rolls) ==
    LET wanted == {n \in rolls : WithEmail(Username[n]) = {}}
    IN  \E kept \in SUBSET wanted :
        \E place \in [kept -> {u \in Account : users[u] = NoRow}] :
           /\ \A n \in wanted : \E m \in kept : Username[m] = Username[n]
           /\ \A n, m \in kept : n # m => Username[n] # Username[m] /\ place[n] # place[m]
           /\ \A n \in kept : WithRoll(n) = {}
           /\ users' = [u \in Account |->
                 IF \E n \in kept : place[n] = u
                 THEN OnRoster(CHOOSE n \in kept : place[n] = u) ELSE users[u]]

(***************************************************************************)
(* Sessions (lib/jwt.ts, middleware/auth.ts)                               *)
(***************************************************************************)
\* Mutant: the cutoff is rounded the other way.
RevocationCutoffBehind == clock - 1
RevocationCutoff == clock + 1

Revoked(t) == users[t.sub] \in Row /\ t.iat < users[t.sub].validFrom

SignToken(u, iat) == tokens' = tokens \cup {[sub |-> u, iat |-> iat]}

Admitted(t) == t.sub \in Live /\ users[t.sub].active /\ ~Revoked(t)

\* The operation is done; its entry in the audit log is still to be written.
Logs(actor) == [stage |-> "log", actor |-> actor]

\* Best effort: an error is swallowed.
LogAction(c) ==
    LET actor == call[c].actor
    IN  /\ At(c, "log")
        /\ Goes(c, Done)
        /\ \/ actor \in Live /\ audited' = audited \cup {actor}
           \/ UNCHANGED audited
        /\ UNCHANGED <<users, clock, tokens, ordered>>

RequireAuth(c) ==
    \E t \in tokens :
        /\ Admitted(t)
        /\ Begins(c, [stage |-> "in", actor |-> t.sub, role |-> users[t.sub].role,
                      flagged |-> users[t.sub].mustChange])
        /\ UNCHANGED <<users, clock, tokens, ordered, audited>>

\* A route behind requireAuth(role): flagged users are turned away.
Serves(c, roles) == At(c, "in") /\ ~call[c].flagged /\ call[c].role \in roles

(***************************************************************************)
(* authService                                                             *)
(***************************************************************************)

\* The row is read, then the password compared with the hash that was read.  A
\* name in its legacy form finds nobody whom the bare one does not.
Login(c) ==
    \E typed \in Name, school \in School : \E u \in Answers(typed) :
        /\ Begins(c, [stage |-> IF users[u].costly THEN "rehash" ELSE "admit",
                      u |-> u, row |-> users[u], school |-> school])
        /\ UNCHANGED <<users, clock, tokens, ordered, audited>>

\* A hash of the old cost is replaced by a new hash of the same password.
LoginRehash(c) ==
    LET me == call[c]
    IN  /\ At(c, "rehash")
        /\ IF me.u \in Live
           THEN /\ UpdateFields(me.u, [users[me.u] EXCEPT !.secret = me.row.secret,
                                                         !.costly = FALSE])
                /\ Goes(c, [me EXCEPT !.stage = "admit"])
           ELSE Goes(c, Done) /\ UNCHANGED users
        /\ UNCHANGED <<clock, tokens, ordered, audited>>

LoginAdmit(c) ==
    LET me == call[c]
    IN  /\ At(c, "admit")
        /\ Goes(c, Done)
        /\ IF me.row.school = me.school /\ me.row.active
           THEN SignToken(me.u, clock) ELSE UNCHANGED tokens
        /\ UNCHANGED <<users, clock, ordered, audited>>

\* The cutoff is taken before the new password is hashed.
ChangePassword(c) ==
    LET u == call[c].actor
    IN  \E new \in Own :
           /\ At(c, "in")
           /\ u \in Live /\ users[u].active
           /\ users[u].secret # new
           /\ Goes(c, [stage |-> "change", u |-> u, secret |-> new,
                             cutoff |-> RevocationCutoff])
           /\ UNCHANGED <<users, clock, tokens, ordered, audited>>

ChangePasswordWrite(c) ==
    LET me == call[c]
    IN  /\ At(c, "change")
        /\ IF me.u \in Live
           THEN /\ Goes(c, Logs(me.u))
                /\ UpdateFields(me.u, [users[me.u] EXCEPT !.secret = me.secret,
                       !.costly = FALSE, !.mustChange = FALSE, !.validFrom = me.cutoff])
                /\ SignToken(me.u, me.cutoff)
           ELSE Goes(c, Done) /\ UNCHANGED <<users, tokens>>
        /\ UNCHANGED <<clock, ordered, audited>>

\* The cutoff is computed in the worker, which then sends the UPDATE.
LogoutEverywhere(c) ==
    /\ At(c, "in")
    /\ Goes(c, [stage |-> "logout", u |-> call[c].actor, cutoff |-> RevocationCutoff])
    /\ UNCHANGED <<users, clock, tokens, ordered, audited>>

LogoutWrite(c) ==
    LET me == call[c]
    IN  /\ At(c, "logout")
        /\ IF me.u \in Live
           THEN /\ Goes(c, Logs(me.u))
                /\ UpdateFields(me.u, [users[me.u] EXCEPT !.validFrom = me.cutoff])
           ELSE Goes(c, Done) /\ UNCHANGED users
        /\ UNCHANGED <<clock, tokens, ordered, audited>>

MayReset(role, actor, u) ==
    /\ u # actor
    /\ users[u].role \in IF role = "SUPERADMIN" THEN {"STUDENT", "ADMIN"} ELSE {"STUDENT"}

AdminReset(c) ==
    \E u \in Live :
        /\ Serves(c, {"ADMIN", "SUPERADMIN"})
        /\ MayReset(call[c].role, call[c].actor, u)
        /\ Goes(c, [stage |-> "reset", u |-> u, actor |-> call[c].actor])
        /\ UNCHANGED <<users, clock, tokens, ordered, audited>>

\* The temporary password is hashed before the cutoff is computed ...
AdminResetHash(c) ==
    LET me == call[c]
    IN  /\ At(c, "reset")
        /\ Goes(c, [stage |-> "issue", u |-> me.u, actor |-> me.actor,
                    cutoff |-> RevocationCutoff])
        /\ UNCHANGED <<users, clock, tokens, ordered, audited>>

\* ... and written after; a generated one differs from every other password.
AdminResetWrite(c) ==
    LET me == call[c]
    IN  /\ At(c, "issue")
        /\ IF me.u \in Live
           THEN /\ Goes(c, Logs(me.actor))
                /\ UpdateFields(me.u, [users[me.u] EXCEPT !.secret = "issued", !.costly = FALSE,
                       !.mustChange = TRUE, !.validFrom = me.cutoff])
           ELSE Goes(c, Done) /\ UNCHANGED users
        /\ UNCHANGED <<clock, tokens, ordered, audited>>

(***************************************************************************)
(* userAdminService                                                        *)
(***************************************************************************)
CreateUser(c) ==
    \E u \in Account, body \in Bodies :
        /\ Serves(c, {"SUPERADMIN"})
        /\ Goes(c, Logs(call[c].actor))
        /\ Insert(u, [NewStudent(body.email, body.school) EXCEPT
                          !.roll = body.roll, !.role = body.role, !.secret = "issued"])
        /\ UNCHANGED <<clock, tokens, ordered, audited>>

\* One UPDATE of the fields that the body names.
UpdateUser(c) ==
    \E u \in Live, r \in Appointed, s \in School, password \in {"issued", None} :
        /\ Serves(c, {"SUPERADMIN"})
        /\ Goes(c, Logs(call[c].actor))
        /\ UpdateFields(u, [users[u] EXCEPT !.role = r, !.school = s,
               !.secret = IF password = None THEN @ ELSE password,
               !.costly = @ /\ password = None])
        /\ UNCHANGED <<clock, tokens, ordered, audited>>

DeleteUser(c) ==
    \E u \in Account \ ordered :
        /\ Serves(c, {"SUPERADMIN"})
        /\ u # call[c].actor
        /\ Goes(c, [stage |-> "delete", u |-> u, actor |-> call[c].actor])
        /\ UNCHANGED <<users, clock, tokens, ordered, audited>>

\* Mutant: only the count of orders protects the account.
DeleteUserUnrestricted(c) ==
    LET u == call[c].u
    IN  /\ At(c, "delete")
        /\ Goes(c, Logs(call[c].actor))
        /\ users' = [users EXCEPT ![u] = Gone]
        /\ UNCHANGED <<clock, tokens, ordered, audited>>

\* The foreign keys of Order and of AuditLog are ON DELETE RESTRICT.
DeleteUserWrite(c) ==
    LET u == call[c].u
    IN  /\ At(c, "delete")
        /\ IF u \in Live \ (ordered \cup audited)
           THEN /\ Goes(c, Logs(call[c].actor))
                /\ users' = [users EXCEPT ![u] = Gone]
           ELSE Goes(c, Done) /\ UNCHANGED users
        /\ UNCHANGED <<clock, tokens, ordered, audited>>

\* The accounts of ids that a (de)activation does not skip.
Targets(ids, active, actor, force) ==
    {u \in ids \cap Live :
        /\ users[u].active # active
        /\ active \/ /\ u # actor
                     /\ users[u].role # "SUPERADMIN"
                     /\ force \/ users[u].email \notin Protected}

\* The write of the accounts that are not skipped; its cutoff is computed first.
Flip(targets, actor, active, confirmed) ==
    IF targets = {} THEN Logs(actor) ELSE
    [stage |-> "flip", actor |-> actor, ids |-> targets, active |-> active,
     cutoff |-> RevocationCutoff, confirmed |-> confirmed]

\* Chosen accounts; force is offered for a single one.
SetUsersActive(c) ==
    \E ids \in SUBSET Account, active, force \in BOOLEAN :
        LET targets == Targets(ids, active, call[c].actor, force)
        IN  /\ Serves(c, {"SUPERADMIN"})
            /\ ids # {}
            /\ force => Cardinality(ids) = 1
            /\ Goes(c, Flip(targets, call[c].actor, active, Cardinality(ids)))
            /\ UNCHANGED <<users, clock, tokens, ordered, audited>>

SetUsersActiveWrite(c) ==
    LET me == call[c]
    IN  /\ At(c, "flip")
        /\ Goes(c, Logs(me.actor))
        /\ SetActiveByIds(me.ids, me.active, me.cutoff)
        /\ UNCHANGED <<clock, tokens, ordered, audited>>

(***************************************************************************)
(* cohortService: the students whose roll number has the intake's prefix   *)
(***************************************************************************)
Cohort == {u \in Live : users[u].role = "STUDENT" /\ users[u].roll # None}

WouldDeactivate == {u \in Cohort : users[u].active /\ users[u].email \notin Protected}

\* Mutant: the number is not compared with the one confirmed.
PromoteUnconfirmed(c) ==
    \E confirmed \in 0 .. Cardinality(Account) :
        /\ Serves(c, {"SUPERADMIN"})
        /\ WouldDeactivate # {}
        /\ Goes(c, [stage |-> "promote", actor |-> call[c].actor,
                    ids |-> WouldDeactivate, confirmed |-> confirmed])
        /\ UNCHANGED <<users, clock, tokens, ordered, audited>>

\* The superadmin confirms a number that some preview showed.
PromoteCohort(c) ==
    \E confirmed \in 0 .. Cardinality(Account) :
        /\ Serves(c, {"SUPERADMIN"})
        /\ Cardinality(WouldDeactivate) = confirmed
        /\ Goes(c, [stage |-> "promote", actor |-> call[c].actor,
                          ids |-> WouldDeactivate, confirmed |-> confirmed])
        /\ UNCHANGED <<users, clock, tokens, ordered, audited>>

PromoteCohortRead(c) ==
    LET me == call[c]
        targets == Targets(me.ids, FALSE, me.actor, FALSE)
    IN  /\ At(c, "promote")
        /\ Goes(c, Flip(targets, me.actor, FALSE, me.confirmed))
        /\ UNCHANGED <<users, clock, tokens, ordered, audited>>

(***************************************************************************)
(* The two imports                                                         *)
(***************************************************************************)
ImportStudentRoster(c) ==
    \E rolls \in Rosters :
        LET fresh == {n \in rolls : /\ WithRoll(n) = {}
                                    /\ WithEmail(Username[n]) \cup WithEmail(Legacy[n]) = {}}
        IN  /\ Serves(c, {"SUPERADMIN"})
            /\ Goes(c, IF fresh = {} THEN Logs(call[c].actor) ELSE
                   [stage |-> "roster", rolls |-> fresh, actor |-> call[c].actor])
            /\ UNCHANGED <<users, clock, tokens, ordered, audited>>

RosterInsert(c) ==
    LET me == call[c]
    IN  /\ At(c, "roster")
        /\ \/ InsertStudentsSkipDuplicates(me.rolls) /\ Goes(c, Logs(me.actor))
           \/ /\ \E n \in me.rolls : WithEmail(Username[n]) = {} /\ WithRoll(n) # {}
              /\ Goes(c, Done)
              /\ UNCHANGED users
        /\ UNCHANGED <<clock, tokens, ordered, audited>>

ImportStudents(c) ==
    \E rows \in CsvFiles :
        LET fresh == {row \in rows : WithRoll(row.roll) \cup WithEmail(row.email) = {}}
        IN  /\ Serves(c, {"SUPERADMIN"})
            /\ Goes(c, IF fresh = {} THEN Done ELSE [stage |-> "csv", rows |-> fresh])
            /\ UNCHANGED <<users, clock, tokens, ordered, audited>>

\* A row each, with a password of its own; a name that was taken meanwhile
\* ends the import in an error with the rows before it inserted.
ImportRow(c) ==
    /\ At(c, "csv")
    /\ \E row \in call[c].rows :
          LET left == call[c].rows \ {row}
              student == Imported(row.email, row.roll, "issued")
          IN  \/ /\ \E u \in Account : Insert(u, student)
                 /\ Goes(c, IF left = {} THEN Done ELSE [call[c] EXCEPT !.rows = left])
              \/ /\ \E v \in Live : Clash(student, users[v])
                 /\ Goes(c, Done)
                 /\ UNCHANGED users
    /\ UNCHANGED <<clock, tokens, ordered, audited>>

(***************************************************************************)
(* googleAuthService; Google has vouched for the identity                  *)
(***************************************************************************)
Welcome(c, u, row, school) ==
    /\ Goes(c, Done)
    /\ IF row.school = school /\ row.role = "STUDENT" /\ row.active
       THEN SignToken(u, clock) ELSE UNCHANGED tokens

\* A DRK student, by the identity first and by its address next.
LoginWithGoogle(c) ==
    \E g \in Google :
        /\ At(c, "idle")
        /\ IF WithGoogle(g) = {}
           THEN Begins(c, [stage |-> "lookup", google |-> g]) /\ UNCHANGED tokens
           ELSE \E u \in WithGoogle(g) : Welcome(c, u, users[u], "DRK")
        /\ UNCHANGED <<users, clock, ordered, audited>>

GoogleLookup(c) ==
    LET g == call[c].google
        known == {u \in Answers(EmailOf[g]) : users[u].role = "STUDENT"}
    IN  /\ At(c, "lookup")
        /\ \/ known = {} /\ Goes(c, [stage |-> "enroll", google |-> g])
           \/ \E u \in known :
                Goes(c, IF users[u].school # "DRK" THEN Done
                                  ELSE [stage |-> "link", u |-> u, google |-> g])
        /\ UNCHANGED <<users, clock, tokens, ordered, audited>>

GoogleLink(c) ==
    LET me == call[c]
        row == [users[me.u] EXCEPT !.google = me.google]
    IN  /\ At(c, "link")
        /\ IF me.u \in Live /\ Free(me.u, row)
           THEN UpdateFields(me.u, row) /\ Welcome(c, me.u, row, "DRK")
           ELSE Goes(c, Done) /\ UNCHANGED <<users, tokens>>
        /\ UNCHANGED <<clock, ordered, audited>>

\* The insert of a student with a Google identity, and the session.
Enroll(c, row) ==
    /\ \/ \E u \in Account : Insert(u, row) /\ Welcome(c, u, row, row.school)
       \/ /\ \E v \in Live : Clash(row, users[v])
          /\ Goes(c, Done)
          /\ UNCHANGED <<users, tokens>>
    /\ UNCHANGED <<clock, ordered, audited>>

GoogleEnroll(c) ==
    LET g == call[c].google
    IN  /\ At(c, "enroll")
        /\ Enroll(c, [NewStudent(EmailOf[g], "DRK") EXCEPT !.google = g])

\* A KLH student: a known identity is let in ...
StartGoogleKlhLogin(c) ==
    \E g \in Google : \E u \in WithGoogle(g) :
        /\ At(c, "idle")
        /\ Welcome(c, u, users[u], "KLH")
        /\ UNCHANGED <<users, clock, ordered, audited>>

\* ... and an unknown one chooses a username and a password.
CompleteGoogleKlhLogin(c) ==
    \E g \in Google, n \in Usernames, own \in Own :
        /\ WithGoogle(g) = {}
        /\ Begins(c, [stage |-> "setup", google |-> g, name |-> n, secret |-> own])
        /\ UNCHANGED <<users, clock, tokens, ordered, audited>>

GoogleKlhInsert(c) ==
    LET me == call[c]
    IN  /\ At(c, "setup")
        /\ Enroll(c, [NewStudent(me.name, "KLH") EXCEPT
                          !.google = me.google, !.secret = me.secret])

(***************************************************************************)
(* An order of the account; the clock                                      *)
(***************************************************************************)
PlaceOrder(c) ==
    /\ Serves(c, {"STUDENT", "SUPERADMIN"})
    /\ Goes(c, Done)
    /\ call[c].actor \in Live
    /\ ordered' = ordered \cup {call[c].actor}
    /\ UNCHANGED <<users, clock, tokens, audited>>

Tick ==
    /\ clock < LastSecond
    /\ clock' = clock + 1
    /\ UNCHANGED <<users, tokens, ordered, audited, call>>

SignIn(c) == Login(c) \/ LoginRehash(c) \/ LoginAdmit(c)

AuthRoutes(c) ==
    \/ SignIn(c)
    \/ ChangePassword(c) \/ ChangePasswordWrite(c) \/ LogoutEverywhere(c) \/ LogoutWrite(c)
    \/ AdminReset(c) \/ AdminResetHash(c) \/ AdminResetWrite(c)

GoogleRoutes(c) ==
    \/ LoginWithGoogle(c) \/ GoogleLookup(c) \/ GoogleLink(c) \/ GoogleEnroll(c)
    \/ StartGoogleKlhLogin(c) \/ CompleteGoogleKlhLogin(c) \/ GoogleKlhInsert(c)

SuperadminUsers(c) ==
    \/ CreateUser(c) \/ UpdateUser(c) \/ DeleteUser(c) \/ DeleteUserWrite(c)
    \/ SetUsersActive(c) \/ SetUsersActiveWrite(c)

SuperadminCohorts(c) == PromoteCohort(c) \/ PromoteCohortRead(c)

StudentImports(c) ==
    \/ ImportStudentRoster(c) \/ RosterInsert(c) \/ ImportStudents(c) \/ ImportRow(c)

Next ==
    \/ \E c \in Caller :
          \/ RequireAuth(c) \/ LogAction(c) \/ PlaceOrder(c)
          \/ AuthRoutes(c) \/ GoogleRoutes(c)
          \/ SuperadminUsers(c) \/ SuperadminCohorts(c) \/ StudentImports(c)
    \/ Tick

Spec == Init /\ [][Next]_vars

(***************************************************************************)
(* Properties                                                              *)
(***************************************************************************)

\* However the lookups of sign-ins, imports and edits interleave with their
\* inserts, a Google identity opens one account, and an account whose username
\* is its roll number is the only one that login can find under it, although
\* login takes the first row that matches in either of two columns.  Others may
\* share a name: one account's username may be another's roll number.
OneAccountPerIdentity ==
    /\ \A g \in Google : \A u, v \in WithGoogle(g) : u = v
    /\ \A u \in Live : users[u].email = users[u].roll => Answers(users[u].email) = {u}

\* A row that an order or the audit log refers to is never deleted, although
\* the orders were counted before a further one was placed.
HistoryKept == ordered \cup audited \subseteq Live

\* The request is about to write a cutoff for the account.
Revokes(c, u) ==
    \/ call[c].stage \in {"change", "logout", "issue"} /\ call[c].u = u
    \/ call[c].stage = "flip" /\ ~call[c].active /\ u \in call[c].ids

\* Whatever is written to an account by requests that read it earlier, a
\* revoked session comes back only by the write of another revocation, one
\* that overlapped the first and had computed its cutoff before the session was
\* opened.  (userAdminService.ts:263 says more: that a deactivation's cutoff is
\* newer than every token in circulation.)
RevocationSticks ==
    [][\A t \in tokens : Revoked(t) /\ t.sub \in Live /\ t.sub \in Live' =>
          \/ Revoked(t)'
          \/ \E c \in Caller : /\ Revokes(c, t.sub) /\ call'[c] # call[c]
                               /\ call[c].cutoff <= t.iat]_vars

\* A promotion never turns off more accounts than the superadmin confirmed,
\* although the cohort is read again after the comparison.
NeverMoreThanConfirmed ==
    [][\A c \in Caller : call[c].stage = "flip" /\ call'[c] # call[c] =>
          Cardinality({u \in Live \cap Live' : users[u].active /\ ~users'[u].active})
             <= call[c].confirmed]_vars

\* The password that every imported student starts with only opens accounts
\* that must replace it (studentRosterService.ts:163).
SharedIsTransitional ==
    \A u \in Live : users[u].secret = "shared" => users[u].mustChange
=============================================================================
