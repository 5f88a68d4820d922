------------------------------ MODULE Accounts ------------------------------
(***************************************************************************)
(* The people of one Slack workspace: installing and signing in            *)
(* (auth.service.ts, workspaces.service.ts, users.service.ts), writing to  *)
(* the bot before ever signing in (slack-events.service.ts), invitations   *)
(* (invites.service.ts), roles and deactivation (users.service.ts) and the *)
(* sessions all of this hands out.  Every request reads a row, decides,    *)
(* and saves the row it read, whole, so that requests that overlap may     *)
(* undo each other.  A role travels inside the access token and is not     *)
(* read again while the token lives.                                       *)
(***************************************************************************)
EXTENDS Naturals, FiniteSets

CONSTANTS
    People,         \* the members of the Slack team
    Calls,          \* the requests served concurrently
    MaxFailures,    \* bound: requests that die half way
    MaxTokens,      \* bound: unexpired access tokens
    MaxDecisions,   \* bound: decisions about roles and activity
    NoRow           \* no such row

ASSUME AccountsAssumption == {MaxFailures, MaxTokens, MaxDecisions} \subseteq Nat

VARIABLES
    installed,      \* the workspaces row of the team is there, bot token included
    trials,         \* onboarding grants of the workspace
    users,          \* the users table: the row of each person, or NoRow
    access,         \* the unexpired access tokens; old is a ghost: the row it
                    \*        was issued from has changed role or activity since
    call,           \* what each request has in memory
    failures,       \* requests that died half way
    decisions,      \* decisions taken
    intended,       \* ghost: role and isActive as last decided for each person;
                    \*        signing in and writing to the bot decide nothing
                    \*        about a person who has a row
    raced,          \* ghost: a row was saved over another save of the same row
    miscounted,     \* ghost: an administrator was taken away after another one
                    \*        had been who counted when that was decided
    trialLost,      \* ghost: the grant of the trial failed or was cut short
    hadAdmin        \* ghost: the workspace has had an administrator

accountVars == <<installed, trials, users, access, call, failures, decisions,
                 intended, raced, miscounted, trialLost, hadAdmin>>

Roles == {"ADMIN", "MEMBER"}
\* session: a refresh token hash is stored; bcrypt reads the first 72 bytes of a
\* token, the same in all of a user's, so any unexpired one matches it.
\* seen: lastActiveAt is set; a row without it is a pending invitation.
User == [role : Roles, isActive : BOOLEAN, seen : BOOLEAN, session : BOOLEAN]
ASSUME NoRowAssumption ==
    NoRow \notin People \cup User \cup [role : Roles, isActive : BOOLEAN]

Ops == {"signIn", "message", "invite", "setActive", "updateRole", "renew"}
Phases == {"idle", "install", "trial", "lookup", "save", "issue"}
\* stale: the row it read has been saved since; miscount: so has that of an
\* administrator it counted.
Idle == [op |-> "signIn", phase |-> "idle", who |-> NoRow, row |-> NoRow,
         found |-> FALSE, stale |-> FALSE, miscount |-> FALSE]

AccountsTypeOK ==
    /\ installed \in BOOLEAN
    /\ trials \in Nat
    /\ users \in [People -> User \cup {NoRow}]
    /\ access \subseteq [user : People, role : Roles, old : BOOLEAN]
    /\ call \in [Calls -> [op : Ops, phase : Phases, who : People \cup {NoRow},
                           row : User \cup {NoRow}, found : BOOLEAN, stale : BOOLEAN,
                           miscount : BOOLEAN]]
    /\ failures \in 0 .. MaxFailures
    /\ decisions \in 0 .. MaxDecisions
    /\ intended \in [People -> [role : Roles, isActive : BOOLEAN] \cup {NoRow}]
    /\ raced \in BOOLEAN
    /\ miscounted \in BOOLEAN
    /\ trialLost \in BOOLEAN
    /\ hadAdmin \in BOOLEAN

AccountsInit ==
    /\ installed = FALSE
    /\ trials = 0
    /\ users = [p \in People |-> NoRow]
    /\ access = {}
    /\ call = [q \in Calls |-> Idle]
    /\ failures = 0
    /\ decisions = 0
    /\ intended = [p \in People |-> NoRow]
    /\ raced = FALSE
    /\ miscounted = FALSE
    /\ trialLost = FALSE
    /\ hadAdmin = FALSE

-----------------------------------------------------------------------------
AdminRow(row) == row.role = "ADMIN" /\ row.isActive
IsAdmin(p) == users[p] # NoRow /\ AdminRow(users[p])

\* RolesGuard: the role is the one in the token.
AsAdmin(p) == \E token \in access : token.user = p /\ token.role = "ADMIN"
SignedIn(p) == \E token \in access : token.user = p

Goes(q, op, phase, p) == call' = [call EXCEPT ![q] = [Idle EXCEPT !.op = op, !.phase = phase, !.who = p]]

\* Everything but the workspace and the request itself stays.
OnlyCall == UNCHANGED <<installed, trials, users, access, failures, decisions, intended, raced, miscounted, trialLost, hadAdmin>>

-----------------------------------------------------------------------------
(* Signing in: handleSlackCallback, up to the user's row.                  *)

\* WorkspacesService.upsertFromSlack finds the row of the team or does not.
SignIn(q, p) ==
    /\ call[q].phase = "idle"
    /\ Cardinality(access) < MaxTokens
    /\ Goes(q, "signIn", IF installed THEN "lookup" ELSE "install", p)
    /\ OnlyCall

\* It was not there: it is inserted, unless another request was faster; the
\* unique slackTeamId then fails the sign-in.
InsertWorkspace(q) ==
    /\ call[q].phase = "install"
    /\ installed' = TRUE
    /\ call' = [call EXCEPT ![q] = IF installed THEN Idle ELSE [@ EXCEPT !.phase = "trial"]]
    /\ UNCHANGED <<trials, users, access, failures, decisions, intended, raced, miscounted, trialLost, hadAdmin>>

\* Fault: the trial is granted to the people the workspace has by then.
GrantTrialToUsers(q, ok) ==
    /\ call[q].phase = "trial"
    /\ call' = [call EXCEPT ![q].phase = "lookup"]
    /\ trials' = IF trials = 0 /\ \E p \in People : users[p] # NoRow THEN 1 ELSE trials
    /\ UNCHANGED <<installed, users, access, failures, decisions, intended, raced, miscounted, trialLost, hadAdmin>>

\* grantOnboardingCredits: unless there is such a grant already.  A failure is
\* logged and the sign-in goes on.
GrantTrial(q, ok) ==
    /\ call[q].phase = "trial"
    /\ call' = [call EXCEPT ![q].phase = "lookup"]
    /\ IF ok THEN /\ trials' = IF trials = 0 THEN 1 ELSE trials
                  /\ UNCHANGED <<failures, trialLost>>
             ELSE /\ failures < MaxFailures /\ failures' = failures + 1
                  /\ trialLost' = TRUE
                  /\ UNCHANGED trials
    /\ UNCHANGED <<installed, users, access, decisions, intended, raced, miscounted, hadAdmin>>

-----------------------------------------------------------------------------
(* The other requests that provision a person.                             *)

\* handleEventCallback: the sender has no row yet.
Message(q, p) ==
    /\ call[q].phase = "idle"
    /\ installed /\ users[p] = NoRow
    /\ Goes(q, "message", "lookup", p)
    /\ OnlyCall

\* inviteOne: not for someone who is active and has shown up.
Invite(q, admin, p) ==
    /\ call[q].phase = "idle"
    /\ AsAdmin(admin)
    /\ users[p] # NoRow => ~(users[p].isActive /\ users[p].seen)
    /\ Goes(q, "invite", "lookup", p)
    /\ OnlyCall

\* Fault: a message makes whoever wrote it a member.
ProvisionedAs(op, p) ==
    IF users[p] # NoRow
    THEN [users[p] EXCEPT !.isActive = TRUE, !.seen = @ \/ op # "invite",
                          !.role = IF op = "message" THEN "MEMBER" ELSE @]
    ELSE [role |-> IF op = "signIn" /\ \A other \in People : users[other] = NoRow
                   THEN "ADMIN" ELSE "MEMBER",
          isActive |-> TRUE, seen |-> op # "invite", session |-> FALSE]

\* upsertFromSlack and provisionInvited: an existing row is reactivated and keeps
\* its role; the first person of a workspace to sign in becomes its ADMIN, and
\* whoever only wrote or was invited never does.
Provisioned(op, p) ==
    IF users[p] # NoRow
    THEN [users[p] EXCEPT !.isActive = TRUE, !.seen = @ \/ op # "invite"]
    ELSE [role |-> IF op = "signIn" /\ \A other \in People : users[other] = NoRow
                   THEN "ADMIN" ELSE "MEMBER",
          isActive |-> TRUE, seen |-> op # "invite", session |-> FALSE]

\* find, and the count of the workspace's users.
FindUser(q) ==
    LET p == call[q].who
    IN  /\ call[q].phase = "lookup"
        /\ call' = [call EXCEPT ![q].phase = "save", ![q].row = Provisioned(call[q].op, p),
                                ![q].found = users[p] # NoRow]
        /\ OnlyCall

-----------------------------------------------------------------------------
(* Administration: setActive and updateRole, find and count.               *)

\* Fault: the administrator in question is counted as well.
AnyAdmin(p) == \E other \in People : IsAdmin(other)

\* The count of other administrators, active ones only, is not zero.
AnotherAdmin(p) == \E other \in People \ {p} : IsAdmin(other)

Decide(q, op, p, row) ==
    /\ decisions < MaxDecisions
    /\ decisions' = decisions + 1
    /\ call' = [call EXCEPT ![q] = [Idle EXCEPT !.op = op, !.phase = "save", !.who = p,
                                                !.row = row, !.found = TRUE]]
    /\ UNCHANGED <<installed, trials, users, access, failures, intended, raced, miscounted, trialLost, hadAdmin>>

SetActive(q, admin, p, active) ==
    /\ call[q].phase = "idle"
    /\ AsAdmin(admin)
    /\ users[p] # NoRow /\ users[p].isActive # active
    /\ ~active => /\ p # admin
                  /\ users[p].role = "ADMIN" => AnotherAdmin(p)
    /\ Decide(q, "setActive", p, [users[p] EXCEPT !.isActive = active])

UpdateRole(q, admin, p, role) ==
    /\ call[q].phase = "idle"
    /\ AsAdmin(admin)
    /\ users[p] # NoRow /\ users[p].role # role
    /\ role = "MEMBER" => AnotherAdmin(p)
    /\ Decide(q, "updateRole", p, [users[p] EXCEPT !.role = role])

\* What the request decides about a person, and leaves as it was.
Decision(q) ==
    LET row == call[q].row
        before == intended[call[q].who]
    IN  CASE ~call[q].found -> [role |-> row.role, isActive |-> TRUE]
          [] call[q].found /\ call[q].op = "updateRole" -> [before EXCEPT !.role = row.role]
          [] call[q].found /\ call[q].op \in {"setActive", "invite"} ->
                [before EXCEPT !.isActive = row.isActive]
          [] OTHER -> before

\* The row saved for p no longer gives p what the token says.
Outdates(row, p, token) == token.user = p /\ (token.role # row.role \/ ~row.isActive)

\* The request is about to take an administrator away, having counted others.
Removes(c) ==
    call[c].phase = "save" /\ call[c].op \in {"setActive", "updateRole"} /\ ~AdminRow(call[c].row)

\* save: the whole row.  An insert fails on the unique (workspaceId, slackUserId)
\* when the row has appeared meanwhile.
SaveUser(q) ==
    LET p == call[q].who
        row == call[q].row
        duplicate == ~call[q].found /\ users[p] # NoRow
        removed == ~duplicate /\ IsAdmin(p) /\ ~AdminRow(row)
    IN  /\ call[q].phase = "save"
        /\ users' = IF duplicate THEN users ELSE [users EXCEPT ![p] = row]
        /\ intended' = IF duplicate THEN intended ELSE [intended EXCEPT ![p] = Decision(q)]
        /\ raced' = (raced \/ (call[q].stale /\ ~duplicate))
        /\ miscounted' = (miscounted \/ (call[q].miscount /\ removed))
        /\ hadAdmin' = (hadAdmin \/ (~duplicate /\ AdminRow(row)))
        /\ access' = IF duplicate THEN access
                     ELSE {[token EXCEPT !.old = @ \/ Outdates(row, p, token)] : token \in access}
        /\ call' = [c \in Calls |->
                IF c = q THEN IF duplicate \/ call[q].op # "signIn" THEN Idle
                              ELSE [call[q] EXCEPT !.phase = "issue", !.stale = FALSE]
                ELSE [call[c] EXCEPT
                        !.stale = @ \/ (~duplicate /\ call[c].who = p
                                           /\ call[c].phase \in {"save", "issue"}),
                        !.miscount = @ \/ (removed /\ Removes(c))]]
        /\ UNCHANGED <<installed, trials, failures, decisions, trialLost>>

-----------------------------------------------------------------------------
(* Sessions: refresh, switchWorkspace, issueTokens, logout.                *)

\* Fault: renewal does not look at isActive.
RenewableEver(p) == users[p] # NoRow /\ (users[p].session \/ SignedIn(p))

\* refresh: there is a hash for the token to match, and the user is active;
\* switchWorkspace: signed in, and the membership is an active one.
Renewable(p) == users[p] # NoRow /\ users[p].isActive /\ (users[p].session \/ SignedIn(p))

Renew(q, p) ==
    /\ call[q].phase = "idle"
    /\ Renewable(p)
    /\ Cardinality(access) < MaxTokens
    /\ call' = [call EXCEPT ![q] = [Idle EXCEPT !.op = "renew", !.phase = "issue", !.who = p,
                                                !.row = users[p], !.found = TRUE]]
    /\ OnlyCall

\* The tokens carry the role that was read; the hash alone is updated.
IssueTokens(q) ==
    LET p == call[q].who
    IN  /\ call[q].phase = "issue"
        /\ access' = access \cup {[user |-> p, role |-> call[q].row.role, old |-> call[q].stale]}
        /\ users' = [users EXCEPT ![p].session = TRUE]
        /\ call' = [call EXCEPT ![q] = Idle]
        /\ UNCHANGED <<installed, trials, failures, decisions, intended, raced, miscounted, trialLost, hadAdmin>>

Logout(p) ==
    /\ SignedIn(p)
    /\ users' = [users EXCEPT ![p].session = FALSE]
    /\ UNCHANGED <<installed, trials, access, call, failures, decisions, intended, raced, miscounted, trialLost, hadAdmin>>

\* jwt.expiresIn, or the browser forgets the token.
ExpireToken(token) ==
    /\ access' = access \ {token}
    /\ UNCHANGED <<installed, trials, users, call, failures, decisions, intended, raced, miscounted, trialLost, hadAdmin>>

\* A request dies, or one of the calls it awaits throws.
FailCall(q) ==
    /\ call[q].phase # "idle"
    /\ failures < MaxFailures
    /\ failures' = failures + 1
    /\ trialLost' = (trialLost \/ call[q].phase = "trial")
    /\ call' = [call EXCEPT ![q] = Idle]
    /\ UNCHANGED <<installed, trials, users, access, decisions, intended, raced, miscounted, hadAdmin>>

AccountsNext ==
    \/ \E q \in Calls, p \in People : SignIn(q, p) \/ Message(q, p) \/ Renew(q, p)
    \/ \E q \in Calls :
        \/ InsertWorkspace(q) \/ FindUser(q) \/ SaveUser(q) \/ IssueTokens(q) \/ FailCall(q)
        \/ \E ok \in BOOLEAN : GrantTrial(q, ok)
    \/ \E q \in Calls, admin, p \in People :
        \/ Invite(q, admin, p)
        \/ \E active \in BOOLEAN : SetActive(q, admin, p, active)
        \/ \E role \in Roles : UpdateRole(q, admin, p, role)
    \/ \E p \in People : Logout(p)
    \/ \E token \in access : ExpireToken(token)

AccountsSpec == AccountsInit /\ [][AccountsNext]_accountVars

-----------------------------------------------------------------------------
(* Properties.                                                             *)

\* "A workspace can never lock itself out": from its first administrator on,
\* it always has an active one, whoever is demoted, deactivated, invited or
\* signs in (setActive, updateRole, upsertFromSlack).
NeverLockedOut == hadAdmin => \E p \in People : IsAdmin(p)

\* It does not, and this is what it takes: two administrators are taken away by
\* requests that each counted the other one, or a row is saved over another save
\* of the same row.  The guards of setActive and updateRole rule out the rest.
LockOutNeedsOverlap == (~raced /\ ~miscounted) => NeverLockedOut

\* What was last decided about a person is what the table says, unless a row was
\* saved over another save of it: signing in, writing to the bot or being invited
\* again never changes a role, none of them switches off whom an administrator
\* left on or invited back, and a person is in the table from the first of them
\* on.  A member who was switched off is another matter: whoever signs in is
\* switched on again (upsertFromSlack), so nothing is said of isActive then.
DecisionsStand ==
    ~raced => \A p \in People :
        /\ users[p] = NoRow <=> intended[p] = NoRow
        /\ users[p] # NoRow => /\ users[p].role = intended[p].role
                               /\ intended[p].isActive => users[p].isActive

\* "A deactivated member is locked out at their next renewal", and a demoted
\* administrator becomes a member then: a token whose holder has been decided
\* upon since is old, no renewal from the table as it stands makes it young
\* again, and every other one says what the table says (issueTokens, refresh).
AuthorityEnds ==
    \A token \in access : ~token.old =>
        /\ users[token.user] # NoRow /\ users[token.user].isActive
        /\ users[token.user].role = token.role

\* Every installed workspace gets its trial, once, however many people install
\* it at the same time, unless the grant itself failed (upsertFromSlack).
TrialOnce ==
    trials = IF installed /\ ~trialLost /\ \A q \in Calls : call[q].phase # "trial"
             THEN 1 ELSE 0

=============================================================================
