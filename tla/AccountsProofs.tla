--------------------------- MODULE AccountsProofs ---------------------------
(***************************************************************************)
(* What holds of the people of a workspace, for any number of them and of  *)
(* overlapping requests: its trial is granted once, authority ends with    *)
(* the row that gave it, decisions stand until a row is saved over another *)
(* save of it, and the workspace is locked out by such a save only or by   *)
(* two administrators who take each other away.                            *)
(*                                                                         *)
(* None of them is inductive.  What carries them is what a request with a  *)
(* row in memory knows of the table: a request about to save a row nobody  *)
(* has saved since it was read changes either the role or the activity of  *)
(* that row, and if it takes an administrator away there is another one,   *)
(* or one it counted has gone and it is marked for that (SaverKnows); one  *)
(* about to issue tokens has just read or saved the row it issues them     *)
(* from (IssuerKnows).                                                     *)
(***************************************************************************)
EXTENDS Accounts, TLAPS

Request == [op : Ops, phase : Phases, who : People \cup {NoRow}, row : User \cup {NoRow},
            found : BOOLEAN, stale : BOOLEAN, miscount : BOOLEAN]

Granting(q) == call[q].phase = "trial"

(* A request c that is under way is about someone, the row it is to save or to
   issue tokens from is one, and what was found stays: rows are never deleted. *)
HasRows(c) ==
    /\ c.phase # "idle" => c.who \in People
    /\ c.phase \in {"save", "issue"} => c.row \in User
    /\ (c.phase = "save" /\ c.found) \/ c.phase = "issue" => users[c.who] # NoRow

(* Provisioning always activates, and an administrator's decision starts from a
   row that was found. *)
Activates(c) ==
    LET decides == c.op \in {"setActive", "updateRole"}
    IN  /\ c.phase \in {"install", "trial", "lookup"} => ~decides
        /\ c.phase = "save" => IF decides THEN c.found ELSE c.row.isActive

SaverKnows(c) ==
    LET decides == c.op \in {"setActive", "updateRole"}
    IN  (c.phase = "save" /\ ~c.stale) =>
            /\ ~c.found => users[c.who] = NoRow
            /\ c.found => IF c.op = "updateRole" THEN c.row.isActive = users[c.who].isActive
                                                 ELSE c.row.role = users[c.who].role
            /\ IsAdmin(c.who) => \/ AdminRow(c.row)
                                 \/ decides /\ (AnotherAdmin(c.who) \/ c.miscount)

IssuerKnows(c) ==
    (c.phase = "issue" /\ ~c.stale) =>
        users[c.who].isActive /\ users[c.who].role = c.row.role

Sound(c) == HasRows(c) /\ Activates(c) /\ SaverKnows(c) /\ IssuerKnows(c)

RequestsAreSound == \A q \in Calls : Sound(call[q])

(* Whoever has a token has a row. *)
HoldersHaveRows == \A token \in access : users[token.user] # NoRow

(* Something was decided of exactly those who have a row. *)
RowsAreIntended == \A p \in People : users[p] = NoRow <=> intended[p] = NoRow

(* The trial belongs to the one request that inserted the workspace. *)
OneGrantsTrial ==
    /\ \A q, r \in Calls : Granting(q) /\ Granting(r) => q = r
    /\ (trialLost \/ \E q \in Calls : Granting(q)) => installed
    /\ trialLost => \A q \in Calls : ~Granting(q)

AccountsInv ==
    /\ AccountsTypeOK
    /\ RequestsAreSound
    /\ HoldersHaveRows
    /\ RowsAreIntended
    /\ OneGrantsTrial
    /\ LockOutNeedsOverlap
    /\ DecisionsStand
    /\ AuthorityEnds
    /\ TrialOnce

----------------------------------------------------------------------------
LEMMA InitAccountsInv == AccountsInit => AccountsInv
<1> SUFFICES ASSUME AccountsInit PROVE AccountsInv
    OBVIOUS
<1>1. Idle \in Request /\ Idle.phase = "idle"
  BY DEF Idle, Request, Ops, Phases
<1>2. \A q \in Calls : call[q] = Idle
  BY DEF AccountsInit
<1> HIDE DEF Idle
<1>3. AccountsTypeOK
  <2>1. MaxFailures \in Nat /\ MaxDecisions \in Nat
    BY AccountsAssumption
  <2>2. call \in [Calls -> Request]
    BY <1>1 DEF AccountsInit
  <2>3. /\ users \in [People -> User \cup {NoRow}]
        /\ intended \in [People -> [role : Roles, isActive : BOOLEAN] \cup {NoRow}]
    BY DEF AccountsInit
  <2>4. trials \in Nat /\ failures \in 0 .. MaxFailures /\ decisions \in 0 .. MaxDecisions
    BY <2>1 DEF AccountsInit
  <2>5. /\ access \subseteq [user : People, role : Roles, old : BOOLEAN]
        /\ installed \in BOOLEAN /\ raced \in BOOLEAN /\ miscounted \in BOOLEAN
        /\ trialLost \in BOOLEAN
        /\ hadAdmin \in BOOLEAN
    BY DEF AccountsInit
  <2> QED  BY <2>2, <2>3, <2>4, <2>5 DEF AccountsTypeOK, Request
<1>4. RequestsAreSound /\ OneGrantsTrial /\ TrialOnce
  BY <1>1, <1>2 DEF AccountsInit, RequestsAreSound, Sound, HasRows, Activates, SaverKnows,
                    IssuerKnows, OneGrantsTrial, Granting, TrialOnce
<1> QED
  BY <1>3, <1>4 DEF AccountsInit, AccountsInv, HoldersHaveRows, RowsAreIntended, LockOutNeedsOverlap, NeverLockedOut,
                    DecisionsStand, AuthorityEnds

(* A request that reads, decides, dies or is answered: the tables stay. *)
LEMMA MoveAccountsInv ==
    ASSUME AccountsInv, NEW q \in Calls, NEW to \in Request,
           call' = [call EXCEPT ![q] = to],
           UNCHANGED <<installed, trials, users, access, intended, raced, miscounted, trialLost, hadAdmin>>,
           failures' \in 0 .. MaxFailures, decisions' \in 0 .. MaxDecisions,
           ~Granting(q), to.phase # "trial", Sound(to)
    PROVE  AccountsInv'
<1> USE DEF AccountsInv
<1>1. /\ call \in [Calls -> Request]
      /\ call'[q] = to /\ \A r \in Calls : r # q => call'[r] = call[r]
      /\ call' \in [Calls -> Request]
  BY DEF AccountsTypeOK, Request
<1>2. AccountsTypeOK'
  BY <1>1 DEF AccountsTypeOK, Request
<1>3. \A r \in Calls : Granting(r)' <=> Granting(r)
  BY <1>1 DEF Granting
<1>4. OneGrantsTrial' /\ TrialOnce'
  BY <1>1, <1>3 DEF OneGrantsTrial, TrialOnce, Granting
<1>5. RequestsAreSound'
  BY <1>1 DEF RequestsAreSound, Sound, HasRows, Activates, SaverKnows, IssuerKnows, IsAdmin,
              AdminRow, AnotherAdmin
<1>6. HoldersHaveRows' /\ RowsAreIntended' /\ LockOutNeedsOverlap' /\ DecisionsStand' /\ AuthorityEnds'
  BY DEF HoldersHaveRows, RowsAreIntended, LockOutNeedsOverlap, NeverLockedOut, DecisionsStand, AuthorityEnds,
              IsAdmin, AdminRow
<1> QED  BY <1>2, <1>4, <1>5, <1>6

(* The requests that only read before they save or issue. *)
LEMMA BeginAccountsInv ==
    ASSUME AccountsInv, NEW q \in Calls, NEW p \in People, NEW admin \in People,
           NEW active \in BOOLEAN, NEW role \in Roles,
           \/ SignIn(q, p) \/ Message(q, p) \/ Renew(q, p) \/ Invite(q, admin, p)
           \/ SetActive(q, admin, p, active) \/ UpdateRole(q, admin, p, role)
    PROVE  AccountsInv'
<1> USE DEF AccountsInv
<1>1. /\ Idle \in Request /\ Idle.phase = "idle" /\ ~Idle.stale /\ p # NoRow
      /\ users \in [People -> User \cup {NoRow}]
      /\ failures \in 0 .. MaxFailures /\ decisions \in 0 .. MaxDecisions
      /\ MaxDecisions \in Nat
  BY NoRowAssumption, AccountsAssumption DEF Idle, Request, Ops, Phases, AccountsTypeOK
<1>2. CASE SignIn(q, p) \/ Message(q, p) \/ Invite(q, admin, p)
  <2>1. PICK op \in {"signIn", "message", "invite"}, phase \in {"install", "lookup"} : Goes(q, op, phase, p)
    BY <1>2 DEF SignIn, Message, Invite
  <2> DEFINE to == [Idle EXCEPT !.op = op, !.phase = phase, !.who = p]
  <2>2. to \in Request /\ to.phase = phase /\ to.who = p /\ to.op = op
    BY <1>1 DEF Request, Phases, Ops
  <2>3. call' = [call EXCEPT ![q] = to] /\ ~Granting(q) /\ OnlyCall
    BY <1>2, <2>1 DEF Goes, Granting, SignIn, Message, Invite
  <2> HIDE DEF to
  <2>4. Sound(to)
    BY <2>2 DEF Sound, HasRows, Activates, SaverKnows, IssuerKnows
  <2> QED  BY <1>1, <2>2, <2>3, <2>4, MoveAccountsInv DEF OnlyCall
<1>3. CASE Renew(q, p)
  <2> DEFINE to == [Idle EXCEPT !.op = "renew", !.phase = "issue", !.who = p,
                                !.row = users[p], !.found = TRUE]
  <2>1. to \in Request /\ to.phase = "issue" /\ to.who = p /\ to.row = users[p]
    BY <1>1 DEF Request, Phases, Ops
  <2>2. call' = [call EXCEPT ![q] = to] /\ ~Granting(q) /\ OnlyCall /\ Renewable(p)
    BY <1>3 DEF Renew, Granting
  <2> HIDE DEF to
  <2>3. Sound(to)
    BY <1>1, <2>1, <2>2 DEF Sound, HasRows, Activates, SaverKnows, IssuerKnows, Renewable
  <2> QED  BY <1>1, <2>1, <2>2, <2>3, MoveAccountsInv DEF OnlyCall
<1>4. CASE SetActive(q, admin, p, active)
  <2> DEFINE row == [users[p] EXCEPT !.isActive = active]
             to == [Idle EXCEPT !.op = "setActive", !.phase = "save", !.who = p,
                                !.row = row, !.found = TRUE]
  <2>1. /\ call' = [call EXCEPT ![q] = to] /\ ~Granting(q) /\ users[p] \in User
        /\ users[p] # NoRow
        /\ UNCHANGED <<installed, trials, users, access, intended, raced, miscounted, trialLost, hadAdmin>>
        /\ failures' \in 0 .. MaxFailures /\ decisions' \in 0 .. MaxDecisions
        /\ ~active => (users[p].role = "ADMIN" => AnotherAdmin(p))
    BY <1>1, <1>4 DEF SetActive, Decide, Granting
  <2>2. row \in User /\ row.isActive = active /\ row.role = users[p].role
    BY <2>1 DEF User
  <2> HIDE DEF row
  <2>3. /\ to \in Request /\ to.phase = "save" /\ to.who = p /\ to.row = row
        /\ to.found /\ to.op = "setActive" /\ ~to.stale
    BY <1>1, <2>2 DEF Request, Phases, Ops
  <2> HIDE DEF to
  <2>4. Sound(to)
    BY <2>1, <2>2, <2>3 DEF Sound, HasRows, Activates, SaverKnows, IssuerKnows, IsAdmin, AdminRow
  <2> QED  BY <2>1, <2>3, <2>4, MoveAccountsInv
<1>5. CASE UpdateRole(q, admin, p, role)
  <2> DEFINE row == [users[p] EXCEPT !.role = role]
             to == [Idle EXCEPT !.op = "updateRole", !.phase = "save", !.who = p,
                                !.row = row, !.found = TRUE]
  <2>1. /\ call' = [call EXCEPT ![q] = to] /\ ~Granting(q) /\ users[p] \in User
        /\ users[p] # NoRow
        /\ UNCHANGED <<installed, trials, users, access, intended, raced, miscounted, trialLost, hadAdmin>>
        /\ failures' \in 0 .. MaxFailures /\ decisions' \in 0 .. MaxDecisions
        /\ role = "MEMBER" => AnotherAdmin(p)
    BY <1>1, <1>5 DEF UpdateRole, Decide, Granting
  <2>2. row \in User /\ row.role = role /\ row.isActive = users[p].isActive
    BY <2>1 DEF User
  <2> HIDE DEF row
  <2>3. /\ to \in Request /\ to.phase = "save" /\ to.who = p /\ to.row = row
        /\ to.found /\ to.op = "updateRole" /\ ~to.stale
    BY <1>1, <2>2 DEF Request, Phases, Ops
  <2> HIDE DEF to
  <2>4. Sound(to)
    BY <2>1, <2>2, <2>3 DEF Sound, HasRows, Activates, SaverKnows, IssuerKnows, IsAdmin, AdminRow, Roles
  <2> QED  BY <2>1, <2>3, <2>4, MoveAccountsInv
<1> QED  BY <1>2, <1>3, <1>4, <1>5

(* The row to be saved: provisioning never takes a role or an activity away. *)
LEMMA FindAccountsInv ==
    ASSUME AccountsInv, NEW q \in Calls, FindUser(q)
    PROVE  AccountsInv'
<1> USE DEF AccountsInv
<1> DEFINE p == call[q].who
           row == Provisioned(call[q].op, p)
           to == [call[q] EXCEPT !.phase = "save", !.row = row, !.found = users[p] # NoRow]
<1>1. /\ call[q] \in Request /\ call[q].phase = "lookup" /\ p \in People
      /\ users[p] \in User \cup {NoRow}
      /\ failures \in 0 .. MaxFailures /\ decisions \in 0 .. MaxDecisions
  BY DEF FindUser, AccountsTypeOK, Request, RequestsAreSound, Sound, HasRows
<1>2. /\ row \in User /\ row.isActive
      /\ users[p] # NoRow => row.role = users[p].role
  BY <1>1 DEF Provisioned, User, Roles
<1>3. ~Granting(q) /\ OnlyCall /\ call' = [call EXCEPT ![q] = to]
  BY <1>1 DEF FindUser, Granting
<1> HIDE DEF row
<1>4. /\ to \in Request /\ to.phase = "save" /\ to.row = row /\ to.who = p
      /\ to.found = (users[p] # NoRow) /\ to.op = call[q].op
  BY <1>1, <1>2 DEF Request, Phases
<1> HIDE DEF to
<1>5. to.op \notin {"setActive", "updateRole"}
  BY <1>1, <1>4 DEF RequestsAreSound, Sound, Activates
<1>6. Sound(to)
  BY <1>1, <1>2, <1>4, <1>5 DEF Sound, HasRows, Activates, SaverKnows, IssuerKnows, IsAdmin, AdminRow
<1> QED  BY <1>3, <1>4, <1>6, <1>1, MoveAccountsInv DEF OnlyCall

(* The workspace row, and the grant that follows it in the request that
   inserted it. *)
LEMMA TrialAccountsInv ==
    ASSUME AccountsInv, NEW q \in Calls, NEW ok \in BOOLEAN,
           InsertWorkspace(q) \/ GrantTrial(q, ok)
    PROVE  AccountsInv'
<1> USE DEF AccountsInv
<1>1. /\ call \in [Calls -> Request] /\ failures \in 0 .. MaxFailures /\ MaxFailures \in Nat
      /\ Idle \in Request /\ Idle.phase = "idle"
  BY AccountsAssumption DEF AccountsTypeOK, Request, Idle, Ops, Phases
<1>2. PICK to \in Request : /\ call' = [call EXCEPT ![q] = to]
                            /\ \/ to = Idle
                               \/ to = [call[q] EXCEPT !.phase = "trial"]
                               \/ to = [call[q] EXCEPT !.phase = "lookup"]
                            /\ to.phase = "trial" <=> InsertWorkspace(q) /\ ~installed
  <2>1. CASE InsertWorkspace(q)
    <3> DEFINE to == IF installed THEN Idle ELSE [call[q] EXCEPT !.phase = "trial"]
    <3>1. to \in Request /\ (to.phase = "trial" <=> ~installed)
      BY <1>1 DEF Request, Phases
    <3> QED  BY <2>1, <3>1 DEF InsertWorkspace
  <2>2. CASE GrantTrial(q, ok)
    <3> DEFINE to == [call[q] EXCEPT !.phase = "lookup"]
    <3>1. to \in Request /\ to.phase = "lookup" /\ call[q].phase = "trial"
      BY <1>1, <2>2 DEF Request, Phases, GrantTrial
    <3>2. call' = [call EXCEPT ![q] = to] /\ ~InsertWorkspace(q)
      BY <2>2, <3>1 DEF GrantTrial, InsertWorkspace
    <3> QED  BY <3>1, <3>2
  <2> QED  BY <2>1, <2>2
<1>3. /\ UNCHANGED <<users, access, decisions, intended, raced, miscounted, hadAdmin>>
      /\ installed' \in BOOLEAN /\ trials' \in Nat /\ failures' \in 0 .. MaxFailures
      /\ trialLost' \in BOOLEAN
  <2>1. installed \in BOOLEAN /\ trials \in Nat /\ trialLost \in BOOLEAN
    BY DEF AccountsTypeOK
  <2>2. CASE InsertWorkspace(q)
    BY <1>1, <2>1, <2>2 DEF InsertWorkspace
  <2>3. CASE GrantTrial(q, ok)
    <3>1. /\ UNCHANGED <<users, access, decisions, intended, raced, miscounted, hadAdmin, installed>>
          /\ trials' = 1 \/ trials' = trials
          /\ trialLost' = TRUE \/ trialLost' = trialLost
          /\ failures' = failures \/ (failures < MaxFailures /\ failures' = failures + 1)
      BY <2>3 DEF GrantTrial
    <3>2. failures' \in 0 .. MaxFailures /\ trials' \in Nat
      BY <1>1, <2>1, <3>1
    <3> QED  BY <2>1, <3>1, <3>2
  <2> QED  BY <2>2, <2>3
<1>4. /\ call'[q] = to /\ \A r \in Calls : r # q => call'[r] = call[r]
      /\ call' \in [Calls -> Request]
  BY <1>1, <1>2
<1>5. AccountsTypeOK'
  BY <1>3, <1>4 DEF AccountsTypeOK, Request
<1>6. Sound(to)
  <2>1. CASE to = Idle
    BY <2>1, <1>1 DEF Sound, HasRows, Activates, SaverKnows, IssuerKnows
  <2>2. CASE to # Idle
    <3>1. /\ to.phase \in {"trial", "lookup"} /\ to.who = call[q].who /\ to.op = call[q].op
          /\ call[q].phase \in {"install", "trial"}
      BY <2>2, <1>1, <1>2 DEF InsertWorkspace, GrantTrial, Request
    <3> QED  BY <3>1 DEF RequestsAreSound, Sound, HasRows, Activates, SaverKnows, IssuerKnows
  <2> QED  BY <2>1, <2>2
<1>7. RequestsAreSound'
  BY <1>3, <1>4, <1>6 DEF RequestsAreSound, Sound, HasRows, Activates, SaverKnows, IssuerKnows,
              IsAdmin, AdminRow, AnotherAdmin
<1>8. HoldersHaveRows' /\ RowsAreIntended' /\ LockOutNeedsOverlap' /\ DecisionsStand' /\ AuthorityEnds'
  BY <1>3 DEF HoldersHaveRows, RowsAreIntended, LockOutNeedsOverlap, NeverLockedOut, DecisionsStand, AuthorityEnds,
              IsAdmin, AdminRow
<1>9. OneGrantsTrial' /\ TrialOnce'
  <2>1. \A r \in Calls : Granting(r)' <=> IF r = q THEN to.phase = "trial" ELSE Granting(r)
    BY <1>4 DEF Granting
  <2>2. CASE InsertWorkspace(q)
    <3>1. installed' = TRUE /\ UNCHANGED <<trials, trialLost>> /\ ~Granting(q)
      BY <2>2 DEF InsertWorkspace, Granting
    <3> QED  BY <1>2, <2>1, <2>2, <3>1 DEF OneGrantsTrial, TrialOnce, Granting
  <2>3. CASE GrantTrial(q, ok)
    <3>1. Granting(q) /\ ~trialLost /\ trials = 0 /\ installed /\ installed' = installed
      BY <2>3 DEF GrantTrial, OneGrantsTrial, TrialOnce, Granting
    <3>2. to.phase # "trial"
      BY <1>2, <2>3 DEF GrantTrial, InsertWorkspace
    <3>3. \A r \in Calls : ~Granting(r)'
      BY <2>1, <3>1, <3>2 DEF OneGrantsTrial
    <3>4. \/ trials' = 1 /\ ~trialLost'
          \/ trials' = 0 /\ trialLost'
      BY <2>3, <3>1 DEF GrantTrial
    <3> QED  BY <3>1, <3>3, <3>4 DEF OneGrantsTrial, TrialOnce, Granting
  <2> QED  BY <2>2, <2>3
<1> QED  BY <1>5, <1>7, <1>8, <1>9

(* A request dies; if it was to grant the trial, the trial is lost. *)
LEMMA FailAccountsInv ==
    ASSUME AccountsInv, NEW q \in Calls, FailCall(q)
    PROVE  AccountsInv'
<1> USE DEF AccountsInv
<1>1. /\ call \in [Calls -> Request] /\ failures \in 0 .. MaxFailures /\ MaxFailures \in Nat
      /\ Idle \in Request /\ Idle.phase = "idle" /\ decisions \in 0 .. MaxDecisions
      /\ Sound(Idle)
  BY AccountsAssumption DEF AccountsTypeOK, Request, Idle, Ops, Phases,
     Sound, HasRows, Activates, SaverKnows, IssuerKnows
<1>2. /\ call' = [call EXCEPT ![q] = Idle] /\ failures' \in 0 .. MaxFailures
      /\ UNCHANGED <<installed, trials, users, access, decisions, intended, raced, miscounted, hadAdmin>>
      /\ trialLost' = (trialLost \/ Granting(q))
  BY <1>1 DEF FailCall, Granting
<1> HIDE DEF Idle
<1>3. CASE ~Granting(q)
  <2>1. trialLost' = trialLost
    BY <1>2, <1>3 DEF AccountsTypeOK
  <2> QED  BY <1>1, <1>2, <1>3, <2>1, MoveAccountsInv
<1>4. CASE Granting(q)
  <2>1. /\ call'[q] = Idle /\ \A r \in Calls : r # q => call'[r] = call[r]
        /\ call' \in [Calls -> Request] /\ trialLost' = TRUE
    BY <1>1, <1>2, <1>4
  <2>2. AccountsTypeOK'
    BY <1>2, <2>1 DEF AccountsTypeOK, Request
  <2>3. RequestsAreSound'
    BY <1>1, <1>2, <2>1 DEF RequestsAreSound, Sound, HasRows, Activates, SaverKnows, IssuerKnows,
                IsAdmin, AdminRow, AnotherAdmin
  <2>4. HoldersHaveRows' /\ RowsAreIntended' /\ LockOutNeedsOverlap' /\ DecisionsStand' /\ AuthorityEnds'
    BY <1>2 DEF HoldersHaveRows, RowsAreIntended, LockOutNeedsOverlap, NeverLockedOut, DecisionsStand, AuthorityEnds,
              IsAdmin, AdminRow
  <2>5. \A r \in Calls : ~Granting(r)'
    BY <1>1, <1>4, <2>1 DEF OneGrantsTrial, Granting
  <2>6. trials = 0 /\ installed
    BY <1>4 DEF OneGrantsTrial, TrialOnce, Granting
  <2>7. OneGrantsTrial' /\ TrialOnce'
    BY <1>2, <2>1, <2>5, <2>6 DEF OneGrantsTrial, TrialOnce, Granting
  <2> QED  BY <2>2, <2>3, <2>4, <2>7
<1> QED  BY <1>3, <1>4

(* Sessions come and go: whoever gets a token could be issued it, and the rows
   keep their roles and activity. *)
LEMMA SessionAccountsInv ==
    ASSUME AccountsInv,
           \/ \E q \in Calls : IssueTokens(q)
           \/ \E p \in People : Logout(p)
           \/ \E token \in access : ExpireToken(token)
    PROVE  AccountsInv'
<1> USE DEF AccountsInv
<1>1. /\ call \in [Calls -> Request] /\ users \in [People -> User \cup {NoRow}]
      /\ access \subseteq [user : People, role : Roles, old : BOOLEAN]
      /\ Idle \in Request /\ Idle.phase = "idle"
  BY DEF AccountsTypeOK, Request, Idle, Ops, Phases
<1>2. Sound(Idle)'
  BY <1>1 DEF Sound, HasRows, Activates, SaverKnows, IssuerKnows
<1> HIDE DEF Idle
<1>3. /\ UNCHANGED <<installed, trials, failures, decisions, intended, raced, miscounted, trialLost, hadAdmin>>
      /\ call' \in [Calls -> Request]
      /\ \A r \in Calls : call'[r] = call[r] \/ (call'[r] = Idle /\ ~Granting(r))
  BY <1>1 DEF IssueTokens, Logout, ExpireToken, Granting
<1>4. /\ users' \in [People -> User \cup {NoRow}]
      /\ \A u \in People : \/ users'[u] = users[u]
                           \/ /\ users[u] \in User /\ users'[u] \in User
                              /\ users'[u].role = users[u].role
                              /\ users'[u].isActive = users[u].isActive
  <2>1. ASSUME NEW u \in People, NEW session \in BOOLEAN, users[u] # NoRow,
               users' = [users EXCEPT ![u].session = session]
        PROVE  /\ users' \in [People -> User \cup {NoRow}]
               /\ \A v \in People : \/ users'[v] = users[v]
                                    \/ /\ users[v] \in User /\ users'[v] \in User
                                       /\ users'[v].role = users[v].role
                                       /\ users'[v].isActive = users[v].isActive
    <3>1. users[u] \in User /\ users' = [users EXCEPT ![u] = [users[u] EXCEPT !.session = session]]
      BY <1>1, <2>1
    <3> DEFINE row == [users[u] EXCEPT !.session = session]
    <3>2. row \in User /\ row.role = users[u].role /\ row.isActive = users[u].isActive
      BY <3>1 DEF User
    <3> HIDE DEF row
    <3>3. users' = [users EXCEPT ![u] = row]
      BY <3>1 DEF row
    <3> QED  BY <1>1, <3>1, <3>2, <3>3
  <2>2. CASE \E q \in Calls : IssueTokens(q)
    <3>0. PICK q \in Calls : IssueTokens(q)
      BY <2>2
    <3>1. call[q].who \in People /\ users[call[q].who] # NoRow
      BY <3>0 DEF IssueTokens, RequestsAreSound, Sound, HasRows
    <3> QED  BY <2>1, <3>0, <3>1 DEF IssueTokens
  <2>3. CASE \E p \in People : Logout(p)
    <3>0. PICK p \in People : Logout(p)
      BY <2>3
    <3>1. users[p] # NoRow
      BY <3>0 DEF Logout, SignedIn, HoldersHaveRows
    <3> QED  BY <2>1, <3>0, <3>1 DEF Logout
  <2>4. CASE \E token \in access : ExpireToken(token)
    BY <1>1, <2>4 DEF ExpireToken
  <2> QED  BY <2>2, <2>3, <2>4
<1>5. \A u \in People : users'[u] = NoRow <=> users[u] = NoRow
  BY <1>4, NoRowAssumption
<1>6. /\ access' \subseteq [user : People, role : Roles, old : BOOLEAN]
      /\ \A t \in access' : \/ t \in access
                           \/ /\ users[t.user] # NoRow
                              /\ ~t.old => users[t.user].isActive /\ users[t.user].role = t.role
  <2>1. CASE \E q \in Calls : IssueTokens(q)
    <3>0. PICK q \in Calls : IssueTokens(q)
      BY <2>1
    <3> DEFINE t == [user |-> call[q].who, role |-> call[q].row.role, old |-> call[q].stale]
    <3>1. /\ call[q].phase = "issue" /\ call[q] \in Request /\ Sound(call[q])
          /\ access' = access \cup {t}
      BY <1>1, <3>0 DEF IssueTokens, RequestsAreSound
    <3>2. /\ call[q].who \in People /\ call[q].row \in User /\ users[call[q].who] # NoRow
          /\ ~call[q].stale => users[call[q].who].isActive
                               /\ users[call[q].who].role = call[q].row.role
          /\ call[q].stale \in BOOLEAN
      BY <3>1 DEF Sound, HasRows, IssuerKnows, Request
    <3>3. /\ t \in [user : People, role : Roles, old : BOOLEAN]
          /\ t.user = call[q].who /\ t.role = call[q].row.role /\ t.old = call[q].stale
      BY <3>2 DEF User
    <3> HIDE DEF t
    <3> QED  BY <1>1, <3>1, <3>2, <3>3
  <2>2. CASE \/ \E p \in People : Logout(p)
             \/ \E token \in access : ExpireToken(token)
    BY <1>1, <2>2 DEF Logout, ExpireToken
  <2> QED  BY <2>1, <2>2
<1>7. AccountsTypeOK'
  BY <1>3, <1>4, <1>6 DEF AccountsTypeOK, Request
<1>8. \A r \in Calls : Sound(call[r])'
  <2> TAKE r \in Calls
  <2>1. CASE call'[r] = Idle
    BY <1>2, <2>1 DEF Sound, HasRows, Activates, SaverKnows, IssuerKnows, IsAdmin, AnotherAdmin
  <2>2. CASE call'[r] = call[r]
    <3>1. \A u \in People : IsAdmin(u)' <=> IsAdmin(u)
      BY <1>4, <1>5 DEF IsAdmin, AdminRow
    <3>2. \A u \in People : AnotherAdmin(u)' <=> AnotherAdmin(u)
      BY <3>1 DEF AnotherAdmin
    <3>3. Sound(call[r])
      BY DEF RequestsAreSound
    <3>4. HasRows(call[r])' /\ Activates(call[r])'
      BY <1>5, <2>2, <3>3 DEF Sound, HasRows, Activates
    <3>5. SaverKnows(call[r])'
      <4>1. SUFFICES ASSUME call[r].phase = "save", ~call[r].stale
                     PROVE  SaverKnows(call[r])'
        BY <2>2 DEF SaverKnows
      <4>2. call[r].who \in People
        BY <3>3, <4>1 DEF Sound, HasRows
      <4>3. IsAdmin(call[r].who)' <=> IsAdmin(call[r].who)
        BY <2>2, <3>1, <4>2 DEF IsAdmin, AdminRow
      <4>4. AnotherAdmin(call[r].who)' <=> AnotherAdmin(call[r].who)
        BY <2>2, <3>1, <4>2 DEF AnotherAdmin, IsAdmin, AdminRow
      <4>5. /\ users'[call[r].who] = NoRow <=> users[call[r].who] = NoRow
            /\ users[call[r].who] # NoRow =>
                  /\ users'[call[r].who].role = users[call[r].who].role
                  /\ users'[call[r].who].isActive = users[call[r].who].isActive
        BY <1>4, <1>5, <4>2
      <4>6. call[r].found => users[call[r].who] # NoRow
        BY <3>3, <4>1 DEF Sound, HasRows
      <4> QED  BY <2>2, <3>3, <4>1, <4>3, <4>4, <4>5, <4>6 DEF Sound, SaverKnows, AdminRow
    <3>6. IssuerKnows(call[r])'
      BY <1>4, <2>2, <3>3 DEF Sound, HasRows, IssuerKnows
    <3> QED  BY <3>4, <3>5, <3>6 DEF Sound
  <2> QED  BY <1>3, <2>1, <2>2
<1>9. HoldersHaveRows' /\ AuthorityEnds'
  BY <1>1, <1>4, <1>5, <1>6 DEF HoldersHaveRows, AuthorityEnds
<1>10. LockOutNeedsOverlap' /\ DecisionsStand' /\ RowsAreIntended'
  BY <1>3, <1>4, <1>5 DEF LockOutNeedsOverlap, NeverLockedOut, DecisionsStand, RowsAreIntended, IsAdmin,
                  AdminRow
<1>11. OneGrantsTrial' /\ TrialOnce'
  <2>1. \A r \in Calls : Granting(r)' <=> Granting(r)
    BY <1>1, <1>3 DEF Granting
  <2> QED  BY <1>3, <2>1 DEF OneGrantsTrial, TrialOnce, Granting
<1> QED  BY <1>7, <1>8, <1>9, <1>10, <1>11 DEF RequestsAreSound

(* What is decided of a person has a role and an activity, and until a save is
   stale the role is that of the row that is saved, which is an active one if
   that is what was decided. *)
LEMMA DecisionIsRow ==
    ASSUME AccountsInv, NEW q \in Calls, call[q].phase = "save",
           call[q].found \/ users[call[q].who] = NoRow
    PROVE  /\ Decision(q) \in [role : Roles, isActive : BOOLEAN]
           /\ (~raced /\ ~call[q].stale) => /\ Decision(q).role = call[q].row.role
                                            /\ Decision(q).isActive => call[q].row.isActive
<1> USE DEF AccountsInv
<1> DEFINE p == call[q].who
           row == call[q].row
           before == intended[p]
<1>1. /\ p \in People /\ row \in User /\ Sound(call[q])
      /\ before \in [role : Roles, isActive : BOOLEAN] \cup {NoRow}
  BY DEF RequestsAreSound, Sound, HasRows, AccountsTypeOK
<1>2. CASE ~call[q].found
  <2>1. row.isActive = TRUE /\ call[q].op # "updateRole"
    BY <1>1, <1>2 DEF Sound, Activates, User
  <2>2. Decision(q) = [role |-> row.role, isActive |-> TRUE]
    BY <1>2, <2>1 DEF Decision
  <2>3. row.role \in Roles
    BY <1>1 DEF User
  <2>4. Decision(q) \in [role : Roles, isActive : BOOLEAN]
    BY <2>2, <2>3
  <2>5. Decision(q).role = row.role /\ Decision(q).isActive = TRUE
    BY <2>2
  <2> QED  BY <2>1, <2>4, <2>5
<1>3. CASE call[q].found
  <2>1. users[p] # NoRow /\ before \in [role : Roles, isActive : BOOLEAN]
    BY <1>1, <1>3 DEF Sound, HasRows, RowsAreIntended
  <2>2. (~raced /\ ~call[q].stale) =>
            /\ before.role = users[p].role
            /\ before.isActive => users[p].isActive
            /\ IF call[q].op = "updateRole" THEN row.isActive = users[p].isActive
                                            ELSE row.role = users[p].role
    BY <1>1, <1>3, <2>1 DEF DecisionsStand, Sound, SaverKnows
  <2>3. CASE call[q].op = "updateRole"
    <3>1. Decision(q) = [before EXCEPT !.role = row.role]
      BY <1>3, <2>3 DEF Decision
    <3> QED  BY <1>1, <2>1, <2>2, <2>3, <3>1 DEF User
  <2>4. CASE call[q].op \in {"setActive", "invite"}
    <3>1. Decision(q) = [before EXCEPT !.isActive = row.isActive]
      BY <1>3, <2>4 DEF Decision
    <3> QED  BY <1>1, <2>1, <2>2, <2>4, <3>1 DEF User
  <2>5. CASE call[q].op \notin {"setActive", "invite", "updateRole"}
    <3>1. Decision(q) = before
      BY <1>3, <2>5 DEF Decision
    <3>2. row.isActive = TRUE
      BY <1>1, <2>5 DEF Sound, Activates, User
    <3> QED  BY <1>1, <2>1, <2>2, <2>5, <3>1, <3>2
  <2> QED  BY <2>3, <2>4, <2>5
<1> QED  BY <1>2, <1>3

LEMMA SaveAccountsInv ==
    ASSUME AccountsInv, NEW q \in Calls, SaveUser(q)
    PROVE  AccountsInv'
<1> USE DEF AccountsInv
<1> DEFINE p == call[q].who
           row == call[q].row
           duplicate == ~call[q].found /\ users[p] # NoRow
           removed == ~duplicate /\ IsAdmin(p) /\ ~AdminRow(row)
<1>1. /\ call \in [Calls -> Request] /\ users \in [People -> User \cup {NoRow}]
      /\ call[q].phase = "save" /\ Sound(call[q]) /\ p \in People /\ row \in User
      /\ Idle \in Request /\ Idle.phase = "idle"
      /\ failures \in 0 .. MaxFailures /\ decisions \in 0 .. MaxDecisions
  BY DEF SaveUser, RequestsAreSound, Sound, HasRows, AccountsTypeOK, Request, Idle, Ops, Phases
<1>2. CASE duplicate
  <2>1. /\ UNCHANGED <<installed, trials, users, access, failures, decisions, intended, trialLost>>
        /\ raced' = raced /\ miscounted' = miscounted /\ hadAdmin' = hadAdmin
    BY <1>2 DEF SaveUser, AccountsTypeOK
  <2>2. call' = [c \in Calls |-> IF c = q THEN Idle
                                 ELSE [call[c] EXCEPT !.stale = @ \/ FALSE,
                                                      !.miscount = @ \/ FALSE]]
    BY <1>2 DEF SaveUser
  <2>3. \A c \in Calls : [call[c] EXCEPT !.stale = @ \/ FALSE, !.miscount = @ \/ FALSE] = call[c]
    BY <1>1 DEF Request
  <2>4. call' = [call EXCEPT ![q] = Idle]
    BY <1>1, <2>2, <2>3
  <2>5. Sound(Idle) /\ ~Granting(q)
    BY <1>1 DEF Sound, HasRows, Activates, SaverKnows, IssuerKnows, Granting
  <2> QED  BY <1>1, <2>1, <2>4, <2>5, MoveAccountsInv
<1>3. CASE ~duplicate
  <2>1. /\ users' = [users EXCEPT ![p] = row]
        /\ intended' = [intended EXCEPT ![p] = Decision(q)]
        /\ raced' = (raced \/ call[q].stale)
        /\ miscounted' = (miscounted \/ (call[q].miscount /\ removed))
        /\ hadAdmin' = (hadAdmin \/ AdminRow(row))
        /\ access' = {[token EXCEPT !.old = @ \/ Outdates(row, p, token)] : token \in access}
        /\ UNCHANGED <<installed, trials, failures, decisions, trialLost>>
    BY <1>3 DEF SaveUser
  <2>2. /\ users'[p] = row /\ \A u \in People \ {p} : users'[u] = users[u]
        /\ users' \in [People -> User \cup {NoRow}] /\ row # NoRow
    BY <1>1, <2>1, NoRowAssumption
  <2>3. \A c \in Calls \ {q} :
            /\ call'[c] \in Request
            /\ call'[c].phase = call[c].phase /\ call'[c].who = call[c].who
            /\ call'[c].row = call[c].row /\ call'[c].found = call[c].found
            /\ call'[c].op = call[c].op
            /\ ~call'[c].stale => /\ ~call[c].stale
                                  /\ call[c].phase \in {"save", "issue"} => call[c].who # p
            /\ call'[c].miscount <=> call[c].miscount \/ (removed /\ Removes(c))
    <3> TAKE c \in Calls \ {q}
    <3> DEFINE late == call[c].stale \/ (~duplicate /\ call[c].who = p
                                            /\ call[c].phase \in {"save", "issue"})
               unseen == call[c].miscount \/ (removed /\ Removes(c))
    <3>1. call'[c] = [call[c] EXCEPT !.stale = late, !.miscount = unseen]
      BY DEF SaveUser
    <3>2. call[c] \in Request /\ late \in BOOLEAN /\ unseen \in BOOLEAN
      BY <1>1 DEF Request
    <3>3. late <=> \/ call[c].stale
                   \/ call[c].phase \in {"save", "issue"} /\ call[c].who = p
      BY <1>3
    <3>4. unseen <=> call[c].miscount \/ (removed /\ Removes(c))
      OBVIOUS
    <3> HIDE DEF late, unseen, removed
    <3> QED  BY <3>1, <3>2, <3>3, <3>4 DEF Request
  <2>4. \/ call'[q] = Idle
        \/ /\ call'[q] \in Request /\ call'[q].phase = "issue" /\ call'[q].who = p
           /\ call'[q].row = row /\ call[q].op = "signIn"
    <3> DEFINE to == [call[q] EXCEPT !.phase = "issue", !.stale = FALSE]
    <3>1. call'[q] = Idle \/ (call'[q] = to /\ call[q].op = "signIn")
      BY <1>3 DEF SaveUser
    <3>2. to \in Request /\ to.phase = "issue" /\ to.who = p /\ to.row = row
      BY <1>1 DEF Request, Phases
    <3> HIDE DEF to
    <3> QED  BY <3>1, <3>2
  <2>5. \A token \in access' : \E t \in access :
            /\ token \in [user : People, role : Roles, old : BOOLEAN]
            /\ token.user = t.user /\ token.role = t.role
            /\ ~token.old => /\ ~t.old
                             /\ t.user = p => t.role = row.role /\ row.isActive
    <3> TAKE token \in access'
    <3>1. PICK t \in access : token = [t EXCEPT !.old = @ \/ Outdates(row, p, t)]
      BY <2>1
    <3>2. t \in [user : People, role : Roles, old : BOOLEAN] /\ Outdates(row, p, t) \in BOOLEAN
      BY DEF AccountsTypeOK, Outdates
    <3>3. /\ token \in [user : People, role : Roles, old : BOOLEAN]
          /\ token.user = t.user /\ token.role = t.role
          /\ ~token.old => ~t.old /\ ~Outdates(row, p, t)
      BY <3>1, <3>2
    <3> QED  BY <3>3 DEF Outdates
  <2>6. AccountsTypeOK'
    <3>1. call' \in [Calls -> Request]
      <4>1. call' = [c \in Calls |-> call'[c]]
        BY DEF SaveUser
      <4> QED  BY <1>1, <2>3, <2>4, <4>1
    <3>2. intended' \in [People -> [role : Roles, isActive : BOOLEAN] \cup {NoRow}]
      BY <1>1, <1>3, <2>1, DecisionIsRow DEF AccountsTypeOK
    <3>3. raced' \in BOOLEAN /\ miscounted' \in BOOLEAN /\ hadAdmin' \in BOOLEAN
      BY <2>1
    <3>4. access' \subseteq [user : People, role : Roles, old : BOOLEAN]
      BY <2>5
    <3> QED  BY <2>1, <2>2, <3>1, <3>2, <3>3, <3>4 DEF AccountsTypeOK, Request
  <2>7. RequestsAreSound'
    <3> SUFFICES ASSUME NEW c \in Calls PROVE Sound(call[c])'
      BY DEF RequestsAreSound
    <3>1. CASE c = q /\ call'[q] = Idle
      BY <1>1, <3>1 DEF Sound, HasRows, Activates, SaverKnows, IssuerKnows
    <3>2. CASE c = q /\ call'[q] # Idle
      <4>1. row.isActive
        BY <1>1, <2>4, <3>2 DEF Sound, Activates
      <4> QED  BY <1>1, <2>2, <2>4, <3>2, <4>1 DEF Sound, HasRows, Activates, SaverKnows, IssuerKnows
    <3>3. CASE c # q
      <4>1. Sound(call[c])
        BY DEF RequestsAreSound
      <4>2. HasRows(call[c])' /\ Activates(call[c])'
        BY <2>2, <2>3, <3>3, <4>1 DEF Sound, HasRows, Activates
      <4>3. SaverKnows(call[c])'
        <5> DEFINE decides == call[c].op \in {"setActive", "updateRole"}
        <5>1. SUFFICES ASSUME call[c].phase = "save", ~call'[c].stale
                       PROVE  SaverKnows(call[c])'
          BY <2>3, <3>3 DEF SaverKnows
        <5>2. /\ ~call[c].stale /\ call[c].who # p /\ call[c].who \in People
              /\ users'[call[c].who] = users[call[c].who]
          BY <2>2, <2>3, <3>3, <4>1, <5>1 DEF Sound, HasRows
        <5>3. /\ ~call[c].found => users[call[c].who] = NoRow
              /\ call[c].found => IF call[c].op = "updateRole"
                                  THEN call[c].row.isActive = users[call[c].who].isActive
                                  ELSE call[c].row.role = users[call[c].who].role
              /\ IsAdmin(call[c].who) => \/ AdminRow(call[c].row)
                                         \/ decides /\ (AnotherAdmin(call[c].who) \/ call[c].miscount)
          BY <4>1, <5>1, <5>2 DEF Sound, SaverKnows
        <5>4. ASSUME IsAdmin(call[c].who), ~AdminRow(call[c].row)
              PROVE  decides /\ (AnotherAdmin(call[c].who)' \/ call'[c].miscount)
          <6>1. decides /\ (AnotherAdmin(call[c].who) \/ call[c].miscount)
            BY <5>3, <5>4
          <6>2. Removes(c)
            BY <5>1, <5>4, <6>1 DEF Removes
          <6>3. CASE call[c].miscount \/ removed
            BY <2>3, <3>3, <6>1, <6>2, <6>3
          <6>4. CASE ~call[c].miscount /\ ~removed
            <7>1. PICK v \in People \ {call[c].who} : IsAdmin(v)
              BY <6>1, <6>4 DEF AnotherAdmin
            <7>2. users'[v] # NoRow /\ AdminRow(users'[v])
              <8>1. CASE v = p
                BY <1>3, <2>2, <6>4, <7>1, <8>1
              <8>2. CASE v # p
                BY <2>2, <7>1, <8>2 DEF IsAdmin
              <8> QED  BY <8>1, <8>2
            <7>3. call'[c].who = call[c].who
              BY <2>3, <3>3
            <7> QED  BY <6>1, <7>1, <7>2, <7>3 DEF AnotherAdmin, IsAdmin, AdminRow
          <6> QED  BY <6>3, <6>4
        <5>5. IsAdmin(call[c].who)' <=> IsAdmin(call[c].who)
          BY <2>3, <3>3, <5>2 DEF IsAdmin, AdminRow
        <5>6. /\ call'[c].row = call[c].row /\ call'[c].who = call[c].who
              /\ call'[c].op = call[c].op /\ call'[c].found = call[c].found
          BY <2>3, <3>3
        <5>7. IsAdmin(call[c].who)' => \/ AdminRow(call[c].row)
                                       \/ decides /\ (AnotherAdmin(call[c].who)' \/ call'[c].miscount)
          BY <5>4, <5>5
        <5> QED  BY <5>2, <5>3, <5>6, <5>7 DEF SaverKnows, IsAdmin, AdminRow, AnotherAdmin
      <4>4. IssuerKnows(call[c])'
        <5>1. SUFFICES ASSUME call'[c].phase = "issue", ~call'[c].stale
                       PROVE  /\ users'[call'[c].who].isActive
                              /\ users'[call'[c].who].role = call'[c].row.role
          BY DEF IssuerKnows
        <5>2. /\ call[c].phase = "issue" /\ ~call[c].stale /\ call[c].who # p
              /\ call'[c].who = call[c].who /\ call'[c].row = call[c].row
          BY <2>3, <3>3, <5>1
        <5>3. call[c].who \in People
          BY <4>1, <5>2 DEF Sound, HasRows
        <5> QED  BY <2>2, <4>1, <5>2, <5>3 DEF Sound, IssuerKnows
      <4> QED  BY <4>2, <4>3, <4>4 DEF Sound
    <3> QED  BY <3>1, <3>2, <3>3
  <2>8. HoldersHaveRows' /\ AuthorityEnds'
    <3> SUFFICES ASSUME NEW token \in access'
                 PROVE  /\ users'[token.user] # NoRow
                        /\ ~token.old => /\ users'[token.user].isActive
                                         /\ users'[token.user].role = token.role
      BY DEF HoldersHaveRows, AuthorityEnds
    <3>1. PICK t \in access : /\ token.user \in People
                              /\ token.user = t.user /\ token.role = t.role
                              /\ ~token.old => /\ ~t.old
                                               /\ t.user = p => t.role = row.role /\ row.isActive
      BY <2>5
    <3> QED  BY <2>2, <3>1 DEF HoldersHaveRows, AuthorityEnds
  <2>9. RowsAreIntended'
    BY <1>1, <1>3, <2>1, <2>2, DecisionIsRow, NoRowAssumption DEF RowsAreIntended, AccountsTypeOK
  <2>10. DecisionsStand'
    <3>1. ~raced' => /\ ~raced /\ Decision(q).role = row.role
                     /\ Decision(q).isActive => row.isActive
      BY <1>1, <1>3, <2>1, DecisionIsRow
    <3>2. /\ intended'[p] = Decision(q)
          /\ \A u \in People \ {p} : intended'[u] = intended[u]
      BY <1>1, <2>1 DEF AccountsTypeOK
    <3> QED  BY <2>2, <2>9, <3>1, <3>2 DEF DecisionsStand, RowsAreIntended
  <2>11. LockOutNeedsOverlap'
    <3> SUFFICES ASSUME hadAdmin', ~raced', ~miscounted' PROVE \E u \in People : IsAdmin(u)'
      BY DEF LockOutNeedsOverlap, NeverLockedOut
    <3>1. CASE AdminRow(row)
      BY <1>1, <2>2, <3>1 DEF IsAdmin, AdminRow
    <3>2. CASE ~AdminRow(row)
      <4>1. PICK u \in People : IsAdmin(u)
        BY <2>1, <3>2 DEF LockOutNeedsOverlap, NeverLockedOut
      <4>2. IsAdmin(p) => AnotherAdmin(p)
        BY <1>1, <1>3, <2>1, <3>2 DEF Sound, SaverKnows
      <4>3. PICK v \in People \ {p} : IsAdmin(v)
        BY <4>1, <4>2 DEF AnotherAdmin
      <4> QED  BY <2>2, <4>3 DEF IsAdmin, AdminRow
    <3> QED  BY <3>1, <3>2
  <2>12. OneGrantsTrial' /\ TrialOnce'
    <3>1. \A c \in Calls : Granting(c)' <=> Granting(c)
      BY <1>1, <2>3, <2>4 DEF Granting
    <3> QED  BY <2>1, <3>1 DEF OneGrantsTrial, TrialOnce, Granting
  <2> QED  BY <2>6, <2>7, <2>8, <2>9, <2>10, <2>11, <2>12
<1> QED  BY <1>2, <1>3

LEMMA NextAccountsInv == AccountsInv /\ [AccountsNext]_accountVars => AccountsInv'
<1> SUFFICES ASSUME AccountsInv, [AccountsNext]_accountVars PROVE AccountsInv'
    OBVIOUS
<1>1. ASSUME NEW q \in Calls, NEW p \in People, SignIn(q, p) \/ Message(q, p) \/ Renew(q, p)
      PROVE  AccountsInv'
  <2>1. "ADMIN" \in Roles /\ TRUE \in BOOLEAN
    BY DEF Roles
  <2> QED  BY <1>1, <2>1, BeginAccountsInv
<1>2. ASSUME NEW q \in Calls, NEW admin \in People, NEW p \in People, Invite(q, admin, p)
      PROVE  AccountsInv'
  <2>1. "ADMIN" \in Roles /\ TRUE \in BOOLEAN
    BY DEF Roles
  <2> QED  BY <1>2, <2>1, BeginAccountsInv
<1>3. ASSUME NEW q \in Calls, NEW admin \in People, NEW p \in People, NEW active \in BOOLEAN,
             SetActive(q, admin, p, active)
      PROVE  AccountsInv'
  <2>1. "ADMIN" \in Roles
    BY DEF Roles
  <2> QED  BY <1>3, <2>1, BeginAccountsInv
<1>4. ASSUME NEW q \in Calls, NEW admin \in People, NEW p \in People, NEW role \in Roles,
             UpdateRole(q, admin, p, role)
      PROVE  AccountsInv'
  BY <1>4, BeginAccountsInv
<1>5. ASSUME NEW q \in Calls, NEW ok \in BOOLEAN, InsertWorkspace(q) \/ GrantTrial(q, ok)
      PROVE  AccountsInv'
  BY <1>5, TrialAccountsInv
<1>6. ASSUME NEW q \in Calls, FindUser(q) \/ SaveUser(q) \/ FailCall(q)
      PROVE  AccountsInv'
  BY <1>6, FindAccountsInv, SaveAccountsInv, FailAccountsInv
<1>7. CASE \/ \E q \in Calls : IssueTokens(q)
           \/ \E p \in People : Logout(p)
           \/ \E token \in access : ExpireToken(token)
  BY <1>7, SessionAccountsInv
<1>8. CASE UNCHANGED accountVars
  BY <1>8 DEF accountVars, AccountsInv, AccountsTypeOK, RequestsAreSound, Sound, HasRows, Activates,
              SaverKnows, IssuerKnows, HoldersHaveRows, RowsAreIntended, OneGrantsTrial, Granting,
              LockOutNeedsOverlap, NeverLockedOut, DecisionsStand, AuthorityEnds, TrialOnce, IsAdmin,
              AdminRow, AnotherAdmin
<1>9. ASSUME NEW q \in Calls, InsertWorkspace(q)
      PROVE  AccountsInv'
  BY <1>9, <1>5
<1> QED
  BY <1>1, <1>2, <1>3, <1>4, <1>5, <1>6, <1>7, <1>8, <1>9 DEF AccountsNext

----------------------------------------------------------------------------
(* Requests that overlap in any way, dying half way or not, keep all of it. *)
THEOREM AccountsInvariant == AccountsSpec => []AccountsInv
<1>1. AccountsInit => AccountsInv
  BY InitAccountsInv
<1>2. AccountsInv /\ [AccountsNext]_accountVars => AccountsInv'
  BY NextAccountsInv
<1> QED  BY <1>1, <1>2, PTL DEF AccountsSpec

(* Every row, token and request has the form the code gives it, and the counts
   stay in their bounds (auth.service.ts, users.service.ts). *)
THEOREM AccountsTypes == AccountsSpec => []AccountsTypeOK
<1>1. AccountsInv => AccountsTypeOK
  BY DEF AccountsInv
<1> QED  BY <1>1, AccountsInvariant, PTL

(* Whoever is demoted, deactivated or invited, and however signing in overlaps
   with that, a workspace that had an administrator keeps an active one, unless
   a row was saved over another save of it or two administrators were taken away
   by requests that each counted the other (setActive, updateRole,
   upsertFromSlack). *)
THEOREM NoLockOut == AccountsSpec => []LockOutNeedsOverlap
<1>1. AccountsInv => LockOutNeedsOverlap
  BY DEF AccountsInv
<1> QED  BY <1>1, AccountsInvariant, PTL

(* Until a row is saved over another save of it, the table gives each person the
   role last decided, through whatever sign-ins, messages and invitations, and
   switches off nobody an administrator left on (upsertFromSlack,
   provisionInvited, setActive, updateRole). *)
THEOREM DecisionsAreKept == AccountsSpec => []DecisionsStand
<1>1. AccountsInv => DecisionsStand
  BY DEF AccountsInv
<1> QED  BY <1>1, AccountsInvariant, PTL

(* A young token says what the row of its holder says, races included: a
   demoted or deactivated person can renew nothing they had (refresh,
   switchWorkspace, issueTokens). *)
THEOREM AuthorityFollowsRow == AccountsSpec => []AuthorityEnds
<1>1. AccountsInv => AuthorityEnds
  BY DEF AccountsInv
<1> QED  BY <1>1, AccountsInvariant, PTL

(* One trial for a workspace, however many people install it at a time
   (upsertFromSlack, grantOnboardingCredits). *)
THEOREM TrialIsOnce == AccountsSpec => []TrialOnce
<1>1. AccountsInv => TrialOnce
  BY DEF AccountsInv
<1> QED  BY <1>1, AccountsInvariant, PTL

=============================================================================
