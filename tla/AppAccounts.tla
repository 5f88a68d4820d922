----------------------------- MODULE AppAccounts -----------------------------
(***************************************************************************)
(* The accounts of one app that a workspace has connected through          *)
(* Pipedream (integrations.service.ts, pipedream.service.ts) and the ones  *)
(* a run of the assistant can use.  An account exists twice: at Pipedream, *)
(* in the bucket of the workspace or of one member, and as a row here.     *)
(* The rows decide which buckets a run is given; within a bucket Pipedream *)
(* serves every account of the app.                                        *)
(***************************************************************************)
EXTENDS Naturals

CONSTANTS
    AccountIds,     \* given by Pipedream, never twice
    Owners,         \* members of the workspace
    Serving,        \* requests served concurrently
    Workspace,      \* the bucket of the workspace
    System,         \* a run without a member
    Unknown         \* no such account or row

VARIABLES
    pipedream,      \* the bucket of each account at Pipedream, Unknown before
                    \* it is connected, Revoked after it is deleted there
    integrations,   \* the integrations table
    serving,        \* what each request has in memory
    moved,          \* ghost: accounts whose access level was edited
    loose,          \* ghost: accounts saved from an out-of-date read, or whose
                    \*        disconnection was cut short or not answered
    dropped         \* ghost: accounts disconnected to the end

accountsVars == <<pipedream, integrations, serving, moved, loose, dropped>>

Revoked == "revoked"
Levels == {"team", "private"}
Row == [userId : Owners, accessLevel : Levels, isActive : BOOLEAN]

\* Buckets are told apart, and no row from a row.
ASSUME BucketsAssumption ==
    /\ Workspace \notin Owners \cup {Unknown, Revoked}
    /\ {Unknown, Revoked, System} \cap Owners = {} /\ Unknown # Revoked
    /\ Unknown \notin Row

Unoccupied == [phase |-> "idle", account |-> Unknown, by |-> Unknown, level |-> "team",
               row |-> Unknown, found |-> FALSE, stale |-> FALSE]

AppAccountsTypeOK ==
    /\ pipedream \in [AccountIds -> Owners \cup {Workspace, Unknown, Revoked}]
    /\ integrations \in [AccountIds -> Row \cup {Unknown}]
    /\ serving \in [Serving -> [phase : {"idle", "find", "save", "revoke", "remove"},
                                account : AccountIds \cup {Unknown}, by : Owners \cup {Unknown},
                                level : Levels, row : Row \cup {Unknown}, found : BOOLEAN,
                                stale : BOOLEAN]]
    /\ moved \subseteq AccountIds
    /\ loose \subseteq AccountIds
    /\ dropped \subseteq AccountIds

AppAccountsInit ==
    /\ pipedream = [p \in AccountIds |-> Unknown]
    /\ integrations = [p \in AccountIds |-> Unknown]
    /\ serving = [q \in Serving |-> Unoccupied]
    /\ moved = {} /\ loose = {} /\ dropped = {}

-----------------------------------------------------------------------------
\* Fault: private accounts are connected into the bucket of the workspace.
ExternalUserShared(m, level) == Workspace

resolveExternalUserId(m, level) == IF level = "private" THEN m ELSE Workspace

\* q goes on; what others have read of account p is out of date if p changed.
ServesOn(q, next, p, changed) ==
    serving' = [r \in Serving |->
        IF r = q THEN next
        ELSE [serving[r] EXCEPT !.stale = @ \/ (changed /\ serving[r].account = p)]]

Loosens(q, p) == loose' = IF serving[q].stale THEN loose \cup {p} ELSE loose

-----------------------------------------------------------------------------
(* Connecting (getConnectToken, confirmConnection).                        *)

\* Pipedream's popup, opened with a token for the bucket.
ConnectAccount(m, level, p) ==
    /\ pipedream[p] = Unknown
    /\ pipedream' = [pipedream EXCEPT ![p] = resolveExternalUserId(m, level)]
    /\ UNCHANGED <<integrations, serving, moved, loose, dropped>>

AccountFound(p, bucket) == pipedream[p] = bucket

\* getAccount under the bucket the level stands for; elsewhere it is not found.
ConfirmConnection(q, m, level, p) ==
    /\ serving[q].phase = "idle"
    /\ AccountFound(p, resolveExternalUserId(m, level))
    /\ ServesOn(q, [Unoccupied EXCEPT !.phase = "find", !.account = p, !.by = m, !.level = level], p, FALSE)
    /\ UNCHANGED <<pipedream, integrations, moved, loose, dropped>>

\* The row the account has, or a new one; healthy is what Pipedream said of it.
FindConnection(q, healthy) ==
    LET p == serving[q].account
        found == integrations[p] # Unknown
        owner == IF found THEN integrations[p].userId ELSE serving[q].by
    IN  /\ serving[q].phase = "find"
        /\ ServesOn(q, [serving[q] EXCEPT !.phase = "save", !.found = found,
               !.row = [userId |-> owner, accessLevel |-> serving[q].level, isActive |-> healthy]], p, FALSE)
        /\ UNCHANGED <<pipedream, integrations, moved, loose, dropped>>

-----------------------------------------------------------------------------
(* Editing and disconnecting (update, disconnect).                         *)

UpdateAccount(q, p, level, active) ==
    /\ serving[q].phase = "idle"
    /\ integrations[p] # Unknown
    /\ ServesOn(q, [Unoccupied EXCEPT !.phase = "save", !.account = p, !.found = TRUE,
           !.row = [integrations[p] EXCEPT !.accessLevel = level, !.isActive = active]], p, FALSE)
    /\ moved' = IF level # integrations[p].accessLevel THEN moved \cup {p} ELSE moved
    /\ UNCHANGED <<pipedream, integrations, loose, dropped>>

\* The whole row, inserted again if it was removed meanwhile; an insert is
\* refused when the account has got a row (unique workspace and account).
SaveAccount(q) ==
    LET p == serving[q].account
        refused == ~serving[q].found /\ integrations[p] # Unknown
    IN  /\ serving[q].phase = "save"
        /\ integrations' = IF refused THEN integrations ELSE [integrations EXCEPT ![p] = serving[q].row]
        /\ Loosens(q, p)
        /\ ServesOn(q, Unoccupied, p, ~refused)
        /\ UNCHANGED <<pipedream, moved, dropped>>

DisconnectAccount(q, p) ==
    /\ serving[q].phase = "idle"
    /\ integrations[p] # Unknown
    /\ ServesOn(q, [Unoccupied EXCEPT !.phase = "revoke", !.account = p], p, TRUE)
    /\ UNCHANGED <<pipedream, integrations, moved, loose, dropped>>

\* deleteAccount: a failure is logged and the row removed all the same.
RevokeAtPipedream(q, answered) ==
    LET p == serving[q].account
    IN  /\ serving[q].phase = "revoke"
        /\ IF answered THEN pipedream' = [pipedream EXCEPT ![p] = Revoked] /\ UNCHANGED loose
           ELSE UNCHANGED pipedream /\ loose' = loose \cup {p}
        /\ ServesOn(q, [serving[q] EXCEPT !.phase = "remove"], p, TRUE)
        /\ UNCHANGED <<integrations, moved, dropped>>

RemoveRow(q) ==
    LET p == serving[q].account
    IN  /\ serving[q].phase = "remove"
        /\ integrations' = [integrations EXCEPT ![p] = Unknown]
        /\ dropped' = dropped \cup {p}
        /\ ServesOn(q, Unoccupied, p, TRUE)
        /\ UNCHANGED <<pipedream, moved, loose>>

\* The process dies between two steps of a request.
ServerDies(q) ==
    /\ serving[q].phase # "idle"
    /\ loose' = IF serving[q].phase = "remove" THEN loose \cup {serving[q].account} ELSE loose
    /\ serving' = [serving EXCEPT ![q] = Unoccupied]
    /\ UNCHANGED <<pipedream, integrations, moved, dropped>>

AppAccountsNext ==
    \/ \E p \in AccountIds, level \in Levels :
        \/ \E m \in Owners :
            \/ ConnectAccount(m, level, p)
            \/ \E q \in Serving : ConfirmConnection(q, m, level, p)
        \/ \E q \in Serving, active \in BOOLEAN : UpdateAccount(q, p, level, active)
    \/ \E q \in Serving :
        \/ \E healthy \in BOOLEAN : FindConnection(q, healthy)
        \/ SaveAccount(q)
        \/ \E p \in AccountIds : DisconnectAccount(q, p)
        \/ \E answered \in BOOLEAN : RevokeAtPipedream(q, answered)
        \/ RemoveRow(q) \/ ServerDies(q)

AppAccountsSpec == AppAccountsInit /\ [][AppAccountsNext]_accountsVars

-----------------------------------------------------------------------------
(* What a run of member m, or of none, is given (findVisibleForUser, and   *)
(* AiService.run with buildMcpServers).                                    *)

Visible(m) ==
    {p \in AccountIds : integrations[p] # Unknown
        /\ (integrations[p].accessLevel = "team" \/ integrations[p].userId = m)}

Connected(m) == {p \in Visible(m) : integrations[p].isActive}

\* A server for each bucket with a connected account of the level.
buildMcpServers(m) ==
    {resolveExternalUserId(m, level) : level \in
        {l \in Levels : (l = "private" => m # System) /\ \E p \in Connected(m) : integrations[p].accessLevel = l}}

Usable(m) == {p \in AccountIds : pipedream[p] \in buildMcpServers(m)}

-----------------------------------------------------------------------------
(* Properties.                                                             *)

\* "A private account is unreachable from another member's run" (run), and "the
\* account still lives under the Pipedream scope it was connected with"
\* (update): the accounts a run is told of are accounts it can use, and none it
\* can use is another member's private one, unless an access level was edited.
PrivateStaysPrivate ==
    \A m \in Owners \cup {System}, p \in AccountIds \ moved :
        /\ p \in Connected(m) \cap Usable(System) => integrations[p].accessLevel = "team"
        /\ p \in Usable(m) /\ integrations[p] # Unknown =>
              integrations[p].accessLevel = "team" \/ integrations[p].userId = m
        /\ p \in Connected(m) \ loose => p \in Usable(m) \/ pipedream[p] = Revoked

\* "Pipedream connections are also revoked at Pipedream" (disconnect): a
\* disconnected account is gone on both sides, and one with a row is still at
\* Pipedream, unless the disconnection overlapped a save of the row, was cut
\* short, or got no answer.
DisconnectedIsGone ==
    \A p \in AccountIds \ loose :
        /\ p \in dropped => pipedream[p] = Revoked /\ integrations[p] = Unknown
        /\ pipedream[p] = Revoked => integrations[p] = Unknown
              \/ \E q \in Serving : serving[q].account = p /\ serving[q].phase \in {"remove", "save"}

=============================================================================
