---------------------------- MODULE Connections ----------------------------
(***************************************************************************)
(* Meta connections (integrations.service.ts, meta-mcp.service.ts): an     *)
(* OAuth grant kept on a row, refreshed by whichever run first needs it    *)
(* after it has expired, and switched off when that fails, the saving of   *)
(* the new tokens included.  Meta may grant access without a refresh token *)
(* and replace the one it is shown.  Members connect again, edit and       *)
(* disconnect meanwhile; every save writes the whole row that was read.    *)
(* Tokens are numbered in the order Meta issues them.                      *)
(***************************************************************************)
EXTENDS Naturals

CONSTANTS
    Connections,    \* the accounts of a workspace at Meta
    Runs,           \* runs, ticks and requests served concurrently
    MaxIssued,      \* bound: tokens issued for an account
    NoToken,        \* no row, or no token in it
    NoRun           \* no account is being worked on

ASSUME ConnectionsAssumption == MaxIssued \in Nat

VARIABLES
    connections,    \* the integrations table
    handshakes,     \* connects begun: their state is in Redis
    issued,         \* Meta: tokens issued so far
    expired,        \* Meta: access tokens up to this one have expired
    accepted,       \* Meta: refresh tokens it accepts
    hand,           \* what each run has in memory
    kept,           \* ghost: isActive as the members last left it, or NoToken
    bare,           \* ghost: accounts whose last connect brought no refresh token
    upset           \* ghost: accounts whose row was saved from an out-of-date
                    \*        read, whose refresh failed, was cut short or was not
                    \*        saved, or whose grant was withdrawn

connectionVars == <<connections, handshakes, issued, expired, accepted, hand, kept, bare, upset>>

Tokens == 1 .. MaxIssued
Connection == [isActive : BOOLEAN, access : Tokens, refresh : Tokens \cup {NoToken}]
\* With a row to be saved: of a connect, inside the try of a refresh, any other.
Saving == {"connect", "refreshed", "save"}
HandPhases == {"idle", "refresh"} \cup Saving
EmptyHand == [phase |-> "idle", account |-> NoRun, row |-> NoToken, found |-> FALSE,
              decides |-> FALSE, stale |-> FALSE]

ConnectionsTypeOK ==
    /\ connections \in [Connections -> Connection \cup {NoToken}]
    /\ handshakes \subseteq Connections
    /\ issued \in [Connections -> 0 .. MaxIssued]
    /\ \A c \in Connections : expired[c] \in 0 .. issued[c]
    /\ \A c \in Connections : accepted[c] \subseteq 1 .. issued[c]
    /\ hand \in [Runs -> [phase : HandPhases, account : Connections \cup {NoRun},
                          row : Connection \cup {NoToken}, found : BOOLEAN,
                          decides : BOOLEAN, stale : BOOLEAN]]
    /\ kept \in [Connections -> BOOLEAN \cup {NoToken}]
    /\ bare \subseteq Connections
    /\ upset \subseteq Connections

ASSUME NoConnectionAssumption == NoToken \notin Connection

ConnectionsInit ==
    /\ connections = [c \in Connections |-> NoToken]
    /\ handshakes = {}
    /\ issued = [c \in Connections |-> 0]
    /\ expired = [c \in Connections |-> 0]
    /\ accepted = [c \in Connections |-> {}]
    /\ hand = [q \in Runs |-> EmptyHand]
    /\ kept = [c \in Connections |-> NoToken]
    /\ bare = {}
    /\ upset = {}

-----------------------------------------------------------------------------
\* decides: whether the save is a member's decision about isActive.
Holds(q, phase, c, row, decides) ==
    hand' = [hand EXCEPT ![q] = [phase |-> phase, account |-> c, row |-> row,
            found |-> connections[c] # NoToken, decides |-> decides, stale |-> FALSE]]

IsExpired(c, row) == row.access <= expired[c]

\* Meta issues the next token of c; given says whether a refresh token comes
\* with it, and old what it replaces.
Issue(c, given, old) ==
    /\ issued[c] < MaxIssued
    /\ issued' = [issued EXCEPT ![c] = @ + 1]
    /\ accepted' = IF given THEN [accepted EXCEPT ![c] = (@ \ old) \cup {issued[c] + 1}] ELSE accepted

-----------------------------------------------------------------------------
(* Connecting: startMetaConnect, completeMetaConnect.                      *)

StartMetaConnect(c) ==
    /\ handshakes' = handshakes \cup {c}
    /\ UNCHANGED <<connections, issued, expired, accepted, hand, kept, bare, upset>>

\* The state expires in Redis.
ForgetHandshake(c) ==
    /\ handshakes' = handshakes \ {c}
    /\ UNCHANGED <<connections, issued, expired, accepted, hand, kept, bare, upset>>

\* The state is consumed, the code exchanged, the row of the account looked up.
\* Whatever the row had, it gets what Meta answered: no refresh token if there was
\* none.  A callback that finds the state gone, or whose code Meta refuses, ends
\* here.
CompleteMetaConnect(q, c, given) ==
    /\ hand[q].phase = "idle"
    /\ c \in handshakes
    /\ handshakes' = handshakes \ {c}
    /\ Issue(c, given, {})
    /\ Holds(q, "connect", c, [isActive |-> TRUE, access |-> issued'[c],
                              refresh |-> IF given THEN issued'[c] ELSE NoToken], TRUE)
    /\ UNCHANGED <<connections, expired, kept, bare, upset>>

-----------------------------------------------------------------------------
(* Using a connection: ensureFreshMetaToken.                               *)

\* A run reads the active row; with a fresh token it is done, and without a refresh
\* token it takes the one there is; otherwise it asks Meta for another.
NeedToken(q, c) ==
    /\ hand[q].phase = "idle"
    /\ connections[c] # NoToken /\ connections[c].isActive
    /\ IsExpired(c, connections[c]) /\ connections[c].refresh # NoToken
    /\ Holds(q, "refresh", c, connections[c], FALSE)
    /\ UNCHANGED <<connections, handshakes, issued, expired, accepted, kept, bare, upset>>

\* Fault: an answer without a refresh token wipes the one on the row.
RefreshedBlank(c, row, given) ==
    [row EXCEPT !.access = issued[c] + 1, !.refresh = IF given THEN issued[c] + 1 ELSE NoToken]

Refreshed(c, row, given) ==
    [row EXCEPT !.access = issued[c] + 1, !.refresh = IF given THEN issued[c] + 1 ELSE @]

RefreshAccessToken(q, given) ==
    LET c == hand[q].account
        row == hand[q].row
    IN  /\ hand[q].phase = "refresh"
        /\ row.refresh \in accepted[c]
        /\ Issue(c, given, {row.refresh})
        /\ hand' = [hand EXCEPT ![q].phase = "refreshed", ![q].row = Refreshed(c, row, given)]
        /\ UNCHANGED <<connections, handshakes, expired, kept, bare, upset>>

\* Meta refuses the token, or cannot be reached: either switches the row off.
RefreshFails(q, reached) ==
    LET c == hand[q].account
    IN  /\ hand[q].phase = "refresh"
        /\ reached => hand[q].row.refresh \notin accepted[c]
        /\ hand' = [hand EXCEPT ![q].phase = "save", ![q].row.isActive = FALSE]
        /\ upset' = IF reached THEN upset ELSE upset \cup {c}
        /\ UNCHANGED <<connections, handshakes, issued, expired, accepted, kept, bare>>

\* So does a save that fails after Meta has answered: the new tokens are kept.
SaveFails(q) ==
    /\ hand[q].phase = "refreshed"
    /\ hand' = [hand EXCEPT ![q].phase = "save", ![q].row.isActive = FALSE]
    /\ upset' = upset \cup {hand[q].account}
    /\ UNCHANGED <<connections, handshakes, issued, expired, accepted, kept, bare>>

-----------------------------------------------------------------------------
(* Editing and disconnecting: update, disconnect.                          *)

\* active is what the configure screen sends; label and visibility go along.
UpdateConnection(q, c, active) ==
    /\ hand[q].phase = "idle"
    /\ connections[c] # NoToken
    /\ Holds(q, "save", c, [connections[c] EXCEPT !.isActive = active], active # connections[c].isActive)
    /\ UNCHANGED <<connections, handshakes, issued, expired, accepted, kept, bare, upset>>

\* The whole row, inserted again if it was deleted; an insert is refused when
\* the account has got a row meanwhile (unique workspace and account).
SaveConnection(q) ==
    LET c == hand[q].account
        refused == ~hand[q].found /\ connections[c] # NoToken
        connected == hand[q].phase = "connect"
    IN  /\ hand[q].phase \in Saving
        /\ IF refused THEN UNCHANGED <<connections, kept, bare, upset>>
           ELSE /\ connections' = [connections EXCEPT ![c] = hand[q].row]
                /\ kept' = IF hand[q].decides THEN [kept EXCEPT ![c] = hand[q].row.isActive] ELSE kept
                /\ bare' = CASE connected /\ hand[q].row.refresh = NoToken -> bare \cup {c}
                             [] connected /\ hand[q].row.refresh # NoToken -> bare \ {c}
                             [] OTHER -> bare
                /\ upset' = IF hand[q].stale THEN upset \cup {c} ELSE upset
        /\ hand' = [r \in Runs |-> IF r = q THEN EmptyHand
                    ELSE [hand[r] EXCEPT !.stale = @ \/ (hand[r].account = c /\ ~refused)]]
        /\ UNCHANGED <<handshakes, issued, expired, accepted>>

Disconnect(c) ==
    /\ connections[c] # NoToken
    /\ connections' = [connections EXCEPT ![c] = NoToken]
    /\ kept' = [kept EXCEPT ![c] = NoToken]
    /\ hand' = [r \in Runs |-> [hand[r] EXCEPT !.stale = @ \/ hand[r].account = c]]
    /\ UNCHANGED <<handshakes, issued, expired, accepted, bare, upset>>

ExpireAccess(c) ==
    /\ expired[c] < issued[c]
    /\ expired' = [expired EXCEPT ![c] = issued[c]]
    /\ UNCHANGED <<connections, handshakes, issued, accepted, hand, kept, bare, upset>>

\* The person withdraws the grant at Meta.
Revoke(c) ==
    /\ accepted[c] # {}
    /\ accepted' = [accepted EXCEPT ![c] = {}]
    /\ upset' = upset \cup {c}
    /\ UNCHANGED <<connections, handshakes, issued, expired, hand, kept, bare>>

\* The process dies, or a save outside the try fails: a token just received is
\* lost with it.
RunDies(q) ==
    /\ hand[q].phase # "idle"
    /\ upset' = upset \cup {hand[q].account}
    /\ hand' = [hand EXCEPT ![q] = EmptyHand]
    /\ UNCHANGED <<connections, handshakes, issued, expired, accepted, kept, bare>>

ConnectionsNext ==
    \/ \E c \in Connections :
        \/ StartMetaConnect(c) \/ ForgetHandshake(c) \/ Disconnect(c)
        \/ ExpireAccess(c) \/ Revoke(c)
        \/ \E q \in Runs :
            \/ NeedToken(q, c)
            \/ \E given \in BOOLEAN : CompleteMetaConnect(q, c, given)
            \/ \E active \in BOOLEAN : UpdateConnection(q, c, active)
    \/ \E q \in Runs :
        \/ \E given \in BOOLEAN : RefreshAccessToken(q, given)
        \/ \E reached \in BOOLEAN : RefreshFails(q, reached)
        \/ SaveFails(q) \/ SaveConnection(q) \/ RunDies(q)

ConnectionsSpec == ConnectionsInit /\ [][ConnectionsNext]_connectionVars

-----------------------------------------------------------------------------
(* Properties.                                                             *)

\* A connection drops out of runs only when it "can no longer be refreshed"
\* (ensureFreshMetaToken): left active by its members it stays active, through any
\* number of refreshes, rotated or not, with a refresh token Meta accepts, or with
\* none if the last connect brought none, and one that was disconnected stays so.
\* Not so once a save overlapped another, a refresh did not reach Meta, died before
\* its answer was saved or was answered but failed to be saved, which switches a
\* healthy account off, or the grant was withdrawn.
ConnectionSurvives ==
    \A c \in Connections \ upset :
        \/ \E q \in Runs : hand[q].account = c /\ hand[q].phase \in Saving
        \/ connections[c] = NoToken /\ kept[c] = NoToken
        \/ /\ connections[c] # NoToken
           /\ connections[c].isActive = kept[c]
           /\ IF c \in bare THEN connections[c].refresh = NoToken
                            ELSE connections[c].refresh \in accepted[c]

=============================================================================
