------------------------------- MODULE Spaces -------------------------------
(***************************************************************************)
(* Spaces (spaces.service.ts): small apps and pages that the assistant     *)
(* builds for a workspace, the records and the page state their users      *)
(* keep in them, and the passwordless sign-in of those users               *)
(* (spaces-auth.service.ts).  A document or a spec is the set of changes   *)
(* it contains; the page state is the set of keys saved in it.  A request  *)
(* that reads before it writes holds what it read under the name of the    *)
(* thing it is about, its target.                                          *)
(***************************************************************************)
EXTENDS Naturals, FiniteSets

CONSTANTS
    SpaceIds,       \* never given twice
    Changes,        \* changes to a page, a spec or a record
    Keys,           \* keys of the page state
    RecordIds,
    Links,          \* sign-in links
    Emails,
    Teammates,      \* the addresses on the Slack of the owning workspace
    IsDev,          \* outside production a link can reach anybody
    MaxKeys,        \* MAX_PAGE_STATE_BYTES, in keys
    Callers,        \* the requests served concurrently
    Missing,        \* no such row
    Gone            \* ghost: deleted

ASSUME SpacesAssumption ==
    /\ Teammates \subseteq Emails
    /\ MaxKeys \in Nat
    /\ IsDev \in BOOLEAN
    /\ IsFiniteSet(Callers)

VARIABLES
    spaces,         \* the spaces table
    pageState,      \* its pageState column
    records,        \* the space_records table
    links,          \* the space_auth_tokens table
    members,        \* the space_users table
    caller,         \* what each request has in memory
    asked,          \* ghost: spaces as the requests answered so far left them
    askedRecords,   \* ghost: the same of the records
    ticked,         \* ghost: the keys whose saving was acknowledged
    redeemed,       \* ghost: sessions issued for each link
    outdated       \* ghost: targets saved from an out-of-date read

spaceVars == <<spaces, pageState, records, links, members, caller,
               asked, askedRecords, ticked, redeemed, outdated>>

Space == [kind : {"app", "page"}, open : BOOLEAN, content : SUBSET Changes]
Link == [space : SpaceIds, email : Emails, used : BOOLEAN, expired : BOOLEAN]
SpaceTarget(s) == <<"space", s>>
RecordTarget(s, r) == <<"record", s, r>>
LinkTarget(l) == <<"link", l>>
Targets == {SpaceTarget(s) : s \in SpaceIds} \cup {LinkTarget(l) : l \in Links}
           \cup {RecordTarget(s, r) : s \in SpaceIds, r \in RecordIds}
CallerOps == {"idle", "addRecord", "updateSpec", "updatePage", "updateRecord",
              "verify", "findMember", "saveMember"}
Resting == [op |-> "idle", target |-> Missing, space |-> Missing, row |-> Missing,
            change |-> Missing, whole |-> FALSE, email |-> Missing, found |-> FALSE,
            stale |-> FALSE]

SpacesTypeOK ==
    /\ spaces \in [SpaceIds -> Space \cup {Missing}]
    /\ \A s \in SpaceIds : pageState[s] \subseteq Keys /\ Cardinality(pageState[s]) <= MaxKeys
    /\ DOMAIN pageState = SpaceIds
    /\ records \in [SpaceIds -> [RecordIds -> Changes \cup {Missing}]]
    /\ links \in [Links -> Link \cup {Missing, Gone}]
    /\ members \subseteq SpaceIds \X Emails
    /\ \A q \in Callers :
        /\ caller[q].op \in CallerOps
        /\ caller[q].target \in Targets \cup {Missing}
        /\ caller[q].space \in SpaceIds \cup {Missing}
        /\ caller[q].email \in Emails \cup {Missing}
        /\ caller[q].stale \in BOOLEAN
        /\ caller[q].row \in Space \cup {Missing}
        /\ caller[q].change \in Changes \cup {Missing}
        /\ caller[q].whole \in BOOLEAN
        /\ caller[q].found \in BOOLEAN
    /\ asked \in [SpaceIds -> Space \cup {Missing, Gone}]
    /\ askedRecords \in [SpaceIds -> [RecordIds -> Changes \cup {Missing}]]
    /\ ticked \in [SpaceIds -> SUBSET Keys]
    /\ redeemed \in [Links -> 0 .. Cardinality(Callers)]
    /\ outdated \subseteq Targets

ASSUME NoSpaceRowAssumption ==
    /\ Missing \notin Space /\ Missing \notin Link /\ Missing \notin Changes
    /\ Missing \notin Targets /\ Missing \notin Callers
    /\ Gone \notin Space /\ Gone \notin Link /\ Gone # Missing

NoRecords == [r \in RecordIds |-> Missing]

SpacesInit ==
    /\ spaces = [s \in SpaceIds |-> Missing]
    /\ pageState = [s \in SpaceIds |-> {}]
    /\ records = [s \in SpaceIds |-> NoRecords]
    /\ links = [l \in Links |-> Missing]
    /\ members = {}
    /\ caller = [q \in Callers |-> Resting]
    /\ asked = [s \in SpaceIds |-> Missing]
    /\ askedRecords = [s \in SpaceIds |-> NoRecords]
    /\ ticked = [s \in SpaceIds |-> {}]
    /\ redeemed = [l \in Links |-> 0]
    /\ outdated = {}

-----------------------------------------------------------------------------
Exists(s) == spaces[s] # Missing
IsApp(s) == Exists(s) /\ spaces[s].kind = "app"
IsPage(s) == Exists(s) /\ spaces[s].kind = "page"

\* q has read its target and goes on with what next says of it.
Reads(q, next) ==
    /\ caller[q] = Resting
    /\ caller' = [caller EXCEPT ![q] = next]

\* A write to the targets ts: older reads of them are out of date from here.
Writes(q, ts, next) ==
    caller' = [c \in Callers |->
        IF c = q THEN next
        ELSE [caller[c] EXCEPT !.stale = @ \/ caller[c].target \in ts]]

\* Saving what was read too long ago.
Contests(q) == outdated' = IF caller[q].stale THEN outdated \cup {caller[q].target} ELSE outdated

NoSpaceChange == UNCHANGED <<spaces, pageState, records, asked, askedRecords, ticked>>
NoSignInChange == UNCHANGED <<links, members, redeemed>>

-----------------------------------------------------------------------------
(* Building (createFromSpec, createPage, updateSpec, addRecords, updatePage, *)
(* deleteForWorkspace).                                                    *)

\* uniqueSlug, then the insert; the starting rows of an app go with it in one
\* transaction.  A slug another request takes in between fails the insert, and
\* nothing happens.
CreateSpace(s, kind, open, seeds) ==
    LET row == [kind |-> kind, open |-> open, content |-> {}]
    IN  /\ asked[s] = Missing
        /\ kind = "page" => seeds = NoRecords
        /\ spaces' = [spaces EXCEPT ![s] = row]
        /\ asked' = [asked EXCEPT ![s] = row]
        /\ records' = [records EXCEPT ![s] = seeds]
        /\ askedRecords' = [askedRecords EXCEPT ![s] = seeds]
        /\ UNCHANGED <<pageState, ticked, caller, outdated>> /\ NoSignInChange

UpdateSpec(q, s, x, open) ==
    /\ IsApp(s)
    /\ Reads(q, [Resting EXCEPT !.op = "updateSpec", !.target = SpaceTarget(s), !.space = s,
            !.row = [spaces[s] EXCEPT !.content = {x}, !.open = open]])
    /\ NoSpaceChange /\ NoSignInChange /\ UNCHANGED outdated

\* save: the whole row, inserted again if the space was deleted meanwhile.
SaveSpec(q) ==
    LET s == caller[q].space
        row == caller[q].row
    IN  /\ caller[q].op = "updateSpec"
        /\ spaces' = [spaces EXCEPT ![s] = row]
        /\ asked' = [asked EXCEPT ![s] = IF @ = Gone THEN Gone ELSE row]
        /\ Contests(q)
        /\ Writes(q, {SpaceTarget(s)}, Resting)
        /\ UNCHANGED <<pageState, records, askedRecords, ticked>> /\ NoSignInChange

\* Fault: edits are applied to the document as it was first published.
EditedAfresh(before, x, whole) == {x}

\* updatePage: the whole document, or the edits applied to the one it is now.
Edited(before, x, whole) == IF whole THEN {x} ELSE before \cup {x}

UpdatePage(q, s, x, whole) ==
    /\ IsPage(s)
    /\ Reads(q, [Resting EXCEPT !.op = "updatePage", !.target = SpaceTarget(s), !.space = s,
            !.row = [spaces[s] EXCEPT !.content = Edited(spaces[s].content, x, whole)],
            !.change = x, !.whole = whole])
    /\ NoSpaceChange /\ NoSignInChange /\ UNCHANGED outdated

\* update by id: nothing happens once the page is gone.
WritePage(q) ==
    LET s == caller[q].space
        x == caller[q].change
    IN  /\ caller[q].op = "updatePage"
        /\ IF Exists(s)
           THEN /\ spaces' = [spaces EXCEPT ![s] = caller[q].row]
                /\ asked' = [asked EXCEPT ![s].content = IF caller[q].whole THEN {x} ELSE @ \cup {x}]
                /\ Contests(q)
           ELSE UNCHANGED <<spaces, asked, outdated>>
        /\ Writes(q, {SpaceTarget(s)}, Resting)
        /\ UNCHANGED <<pageState, records, askedRecords, ticked>> /\ NoSignInChange

\* Its records, links and members go with it.
DeleteSpace(s) ==
    /\ Exists(s)
    /\ spaces' = [spaces EXCEPT ![s] = Missing]
    /\ asked' = [asked EXCEPT ![s] = Gone]
    /\ pageState' = [pageState EXCEPT ![s] = {}]
    /\ ticked' = [ticked EXCEPT ![s] = {}]
    /\ records' = [records EXCEPT ![s] = NoRecords]
    /\ askedRecords' = [askedRecords EXCEPT ![s] = NoRecords]
    /\ links' = [l \in Links |-> IF links[l] \in Link /\ links[l].space = s THEN Gone ELSE links[l]]
    /\ members' = {m \in members : m[1] # s}
    /\ Writes(Missing, {SpaceTarget(s)} \cup {RecordTarget(s, r) : r \in RecordIds}, Resting)
    /\ UNCHANGED <<redeemed, outdated>>

-----------------------------------------------------------------------------
(* What the users of a space keep in it (savePageState, createRecord,      *)
(* updateRecord, deleteRecord) and what the assistant adds (addRecords).   *)

\* Fault: the state is saved as the page had loaded it.
MergedOver(before, k) == {k}

\* jsonb ||, in the database.
Merged(before, k) == before \cup {k}

\* Fault: the size is checked before the key is merged.
FitsBefore(s, k) == Cardinality(pageState[s]) <= MaxKeys

Fits(s, k) == Cardinality(Merged(pageState[s], k)) <= MaxKeys

\* The size is checked by the update itself.
SavePageState(s, k) ==
    /\ IsPage(s)
    /\ Fits(s, k)
    /\ pageState' = [pageState EXCEPT ![s] = Merged(@, k)]
    /\ ticked' = [ticked EXCEPT ![s] = @ \cup {k}]
    /\ UNCHANGED <<spaces, records, caller, asked, askedRecords, outdated>> /\ NoSignInChange

\* A null value removes the key.
ClearPageState(s, k) ==
    /\ IsPage(s)
    /\ pageState' = [pageState EXCEPT ![s] = @ \ {k}]
    /\ ticked' = [ticked EXCEPT ![s] = @ \ {k}]
    /\ UNCHANGED <<spaces, records, caller, asked, askedRecords, outdated>> /\ NoSignInChange

\* createRecord and addRecords have found the space; updateRecord the record.
OpenRecord(q, s, r, x) ==
    /\ IsApp(s)
    /\ Reads(q, [Resting EXCEPT !.op = IF records[s][r] = Missing THEN "addRecord" ELSE "updateRecord",
            !.target = RecordTarget(s, r), !.space = s, !.change = x])
    /\ NoSpaceChange /\ NoSignInChange /\ UNCHANGED outdated

\* save: the insert, or the whole record, inserted again if it was deleted; the
\* foreign key refuses both once the space is gone.
SaveRecord(q) ==
    LET s == caller[q].space
        r == caller[q].target[3]
        x == caller[q].change
        added == [askedRecords EXCEPT ![s][r] = x]
        taken == caller[q].op = "addRecord" /\ records[s][r] # Missing
    IN  /\ caller[q].op \in {"addRecord", "updateRecord"}
        /\ IF ~Exists(s) \/ taken
           THEN UNCHANGED <<records, askedRecords, outdated>>
           ELSE /\ records' = [records EXCEPT ![s][r] = x]
                /\ askedRecords' = IF caller[q].op = "updateRecord" /\ askedRecords[s][r] = Missing
                                   THEN askedRecords ELSE added
                /\ Contests(q)
        /\ Writes(q, {RecordTarget(s, r)}, Resting)
        /\ UNCHANGED <<spaces, pageState, asked, ticked>> /\ NoSignInChange

DeleteRecord(s, r) ==
    /\ IsApp(s) /\ records[s][r] # Missing
    /\ records' = [records EXCEPT ![s][r] = Missing]
    /\ askedRecords' = [askedRecords EXCEPT ![s][r] = Missing]
    /\ Writes(Missing, {RecordTarget(s, r)}, Resting)
    /\ UNCHANGED <<spaces, pageState, asked, ticked, outdated>> /\ NoSignInChange

-----------------------------------------------------------------------------
(* Signing in to a space.                                                  *)

\* requestLink: whom a link is minted for.
Admitted(s, e) == spaces[s].open \/ e \in Teammates \/ <<s, e>> \in members

RequestLink(l, s, e) ==
    /\ Exists(s) /\ links[l] = Missing
    /\ Admitted(s, e) /\ (e \in Teammates \/ IsDev)
    /\ links' = [links EXCEPT ![l] = [space |-> s, email |-> e, used |-> FALSE, expired |-> FALSE]]
    /\ NoSpaceChange /\ UNCHANGED <<members, caller, redeemed, outdated>>

ExpireLink(l) ==
    /\ links[l] \in Link /\ ~links[l].expired
    /\ links' = [links EXCEPT ![l].expired = TRUE]
    /\ NoSpaceChange /\ UNCHANGED <<members, caller, redeemed, outdated>>

PurgeExpired ==
    /\ links' = [l \in Links |-> IF links[l] \in Link /\ links[l].expired THEN Gone ELSE links[l]]
    /\ NoSpaceChange /\ UNCHANGED <<members, caller, redeemed, outdated>>

\* Fault: that the link was used is not looked at.
RedeemableTwice(l) == links[l] \in Link /\ ~links[l].expired

Redeemable(l) == links[l] \in Link /\ ~links[l].used /\ ~links[l].expired

\* verify reads the link and finds it good,
Verify(q, l) ==
    /\ Redeemable(l)
    /\ Exists(links[l].space)
    /\ Reads(q, [Resting EXCEPT !.op = "verify", !.target = LinkTarget(l),
            !.space = links[l].space, !.email = links[l].email])
    /\ NoSpaceChange /\ NoSignInChange /\ UNCHANGED outdated

\* marks it used (an insert again if it was purged, refused with its space gone),
MarkUsed(q) ==
    LET l == caller[q].target[2]
        s == caller[q].space
    IN  /\ caller[q].op = "verify"
        /\ IF Exists(s)
           THEN /\ links' = [links EXCEPT ![l] = [space |-> s, email |-> caller[q].email,
                        used |-> TRUE, expired |-> links[l] = Gone \/ links[l].expired]]
                /\ Contests(q)
                /\ Writes(q, {LinkTarget(l)}, [caller[q] EXCEPT !.op = "findMember", !.stale = FALSE])
           ELSE /\ UNCHANGED <<links, outdated>>
                /\ Writes(q, {}, Resting)
        /\ NoSpaceChange /\ UNCHANGED <<members, redeemed>>

\* workspaceSession: an active member of the owning workspace skips the link.
WorkspaceSession(q, s, e) ==
    /\ Exists(s) /\ e \in Teammates
    /\ Reads(q, [Resting EXCEPT !.op = "findMember", !.space = s, !.email = e])
    /\ NoSpaceChange /\ NoSignInChange /\ UNCHANGED outdated

\* upsertMember: found, or to be inserted.
FindMember(q) ==
    /\ caller[q].op = "findMember"
    /\ Writes(q, {}, [caller[q] EXCEPT !.op = "saveMember",
                                      !.found = <<caller[q].space, caller[q].email>> \in members])
    /\ NoSpaceChange /\ NoSignInChange /\ UNCHANGED outdated

\* The save, refused when the member has appeared meanwhile (unique) or the
\* space is gone; then the session is issued.
SaveMember(q) ==
    LET m == <<caller[q].space, caller[q].email>>
        refused == ~Exists(caller[q].space) \/ (~caller[q].found /\ m \in members)
    IN  /\ caller[q].op = "saveMember"
        /\ IF refused THEN UNCHANGED <<members, redeemed>>
           ELSE /\ members' = members \cup {m}
                /\ redeemed' = [l \in Links |->
                        redeemed[l] + (IF caller[q].target = LinkTarget(l) THEN 1 ELSE 0)]
        /\ Writes(q, {}, Resting)
        /\ NoSpaceChange /\ UNCHANGED <<links, outdated>>

\* The process dies: what the request had read is gone.
CallerDies(q) ==
    /\ caller[q] # Resting
    /\ Writes(q, {}, Resting)
    /\ NoSpaceChange /\ NoSignInChange /\ UNCHANGED outdated

SpacesNext ==
    \/ \E q \in Callers :
        \/ \E s \in SpaceIds, x \in Changes :
            \/ \E open \in BOOLEAN : UpdateSpec(q, s, x, open)
            \/ \E whole \in BOOLEAN : UpdatePage(q, s, x, whole)
            \/ \E r \in RecordIds : OpenRecord(q, s, r, x)
        \/ \E s \in SpaceIds, e \in Emails : WorkspaceSession(q, s, e)
        \/ \E l \in Links : Verify(q, l)
        \/ SaveSpec(q) \/ WritePage(q) \/ SaveRecord(q)
        \/ MarkUsed(q) \/ FindMember(q) \/ SaveMember(q) \/ CallerDies(q)
    \/ \E s \in SpaceIds :
        \/ DeleteSpace(s)
        \/ \E kind \in {"app", "page"}, open \in BOOLEAN, seeds \in [RecordIds -> Changes \cup {Missing}] :
                CreateSpace(s, kind, open, seeds)
        \/ \E k \in Keys : SavePageState(s, k) \/ ClearPageState(s, k)
        \/ \E r \in RecordIds : DeleteRecord(s, r)
        \/ \E l \in Links, e \in Emails : RequestLink(l, s, e)
    \/ \E l \in Links : ExpireLink(l)
    \/ PurgeExpired

SpacesSpec == SpacesInit /\ [][SpacesNext]_spaceVars

-----------------------------------------------------------------------------
(* Properties.                                                             *)

\* What people put into a space stays until someone takes it out: what they
\* tick on a page always ("two people ticking different steps at once both
\* keep theirs", savePageState), edits of pages, specs and records unless they
\* were saved from a read that another write had made out of date.
WorkIsKept ==
    \A s \in SpaceIds :
        /\ pageState[s] = ticked[s]
        /\ SpaceTarget(s) \notin outdated =>
                /\ spaces[s] = IF asked[s] = Gone THEN Missing ELSE asked[s]
                /\ \A r \in RecordIds : RecordTarget(s, r) \notin outdated =>
                        records[s][r] = askedRecords[s][r]

\* What verify makes of a link: a session was issued for it only if it is marked
\* used, or gone, from then on; and it is good for one session, unless two
\* requests had read it before either marked it.  The converse is not promised: a
\* link is marked before the member is saved, so that a request that fails in
\* between has used it up and issued nothing.
LinkUsedUp ==
    \A l \in Links :
        /\ LinkTarget(l) \notin outdated => redeemed[l] <= 1
        /\ redeemed[l] > 0 => links[l] = Gone \/ links[l].used

\* A link is "a single-use token": it issues one session, whatever requests redeem
\* it at the same time (verify).
LinkRedeemedOnce == \A l \in Links : redeemed[l] <= 1

=============================================================================
